-------------------------- MODULE TournamentProofs --------------------------
(***************************************************************************)
(* What the scheduled life of a tournament guarantees, for any number of   *)
(* tournaments, decks and users.                                           *)
(*                                                                         *)
(* TypeCorrect holds in every setting.  The other theorems name the        *)
(* setting they need as hypotheses: one lifecycle task at a time (the job  *)
(* lock within its lease), no PUT under way, and for the payments that the *)
(* price job does not run beside it.                                       *)
(***************************************************************************)
EXTENDS ScheduledLifecycle, FiniteSetTheorems, TLAPS

USE EntrantsAssumption, InitialAssumption, TablesAssumption, PoolAssumption, NoneAssumption

\* A task at work on a tournament knows which: the tables are indexed by it.
Elsewhere == {"idle", "starting", "finishing", "grant"}
PlacedTask == {k \in TaskType : k.pc \notin Elsewhere => k.t \in Tournaments}
TypeInv == TypeOK /\ task \in [Tasks -> PlacedTask]

LEMMA IdleType == Idle \in PlacedTask
BY DEF Idle, TaskType, PlacedTask, Elsewhere

LEMMA InitType == Init => TypeInv
<1> SUFFICES ASSUME Init PROVE TypeInv
    OBVIOUS
<1>1. task \in [Tasks -> TaskType] /\ task \in [Tasks -> PlacedTask]
    BY IdleType DEF Init, PlacedTask
<1> QED
    BY <1>1 DEF Init, TypeInv, TypeOK, Statuses

\* The fields of a task.
LEMMA TaskFields ==
    ASSUME TypeInv, NEW w \in Tasks
    PROVE  /\ task[w] \in TaskType /\ task[w] \in PlacedTask
           /\ task[w].pc \notin Elsewhere => task[w].t \in Tournaments
           /\ task[w].t \in Tournaments \union {None}
           /\ task[w].due \in SUBSET Tournaments
           /\ task[w].fin \in BOOLEAN /\ task[w].dirty \in BOOLEAN
           /\ task[w].doomed \in SUBSET Tables
           /\ task[w].asof \in Nat /\ task[w].share \in Nat
           /\ task[w].seen \in SUBSET Result
           /\ task[w].todo \in SUBSET Users
<1>1. task[w] \in TaskType /\ task[w] \in PlacedTask
    BY DEF TypeInv, TypeOK
<1> QED
    BY <1>1 DEF TaskType, PlacedTask

\* What Becomes does to the tasks.
LEMMA TaskUpdate ==
    ASSUME TypeInv, NEW w \in Tasks, NEW k, Becomes(w, k)
    PROVE  /\ task'[w] = k
           /\ \A v \in Tasks \ {w} : task'[v] = task[v]
           /\ k \in PlacedTask => task' \in [Tasks -> PlacedTask]
BY DEF TypeInv, TypeOK, Becomes

\* The types of the tasks follow from PlacedTask.
LEMMA TypeFrame ==
    ASSUME TypeInv, task' \in [Tasks -> PlacedTask],
           dates' \in [Tournaments -> 0 .. 3], status' \in [Tournaments -> Statuses],
           snapshots' \in [Tournaments -> Nat], batch' \in [Tournaments -> Nat],
           configs' \in [Tournaments -> SUBSET Tables],
           results' \in [Tournaments -> SUBSET Result],
           rewards' \in [Tournaments -> SUBSET Reward],
           weighted' \in SUBSET Tournaments, packs' \in [Users -> Nat],
           puts' \in [Admins -> [t : Tournaments, to : Statuses] \union {None}],
           crashes' \in Nat, faults' \in Nat
    PROVE  TypeInv'
<1>1. task' \in [Tasks -> TaskType]
    BY DEF PlacedTask
<1> QED
    BY <1>1 DEF TypeInv, TypeOK

LEMMA LeaveType ==
    ASSUME TypeInv, NEW w \in Tasks
    PROVE  Leave(w) \in PlacedTask
BY TaskFields, IdleType DEF Leave, Idle, TaskType, PlacedTask, Elsewhere

\* Each local state a step of w can lead to has its type.
LEMMA LocalTypes ==
    ASSUME TypeInv, NEW w \in Tasks
    PROVE  /\ \A due \in SUBSET Tournaments :
                /\ [task[w] EXCEPT !.pc = "starting", !.due = due] \in PlacedTask
                /\ [task[w] EXCEPT !.due = due] \in PlacedTask
                /\ [Idle EXCEPT !.pc = "finishing", !.due = due] \in PlacedTask
                /\ \A t \in Tournaments :
                     /\ [task[w] EXCEPT !.pc = "snapshot", !.t = t, !.due = due] \in PlacedTask
                     /\ [task[w] EXCEPT !.pc = "calc", !.t = t, !.due = due,
                                        !.fin = TRUE, !.dirty = TRUE] \in PlacedTask
           /\ \A t \in Tournaments : [task[w] EXCEPT !.t = t, !.pc = "score"] \in PlacedTask
           /\ \A todo \in SUBSET Users :
                /\ [Idle EXCEPT !.pc = "grant", !.todo = todo] \in PlacedTask
                /\ [task[w] EXCEPT !.todo = todo] \in PlacedTask
           /\ [task[w] EXCEPT !.pc = "starting", !.t = None] \in PlacedTask
           /\ task[w].pc \notin Elsewhere =>
                \A pc \in {"ongoing", "reward", "weights", "store", "calc"} :
                   [task[w] EXCEPT !.pc = pc] \in PlacedTask
<1>1. ASSUME NEW due \in SUBSET Tournaments
      PROVE  /\ [task[w] EXCEPT !.pc = "starting", !.due = due] \in PlacedTask
             /\ [task[w] EXCEPT !.due = due] \in PlacedTask
             /\ [Idle EXCEPT !.pc = "finishing", !.due = due] \in PlacedTask
    BY TaskFields, IdleType DEF TaskType, PlacedTask, Elsewhere, Idle
<1>2. ASSUME NEW due \in SUBSET Tournaments, NEW t \in Tournaments
      PROVE  [task[w] EXCEPT !.pc = "snapshot", !.t = t, !.due = due] \in PlacedTask
    BY TaskFields, IdleType DEF TaskType, PlacedTask, Elsewhere, Idle
<1>3. ASSUME NEW due \in SUBSET Tournaments, NEW t \in Tournaments
      PROVE  [task[w] EXCEPT !.pc = "calc", !.t = t, !.due = due, !.fin = TRUE, !.dirty = TRUE]
                \in PlacedTask
    BY TaskFields, IdleType DEF TaskType, PlacedTask, Elsewhere, Idle
<1>4. ASSUME NEW t \in Tournaments
      PROVE  [task[w] EXCEPT !.t = t, !.pc = "score"] \in PlacedTask
    BY TaskFields, IdleType DEF TaskType, PlacedTask, Elsewhere, Idle
<1>5. ASSUME NEW todo \in SUBSET Users
      PROVE  /\ [Idle EXCEPT !.pc = "grant", !.todo = todo] \in PlacedTask
             /\ [task[w] EXCEPT !.todo = todo] \in PlacedTask
    BY TaskFields, IdleType DEF TaskType, PlacedTask, Elsewhere, Idle
<1>6. [task[w] EXCEPT !.pc = "starting", !.t = None] \in PlacedTask
    BY TaskFields, IdleType DEF TaskType, PlacedTask, Elsewhere, Idle
<1>7. task[w].pc \notin Elsewhere =>
        \A pc \in {"ongoing", "reward", "weights", "store", "calc"} :
           [task[w] EXCEPT !.pc = pc] \in PlacedTask
    <2> SUFFICES ASSUME task[w].pc \notin Elsewhere,
                        NEW pc \in {"ongoing", "reward", "weights", "store", "calc"}
                 PROVE  [task[w] EXCEPT !.pc = pc] \in PlacedTask
        OBVIOUS
    <2> QED
        BY TaskFields, IdleType DEF TaskType, PlacedTask, Elsewhere, Idle
<1> QED
    BY <1>1, <1>2, <1>3, <1>4, <1>5, <1>6, <1>7

\* Steps that choose work: only the task changes.
LEMMA TypeBegin ==
    ASSUME TypeInv, NEW w \in Tasks,
           LifecycleBegin(w) \/ StartRead(w) \/ FinishSelect(w) \/ FinishRead(w) \/ PriceBegin(w)
    PROVE  TypeInv'
<1>t. task' \in [Tasks -> PlacedTask]
    <2>1. CASE LifecycleBegin(w)
        <3> DEFINE due == {t \in Tournaments : status[t] = "registration" /\ dates[t] >= 2}
                   k == [task[w] EXCEPT !.pc = "starting", !.due = due]
        <3>1. k \in PlacedTask
            BY LocalTypes
        <3> QED
            BY <2>1, <3>1, TaskUpdate DEF LifecycleBegin
    <2>2. CASE StartRead(w)
        <3>1. PICK t \in task[w].due :
                IF status[t] = "registration"
                  THEN Becomes(w, [task[w] EXCEPT !.pc = "snapshot", !.t = t, !.due = @ \ {t}])
                  ELSE Becomes(w, [task[w] EXCEPT !.due = @ \ {t}])
            BY <2>2 DEF StartRead, StartExpecting
        <3>2. t \in Tournaments /\ task[w].due \ {t} \in SUBSET Tournaments
            BY TaskFields
        <3>3. [task[w] EXCEPT !.pc = "snapshot", !.t = t, !.due = @ \ {t}] \in PlacedTask
            BY <3>2, LocalTypes
        <3>4. [task[w] EXCEPT !.due = @ \ {t}] \in PlacedTask
            BY <3>2, LocalTypes
        <3> QED
            BY <3>1, <3>3, <3>4, TaskUpdate
    <2>3. CASE FinishSelect(w)
        <3> DEFINE due == {t \in Tournaments : status[t] = "ongoing" /\ dates[t] = 3}
                   k == IF due = {} THEN Idle ELSE [Idle EXCEPT !.pc = "finishing", !.due = due]
        <3>1. k \in PlacedTask
            BY LocalTypes, IdleType
        <3>2. Becomes(w, k)
            BY <2>3 DEF FinishSelect, FinishDue, Becomes
        <3> QED
            BY <3>1, <3>2, TaskUpdate
    <2>4. CASE FinishRead(w)
        <3>1. PICK t \in task[w].due :
                IF status[t] = "ongoing"
                  THEN Becomes(w, [task[w] EXCEPT !.pc = "calc", !.t = t, !.due = @ \ {t},
                                                  !.fin = TRUE, !.dirty = TRUE])
                  ELSE Becomes(w, [task[w] EXCEPT !.due = @ \ {t}])
            BY <2>4 DEF FinishRead, FinishAssign
        <3>2. t \in Tournaments /\ task[w].due \ {t} \in SUBSET Tournaments
            BY TaskFields
        <3>3. [task[w] EXCEPT !.pc = "calc", !.t = t, !.due = @ \ {t}, !.fin = TRUE, !.dirty = TRUE]
                 \in PlacedTask
            BY <3>2, LocalTypes
        <3>4. [task[w] EXCEPT !.due = @ \ {t}] \in PlacedTask
            BY <3>2, LocalTypes
        <3> QED
            BY <3>1, <3>3, <3>4, TaskUpdate
    <2>5. CASE PriceBegin(w)
        <3>1. PICK t \in Tournaments : Becomes(w, [task[w] EXCEPT !.t = t, !.pc = "score"])
            BY <2>5 DEF PriceBegin
        <3>2. [task[w] EXCEPT !.t = t, !.pc = "score"] \in PlacedTask
            BY LocalTypes
        <3> QED
            BY <3>1, <3>2, TaskUpdate
    <2> QED
        BY <2>1, <2>2, <2>3, <2>4, <2>5
<1>u. UNCHANGED <<dates, status, tables, puts, crashes, faults>>
    BY DEF LifecycleBegin, StartRead, StartExpecting, FinishSelect, FinishDue, FinishRead,
       FinishAssign, PriceBegin
<1> QED
    BY <1>t, <1>u, TypeFrame DEF TypeInv, TypeOK, tables
\* Steps that only count or remember; a fault or a crash is one of them.
LEMMA TypeTaskOnly ==
    ASSUME TypeInv, NEW w \in Tasks, NEW k \in PlacedTask, Becomes(w, k),
           UNCHANGED <<dates, status, tables, puts>>, crashes' \in Nat, faults' \in Nat
    PROVE  TypeInv'
<1>1. task' \in [Tasks -> PlacedTask]
    BY TaskUpdate
<1> QED
    BY <1>1, TypeFrame DEF TypeInv, TypeOK, tables

\* The status a commit writes.
LEMMA FlushType ==
    ASSUME TypeInv, NEW w \in Tasks, FlushStatus(w)
    PROVE  status' \in [Tournaments -> Statuses]
BY DEF TypeInv, TypeOK, FlushStatus, Statuses

LEMMA TypeStart ==
    ASSUME TypeInv, NEW w \in Tasks, Snapshot(w) \/ StartCommit(w) \/ StartFails(w)
    PROVE  TypeInv'
<1>1. CASE Snapshot(w)
    <2>1. [task[w] EXCEPT !.pc = "ongoing"] \in PlacedTask
        BY <1>1, LocalTypes DEF Snapshot, Elsewhere
    <2>2. task' \in [Tasks -> PlacedTask]
        BY <1>1, <2>1, TaskUpdate DEF Snapshot
    <2>3. snapshots' \in [Tournaments -> Nat]
        <3>1. task[w].t \in Tournaments
            BY <1>1, TaskFields DEF Snapshot, Elsewhere
        <3>2. snapshots' = [snapshots EXCEPT ![task[w].t] = @ + 1] /\ snapshots \in [Tournaments -> Nat]
            BY <1>1 DEF Snapshot, TypeInv, TypeOK
        <3> QED
            BY <3>1, <3>2
    <2>4. UNCHANGED <<dates, status, batch, configs, results, rewards, weighted, packs,
                      puts, crashes, faults>>
        BY <1>1 DEF Snapshot
    <2> QED
        BY <2>2, <2>3, <2>4, TypeFrame DEF TypeInv, TypeOK
<1>2. CASE StartCommit(w)
    <2>1. [task[w] EXCEPT !.pc = "starting", !.t = None] \in PlacedTask
        BY LocalTypes
    <2>2. task' \in [Tasks -> PlacedTask]
        BY <1>2, <2>1, TaskUpdate DEF StartCommit, StartSet
    <2>3. status' \in [Tournaments -> Statuses]
        BY <1>2 DEF StartCommit, StartSet, TypeInv, TypeOK, Statuses
    <2> QED
        BY <1>2, <2>2, <2>3, TypeFrame DEF StartCommit, StartSet, tables, TypeInv, TypeOK
<1>3. CASE StartFails(w)
    <2>1. [task[w] EXCEPT !.pc = "starting", !.t = None] \in PlacedTask
        BY LocalTypes
    <2>2. faults' \in Nat /\ crashes' \in Nat
        BY <1>3 DEF StartFails, TypeInv, TypeOK
    <2> QED
        BY <1>3, <2>1, <2>2, TypeTaskOnly DEF StartFails
<1> QED
    BY <1>1, <1>2, <1>3

\* The calculation of the results.
LEMMA TypeCalcRead ==
    ASSUME TypeInv, NEW w \in Tasks, CalcRead(w)
    PROVE  TypeInv'
<1> DEFINE t == task[w].t
<1>1. t \in Tournaments /\ batch[t] \in Nat
    BY TaskFields DEF CalcRead, Elsewhere, TypeInv, TypeOK
<1>2. [task[w] EXCEPT !.pc = "reward"] \in PlacedTask
    BY LocalTypes DEF CalcRead, Elsewhere
<1>3. ASSUME NEW pc \in {"prizes", "rank"}
      PROVE  [task[w] EXCEPT !.asof = batch[t], !.pc = pc] \in PlacedTask
    BY <1>1, TaskFields DEF TaskType, PlacedTask, Elsewhere
<1>4. \E k \in PlacedTask : Becomes(w, k)
    <2>1. CASE Entrants[t] = {}
        BY <2>1, <1>2, IdleType DEF CalcRead
    <2>2. CASE Entrants[t] # {}
        <3>1. CASE Pool
            BY <2>2, <3>1, <1>3 DEF CalcRead
        <3>2. CASE ~ Pool
            BY <2>2, <3>2, <1>3 DEF CalcRead
        <3> QED
            BY <3>1, <3>2
    <2> QED
        BY <2>1, <2>2
<1>5. PICK k \in PlacedTask : Becomes(w, k)
    BY <1>4
<1> QED
    BY <1>5, TypeTaskOnly DEF CalcRead, TypeInv, TypeOK

LEMMA TypeCalcDelete ==
    ASSUME TypeInv, NEW w \in Tasks, CalcDelete(w)
    PROVE  TypeInv'
<1>1. task[w].t \in Tournaments /\ configs[task[w].t] \in SUBSET Tables
    BY TaskFields DEF CalcDelete, DeletePrizes, Elsewhere, TypeInv, TypeOK
<1>2. [task[w] EXCEPT !.doomed = configs[task[w].t], !.pc = "save"] \in PlacedTask
    BY <1>1, TaskFields DEF TaskType, PlacedTask, Elsewhere
<1> QED
    BY <1>2, TypeTaskOnly DEF CalcDelete, DeletePrizes, TypeInv, TypeOK

LEMMA TypeCalcSave ==
    ASSUME TypeInv, NEW w \in Tasks, CalcSave(w)
    PROVE  TypeInv'
<1> DEFINE t == task[w].t
           new == CHOOSE n \in Tables \ UsedTables(t) : TRUE
           k == [task[w] EXCEPT !.pc = "rank", !.dirty = FALSE, !.doomed = {}]
<1>1. t \in Tournaments
    BY TaskFields DEF CalcSave, Elsewhere
<1>2. new \in Tables
    BY DEF CalcSave
<1>3. configs' \in [Tournaments -> SUBSET Tables]
    <2>1. configs \in [Tournaments -> SUBSET Tables]
        BY DEF TypeInv, TypeOK
    <2>2. configs' = [configs EXCEPT ![t] = (configs[t] \ task[w].doomed) \union {new}]
        BY DEF CalcSave
    <2> HIDE DEF new
    <2> QED
        BY <1>1, <1>2, <2>1, <2>2
<1>4. k \in PlacedTask
    BY <1>1, TaskFields DEF TaskType, PlacedTask, Elsewhere
<1>5. Becomes(w, k) /\ FlushStatus(w)
    BY DEF CalcSave
<1>6. task' \in [Tasks -> PlacedTask]
    <2> HIDE DEF k
    <2> QED
        BY <1>4, <1>5, TaskUpdate
<1>7. status' \in [Tournaments -> Statuses]
    BY <1>5, FlushType
<1>8. UNCHANGED <<dates, snapshots, batch, results, rewards, weighted, packs, puts, crashes, faults>>
    BY DEF CalcSave
<1> QED
    BY <1>3, <1>6, <1>7, <1>8, TypeFrame DEF TypeInv, TypeOK

LEMMA TypeCalcRank ==
    ASSUME TypeInv, NEW w \in Tasks, CalcRank(w)
    PROVE  TypeInv'
<1>1. task[w].t \in Tournaments /\ configs[task[w].t] \in SUBSET Tables
    BY TaskFields DEF CalcRank, Elsewhere, TypeInv, TypeOK
<1>2. Cardinality(configs[task[w].t]) \in Nat
    BY <1>1, FS_Subset, FS_CardinalityType
<1>3. [task[w] EXCEPT !.share = Cardinality(configs[task[w].t]), !.pc = "match"] \in PlacedTask
    BY <1>1, <1>2, TaskFields DEF TaskType, PlacedTask, Elsewhere
<1> QED
    BY <1>3, TypeTaskOnly DEF CalcRank, TypeInv, TypeOK

LEMMA TypeCalcMatch ==
    ASSUME TypeInv, NEW w \in Tasks, CalcMatch(w)
    PROVE  TypeInv'
<1> DEFINE t == task[w].t
           rows == {r \in results[t] : r.deck \in Entrants[t]}
<1>1. t \in Tournaments /\ rows \in SUBSET Result
    BY TaskFields DEF CalcMatch, Elsewhere, TypeInv, TypeOK
<1>2. [task[w] EXCEPT !.seen = rows, !.pc = "write"] \in PlacedTask
    BY <1>1, TaskFields DEF TaskType, PlacedTask, Elsewhere
<1>3. \E k \in PlacedTask : Becomes(w, k)
    BY <1>2, LeaveType DEF CalcMatch
<1>4. PICK k \in PlacedTask : Becomes(w, k)
    BY <1>3
<1> QED
    BY <1>4, TypeTaskOnly DEF CalcMatch, TypeInv, TypeOK
\* The rows calculate_results writes are results of the tournament's decks.
LEMMA UpdatedType ==
    ASSUME TypeInv, NEW w \in Tasks, NEW r \in Result
    PROVE  Updated(w, r) \in Result
<1>1. task[w].asof \in Nat /\ task[w].share \in Nat
    BY TaskFields
<1>2. r.deck \in Decks /\ r.by \in Tasks
    BY DEF Result
<1> DEFINE new == [deck |-> r.deck, by |-> r.by, asof |-> task[w].asof, share |-> task[w].share]
<1>3. new \in Result
    BY <1>1, <1>2 DEF Result
<1>4. Updated(w, r) \in {new, r}
    <2> HIDE DEF new
    <2> QED
        BY DEF Updated, new
<1> QED
    BY <1>3, <1>4

LEMMA InsertedType ==
    ASSUME TypeInv, NEW w \in Tasks, task[w].t \in Tournaments
    PROVE  Inserted(w) \in SUBSET Result
<1>1. task[w].asof \in Nat /\ task[w].share \in Nat
    BY TaskFields
<1>2. Entrants[task[w].t] \in SUBSET Decks
    OBVIOUS
<1> QED
    BY <1>1, <1>2 DEF Inserted, Result

LEMMA TypeCalcWrite ==
    ASSUME TypeInv, NEW w \in Tasks, CalcWrite(w)
    PROVE  TypeInv'
<1> DEFINE t == task[w].t
           rows == {Updated(w, r) : r \in results[t]} \union Inserted(w)
           k == IF task[w].fin
                  THEN [task[w] EXCEPT !.pc = "reward", !.dirty = FALSE, !.seen = {},
                                       !.asof = 0, !.share = 0]
                  ELSE Idle
<1>0. WriteResults(w, rows)
    BY DEF CalcWrite
<1>1. t \in Tournaments
    BY <1>0, TaskFields DEF WriteResults, Elsewhere
<1>2. rows \in SUBSET Result
    <2>1. results[t] \in SUBSET Result
        BY <1>1 DEF TypeInv, TypeOK
    <2>2. {Updated(w, r) : r \in results[t]} \in SUBSET Result
        BY <2>1, UpdatedType
    <2> QED
        BY <1>1, <2>2, InsertedType
<1>3. results' \in [Tournaments -> SUBSET Result]
    <2>1. results' = [results EXCEPT ![t] = rows]
        BY <1>0 DEF WriteResults
    <2>2. results \in [Tournaments -> SUBSET Result]
        BY DEF TypeInv, TypeOK
    <2> HIDE DEF rows
    <2> QED
        BY <1>2, <2>1, <2>2
<1>4. k \in PlacedTask
    <2>1. CASE task[w].fin
        <3>1. [task[w] EXCEPT !.pc = "reward", !.dirty = FALSE, !.seen = {}, !.asof = 0, !.share = 0]
                 \in PlacedTask
            BY <1>1, TaskFields DEF TaskType, PlacedTask, Elsewhere
        <3> QED
            BY <2>1, <3>1
    <2>2. CASE ~ task[w].fin
        BY <2>2, IdleType
    <2> QED
        BY <2>1, <2>2
<1>5. Becomes(w, k) /\ FlushStatus(w)
    BY <1>0 DEF WriteResults
<1>6. task' \in [Tasks -> PlacedTask]
    <2> HIDE DEF k
    <2> QED
        BY <1>4, <1>5, TaskUpdate
<1>7. status' \in [Tournaments -> Statuses]
    BY <1>5, FlushType
<1>8. UNCHANGED <<dates, snapshots, batch, configs, rewards, weighted, packs, puts, crashes, faults>>
    BY <1>0 DEF WriteResults
<1> QED
    BY <1>3, <1>6, <1>7, <1>8, TypeFrame DEF TypeInv, TypeOK

\* Rewards, weights and the last commit.
LEMMA TypeRewardRead ==
    ASSUME TypeInv, NEW w \in Tasks, RewardRead(w)
    PROVE  TypeInv'
<1> DEFINE t == task[w].t
           unpaid == {r \in results[t] : r.share > 0 /\
                        ~ \E p \in rewards[t] : p.deck = r.deck /\ p.by = r.by}
<1>1. t \in Tournaments /\ results[t] \in SUBSET Result
    BY TaskFields DEF RewardRead, Elsewhere, TypeInv, TypeOK
<1>2. unpaid \in SUBSET Result
    BY <1>1
<1>3. [task[w] EXCEPT !.pc = "pay", !.seen = unpaid] \in PlacedTask
    <2> HIDE DEF unpaid
    <2> QED
        BY <1>1, <1>2, TaskFields DEF TaskType, PlacedTask, Elsewhere
<1>4. [task[w] EXCEPT !.pc = "weights"] \in PlacedTask
    BY LocalTypes DEF RewardRead, Elsewhere
<1>5. PICK k \in PlacedTask : Becomes(w, k)
    BY <1>3, <1>4 DEF RewardRead
<1> QED
    BY <1>5, TypeTaskOnly DEF RewardRead, TypeInv, TypeOK

LEMMA TypePayRewards ==
    ASSUME TypeInv, NEW w \in Tasks, PayRewards(w)
    PROVE  TypeInv'
<1> DEFINE t == task[w].t
           paid == {[deck |-> r.deck, by |-> r.by, payer |-> w, asof |-> r.asof, share |-> r.share] :
                      r \in task[w].seen}
           k == [task[w] EXCEPT !.pc = "weights", !.dirty = FALSE, !.seen = {}]
<1>1. t \in Tournaments
    BY TaskFields DEF PayRewards, Elsewhere
<1>2. paid \in SUBSET Reward
    <2>1. task[w].seen \in SUBSET Result
        BY TaskFields
    <2> QED
        BY <2>1 DEF Result, Reward
<1>3. rewards' \in [Tournaments -> SUBSET Reward]
    <2>1. rewards' = [rewards EXCEPT ![t] = rewards[t] \union paid]
        BY DEF PayRewards
    <2>2. rewards \in [Tournaments -> SUBSET Reward]
        BY DEF TypeInv, TypeOK
    <2> HIDE DEF paid
    <2> QED
        BY <1>1, <1>2, <2>1, <2>2
<1>4. k \in PlacedTask
    BY <1>1, TaskFields DEF TaskType, PlacedTask, Elsewhere
<1>5. Becomes(w, k) /\ FlushStatus(w)
    BY DEF PayRewards
<1>6. task' \in [Tasks -> PlacedTask]
    <2> HIDE DEF k
    <2> QED
        BY <1>4, <1>5, TaskUpdate
<1>7. status' \in [Tournaments -> Statuses]
    BY <1>5, FlushType
<1>8. UNCHANGED <<dates, snapshots, batch, configs, results, weighted, packs, puts, crashes, faults>>
    BY DEF PayRewards
<1> QED
    BY <1>3, <1>6, <1>7, <1>8, TypeFrame DEF TypeInv, TypeOK

LEMMA TypeWeights ==
    ASSUME TypeInv, NEW w \in Tasks, Weights(w)
    PROVE  TypeInv'
<1> DEFINE k == [task[w] EXCEPT !.pc = "commit", !.dirty = task[w].dirty /\ batch[task[w].t] = 0]
<1>1. task[w].t \in Tournaments
    BY TaskFields DEF Weights, Elsewhere
<1>2. k \in PlacedTask
    <2>1. (task[w].dirty /\ batch[task[w].t] = 0) \in BOOLEAN
        OBVIOUS
    <2> QED
        BY <1>1, <2>1, TaskFields DEF TaskType, PlacedTask, Elsewhere
<1>3. task' \in [Tasks -> PlacedTask]
    <2>1. Becomes(w, k)
        BY DEF Weights
    <2> HIDE DEF k
    <2> QED
        BY <1>2, <2>1, TaskUpdate
<1>4. status' \in [Tournaments -> Statuses] /\ weighted' \in SUBSET Tournaments
    BY <1>1, FlushType DEF Weights, TypeInv, TypeOK
<1>5. UNCHANGED <<dates, snapshots, batch, configs, results, rewards, packs, puts, crashes, faults>>
    BY DEF Weights
<1> QED
    BY <1>3, <1>4, <1>5, TypeFrame DEF TypeInv, TypeOK

LEMMA TypeFinishCommit ==
    ASSUME TypeInv, NEW w \in Tasks, FinishCommit(w)
    PROVE  TypeInv'
<1>1. task' \in [Tasks -> PlacedTask]
    BY LeaveType, TaskUpdate DEF FinishCommit
<1>2. status' \in [Tournaments -> Statuses]
    BY FlushType DEF FinishCommit
<1>3. UNCHANGED <<dates, tables, puts, crashes, faults>>
    BY DEF FinishCommit
<1> QED
    BY <1>1, <1>2, <1>3, TypeFrame DEF tables, TypeInv, TypeOK

\* Failures, crashes and the ends of the jobs.
LEMMA TypeEnds ==
    ASSUME TypeInv, NEW w \in Tasks,
           \/ WorkFails(w) \/ ScoreFails(w) \/ CheckFails(w) \/ Crash(w) \/ Cleanup(w) \/ LifecycleEnd(w)
           \/ \E u \in Users : GrantFails(w, u)
    PROVE  TypeInv'
<1>1. \E k \in PlacedTask : Becomes(w, k)
    <2>1. CASE WorkFails(w)
        BY <2>1, LeaveType DEF WorkFails
    <2>2. CASE ScoreFails(w) \/ CheckFails(w) \/ Crash(w) \/ LifecycleEnd(w)
        BY <2>2, IdleType DEF ScoreFails, CheckFails, Crash, LifecycleEnd
    <2>3. CASE Cleanup(w)
        BY <2>3, LocalTypes DEF Cleanup
    <2>4. ASSUME NEW u \in Users, GrantFails(w, u)
          PROVE  \E k \in PlacedTask : Becomes(w, k)
        <3>1. task[w].todo \ {u} \in SUBSET Users
            BY TaskFields
        <3>2. [task[w] EXCEPT !.todo = @ \ {u}] \in PlacedTask
            BY <3>1, LocalTypes
        <3> QED
            BY <2>4, <3>2 DEF GrantFails
    <2> QED
        BY <2>1, <2>2, <2>3, <2>4
<1>2. PICK k \in PlacedTask : Becomes(w, k)
    BY <1>1
<1>3. UNCHANGED <<dates, status, tables, puts>> /\ crashes' \in Nat /\ faults' \in Nat
    <2>1. crashes \in Nat /\ faults \in Nat
        BY DEF TypeInv, TypeOK
    <2>2. CASE WorkFails(w)
        BY <2>1, <2>2 DEF WorkFails
    <2>4. CASE ScoreFails(w)
        BY <2>1, <2>4 DEF ScoreFails
    <2>6. CASE CheckFails(w)
        BY <2>1, <2>6 DEF CheckFails
    <2>5. CASE \E u \in Users : GrantFails(w, u)
        <3>1. PICK u \in Users : GrantFails(w, u)
            BY <2>5
        <3> QED
            BY <2>1, <3>1 DEF GrantFails
    <2>3. CASE Crash(w) \/ Cleanup(w) \/ LifecycleEnd(w)
        BY <2>1, <2>3 DEF Crash, Cleanup, LifecycleEnd
    <2> QED
        BY <2>2, <2>3, <2>4, <2>5, <2>6
<1> QED
    BY <1>2, <1>3, TypeTaskOnly

LEMMA TypeGrantOne ==
    ASSUME TypeInv, NEW w \in Tasks, NEW u \in Users, GrantOne(w, u)
    PROVE  TypeInv'
<1>1. task[w].todo \ {u} \in SUBSET Users
    BY TaskFields
<1>2. [task[w] EXCEPT !.todo = @ \ {u}] \in PlacedTask
    BY <1>1, LocalTypes
<1>3. task' \in [Tasks -> PlacedTask]
    BY <1>2, TaskUpdate DEF GrantOne
<1>4. packs' \in [Users -> Nat]
    BY DEF GrantOne, TypeInv, TypeOK
<1>5. UNCHANGED <<dates, status, snapshots, batch, configs, results, rewards, weighted,
                  puts, crashes, faults>>
    BY DEF GrantOne
<1> QED
    BY <1>3, <1>4, <1>5, TypeFrame DEF TypeInv, TypeOK

LEMMA TypeScore ==
    ASSUME TypeInv, NEW w \in Tasks, ScoreStamp(w) \/ ScoreStore(w)
    PROVE  TypeInv'
<1>1. CASE ScoreStamp(w)
    <2>1. [task[w] EXCEPT !.pc = "store"] \in PlacedTask /\ [task[w] EXCEPT !.pc = "calc"] \in PlacedTask
        BY <1>1, LocalTypes DEF ScoreStamp, Elsewhere
    <2>2. PICK k \in PlacedTask : Becomes(w, k)
        BY <1>1, <2>1 DEF ScoreStamp
    <2> QED
        BY <1>1, <2>2, TypeTaskOnly DEF ScoreStamp, TypeInv, TypeOK
<1>2. CASE ScoreStore(w)
    <2>1. [task[w] EXCEPT !.pc = "calc"] \in PlacedTask
        BY <1>2, LocalTypes DEF ScoreStore, Elsewhere
    <2>2. task' \in [Tasks -> PlacedTask]
        BY <1>2, <2>1, TaskUpdate DEF ScoreStore
    <2>3. batch' \in [Tournaments -> Nat]
        <3>1. task[w].t \in Tournaments
            BY <1>2, TaskFields DEF ScoreStore, Elsewhere
        <3>2. batch' = [batch EXCEPT ![task[w].t] = @ + 1] /\ batch \in [Tournaments -> Nat]
            BY <1>2 DEF ScoreStore, TypeInv, TypeOK
        <3> QED
            BY <3>1, <3>2
    <2>4. UNCHANGED <<dates, status, snapshots, configs, results, rewards, weighted, packs,
                      puts, crashes, faults>>
        BY <1>2 DEF ScoreStore
    <2> QED
        BY <2>2, <2>3, <2>4, TypeFrame DEF TypeInv, TypeOK
<1> QED
    BY <1>1, <1>2

\* Dates and administrators.
LEMMA TypeOutside ==
    ASSUME TypeInv,
           \/ \E t \in Tournaments : DatePasses(t)
           \/ \E a \in Admins : Admin(a)
    PROVE  TypeInv'
<1>0. task' = task /\ task' \in [Tasks -> PlacedTask]
    BY DEF DatePasses, Admin, PutRead, PutWrite, SnapshotByHand, TypeInv
<1>1. ASSUME NEW t \in Tournaments, DatePasses(t) PROVE TypeInv'
    <2>1. dates' \in [Tournaments -> 0 .. 3]
        BY <1>1 DEF DatePasses, TypeInv, TypeOK
    <2>2. UNCHANGED <<status, tables, puts, crashes, faults>>
        BY <1>1 DEF DatePasses
    <2> QED
        BY <1>0, <2>1, <2>2, TypeFrame DEF tables, TypeInv, TypeOK
<1>2. ASSUME NEW a \in Admins, NEW t \in Tournaments, NEW to \in Statuses, PutRead(a, t, to)
      PROVE  TypeInv'
    <2>1. puts' \in [Admins -> [t : Tournaments, to : Statuses] \union {None}]
        BY <1>2 DEF PutRead, TypeInv, TypeOK
    <2>2. UNCHANGED <<dates, status, tables, crashes, faults>>
        BY <1>2 DEF PutRead
    <2> QED
        BY <1>0, <2>1, <2>2, TypeFrame DEF tables, TypeInv, TypeOK
<1>3. ASSUME NEW a \in Admins, PutWrite(a) PROVE TypeInv'
    <2>1. puts' \in [Admins -> [t : Tournaments, to : Statuses] \union {None}]
        BY <1>3 DEF PutWrite, TypeInv, TypeOK
    <2>2. puts[a].to \in Statuses
        BY <1>3 DEF PutWrite, TypeInv, TypeOK
    <2>3. status' \in [Tournaments -> Statuses]
        BY <1>3, <2>2 DEF PutWrite, TypeInv, TypeOK
    <2>4. UNCHANGED <<dates, tables, crashes, faults>>
        BY <1>3 DEF PutWrite
    <2> QED
        BY <1>0, <2>1, <2>3, <2>4, TypeFrame DEF tables, TypeInv, TypeOK
<1>4. ASSUME NEW a \in Admins, NEW t \in Tournaments, SnapshotByHand(a, t) PROVE TypeInv'
    <2>1. snapshots' \in [Tournaments -> Nat]
        BY <1>4 DEF SnapshotByHand, TypeInv, TypeOK
    <2>2. UNCHANGED <<dates, status, batch, configs, results, rewards, weighted, packs,
                      puts, crashes, faults>>
        BY <1>4 DEF SnapshotByHand
    <2> QED
        BY <1>0, <2>1, <2>2, TypeFrame DEF TypeInv, TypeOK
<1> QED
    BY <1>1, <1>2, <1>3, <1>4 DEF Admin

LEMMA TypeNext == TypeInv /\ [Next]_vars => TypeInv'
<1> SUFFICES ASSUME TypeInv, [Next]_vars PROVE TypeInv'
    OBVIOUS
<1>1. ASSUME NEW w \in Tasks, Work(w) PROVE TypeInv'
    BY <1>1, TypeBegin, TypeStart, TypeCalcRead, TypeCalcDelete, TypeCalcSave, TypeCalcRank,
       TypeCalcMatch, TypeCalcWrite, TypeRewardRead, TypePayRewards, TypeWeights,
       TypeFinishCommit, TypeEnds, TypeGrantOne, TypeScore DEF Work, Calculate
<1>2. ASSUME NEW w \in Tasks, Fault(w) PROVE TypeInv'
    BY <1>2, TypeStart, TypeEnds DEF Fault, Fails
<1>3. ASSUME NEW w \in Tasks, LifecycleBegin(w) \/ PriceBegin(w) PROVE TypeInv'
    BY <1>3, TypeBegin
<1>4. CASE UNCHANGED vars
    BY <1>4 DEF vars, TypeInv, TypeOK
<1> QED
    BY <1>1, <1>2, <1>3, <1>4, TypeOutside DEF Next

\* Every task and every table keeps its type, whatever the scheduler, the
\* administrators, failures and crashes do.
THEOREM TypeCorrect == Spec => []TypeOK
<1>1. TypeInv => TypeOK
    BY DEF TypeInv
<1> QED
    BY <1>1, InitType, TypeNext, PTL DEF Spec
----------------------------------------------------------------------------
(* One lifecycle task and no PUT: the status only moves forward, and what  *)
(* finish_tournament does happens around the step to finished.             *)

\* The setting of the theorems of this part: the lock keeps the lifecycle job to
\* one task, and no administrator changes a status or takes a snapshot.
Alone == Admins = {} /\ \A v, w \in LifecycleTasks : v = w

\* What the proofs need of it at a step of w: no other task is in the lifecycle job.
Sole(w) == w \in LifecycleTasks => \A v \in LifecycleTasks \ {w} : task[v].pc = "idle"

InLifecycle == {"starting", "snapshot", "ongoing", "finishing", "grant"}
InFinish == {"reward", "pay", "weights", "commit"}

\* Which tasks can be where with an assigned status pending.
Shape(w, k) ==
    /\ k.fin => w \in LifecycleTasks
    /\ ~ k.fin => ~ k.dirty
    /\ k.pc \in InLifecycle => w \in LifecycleTasks
    /\ k.pc \in InLifecycle \union {"idle", "score", "store"} => ~ k.fin
    /\ k.pc \in InFinish => k.fin

\* What the lifecycle task has read stays true until it acts on it.
Held(k, st, sn) ==
    /\ k.fin => st[k.t] = IF k.dirty THEN "ongoing" ELSE "finished"
    /\ k.pc \in {"snapshot", "ongoing"} => st[k.t] = "registration"
    /\ k.pc = "ongoing" => sn[k.t] > 0

PhaseInv ==
    /\ \A w \in Tasks : Shape(w, task[w]) /\ Held(task[w], status, snapshots)
    /\ SnapshotBeforePlay
    /\ RewardsOnlyFinished
LEMMA PhaseInit == Init => PhaseInv
<1> SUFFICES ASSUME Init PROVE PhaseInv
    OBVIOUS
<1>1. \A w \in Tasks : task[w] = Idle
    BY DEF Init
<1>2. \A w \in Tasks : Shape(w, task[w]) /\ Held(task[w], status, snapshots)
    BY <1>1 DEF Shape, Held, Idle, InLifecycle, InFinish
<1>3. \A t \in Tournaments : status[t] \notin {"ongoing", "finished"} /\ rewards[t] = {}
    BY DEF Init
<1> QED
    BY <1>2, <1>3 DEF PhaseInv, SnapshotBeforePlay, RewardsOnlyFinished

\* A step of w leaves what the other tasks hold: the status is only written by
\* the lifecycle task, and snapshots are only added.
LEMMA OthersKeep ==
    ASSUME TypeInv, PhaseInv, NEW w \in Tasks, Sole(w), NEW v \in Tasks, v # w,
           task'[v] = task[v],
           status' = status \/ w \in LifecycleTasks,
           snapshots' \in [Tournaments -> Nat],
           \A t \in Tournaments : snapshots'[t] >= snapshots[t]
    PROVE  Shape(v, task'[v]) /\ Held(task'[v], status', snapshots')
<1> DEFINE k == task[v]
<1>1. Shape(v, k) /\ Held(k, status, snapshots)
    BY DEF PhaseInv
<1>2. CASE v \in LifecycleTasks
    <2>2. k.pc = "ongoing" => k.t \in Tournaments
        BY TaskFields DEF Elsewhere
    <2>3. k.pc = "ongoing" => snapshots'[k.t] > 0
        BY <1>1, <2>2 DEF Held, TypeInv, TypeOK
    <2>4. CASE status' = status
        <3> HIDE DEF k
        <3>1. Held(k, status', snapshots')
            BY <1>1, <2>3, <2>4 DEF Held
        <3> QED
            BY <1>1, <3>1 DEF k
    <2>5. CASE w \in LifecycleTasks
        <3>1. k.pc = "idle"
            BY <1>2, <2>5 DEF Sole
        <3>2. ~ k.fin
            BY <1>1, <3>1 DEF Shape
        <3> QED
            BY <1>1, <3>1, <3>2 DEF Held
    <2> QED
        BY <2>4, <2>5
<1>3. CASE v \notin LifecycleTasks
    <2>1. ~ k.fin /\ k.pc \notin {"snapshot", "ongoing"}
        BY <1>1, <1>3 DEF Shape, InLifecycle
    <2> QED
        BY <1>1, <2>1 DEF Held
<1> QED
    BY <1>2, <1>3

\* A step of w is good when w's new local state is, and the two properties hold.
LEMMA PhaseStep ==
    ASSUME TypeInv, PhaseInv, NEW w \in Tasks, Sole(w), NEW k, Becomes(w, k),
           Shape(w, k), Held(k, status', snapshots'),
           status' = status \/ w \in LifecycleTasks,
           snapshots' \in [Tournaments -> Nat],
           \A t \in Tournaments : snapshots'[t] >= snapshots[t],
           SnapshotBeforePlay', RewardsOnlyFinished'
    PROVE  PhaseInv'
<1>1. task'[w] = k /\ \A v \in Tasks \ {w} : task'[v] = task[v]
    BY TaskUpdate
<1>2. Shape(w, task'[w]) /\ Held(task'[w], status', snapshots')
    BY <1>1
<1>3. ASSUME NEW v \in Tasks, v # w
      PROVE  Shape(v, task'[v]) /\ Held(task'[v], status', snapshots')
    BY <1>1, <1>3, OthersKeep
<1> QED
    BY <1>2, <1>3 DEF PhaseInv

\* ... in particular when no table, status or snapshot changes.
LEMMA PhaseQuiet ==
    ASSUME TypeInv, PhaseInv, NEW w \in Tasks, Sole(w), NEW k, Becomes(w, k),
           Shape(w, k), Held(k, status, snapshots), UNCHANGED <<status, snapshots, rewards>>
    PROVE  PhaseInv'
<1>1. SnapshotBeforePlay' /\ RewardsOnlyFinished'
    BY DEF PhaseInv, SnapshotBeforePlay, RewardsOnlyFinished
<1>2. snapshots' \in [Tournaments -> Nat] /\ \A t \in Tournaments : snapshots'[t] >= snapshots[t]
    BY DEF TypeInv, TypeOK
<1> QED
    BY <1>1, <1>2, PhaseStep

\* A commit of w's session: the assigned status reaches the table.  k is what w
\* goes on with, new rewards are only given by finish_tournament.
LEMMA PhaseFlush ==
    ASSUME TypeInv, PhaseInv, NEW w \in Tasks, Sole(w), NEW k, Becomes(w, k), FlushStatus(w),
           Shape(w, k), ~ k.dirty, k.fin => task[w].fin /\ k.t = task[w].t,
           k.pc \notin {"snapshot", "ongoing"}, task[w].pc \notin Elsewhere,
           snapshots' = snapshots,
           \A t \in Tournaments : rewards'[t] # rewards[t] => task[w].fin /\ t = task[w].t
    PROVE  PhaseInv'
<1> DEFINE t == task[w].t
<1>1. t \in Tournaments
    BY TaskFields
<1>2. Shape(w, task[w]) /\ Held(task[w], status, snapshots)
    BY DEF PhaseInv
<1>3. status \in [Tournaments -> Statuses] /\ snapshots \in [Tournaments -> Nat]
    BY DEF TypeInv, TypeOK
<1>4. status' = status \/ w \in LifecycleTasks
    BY <1>2 DEF FlushStatus, Shape
<1>5. \A s \in Tournaments : s # t => status'[s] = status[s]
    BY <1>1, <1>3 DEF FlushStatus
<1>6. task[w].fin => status'[t] = "finished" /\ status[t] \in {"ongoing", "finished"}
    BY <1>1, <1>2, <1>3 DEF FlushStatus, Held
<1>7. ~ task[w].fin => status' = status
    BY <1>2 DEF FlushStatus, Shape
<1>8. Held(k, status', snapshots')
    BY <1>6 DEF Held
<1>9. SnapshotBeforePlay'
    <2> SUFFICES ASSUME NEW s \in Tournaments, status'[s] \in {"ongoing", "finished"}
                 PROVE  snapshots'[s] > 0
        BY DEF SnapshotBeforePlay
    <2>1. status[s] \in {"ongoing", "finished"}
        BY <1>5, <1>6, <1>7
    <2> QED
        BY <2>1 DEF PhaseInv, SnapshotBeforePlay
<1>10. RewardsOnlyFinished'
    <2> SUFFICES ASSUME NEW s \in Tournaments, rewards'[s] # {}
                 PROVE  status'[s] = "finished"
        BY DEF RewardsOnlyFinished
    <2>1. CASE task[w].fin /\ s = t
        BY <1>6, <2>1
    <2>2. CASE ~ (task[w].fin /\ s = t)
        <3>1. rewards[s] # {} /\ status'[s] = status[s]
            BY <1>5, <1>7, <2>2
        <3> QED
            BY <3>1 DEF PhaseInv, RewardsOnlyFinished
    <2> QED
        BY <2>1, <2>2
<1> QED
    BY <1>3, <1>4, <1>8, <1>9, <1>10, PhaseStep

LEMMA ShapeIdle ==
    ASSUME NEW w \in Tasks
    PROVE  Shape(w, Idle) /\ Held(Idle, status, snapshots) /\ ~ Idle.fin /\ ~ Idle.dirty
           /\ Idle.pc = "idle"
BY DEF Shape, Held, Idle, InLifecycle, InFinish

LEMMA ShapeLeave ==
    ASSUME TypeInv, PhaseInv, NEW w \in Tasks
    PROVE  Shape(w, Leave(w)) /\ Held(Leave(w), status, snapshots)
           /\ ~ Leave(w).fin /\ ~ Leave(w).dirty /\ Leave(w).pc \in {"idle", "finishing"}
<1>1. Shape(w, task[w])
    BY DEF PhaseInv
<1>2. CASE task[w].fin
    <2>1. Leave(w) = [Idle EXCEPT !.pc = "finishing", !.due = task[w].due]
        BY <1>2 DEF Leave
    <2>2. /\ Leave(w).pc = "finishing" /\ ~ Leave(w).fin /\ ~ Leave(w).dirty
        BY <2>1 DEF Idle
    <2>3. w \in LifecycleTasks
        BY <1>1, <1>2 DEF Shape
    <2> QED
        BY <2>2, <2>3 DEF Shape, Held, InLifecycle, InFinish
<1>3. CASE ~ task[w].fin
    BY <1>3, ShapeIdle DEF Leave
<1> QED
    BY <1>2, <1>3
LEMMA PhaseLocal ==
    ASSUME TypeInv, PhaseInv, NEW w \in Tasks
    PROVE  Shape(w, task[w]) /\ Held(task[w], status, snapshots) /\ task[w] \in TaskType
BY TaskFields DEF PhaseInv

\* A step that changes nothing but pc and what is not about the status.
LEMMA SameStand ==
    ASSUME NEW w \in Tasks, NEW k, NEW l, Shape(w, k), Held(k, status, snapshots),
           l.t = k.t, l.fin = k.fin, l.dirty = k.dirty,
           l.pc \notin {"snapshot", "ongoing"},
           l.pc \in InLifecycle => w \in LifecycleTasks,
           l.pc \in InLifecycle \union {"idle", "score", "store"} => ~ k.fin,
           l.pc \in InFinish => k.fin
    PROVE  Shape(w, l) /\ Held(l, status, snapshots)
BY DEF Shape, Held

LEMMA PhaseChoose ==
    ASSUME TypeInv, PhaseInv, NEW w \in Tasks, Sole(w),
           LifecycleBegin(w) \/ StartRead(w) \/ FinishSelect(w) \/ FinishRead(w) \/ PriceBegin(w)
    PROVE  PhaseInv'
<1> USE PhaseLocal
<1>1. CASE LifecycleBegin(w)
    <2> DEFINE k == [task[w] EXCEPT !.pc = "starting",
                        !.due = {t \in Tournaments : status[t] = "registration" /\ dates[t] >= 2}]
    <2>1. /\ k.pc = "starting" /\ k.t = task[w].t /\ k.fin = task[w].fin /\ k.dirty = task[w].dirty
          /\ w \in LifecycleTasks /\ ~ task[w].fin
        BY <1>1 DEF LifecycleBegin, TaskType, Shape
    <2>2. Becomes(w, k) /\ UNCHANGED <<status, snapshots, rewards>>
        BY <1>1 DEF LifecycleBegin, tables
    <2> HIDE DEF k
    <2>3. Shape(w, k) /\ Held(k, status, snapshots)
        BY <2>1, SameStand DEF InFinish
    <2> QED
        BY <2>2, <2>3, PhaseQuiet
<1>2. CASE StartRead(w)
    <2>1. w \in LifecycleTasks /\ ~ task[w].fin /\ ~ task[w].dirty
        BY <1>2 DEF StartRead, StartExpecting, Shape, InLifecycle
    <2>2. PICK t \in task[w].due :
            IF status[t] = "registration"
              THEN Becomes(w, [task[w] EXCEPT !.pc = "snapshot", !.t = t, !.due = @ \ {t}])
              ELSE Becomes(w, [task[w] EXCEPT !.due = @ \ {t}])
        BY <1>2 DEF StartRead, StartExpecting
    <2>3. UNCHANGED <<status, snapshots, rewards>> /\ task[w].pc = "starting"
        BY <1>2 DEF StartRead, StartExpecting, tables
    <2>4. CASE status[t] = "registration"
        <3> DEFINE k == [task[w] EXCEPT !.pc = "snapshot", !.t = t, !.due = @ \ {t}]
        <3>1. k.pc = "snapshot" /\ k.t = t /\ ~ k.fin /\ ~ k.dirty
            BY <2>1 DEF TaskType
        <3>2. Becomes(w, k)
            BY <2>2, <2>4
        <3> HIDE DEF k
        <3>3. Shape(w, k) /\ Held(k, status, snapshots)
            BY <2>1, <2>4, <3>1 DEF Shape, Held, InFinish
        <3> QED
            BY <2>3, <3>2, <3>3, PhaseQuiet
    <2>5. CASE status[t] # "registration"
        <3> DEFINE k == [task[w] EXCEPT !.due = @ \ {t}]
        <3>1. k.pc = "starting" /\ k.t = task[w].t /\ k.fin = task[w].fin /\ k.dirty = task[w].dirty
            BY <2>3 DEF TaskType
        <3>2. Becomes(w, k)
            BY <2>2, <2>5
        <3> HIDE DEF k
        <3>3. Shape(w, k) /\ Held(k, status, snapshots)
            BY <2>1, <3>1, SameStand DEF InFinish
        <3> QED
            BY <2>3, <3>2, <3>3, PhaseQuiet
    <2> QED
        BY <2>4, <2>5
<1>3. CASE FinishSelect(w)
    <2> DEFINE due == {t \in Tournaments : status[t] = "ongoing" /\ dates[t] = 3}
               l == [Idle EXCEPT !.pc = "finishing", !.due = due]
    <2>1. w \in LifecycleTasks
        BY <1>3 DEF FinishSelect, FinishDue, Shape, InLifecycle
    <2>2. PICK k : Becomes(w, k) /\ k \in {Idle, l}
        <3>1. Becomes(w, IF due = {} THEN Idle ELSE l)
            BY <1>3 DEF FinishSelect, FinishDue
        <3> HIDE DEF due, l
        <3> QED
            BY <3>1
    <2>3. UNCHANGED <<status, snapshots, rewards>>
        BY <1>3 DEF FinishSelect, FinishDue, tables
    <2>4. Shape(w, l) /\ Held(l, status, snapshots)
        <3>1. l.pc = "finishing" /\ ~ l.fin /\ ~ l.dirty
            BY DEF Idle
        <3> HIDE DEF l
        <3> QED
            BY <2>1, <3>1 DEF Shape, Held, InFinish
    <2>5. Shape(w, k) /\ Held(k, status, snapshots)
        <3> HIDE DEF l
        <3> QED
            BY <2>2, <2>4, ShapeIdle
    <2> QED
        BY <2>2, <2>3, <2>5, PhaseQuiet
<1>4. CASE FinishRead(w)
    <2>1. w \in LifecycleTasks /\ ~ task[w].fin /\ ~ task[w].dirty /\ task[w].pc = "finishing"
        BY <1>4 DEF FinishRead, FinishAssign, Shape, InLifecycle
    <2>2. PICK t \in task[w].due :
            IF status[t] = "ongoing"
              THEN Becomes(w, [task[w] EXCEPT !.pc = "calc", !.t = t, !.due = @ \ {t},
                                              !.fin = TRUE, !.dirty = TRUE])
              ELSE Becomes(w, [task[w] EXCEPT !.due = @ \ {t}])
        BY <1>4 DEF FinishRead, FinishAssign
    <2>3. UNCHANGED <<status, snapshots, rewards>>
        BY <1>4 DEF FinishRead, FinishAssign, tables
    <2>4. CASE status[t] = "ongoing"
        <3> DEFINE k == [task[w] EXCEPT !.pc = "calc", !.t = t, !.due = @ \ {t},
                                        !.fin = TRUE, !.dirty = TRUE]
        <3>1. k.pc = "calc" /\ k.t = t /\ k.fin /\ k.dirty
            BY DEF TaskType
        <3>2. Becomes(w, k)
            BY <2>2, <2>4
        <3> HIDE DEF k
        <3>3. Shape(w, k) /\ Held(k, status, snapshots)
            BY <2>1, <2>4, <3>1 DEF Shape, Held, InFinish, InLifecycle
        <3> QED
            BY <2>3, <3>2, <3>3, PhaseQuiet
    <2>5. CASE status[t] # "ongoing"
        <3> DEFINE k == [task[w] EXCEPT !.due = @ \ {t}]
        <3>1. k.pc = "finishing" /\ k.t = task[w].t /\ k.fin = task[w].fin /\ k.dirty = task[w].dirty
            BY <2>1 DEF TaskType
        <3>2. Becomes(w, k)
            BY <2>2, <2>5
        <3> HIDE DEF k
        <3>3. Shape(w, k) /\ Held(k, status, snapshots)
            BY <2>1, <3>1, SameStand DEF InFinish
        <3> QED
            BY <2>3, <3>2, <3>3, PhaseQuiet
    <2> QED
        BY <2>4, <2>5
<1>5. CASE PriceBegin(w)
    <2>1. PICK t \in Tournaments : Becomes(w, [task[w] EXCEPT !.t = t, !.pc = "score"])
        BY <1>5 DEF PriceBegin
    <2> DEFINE k == [task[w] EXCEPT !.t = t, !.pc = "score"]
    <2>2. ~ task[w].fin /\ ~ task[w].dirty
        BY <1>5 DEF PriceBegin, Shape
    <2>3. k.pc = "score" /\ ~ k.fin /\ ~ k.dirty
        BY <2>2 DEF TaskType
    <2>4. Becomes(w, k)
        BY <2>1
    <2> HIDE DEF k
    <2>5. Shape(w, k) /\ Held(k, status, snapshots)
        BY <2>3 DEF Shape, Held, InFinish, InLifecycle
    <2>6. UNCHANGED <<status, snapshots, rewards>>
        BY <1>5 DEF PriceBegin, tables
    <2> QED
        BY <2>4, <2>5, <2>6, PhaseQuiet
<1> QED
    BY <1>1, <1>2, <1>3, <1>4, <1>5

\* start_tournament: the snapshot is there before the status says ongoing.
LEMMA PhaseStart ==
    ASSUME TypeInv, PhaseInv, NEW w \in Tasks, Sole(w),
           Snapshot(w) \/ StartCommit(w) \/ StartFails(w)
    PROVE  PhaseInv'
<1> DEFINE t == task[w].t
<1>0. /\ Shape(w, task[w]) /\ Held(task[w], status, snapshots) /\ task[w] \in TaskType
      /\ task[w].pc \in {"snapshot", "ongoing"} /\ t \in Tournaments
      /\ w \in LifecycleTasks /\ ~ task[w].fin /\ ~ task[w].dirty
      /\ status[t] = "registration"
    <2>1. task[w].pc \in {"snapshot", "ongoing"}
        BY DEF Snapshot, StartCommit, StartSet, StartFails
    <2> QED
        BY <2>1, PhaseLocal, TaskFields DEF Shape, Held, Elsewhere, InLifecycle
<1>1. CASE Snapshot(w)
    <2> DEFINE k == [task[w] EXCEPT !.pc = "ongoing"]
    <2>1. k.pc = "ongoing" /\ k.t = t /\ ~ k.fin /\ ~ k.dirty
        BY <1>0 DEF TaskType
    <2>2. Becomes(w, k) /\ UNCHANGED <<status, rewards>> /\ snapshots' = [snapshots EXCEPT ![t] = @ + 1]
        BY <1>1 DEF Snapshot
    <2>3. snapshots \in [Tournaments -> Nat]
        BY DEF TypeInv, TypeOK
    <2>4. /\ snapshots' \in [Tournaments -> Nat] /\ snapshots'[t] > 0
          /\ \A s \in Tournaments : snapshots'[s] >= snapshots[s]
        BY <1>0, <2>2, <2>3
    <2> HIDE DEF k
    <2>5. Shape(w, k) /\ Held(k, status', snapshots')
        BY <1>0, <2>1, <2>2, <2>4 DEF Shape, Held, InFinish
    <2>6. SnapshotBeforePlay' /\ RewardsOnlyFinished'
        BY <2>2, <2>3, <2>4 DEF PhaseInv, SnapshotBeforePlay, RewardsOnlyFinished
    <2> QED
        BY <1>0, <2>2, <2>4, <2>5, <2>6, PhaseStep
<1>2. CASE StartCommit(w)
    <2> DEFINE k == [task[w] EXCEPT !.pc = "starting", !.t = None]
    <2>1. k.pc = "starting" /\ ~ k.fin /\ ~ k.dirty
        BY <1>0 DEF TaskType
    <2>2. Becomes(w, k) /\ UNCHANGED <<snapshots, rewards>> /\ status' = [status EXCEPT ![t] = "ongoing"]
        BY <1>2 DEF StartCommit, StartSet, tables
    <2>3. snapshots[t] > 0 /\ task[w].pc = "ongoing"
        BY <1>0, <1>2 DEF StartCommit, StartSet, Held
    <2>4. /\ snapshots \in [Tournaments -> Nat] /\ status \in [Tournaments -> Statuses]
          /\ \A s \in Tournaments : snapshots'[s] >= snapshots[s]
        BY <2>2 DEF TypeInv, TypeOK
    <2> HIDE DEF k
    <2>5. Shape(w, k) /\ Held(k, status', snapshots')
        BY <1>0, <2>1 DEF Shape, Held, InFinish
    <2>6. SnapshotBeforePlay'
        BY <1>0, <2>2, <2>3, <2>4 DEF PhaseInv, SnapshotBeforePlay
    <2>7. RewardsOnlyFinished'
        <3>1. rewards[t] = {}
            BY <1>0 DEF PhaseInv, RewardsOnlyFinished
        <3> QED
            BY <1>0, <2>2, <2>4, <3>1 DEF PhaseInv, RewardsOnlyFinished
    <2> QED
        BY <1>0, <2>2, <2>4, <2>5, <2>6, <2>7, PhaseStep
<1>3. CASE StartFails(w)
    <2> DEFINE k == [task[w] EXCEPT !.pc = "starting", !.t = None]
    <2>1. k.pc = "starting" /\ ~ k.fin /\ ~ k.dirty
        BY <1>0 DEF TaskType
    <2>2. Becomes(w, k) /\ UNCHANGED <<status, snapshots, rewards>>
        BY <1>3 DEF StartFails, tables
    <2> HIDE DEF k
    <2>3. Shape(w, k) /\ Held(k, status, snapshots)
        BY <1>0, <2>1 DEF Shape, Held, InFinish
    <2> QED
        BY <2>2, <2>3, PhaseQuiet
<1> QED
    BY <1>1, <1>2, <1>3
\* Steps that read for the calculation, the rewards or the scores.
LEMMA PhaseRead ==
    ASSUME TypeInv, PhaseInv, NEW w \in Tasks, Sole(w),
           \/ CalcRead(w) \/ CalcDelete(w) \/ CalcRank(w) \/ CalcMatch(w) \/ RewardRead(w)
           \/ ScoreStamp(w)
    PROVE  PhaseInv'
<1> USE PhaseLocal
<1>0. UNCHANGED <<status, snapshots, rewards>>
    BY DEF CalcRead, CalcDelete, DeletePrizes, CalcRank, CalcMatch, RewardRead, ScoreStamp, tables
<1>1. \E k : Becomes(w, k) /\ Shape(w, k) /\ Held(k, status, snapshots)
    <2>1. CASE CalcRead(w)
        <3>1. CASE Entrants[task[w].t] = {}
            <4> DEFINE k == [task[w] EXCEPT !.pc = "reward"]
            <4>1. CASE task[w].fin
                <5>1. k.pc = "reward" /\ k.t = task[w].t /\ k.fin = task[w].fin /\ k.dirty = task[w].dirty
                    BY DEF TaskType
                <5>2. Becomes(w, k)
                    BY <2>1, <3>1, <4>1 DEF CalcRead
                <5> HIDE DEF k
                <5> QED
                    BY <4>1, <5>1, <5>2, SameStand DEF InLifecycle
            <4>2. CASE ~ task[w].fin
                BY <2>1, <3>1, <4>2, ShapeIdle DEF CalcRead
            <4> QED
                BY <4>1, <4>2
        <3>2. CASE Entrants[task[w].t] # {}
            <4> DEFINE k == [task[w] EXCEPT !.asof = batch[task[w].t],
                                            !.pc = IF Pool THEN "prizes" ELSE "rank"]
            <4>1. k.pc \in {"prizes", "rank"} /\ k.t = task[w].t /\ k.fin = task[w].fin
                  /\ k.dirty = task[w].dirty
                BY DEF TaskType
            <4>2. Becomes(w, k)
                BY <2>1, <3>2 DEF CalcRead
            <4> HIDE DEF k
            <4> QED
                BY <4>1, <4>2, SameStand DEF InLifecycle, InFinish
        <3> QED
            BY <3>1, <3>2
    <2>2. CASE CalcDelete(w)
        <3> DEFINE k == [task[w] EXCEPT !.doomed = configs[task[w].t], !.pc = "save"]
        <3>1. k.pc = "save" /\ k.t = task[w].t /\ k.fin = task[w].fin /\ k.dirty = task[w].dirty
            BY DEF TaskType
        <3>2. Becomes(w, k)
            BY <2>2 DEF CalcDelete, DeletePrizes
        <3> HIDE DEF k
        <3> QED
            BY <3>1, <3>2, SameStand DEF InLifecycle, InFinish
    <2>3. CASE CalcRank(w)
        <3> DEFINE k == [task[w] EXCEPT !.share = Cardinality(configs[task[w].t]), !.pc = "match"]
        <3>1. k.pc = "match" /\ k.t = task[w].t /\ k.fin = task[w].fin /\ k.dirty = task[w].dirty
            BY DEF TaskType
        <3>2. Becomes(w, k)
            BY <2>3 DEF CalcRank
        <3> HIDE DEF k
        <3> QED
            BY <3>1, <3>2, SameStand DEF InLifecycle, InFinish
    <2>4. CASE CalcMatch(w)
        <3> DEFINE rows == {r \in results[task[w].t] : r.deck \in Entrants[task[w].t]}
                   k == [task[w] EXCEPT !.seen = rows, !.pc = "write"]
        <3>1. k.pc = "write" /\ k.t = task[w].t /\ k.fin = task[w].fin /\ k.dirty = task[w].dirty
            BY DEF TaskType
        <3>2. Becomes(w, k) \/ Becomes(w, Leave(w))
            BY <2>4 DEF CalcMatch
        <3> HIDE DEF k
        <3>3. Shape(w, k) /\ Held(k, status, snapshots)
            BY <3>1, SameStand DEF InLifecycle, InFinish
        <3> QED
            BY <3>2, <3>3, ShapeLeave
    <2>5. CASE RewardRead(w)
        <3> DEFINE unpaid == {r \in results[task[w].t] : r.share > 0 /\
                        ~ \E p \in rewards[task[w].t] : p.deck = r.deck /\ p.by = r.by}
                   k == [task[w] EXCEPT !.pc = "pay", !.seen = unpaid]
                   l == [task[w] EXCEPT !.pc = "weights"]
        <3>1. task[w].fin
            BY <2>5 DEF RewardRead, Shape, InFinish
        <3>2. k.pc = "pay" /\ k.t = task[w].t /\ k.fin = task[w].fin /\ k.dirty = task[w].dirty
            BY DEF TaskType
        <3>3. l.pc = "weights" /\ l.t = task[w].t /\ l.fin = task[w].fin /\ l.dirty = task[w].dirty
            BY DEF TaskType
        <3>4. Becomes(w, k) \/ Becomes(w, l)
            BY <2>5 DEF RewardRead
        <3> HIDE DEF k, l
        <3>5. Shape(w, k) /\ Held(k, status, snapshots)
            BY <3>1, <3>2, SameStand DEF InLifecycle
        <3>6. Shape(w, l) /\ Held(l, status, snapshots)
            BY <3>1, <3>3, SameStand DEF InLifecycle
        <3> QED
            BY <3>4, <3>5, <3>6
    <2>6. CASE ScoreStamp(w)
        <3> DEFINE k == [task[w] EXCEPT !.pc =
                           IF snapshots[task[w].t] > 0 /\ dates[task[w].t] < 3 THEN "store" ELSE "calc"]
        <3>1. ~ task[w].fin
            BY <2>6 DEF ScoreStamp, Shape
        <3>2. k.pc \in {"store", "calc"} /\ k.t = task[w].t /\ k.fin = task[w].fin /\ k.dirty = task[w].dirty
            BY DEF TaskType
        <3>3. Becomes(w, k)
            BY <2>6 DEF ScoreStamp
        <3> HIDE DEF k
        <3> QED
            BY <3>1, <3>2, <3>3, SameStand DEF InLifecycle, InFinish
    <2> QED
        BY <2>1, <2>2, <2>3, <2>4, <2>5, <2>6
<1>2. PICK k : Becomes(w, k) /\ Shape(w, k) /\ Held(k, status, snapshots)
    BY <1>1
<1> QED
    BY <1>0, <1>2, PhaseQuiet

\* Steps that commit.
LEMMA PhaseCommit ==
    ASSUME TypeInv, PhaseInv, NEW w \in Tasks, Sole(w),
           CalcSave(w) \/ CalcWrite(w) \/ PayRewards(w) \/ FinishCommit(w)
    PROVE  PhaseInv'
<1> USE PhaseLocal
<1>1. CASE CalcSave(w)
    <2> DEFINE k == [task[w] EXCEPT !.pc = "rank", !.dirty = FALSE, !.doomed = {}]
    <2>1. k.pc = "rank" /\ k.t = task[w].t /\ k.fin = task[w].fin /\ ~ k.dirty
        BY DEF TaskType
    <2>2. /\ Becomes(w, k) /\ FlushStatus(w) /\ UNCHANGED <<snapshots, rewards>>
          /\ task[w].pc \notin Elsewhere
        BY <1>1 DEF CalcSave, Elsewhere
    <2> HIDE DEF k
    <2>3. Shape(w, k)
        BY <2>1 DEF Shape, InLifecycle, InFinish
    <2> QED
        BY <2>1, <2>2, <2>3, PhaseFlush
<1>2. CASE CalcWrite(w)
    <2> DEFINE l == [task[w] EXCEPT !.pc = "reward", !.dirty = FALSE, !.seen = {}, !.asof = 0, !.share = 0]
    <2>1. PICK rows : WriteResults(w, rows)
        BY <1>2 DEF CalcWrite
    <2>2. /\ Becomes(w, IF task[w].fin THEN l ELSE Idle) /\ FlushStatus(w)
          /\ UNCHANGED <<snapshots, rewards>> /\ task[w].pc \notin Elsewhere
        BY <2>1 DEF WriteResults, Elsewhere
    <2>3. l.pc = "reward" /\ l.t = task[w].t /\ l.fin = task[w].fin /\ ~ l.dirty
        BY DEF TaskType
    <2> HIDE DEF l
    <2>4. CASE task[w].fin
        <3>1. Becomes(w, l)
            BY <2>2, <2>4
        <3>2. Shape(w, l)
            BY <2>3, <2>4 DEF Shape, InLifecycle
        <3> QED
            BY <2>2, <2>3, <3>1, <3>2, PhaseFlush
    <2>5. CASE ~ task[w].fin
        <3>1. Becomes(w, Idle)
            BY <2>2, <2>5
        <3> QED
            BY <2>2, <3>1, ShapeIdle, PhaseFlush
    <2> QED
        BY <2>4, <2>5
<1>3. CASE PayRewards(w)
    <2> DEFINE k == [task[w] EXCEPT !.pc = "weights", !.dirty = FALSE, !.seen = {}]
               paid == {[deck |-> r.deck, by |-> r.by, payer |-> w, asof |-> r.asof, share |-> r.share] :
                          r \in task[w].seen}
    <2>1. k.pc = "weights" /\ k.t = task[w].t /\ k.fin = task[w].fin /\ ~ k.dirty
        BY DEF TaskType
    <2>2. task[w].fin /\ task[w].pc \notin Elsewhere
        BY <1>3 DEF PayRewards, Shape, InFinish, Elsewhere
    <2>3. /\ Becomes(w, k) /\ FlushStatus(w) /\ UNCHANGED snapshots
          /\ rewards' = [rewards EXCEPT ![task[w].t] = @ \union paid]
        BY <1>3 DEF PayRewards
    <2> HIDE DEF k, paid
    <2>4. \A t \in Tournaments : rewards'[t] # rewards[t] => t = task[w].t
        BY <2>3 DEF TypeInv, TypeOK
    <2>5. Shape(w, k)
        BY <2>1, <2>2 DEF Shape, InLifecycle
    <2> QED
        BY <2>1, <2>2, <2>3, <2>4, <2>5, PhaseFlush
<1>4. CASE FinishCommit(w)
    <2>1. /\ Becomes(w, Leave(w)) /\ FlushStatus(w) /\ UNCHANGED <<snapshots, rewards>>
          /\ task[w].pc \notin Elsewhere
        BY <1>4 DEF FinishCommit, tables, Elsewhere
    <2> QED
        BY <2>1, ShapeLeave, PhaseFlush
<1> QED
    BY <1>1, <1>2, <1>3, <1>4

\* recalculate_token_weights commits only when it has scores to weigh.
LEMMA PhaseWeights ==
    ASSUME TypeInv, PhaseInv, NEW w \in Tasks, Sole(w), Weights(w)
    PROVE  PhaseInv'
<1> USE PhaseLocal
<1> DEFINE dirty == task[w].dirty /\ batch[task[w].t] = 0
           k == [task[w] EXCEPT !.pc = "commit", !.dirty = dirty]
<1>1. k.pc = "commit" /\ k.t = task[w].t /\ k.fin = task[w].fin /\ k.dirty = dirty
    BY DEF TaskType
<1>2. /\ Becomes(w, k) /\ UNCHANGED <<snapshots, rewards>> /\ task[w].pc = "weights"
    BY DEF Weights
<1>3. task[w].fin
    BY <1>2 DEF Shape, InFinish
<1> HIDE DEF k
<1>4. CASE batch[task[w].t] = 0
    <2>1. UNCHANGED <<status, snapshots, rewards>>
        BY <1>2, <1>4 DEF Weights
    <2>2. k.dirty = task[w].dirty
        BY <1>1, <1>4 DEF TaskType
    <2>3. Shape(w, k) /\ Held(k, status, snapshots)
        BY <1>1, <1>3, <2>2, SameStand DEF InLifecycle
    <2> QED
        BY <1>2, <2>1, <2>3, PhaseQuiet
<1>5. CASE batch[task[w].t] # 0
    <2>1. FlushStatus(w) /\ ~ k.dirty
        BY <1>1, <1>5 DEF Weights
    <2>2. Shape(w, k)
        BY <1>1, <1>3 DEF Shape, InLifecycle
    <2> QED
        BY <1>1, <1>2, <1>3, <2>1, <2>2, PhaseFlush DEF Elsewhere
<1> QED
    BY <1>4, <1>5

\* Failures, crashes, the grants and the ends of the jobs.
LEMMA PhaseEnds ==
    ASSUME TypeInv, PhaseInv, NEW w \in Tasks, Sole(w),
           \/ WorkFails(w) \/ ScoreFails(w) \/ CheckFails(w) \/ Crash(w) \/ Cleanup(w) \/ LifecycleEnd(w)
           \/ ScoreStore(w)
           \/ \E u \in Users : GrantOne(w, u) \/ GrantFails(w, u)
    PROVE  PhaseInv'
<1> USE PhaseLocal
<1>1. CASE WorkFails(w)
    BY <1>1, ShapeLeave, PhaseQuiet DEF WorkFails, tables
<1>2. CASE ScoreFails(w)
    BY <1>2, ShapeIdle, PhaseQuiet DEF ScoreFails, tables
<1>3. CASE Crash(w)
    BY <1>3, ShapeIdle, PhaseQuiet DEF Crash, tables
<1>8. CASE CheckFails(w)
    BY <1>8, ShapeIdle, PhaseQuiet DEF CheckFails, tables
<1>4. CASE LifecycleEnd(w)
    BY <1>4, ShapeIdle, PhaseQuiet DEF LifecycleEnd, tables
<1>5. CASE Cleanup(w)
    <2> DEFINE k == [Idle EXCEPT !.pc = "grant", !.todo = Users]
    <2>1. k.pc = "grant" /\ ~ k.fin /\ ~ k.dirty
        BY DEF Idle
    <2>2. w \in LifecycleTasks /\ Becomes(w, k) /\ UNCHANGED <<status, snapshots, rewards>>
        BY <1>5 DEF Cleanup, Shape, InLifecycle, tables
    <2> HIDE DEF k
    <2>3. Shape(w, k) /\ Held(k, status, snapshots)
        BY <2>1, <2>2 DEF Shape, Held, InFinish
    <2> QED
        BY <2>2, <2>3, PhaseQuiet
<1>6. CASE ScoreStore(w)
    <2> DEFINE k == [task[w] EXCEPT !.pc = "calc"]
    <2>1. k.pc = "calc" /\ k.t = task[w].t /\ k.fin = task[w].fin /\ k.dirty = task[w].dirty
        BY DEF TaskType
    <2>2. Becomes(w, k) /\ UNCHANGED <<status, snapshots, rewards>>
        BY <1>6 DEF ScoreStore
    <2> HIDE DEF k
    <2>3. Shape(w, k) /\ Held(k, status, snapshots)
        BY <2>1, SameStand DEF InLifecycle, InFinish
    <2> QED
        BY <2>2, <2>3, PhaseQuiet
<1>7. ASSUME NEW u \in Users, GrantOne(w, u) \/ GrantFails(w, u)
      PROVE  PhaseInv'
    <2> DEFINE k == [task[w] EXCEPT !.todo = @ \ {u}]
    <2>1. k.pc = "grant" /\ k.t = task[w].t /\ k.fin = task[w].fin /\ k.dirty = task[w].dirty
        BY <1>7 DEF TaskType, GrantOne, GrantFails
    <2>2. /\ Becomes(w, k) /\ UNCHANGED <<status, snapshots, rewards>>
          /\ w \in LifecycleTasks /\ ~ task[w].fin
        BY <1>7 DEF GrantOne, GrantFails, tables, Shape, InLifecycle
    <2> HIDE DEF k
    <2>3. Shape(w, k) /\ Held(k, status, snapshots)
        BY <2>1, <2>2, SameStand DEF InFinish
    <2> QED
        BY <2>2, <2>3, PhaseQuiet
<1> QED
    BY <1>1, <1>2, <1>3, <1>4, <1>5, <1>6, <1>7, <1>8

LEMMA PhaseUnchanged ==
    ASSUME PhaseInv, UNCHANGED <<status, snapshots, rewards, task>>
    PROVE  PhaseInv'
BY DEF PhaseInv, SnapshotBeforePlay, RewardsOnlyFinished

\* A step of the scheduler, or of time.
LEMMA PhaseTask ==
    ASSUME TypeInv, PhaseInv, NEW w \in Tasks, Sole(w),
           LifecycleBegin(w) \/ PriceBegin(w) \/ Work(w) \/ Fault(w)
    PROVE  PhaseInv'
<1>1. ASSUME Work(w) PROVE PhaseInv'
    BY <1>1, PhaseChoose, PhaseStart, PhaseRead, PhaseCommit, PhaseWeights, PhaseEnds
       DEF Work, Calculate
<1>2. ASSUME Fault(w) PROVE PhaseInv'
    BY <1>2, PhaseStart, PhaseEnds DEF Fault, Fails
<1> QED
    BY <1>1, <1>2, PhaseChoose

LEMMA PhaseTime ==
    ASSUME PhaseInv, UNCHANGED vars \/ \E t \in Tournaments : DatePasses(t)
    PROVE  PhaseInv'
BY PhaseUnchanged DEF DatePasses, tables, vars

LEMMA PhaseNext == Alone /\ TypeInv /\ PhaseInv /\ [Next]_vars => PhaseInv'
<1> SUFFICES ASSUME Alone, TypeInv, PhaseInv, [Next]_vars PROVE PhaseInv'
    OBVIOUS
<1>1. \A w \in Tasks : Sole(w)
    BY DEF Alone, Sole
<1>2. ASSUME NEW w \in Tasks, LifecycleBegin(w) \/ PriceBegin(w) \/ Work(w) \/ Fault(w)
      PROVE  PhaseInv'
    BY <1>1, <1>2, PhaseTask
<1> QED
    BY <1>2, PhaseTime DEF Next, Alone

LEMMA PhaseAlways == Alone /\ Spec => []PhaseInv
<1> SUFFICES ASSUME Alone PROVE Spec => []PhaseInv
    BY DEF Alone
<1>1. TypeInv /\ PhaseInv /\ [Next]_vars => (TypeInv /\ PhaseInv)'
    BY TypeNext, PhaseNext
<1>2. Init => TypeInv /\ PhaseInv
    BY InitType, PhaseInit
<1> QED
    BY <1>1, <1>2, PTL DEF Spec

\* With one lifecycle task and no PUT, nobody is rewarded for a tournament that
\* is not over, although finish_tournament commits the rewards apart from the
\* status, whatever the price job does beside it and wherever a step fails.
THEOREM RewardsFollowEnd == Alone /\ Spec => []RewardsOnlyFinished
BY PhaseAlways, PTL DEF PhaseInv

\* In the same setting play never starts without the prices to score against.
THEOREM PricesBeforePlay == Alone /\ Spec => []SnapshotBeforePlay
BY PhaseAlways, PTL DEF PhaseInv

-----------------------------------------------------------------------------
(***************************************************************************)
(* What the end of a tournament pays, for any number of tournaments, decks *)
(* and users, when the two jobs of the scheduler never run at once: each   *)
(* deck is rewarded once, with the amount of the last prices and of one    *)
(* prize table, before token weights change; and the jobs implement        *)
(* TournamentPhases.  Two jobs at once break all of it, as the instance    *)
(* TournamentLifecycle_two_results shows.  Last, the packs granted after   *)
(* tournaments are at most one per user, end and failure.                  *)
(***************************************************************************)

\* The jobs run one at a time, on one task.
OneTask == \A v, w \in Tasks : v = w

\* What the task has read for its next write is still there.
Ready(w) ==
    LET k == task[w]
    IN  /\ k.pc = "write" => k.seen = {r \in results[k.t] : r.deck \in Entrants[k.t]}
        /\ k.pc = "pay" => /\ k.seen \in SUBSET results[k.t]
                           /\ \A r \in k.seen : \A p \in rewards[k.t] : p.deck # r.deck

OnceInv ==
    /\ OneResultPerDeck
    /\ RewardedOnce
    /\ \A w \in Tasks : Ready(w)


LEMMA OnceInit == Init => OnceInv
BY DEF Init, Idle, OnceInv, OneResultPerDeck, RewardedOnce, Ready

\* Most steps neither write results or rewards nor get ready to.
LEMMA OtherSteps ==
    ASSUME TypeInv, NEW w \in Tasks,
           Work(w) \/ Fault(w) \/ LifecycleBegin(w) \/ PriceBegin(w),
           ~ CalcMatch(w), ~ CalcWrite(w), ~ RewardRead(w), ~ PayRewards(w)
    PROVE  /\ \E k : Becomes(w, k) /\ k.pc \notin {"write", "pay"}
           /\ UNCHANGED <<results, rewards>>
<1>k. task[w] \in TaskType
    BY TaskFields
<1>i. Idle.pc = "idle" /\ Leave(w).pc \in {"idle", "finishing"}
    BY DEF Leave, Idle
<1>1. CASE LifecycleBegin(w)
    <2> DEFINE k == [task[w] EXCEPT !.pc = "starting",
                        !.due = {t \in Tournaments : status[t] = "registration" /\ dates[t] >= 2}]
    <2>1. k.pc = "starting"
        BY <1>k DEF TaskType
    <2>2. Becomes(w, k) /\ UNCHANGED <<results, rewards>>
        BY <1>1 DEF LifecycleBegin, tables
    <2> HIDE DEF k
    <2> QED
        BY <2>1, <2>2
<1>2. CASE StartRead(w)
    <2>1. PICK t \in task[w].due :
            IF status[t] = "registration"
              THEN Becomes(w, [task[w] EXCEPT !.pc = "snapshot", !.t = t, !.due = @ \ {t}])
              ELSE Becomes(w, [task[w] EXCEPT !.due = @ \ {t}])
        BY <1>2 DEF StartRead, StartExpecting
    <2> DEFINE k == [task[w] EXCEPT !.pc = "snapshot", !.t = t, !.due = @ \ {t}]
               l == [task[w] EXCEPT !.due = @ \ {t}]
    <2>2. k.pc = "snapshot" /\ l.pc = "starting"
        BY <1>2, <1>k DEF TaskType, StartRead, StartExpecting
    <2>3. Becomes(w, k) \/ Becomes(w, l)
        BY <2>1
    <2>4. UNCHANGED <<results, rewards>>
        BY <1>2 DEF StartRead, StartExpecting, tables
    <2> HIDE DEF k, l
    <2> QED
        BY <2>2, <2>3, <2>4
<1>3. CASE FinishSelect(w)
    <2> DEFINE due == {t \in Tournaments : status[t] = "ongoing" /\ dates[t] = 3}
               l == [Idle EXCEPT !.pc = "finishing", !.due = due]
    <2>1. l.pc = "finishing"
        BY DEF Idle
    <2>2. Becomes(w, IF due = {} THEN Idle ELSE l)
        BY <1>3 DEF FinishSelect, FinishDue
    <2>3. UNCHANGED <<results, rewards>>
        BY <1>3 DEF FinishSelect, FinishDue, tables
    <2> HIDE DEF due, l
    <2> QED
        BY <1>i, <2>1, <2>2, <2>3
<1>4. CASE FinishRead(w)
    <2>1. PICK t \in task[w].due :
            IF status[t] = "ongoing"
              THEN Becomes(w, [task[w] EXCEPT !.pc = "calc", !.t = t, !.due = @ \ {t},
                                              !.fin = TRUE, !.dirty = TRUE])
              ELSE Becomes(w, [task[w] EXCEPT !.due = @ \ {t}])
        BY <1>4 DEF FinishRead, FinishAssign
    <2> DEFINE k == [task[w] EXCEPT !.pc = "calc", !.t = t, !.due = @ \ {t}, !.fin = TRUE, !.dirty = TRUE]
               l == [task[w] EXCEPT !.due = @ \ {t}]
    <2>2. k.pc = "calc" /\ l.pc = "finishing"
        BY <1>4, <1>k DEF TaskType, FinishRead, FinishAssign
    <2>3. Becomes(w, k) \/ Becomes(w, l)
        BY <2>1
    <2>4. UNCHANGED <<results, rewards>>
        BY <1>4 DEF FinishRead, FinishAssign, tables
    <2> HIDE DEF k, l
    <2> QED
        BY <2>2, <2>3, <2>4
<1>5. CASE PriceBegin(w)
    <2>1. PICK t \in Tournaments : Becomes(w, [task[w] EXCEPT !.t = t, !.pc = "score"])
        BY <1>5 DEF PriceBegin
    <2>2. [task[w] EXCEPT !.t = t, !.pc = "score"].pc = "score"
        BY <1>k DEF TaskType
    <2>3. UNCHANGED <<results, rewards>>
        BY <1>5 DEF PriceBegin, tables
    <2> QED
        BY <2>1, <2>2, <2>3
<1>6. CASE Snapshot(w) \/ ScoreStore(w)
    <2>1. [task[w] EXCEPT !.pc = "ongoing"].pc = "ongoing" /\ [task[w] EXCEPT !.pc = "calc"].pc = "calc"
        BY <1>k DEF TaskType
    <2> QED
        BY <1>6, <2>1 DEF Snapshot, ScoreStore
<1>7. CASE StartCommit(w) \/ StartFails(w)
    <2>1. [task[w] EXCEPT !.pc = "starting", !.t = None].pc = "starting"
        BY <1>k DEF TaskType
    <2> QED
        BY <1>7, <2>1 DEF StartCommit, StartSet, StartFails, tables
<1>8. CASE CalcRead(w)
    <2> DEFINE k == [task[w] EXCEPT !.asof = batch[task[w].t], !.pc = IF Pool THEN "prizes" ELSE "rank"]
               l == [task[w] EXCEPT !.pc = "reward"]
    <2>1. k.pc \in {"prizes", "rank"} /\ l.pc = "reward"
        BY <1>k DEF TaskType
    <2>2. Becomes(w, k) \/ Becomes(w, l) \/ Becomes(w, Idle)
        BY <1>8 DEF CalcRead
    <2>3. UNCHANGED <<results, rewards>>
        BY <1>8 DEF CalcRead, tables
    <2> HIDE DEF k, l
    <2> QED
        BY <1>i, <2>1, <2>2, <2>3
<1>9. CASE CalcDelete(w)
    <2> DEFINE k == [task[w] EXCEPT !.doomed = configs[task[w].t], !.pc = "save"]
    <2>1. k.pc = "save"
        BY <1>k DEF TaskType
    <2>2. Becomes(w, k) /\ UNCHANGED <<results, rewards>>
        BY <1>9 DEF CalcDelete, DeletePrizes, tables
    <2> HIDE DEF k
    <2> QED
        BY <2>1, <2>2
<1>10. CASE CalcSave(w)
    <2> DEFINE k == [task[w] EXCEPT !.pc = "rank", !.dirty = FALSE, !.doomed = {}]
    <2>1. k.pc = "rank"
        BY <1>k DEF TaskType
    <2>2. Becomes(w, k) /\ UNCHANGED <<results, rewards>>
        BY <1>10 DEF CalcSave
    <2> HIDE DEF k
    <2> QED
        BY <2>1, <2>2
<1>11. CASE CalcRank(w)
    <2> DEFINE k == [task[w] EXCEPT !.share = Cardinality(configs[task[w].t]), !.pc = "match"]
    <2>1. k.pc = "match"
        BY <1>k DEF TaskType
    <2>2. Becomes(w, k) /\ UNCHANGED <<results, rewards>>
        BY <1>11 DEF CalcRank, tables
    <2> HIDE DEF k
    <2> QED
        BY <2>1, <2>2
<1>12. CASE Weights(w)
    <2> DEFINE k == [task[w] EXCEPT !.pc = "commit", !.dirty = @ /\ batch[task[w].t] = 0]
    <2>1. k.pc = "commit"
        BY <1>k DEF TaskType
    <2>2. Becomes(w, k) /\ UNCHANGED <<results, rewards>>
        BY <1>12 DEF Weights
    <2> HIDE DEF k
    <2> QED
        BY <2>1, <2>2
<1>13. CASE FinishCommit(w) \/ WorkFails(w)
    BY <1>13, <1>i DEF FinishCommit, WorkFails, tables
<1>14. CASE LifecycleEnd(w) \/ ScoreFails(w) \/ CheckFails(w) \/ Crash(w)
    BY <1>14, <1>i DEF LifecycleEnd, ScoreFails, CheckFails, Crash, tables
<1>15. CASE Cleanup(w)
    <2> DEFINE k == [Idle EXCEPT !.pc = "grant", !.todo = Users]
    <2>1. k.pc = "grant"
        BY DEF Idle
    <2>2. Becomes(w, k) /\ UNCHANGED <<results, rewards>>
        BY <1>15 DEF Cleanup, tables
    <2> HIDE DEF k
    <2> QED
        BY <2>1, <2>2
<1>16. CASE \E u \in Users : GrantOne(w, u) \/ GrantFails(w, u)
    <2>1. PICK u \in Users : GrantOne(w, u) \/ GrantFails(w, u)
        BY <1>16
    <2> DEFINE k == [task[w] EXCEPT !.todo = @ \ {u}]
    <2>2. k.pc = "grant"
        BY <1>k, <2>1 DEF GrantOne, GrantFails, TaskType
    <2>3. Becomes(w, k) /\ UNCHANGED <<results, rewards>>
        BY <2>1 DEF GrantOne, GrantFails, tables
    <2> HIDE DEF k
    <2> QED
        BY <2>2, <2>3
<1>17. CASE ScoreStamp(w)
    <2> DEFINE k == [task[w] EXCEPT !.pc =
                       IF snapshots[task[w].t] > 0 /\ dates[task[w].t] < 3 THEN "store" ELSE "calc"]
    <2>1. k.pc \in {"store", "calc"}
        BY <1>k DEF TaskType
    <2>2. Becomes(w, k) /\ UNCHANGED <<results, rewards>>
        BY <1>17 DEF ScoreStamp, tables
    <2> HIDE DEF k
    <2> QED
        BY <2>1, <2>2
<1> QED
    BY <1>1, <1>2, <1>3, <1>4, <1>5, <1>6, <1>7, <1>8, <1>9, <1>10, <1>11, <1>12, <1>13, <1>14,
       <1>15, <1>16, <1>17 DEF Work, Calculate, Fault, Fails

LEMMA OnceKept ==
    ASSUME OnceInv, UNCHANGED <<results, rewards>>, \A v \in Tasks : Ready(v)'
    PROVE  OnceInv'
BY DEF OnceInv, OneResultPerDeck, RewardedOnce

\* The rows the one task has matched are all there are for its decks.
LEMMA OnceReads ==
    ASSUME OneTask, TypeInv, OnceInv, NEW w \in Tasks, CalcMatch(w) \/ RewardRead(w)
    PROVE  OnceInv'
<1> DEFINE t == task[w].t
<1>k. task[w] \in TaskType
    BY TaskFields
<1>u. UNCHANGED <<results, rewards>>
    BY DEF CalcMatch, RewardRead, tables
<1>1. CASE CalcMatch(w)
    <2> DEFINE rows == {r \in results[t] : r.deck \in Entrants[t]}
               k == [task[w] EXCEPT !.seen = rows, !.pc = "write"]
    <2>1. k.pc = "write" /\ k.t = t /\ k.seen = rows /\ Leave(w).pc \in {"idle", "finishing"}
        BY <1>k DEF TaskType, Leave, Idle
    <2>2. Becomes(w, k) \/ Becomes(w, Leave(w))
        BY <1>1 DEF CalcMatch
    <2>3. task'[w] = k \/ task'[w] = Leave(w)
        <3> HIDE DEF k
        <3> QED
            BY <2>2, TaskUpdate
    <2> HIDE DEF k
    <2>4. Ready(w)'
        BY <1>u, <2>1, <2>3 DEF Ready
    <2> QED
        BY <1>u, <2>4, OnceKept DEF OneTask
<1>2. CASE RewardRead(w)
    <2> DEFINE unpaid == {r \in results[t] : r.share > 0 /\
                            ~ \E p \in rewards[t] : p.deck = r.deck /\ p.by = r.by}
               k == [task[w] EXCEPT !.pc = "pay", !.seen = unpaid]
               l == [task[w] EXCEPT !.pc = "weights"]
    <2>1. k.pc = "pay" /\ k.t = t /\ k.seen = unpaid /\ l.pc = "weights"
        BY <1>k DEF TaskType
    <2>2. Becomes(w, k) \/ Becomes(w, l)
        BY <1>2 DEF RewardRead
    <2>3. task'[w] = k \/ task'[w] = l
        <3> HIDE DEF k, l
        <3> QED
            BY <2>2, TaskUpdate
    <2>4. t \in Tournaments /\ results[t] \in SUBSET Result /\ rewards[t] \in SUBSET Reward
        BY <1>2, TaskFields DEF RewardRead, Elsewhere, TypeInv, TypeOK
    <2>5. \A r \in unpaid : \A p \in rewards[t] : p.deck # r.deck
        BY <2>4 DEF OneTask, Result, Reward
    <2> HIDE DEF k, l
    <2>6. Ready(w)'
        <3>1. unpaid \in SUBSET results[t]
            OBVIOUS
        <3> HIDE DEF unpaid
        <3> QED
            BY <1>u, <2>1, <2>3, <2>5, <3>1 DEF Ready
    <2> QED
        BY <1>u, <2>6, OnceKept DEF OneTask
<1> QED
    BY <1>1, <1>2

\* A written row is an old one with a new amount, or one for a deck without.
LEMMA UpdatedDeck ==
    ASSUME NEW w \in Tasks, NEW r \in Result
    PROVE  Updated(w, r).deck = r.deck /\ Updated(w, r).by = r.by
<1> DEFINE new == [deck |-> r.deck, by |-> r.by, asof |-> task[w].asof, share |-> task[w].share]
<1>1. new.deck = r.deck /\ new.by = r.by
    OBVIOUS
<1>2. Updated(w, r) \in {new, r}
    <2> HIDE DEF new
    <2> QED
        BY DEF Updated, new
<1> QED
    BY <1>1, <1>2

LEMMA OnceWrite ==
    ASSUME OneTask, TypeInv, OnceInv, NEW w \in Tasks, CalcWrite(w)
    PROVE  OnceInv'
<1> DEFINE t == task[w].t
           old == {Updated(w, r) : r \in results[t]}
           rows == old \union Inserted(w)
           l == [task[w] EXCEPT !.pc = "reward", !.dirty = FALSE, !.seen = {}, !.asof = 0, !.share = 0]
<1>1. WriteResults(w, rows)
    BY DEF CalcWrite
<1>2. t \in Tournaments /\ results[t] \in SUBSET Result /\ results \in [Tournaments -> SUBSET Result]
    BY <1>1, TaskFields DEF WriteResults, Elsewhere, TypeInv, TypeOK
<1>3. task[w].seen = {r \in results[t] : r.deck \in Entrants[t]}
    BY <1>1 DEF WriteResults, OnceInv, Ready
<1>4. \A r, q \in results[t] : r.deck = q.deck => r = q
    BY <1>2 DEF OnceInv, OneResultPerDeck
<1>5. \A r, q \in old : r.deck = q.deck => r = q
    <2> SUFFICES ASSUME NEW r \in results[t], NEW q \in results[t],
                        Updated(w, r).deck = Updated(w, q).deck
                 PROVE  Updated(w, r) = Updated(w, q)
        OBVIOUS
    <2>1. r.deck = q.deck
        BY <1>2, UpdatedDeck
    <2> QED
        BY <1>4, <2>1
<1>6. \A r \in Inserted(w) : r.deck \in Entrants[t] /\ \A q \in results[t] : q.deck # r.deck
    BY <1>3 DEF Inserted
<1>7. \A r, q \in Inserted(w) : r.deck = q.deck => r = q
    BY DEF Inserted
<1>8. \A r \in old, q \in Inserted(w) : r.deck # q.deck
    <2> SUFFICES ASSUME NEW r \in results[t], NEW q \in Inserted(w)
                 PROVE  Updated(w, r).deck # q.deck
        OBVIOUS
    <2> QED
        BY <1>2, <1>6, UpdatedDeck
<1>9. \A r, q \in rows : r.deck = q.deck => r = q
    <2> HIDE DEF old
    <2> QED
        BY <1>5, <1>7, <1>8
<1>10. results' = [results EXCEPT ![t] = rows] /\ UNCHANGED rewards
    BY <1>1 DEF WriteResults
<1>11. OneResultPerDeck'
    <2> HIDE DEF rows
    <2> QED
        BY <1>2, <1>9, <1>10 DEF OnceInv, OneResultPerDeck
<1>12. task'[w].pc \in {"reward", "idle"}
    <2>1. l.pc = "reward" /\ Idle.pc = "idle"
        BY TaskFields DEF TaskType, Idle
    <2>2. Becomes(w, IF task[w].fin THEN l ELSE Idle)
        BY <1>1 DEF WriteResults
    <2> HIDE DEF l
    <2> QED
        BY <2>1, <2>2, TaskUpdate
<1>13. Ready(w)'
    BY <1>12 DEF Ready
<1> QED
    BY <1>10, <1>11, <1>13 DEF OnceInv, RewardedOnce, OneTask

LEMMA OncePay ==
    ASSUME OneTask, TypeInv, OnceInv, NEW w \in Tasks, PayRewards(w)
    PROVE  OnceInv'
<1> DEFINE t == task[w].t
           paid == {[deck |-> r.deck, by |-> r.by, payer |-> w, asof |-> r.asof, share |-> r.share] :
                      r \in task[w].seen}
           k == [task[w] EXCEPT !.pc = "weights", !.dirty = FALSE, !.seen = {}]
<1>1. t \in Tournaments /\ rewards \in [Tournaments -> SUBSET Reward]
    BY TaskFields DEF PayRewards, Elsewhere, TypeInv, TypeOK
<1>2. rewards' = [rewards EXCEPT ![t] = @ \union paid] /\ UNCHANGED results
    BY DEF PayRewards
<1>3. /\ task[w].seen \in SUBSET results[t]
      /\ \A r \in task[w].seen : \A p \in rewards[t] : p.deck # r.deck
    BY DEF PayRewards, OnceInv, Ready
<1>4. \A p, q \in paid : p.deck = q.deck => p = q
    <2>1. \A r, q \in task[w].seen : r.deck = q.deck => r = q
        BY <1>1, <1>3 DEF OnceInv, OneResultPerDeck
    <2> QED
        BY <2>1
<1>5. \A p \in paid : \A q \in rewards[t] : p.deck # q.deck
    BY <1>3
<1>6. RewardedOnce'
    <2> HIDE DEF paid
    <2>1. \A p, q \in rewards[t] : p.deck = q.deck => p = q
        BY <1>1 DEF OnceInv, RewardedOnce
    <2>2. \A p, q \in rewards'[t] : p.deck = q.deck => p = q
        BY <1>1, <1>2, <1>4, <1>5, <2>1
    <2>3. \A s \in Tournaments : s # t => rewards'[s] = rewards[s]
        BY <1>1, <1>2
    <2> QED
        BY <2>2, <2>3 DEF OnceInv, RewardedOnce
<1>7. task'[w].pc = "weights"
    <2>1. k.pc = "weights"
        BY TaskFields DEF TaskType
    <2>2. Becomes(w, k)
        BY DEF PayRewards
    <2> HIDE DEF k
    <2> QED
        BY <2>1, <2>2, TaskUpdate
<1>8. Ready(w)'
    BY <1>7 DEF Ready
<1> QED
    BY <1>2, <1>6, <1>8 DEF OnceInv, OneResultPerDeck, OneTask

LEMMA OnceNext == OneTask /\ TypeInv /\ OnceInv /\ [Next]_vars => OnceInv'
<1> SUFFICES ASSUME OneTask, TypeInv, OnceInv, [Next]_vars PROVE OnceInv'
    OBVIOUS
<1>1. ASSUME NEW w \in Tasks, Work(w) \/ Fault(w) \/ LifecycleBegin(w) \/ PriceBegin(w)
      PROVE  OnceInv'
    <2>1. CASE CalcMatch(w) \/ RewardRead(w)
        BY <2>1, OnceReads
    <2>2. CASE CalcWrite(w)
        BY <2>2, OnceWrite
    <2>3. CASE PayRewards(w)
        BY <2>3, OncePay
    <2>4. CASE ~ (CalcMatch(w) \/ RewardRead(w) \/ CalcWrite(w) \/ PayRewards(w))
        <3>1. UNCHANGED <<results, rewards>>
            BY <1>1, <2>4, OtherSteps
        <3>2. PICK k : Becomes(w, k) /\ k.pc \notin {"write", "pay"}
            BY <1>1, <2>4, OtherSteps
        <3>3. task'[w].pc \notin {"write", "pay"}
            BY <3>2, TaskUpdate
        <3>4. Ready(w)'
            BY <3>3 DEF Ready
        <3> QED
            BY <3>1, <3>4, OnceKept DEF OneTask
    <2> QED
        BY <2>1, <2>2, <2>3, <2>4
<1>2. CASE UNCHANGED <<results, rewards, task>>
    <2>1. \A w \in Tasks : Ready(w)'
        BY <1>2 DEF OnceInv, Ready
    <2> QED
        BY <1>2, <2>1, OnceKept
<1>3. ASSUME NEW t \in Tournaments, DatePasses(t) PROVE OnceInv'
    BY <1>2, <1>3 DEF DatePasses, tables
<1>4. ASSUME NEW a \in Admins, Admin(a) PROVE OnceInv'
    BY <1>2, <1>4 DEF Admin, PutRead, PutWrite, SnapshotByHand, tables
<1>5. CASE UNCHANGED vars
    BY <1>2, <1>5 DEF vars, tables
<1> QED
    BY <1>1, <1>3, <1>4, <1>5 DEF Next

LEMMA OnceAlways == OneTask /\ Spec => []OnceInv
<1> SUFFICES ASSUME OneTask PROVE Spec => []OnceInv
    BY DEF OneTask
<1>1. TypeInv /\ OnceInv /\ [Next]_vars => (TypeInv /\ OnceInv)'
    BY TypeNext, OnceNext
<1>2. Init => TypeInv /\ OnceInv
    BY InitType, OnceInit
<1> QED
    BY <1>1, <1>2, PTL DEF Spec

\* Jobs that run one at a time never reward a deck twice, through retries of
\* finish_tournament, leaderboards before and after the end, failures, crashes
\* and whatever status an administrator sets.
THEOREM RewardsOnce == OneTask /\ Spec => []RewardedOnce
BY OnceAlways, PTL DEF OnceInv

----------------------------------------------------------------------------
(* One task, no PUT.                                                       *)

Serial == OneTask /\ Admins = {}

InCalc == {"calc", "prizes", "save", "rank", "match", "write"}
AfterCalcRead == InCalc \ {"calc"}

\* Every result with a prize has its reward.
Settled(t) ==
    \A r \in results[t] : r.share > 0 => \E p \in rewards[t] : p.deck = r.deck /\ p.by = r.by

Ledger(w) ==
    LET k == task[w]
        t == task[w].t
    IN  /\ k.pc \in {"score", "store"} \union InCalc /\ ~ k.fin => status[t] = "ongoing"
        /\ k.pc \in AfterCalcRead => k.asof = batch[t]
        /\ k.pc \in {"prizes", "save"} => Pool
        /\ k.pc = "save" => k.doomed = configs[t]
        /\ k.pc = "rank" => Cardinality(configs[t]) <= 1
        /\ k.pc \in {"match", "write"} => k.share <= 1
        /\ k.pc \in {"reward", "pay"} => \A r \in results[t] : r.asof = batch[t] /\ r.share <= 1
        /\ k.pc = "reward" /\ k.dirty => results[t] = {}
        /\ k.pc = "pay" => /\ ~ k.dirty
                           /\ k.seen = {r \in results[t] : r.share > 0 /\
                                         ~ \E p \in rewards[t] : p.deck = r.deck /\ p.by = r.by}
        /\ k.pc \in InCalc \union {"reward", "pay", "weights"} => t \notin weighted
        /\ k.pc = "weights" => Settled(t)

ExactInv ==
    /\ \A w \in Tasks : Ledger(w)
    /\ \A t \in Tournaments : \A r \in results[t] : r.deck \in Entrants[t]
    /\ ~ Pool => \A t \in Tournaments : configs[t] = {}
    /\ RewardsExact
    /\ WeightsAfterRewards
\* A commit can only finish a tournament that is on.
FinishedBy(w) ==
    /\ status[task[w].t] = "ongoing"
    /\ status' = [status EXCEPT ![task[w].t] = "finished"]

LEMMA FlushForward ==
    ASSUME TypeInv, PhaseInv, NEW w \in Tasks, FlushStatus(w)
    PROVE  \/ ~ task[w].dirty /\ status' = status
           \/ task[w].dirty /\ FinishedBy(w)
BY DEF FlushStatus, PhaseInv, Shape, Held, FinishedBy

LEMMA FlushKeepsFinished ==
    ASSUME TypeInv, PhaseInv, NEW w \in Tasks, FlushStatus(w), NEW t \in Tournaments,
           status[t] = "finished"
    PROVE  status'[t] = "finished"
<1>1. status \in [Tournaments -> Statuses]
    BY DEF TypeInv, TypeOK
<1> QED
    BY <1>1, FlushForward DEF FinishedBy

LEMMA ExactInit == Init => ExactInv
BY DEF Init, Idle, ExactInv, Ledger, InCalc, AfterCalcRead, RewardsExact, WeightsAfterRewards

\* Where a task holds nothing that could become wrong.
Away == Elsewhere \union {"snapshot", "ongoing", "commit"}

LEMMA AwayLedger ==
    ASSUME NEW w \in Tasks, task'[w].pc \in Away
    PROVE  Ledger(w)'
BY DEF Away, Elsewhere, Ledger, InCalc, AfterCalcRead

\* A step that writes neither results, rewards, prize tables nor weights.
LEMMA ExactFrame ==
    ASSUME Serial, ExactInv, NEW w \in Tasks, Ledger(w)', weighted \in SUBSET Tournaments,
           UNCHANGED <<configs, results, rewards, weighted>>,
           \A t \in Tournaments : rewards[t] # {} => batch'[t] = batch[t],
           \A t \in weighted : status'[t] = "finished"
    PROVE  ExactInv'
<1>1. \A v \in Tasks : Ledger(v)'
    BY DEF Serial, OneTask
<1>2. RewardsExact'
    BY DEF ExactInv, RewardsExact
<1>3. WeightsAfterRewards'
    BY DEF ExactInv, WeightsAfterRewards
<1> QED
    BY <1>1, <1>2, <1>3 DEF ExactInv

\* ... and no status or score either.
LEMMA ExactQuiet ==
    ASSUME Serial, TypeInv, ExactInv, NEW w \in Tasks, Ledger(w)',
           UNCHANGED <<status, batch, configs, results, rewards, weighted>>
    PROVE  ExactInv'
<1>1. weighted \in SUBSET Tournaments
    BY DEF TypeInv, TypeOK
<1>2. \A t \in weighted : status'[t] = "finished"
    BY DEF ExactInv, WeightsAfterRewards
<1> QED
    BY <1>1, <1>2, ExactFrame

\* Steps outside the calculation.
LEMMA ExactOutside ==
    ASSUME Serial, TypeInv, PhaseInv, ExactInv, NEW w \in Tasks,
           \/ LifecycleBegin(w) \/ StartRead(w) \/ Snapshot(w) \/ StartCommit(w) \/ StartFails(w)
           \/ FinishSelect(w) \/ WorkFails(w) \/ ScoreFails(w) \/ CheckFails(w) \/ Crash(w) \/ Cleanup(w)
           \/ LifecycleEnd(w) \/ FinishCommit(w)
           \/ \E u \in Users : GrantOne(w, u) \/ GrantFails(w, u)
    PROVE  ExactInv'
<1>t. task[w] \in TaskType /\ Idle.pc = "idle" /\ Leave(w).pc \in {"idle", "finishing"}
    BY TaskFields DEF Leave, Idle
<1>1. CASE LifecycleBegin(w)
    <2> DEFINE k == [task[w] EXCEPT !.pc = "starting",
                        !.due = {t \in Tournaments : status[t] = "registration" /\ dates[t] >= 2}]
    <2>1. k.pc = "starting"
        BY <1>t DEF TaskType
    <2>2. Becomes(w, k) /\ UNCHANGED <<status, batch, configs, results, rewards, weighted>>
        BY <1>1 DEF LifecycleBegin, tables
    <2> HIDE DEF k
    <2>3. Ledger(w)'
        BY <2>1, <2>2, TaskUpdate, AwayLedger DEF Away, Elsewhere
    <2> QED
        BY <2>2, <2>3, ExactQuiet
<1>2. CASE StartRead(w)
    <2>1. PICK t \in task[w].due :
            IF status[t] = "registration"
              THEN Becomes(w, [task[w] EXCEPT !.pc = "snapshot", !.t = t, !.due = @ \ {t}])
              ELSE Becomes(w, [task[w] EXCEPT !.due = @ \ {t}])
        BY <1>2 DEF StartRead, StartExpecting
    <2> DEFINE k == [task[w] EXCEPT !.pc = "snapshot", !.t = t, !.due = @ \ {t}]
               l == [task[w] EXCEPT !.due = @ \ {t}]
    <2>2. k.pc = "snapshot" /\ l.pc = "starting"
        BY <1>2, <1>t DEF TaskType, StartRead, StartExpecting
    <2>3. Becomes(w, k) \/ Becomes(w, l)
        BY <2>1
    <2>4. UNCHANGED <<status, batch, configs, results, rewards, weighted>>
        BY <1>2 DEF StartRead, StartExpecting, tables
    <2> HIDE DEF k, l
    <2>5. Ledger(w)'
        BY <2>2, <2>3, TaskUpdate, AwayLedger DEF Away, Elsewhere
    <2> QED
        BY <2>4, <2>5, ExactQuiet
<1>3. CASE Snapshot(w)
    <2> DEFINE k == [task[w] EXCEPT !.pc = "ongoing"]
    <2>1. k.pc = "ongoing"
        BY <1>t DEF TaskType
    <2>2. Becomes(w, k) /\ UNCHANGED <<status, batch, configs, results, rewards, weighted>>
        BY <1>3 DEF Snapshot
    <2> HIDE DEF k
    <2>3. Ledger(w)'
        BY <2>1, <2>2, TaskUpdate, AwayLedger DEF Away
    <2> QED
        BY <2>2, <2>3, ExactQuiet
<1>4. CASE StartCommit(w)
    <2> DEFINE k == [task[w] EXCEPT !.pc = "starting", !.t = None]
    <2>1. k.pc = "starting"
        BY <1>t DEF TaskType
    <2>2. Becomes(w, k) /\ UNCHANGED <<batch, configs, results, rewards, weighted>>
          /\ status' = [status EXCEPT ![task[w].t] = "ongoing"] /\ task[w].pc = "ongoing"
        BY <1>4 DEF StartCommit, StartSet, tables
    <2> HIDE DEF k
    <2>3. Ledger(w)'
        BY <2>1, <2>2, TaskUpdate, AwayLedger DEF Away, Elsewhere
    <2>4. status[task[w].t] = "registration" /\ status \in [Tournaments -> Statuses]
          /\ weighted \in SUBSET Tournaments
        BY <2>2 DEF PhaseInv, Held, TypeInv, TypeOK
    <2>5. \A t \in weighted : status'[t] = "finished"
        BY <2>2, <2>4 DEF ExactInv, WeightsAfterRewards
    <2> QED
        BY <2>2, <2>3, <2>4, <2>5, ExactFrame
<1>5. CASE StartFails(w)
    <2> DEFINE k == [task[w] EXCEPT !.pc = "starting", !.t = None]
    <2>1. k.pc = "starting"
        BY <1>t DEF TaskType
    <2>2. Becomes(w, k) /\ UNCHANGED <<status, batch, configs, results, rewards, weighted>>
        BY <1>5 DEF StartFails, tables
    <2> HIDE DEF k
    <2>3. Ledger(w)'
        BY <2>1, <2>2, TaskUpdate, AwayLedger DEF Away, Elsewhere
    <2> QED
        BY <2>2, <2>3, ExactQuiet
<1>6. CASE FinishSelect(w)
    <2> DEFINE due == {t \in Tournaments : status[t] = "ongoing" /\ dates[t] = 3}
               l == [Idle EXCEPT !.pc = "finishing", !.due = due]
    <2>1. l.pc = "finishing"
        BY DEF Idle
    <2>2. Becomes(w, IF due = {} THEN Idle ELSE l)
        BY <1>6 DEF FinishSelect, FinishDue
    <2>3. UNCHANGED <<status, batch, configs, results, rewards, weighted>>
        BY <1>6 DEF FinishSelect, FinishDue, tables
    <2> HIDE DEF due, l
    <2>4. Ledger(w)'
        BY <1>t, <2>1, <2>2, TaskUpdate, AwayLedger DEF Away, Elsewhere
    <2> QED
        BY <2>3, <2>4, ExactQuiet
<1>7. CASE WorkFails(w)
    <2>1. Becomes(w, Leave(w)) /\ UNCHANGED <<status, batch, configs, results, rewards, weighted>>
        BY <1>7 DEF WorkFails, tables
    <2>2. Ledger(w)'
        BY <1>t, <2>1, TaskUpdate, AwayLedger DEF Away, Elsewhere
    <2> QED
        BY <2>1, <2>2, ExactQuiet
<1>8. CASE ScoreFails(w) \/ CheckFails(w) \/ Crash(w) \/ LifecycleEnd(w)
    <2>1. Becomes(w, Idle) /\ UNCHANGED <<status, batch, configs, results, rewards, weighted>>
        BY <1>8 DEF ScoreFails, CheckFails, Crash, LifecycleEnd, tables
    <2>2. Ledger(w)'
        BY <1>t, <2>1, TaskUpdate, AwayLedger DEF Away, Elsewhere
    <2> QED
        BY <2>1, <2>2, ExactQuiet
<1>9. CASE Cleanup(w)
    <2> DEFINE k == [Idle EXCEPT !.pc = "grant", !.todo = Users]
    <2>1. k.pc = "grant"
        BY DEF Idle
    <2>2. Becomes(w, k) /\ UNCHANGED <<status, batch, configs, results, rewards, weighted>>
        BY <1>9 DEF Cleanup, tables
    <2> HIDE DEF k
    <2>3. Ledger(w)'
        BY <2>1, <2>2, TaskUpdate, AwayLedger DEF Away, Elsewhere
    <2> QED
        BY <2>2, <2>3, ExactQuiet
<1>10. CASE FinishCommit(w)
    <2>1. Becomes(w, Leave(w)) /\ UNCHANGED <<batch, configs, results, rewards, weighted>> /\ FlushStatus(w)
        BY <1>10 DEF FinishCommit, tables
    <2>2. Ledger(w)'
        BY <1>t, <2>1, TaskUpdate, AwayLedger DEF Away, Elsewhere
    <2>3. weighted \in SUBSET Tournaments
        BY DEF TypeInv, TypeOK
    <2>4. \A t \in weighted : status'[t] = "finished"
        BY <2>1, <2>3, FlushKeepsFinished DEF ExactInv, WeightsAfterRewards
    <2> QED
        BY <2>1, <2>2, <2>3, <2>4, ExactFrame
<1>11. CASE \E u \in Users : GrantOne(w, u) \/ GrantFails(w, u)
    <2>1. PICK u \in Users : GrantOne(w, u) \/ GrantFails(w, u)
        BY <1>11
    <2> DEFINE k == [task[w] EXCEPT !.todo = @ \ {u}]
    <2>2. k.pc = "grant"
        BY <1>t, <2>1 DEF GrantOne, GrantFails, TaskType
    <2>3. Becomes(w, k) /\ UNCHANGED <<status, batch, configs, results, rewards, weighted>>
        BY <2>1 DEF GrantOne, GrantFails, tables
    <2> HIDE DEF k
    <2>4. Ledger(w)'
        BY <2>2, <2>3, TaskUpdate, AwayLedger DEF Away, Elsewhere
    <2> QED
        BY <2>3, <2>4, ExactQuiet
<1> QED
    BY <1>1, <1>2, <1>3, <1>4, <1>5, <1>6, <1>7, <1>8, <1>9, <1>10, <1>11
\* A tournament that is on has no weights yet.
LEMMA OngoingUnweighted ==
    ASSUME ExactInv, NEW t, status[t] = "ongoing"
    PROVE  t \notin weighted
BY DEF ExactInv, WeightsAfterRewards

\* Steps that lead to the calculation.
LEMMA ExactToCalc ==
    ASSUME Serial, TypeInv, PhaseInv, ExactInv, NEW w \in Tasks,
           FinishRead(w) \/ PriceBegin(w) \/ ScoreStamp(w) \/ ScoreStore(w)
    PROVE  ExactInv'
<1>t. task[w] \in TaskType /\ weighted \in SUBSET Tournaments /\ Shape(w, task[w])
    BY TaskFields DEF TypeInv, TypeOK, PhaseInv
<1>1. CASE FinishRead(w)
    <2>1. PICK t \in task[w].due :
            IF status[t] = "ongoing"
              THEN Becomes(w, [task[w] EXCEPT !.pc = "calc", !.t = t, !.due = @ \ {t},
                                              !.fin = TRUE, !.dirty = TRUE])
              ELSE Becomes(w, [task[w] EXCEPT !.due = @ \ {t}])
        BY <1>1 DEF FinishRead, FinishAssign
    <2> DEFINE k == [task[w] EXCEPT !.pc = "calc", !.t = t, !.due = @ \ {t}, !.fin = TRUE, !.dirty = TRUE]
               l == [task[w] EXCEPT !.due = @ \ {t}]
    <2>2. k.pc = "calc" /\ k.fin /\ k.t = t /\ l.pc = "finishing"
        BY <1>1, <1>t DEF TaskType, FinishRead, FinishAssign
    <2>3. (Becomes(w, k) /\ status[t] = "ongoing") \/ Becomes(w, l)
        BY <2>1
    <2>4. UNCHANGED <<status, batch, configs, results, rewards, weighted>>
        BY <1>1 DEF FinishRead, FinishAssign, tables
    <2> HIDE DEF k, l
    <2>5. CASE Becomes(w, k) /\ status[t] = "ongoing"
        <3>1. task'[w] = k
            BY <2>5, TaskUpdate
        <3>2. Ledger(w)'
            BY <2>2, <2>4, <2>5, <3>1, OngoingUnweighted DEF Ledger, InCalc, AfterCalcRead
        <3> QED
            BY <2>4, <3>2, ExactQuiet
    <2>6. CASE Becomes(w, l)
        <3>1. Ledger(w)'
            BY <2>2, <2>6, TaskUpdate, AwayLedger DEF Away, Elsewhere
        <3> QED
            BY <2>4, <3>1, ExactQuiet
    <2> QED
        BY <2>3, <2>5, <2>6
<1>2. CASE PriceBegin(w)
    <2>1. PICK t \in Tournaments : /\ {s \in Tournaments : status[s] = "ongoing"} = {t}
                                   /\ Becomes(w, [task[w] EXCEPT !.t = t, !.pc = "score"])
        BY <1>2 DEF PriceBegin
    <2> DEFINE k == [task[w] EXCEPT !.t = t, !.pc = "score"]
    <2>2. k.pc = "score" /\ k.t = t /\ status[t] = "ongoing"
        BY <1>t, <2>1 DEF TaskType
    <2>3. Becomes(w, k) /\ UNCHANGED <<status, batch, configs, results, rewards, weighted>>
        BY <1>2, <2>1 DEF PriceBegin, tables
    <2> HIDE DEF k
    <2>4. Ledger(w)'
        BY <2>2, <2>3, TaskUpdate DEF Ledger, InCalc, AfterCalcRead
    <2> QED
        BY <2>3, <2>4, ExactQuiet
<1>3. CASE ScoreStamp(w)
    <2> DEFINE k == [task[w] EXCEPT !.pc =
                       IF snapshots[task[w].t] > 0 /\ dates[task[w].t] < 3 THEN "store" ELSE "calc"]
    <2>1. k.pc \in {"store", "calc"} /\ k.t = task[w].t /\ k.fin = task[w].fin
        BY <1>t DEF TaskType
    <2>2. /\ Becomes(w, k) /\ UNCHANGED <<status, batch, configs, results, rewards, weighted>>
          /\ task[w].pc = "score"
        BY <1>3 DEF ScoreStamp, tables
    <2>3. status[task[w].t] = "ongoing"
        BY <1>t, <2>2 DEF ExactInv, Ledger, Shape
    <2> HIDE DEF k
    <2>4. Ledger(w)'
        BY <2>1, <2>2, <2>3, TaskUpdate, OngoingUnweighted DEF Ledger, InCalc, AfterCalcRead
    <2> QED
        BY <2>2, <2>4, ExactQuiet
<1>4. CASE ScoreStore(w)
    <2> DEFINE k == [task[w] EXCEPT !.pc = "calc"]
    <2>1. k.pc = "calc" /\ k.t = task[w].t /\ k.fin = task[w].fin
        BY <1>t DEF TaskType
    <2>2. /\ Becomes(w, k) /\ UNCHANGED <<status, configs, results, rewards, weighted>>
          /\ task[w].pc = "store" /\ batch' = [batch EXCEPT ![task[w].t] = @ + 1]
        BY <1>4 DEF ScoreStore
    <2>3. status[task[w].t] = "ongoing"
        BY <1>t, <2>2 DEF ExactInv, Ledger, Shape
    <2> HIDE DEF k
    <2>4. Ledger(w)'
        BY <2>1, <2>2, <2>3, TaskUpdate, OngoingUnweighted DEF Ledger, InCalc, AfterCalcRead
    <2>5. \A t \in Tournaments : rewards[t] # {} => batch'[t] = batch[t]
        <3>1. \A t \in Tournaments : rewards[t] # {} => status[t] = "finished"
            BY DEF PhaseInv, RewardsOnlyFinished
        <3>2. batch \in [Tournaments -> Nat]
            BY DEF TypeInv, TypeOK
        <3> QED
            BY <2>2, <2>3, <3>1, <3>2
    <2>6. \A t \in weighted : status'[t] = "finished"
        BY <2>2 DEF ExactInv, WeightsAfterRewards
    <2> QED
        BY <1>t, <2>2, <2>4, <2>5, <2>6, ExactFrame
<1> QED
    BY <1>1, <1>2, <1>3, <1>4

\* The calculation, read by read.
LEMMA ExactCalcReads ==
    ASSUME Serial, TypeInv, PhaseInv, ExactInv, NEW w \in Tasks,
           CalcRead(w) \/ CalcDelete(w) \/ CalcRank(w) \/ CalcMatch(w)
    PROVE  ExactInv'
<1> DEFINE t == task[w].t
<1>t. task[w] \in TaskType /\ Ledger(w) /\ Idle.pc = "idle" /\ Leave(w).pc \in {"idle", "finishing"}
    BY TaskFields DEF ExactInv, Leave, Idle
<1>s. t \in Tournaments
    BY TaskFields DEF CalcRead, CalcDelete, DeletePrizes, CalcRank, CalcMatch, Elsewhere
<1>u. UNCHANGED <<status, batch, configs, results, rewards, weighted>>
    BY DEF CalcRead, CalcDelete, DeletePrizes, CalcRank, CalcMatch, tables
<1>1. CASE CalcRead(w)
    <2> DEFINE k == [task[w] EXCEPT !.asof = batch[t], !.pc = IF Pool THEN "prizes" ELSE "rank"]
               l == [task[w] EXCEPT !.pc = "reward"]
    <2>1. CASE Entrants[t] = {}
        <3>1. l.pc = "reward" /\ l.t = t
            BY <1>t DEF TaskType
        <3>2. Becomes(w, l) \/ Becomes(w, Idle)
            BY <1>1, <2>1 DEF CalcRead
        <3>3. task'[w] = l \/ task'[w] = Idle
            <4> HIDE DEF l
            <4> QED
                BY <3>2, TaskUpdate
        <3>4. results[t] = {}
            BY <1>s, <2>1 DEF ExactInv
        <3>5. t \notin weighted
            BY <1>1, <1>t DEF CalcRead, Ledger, InCalc
        <3> HIDE DEF l
        <3>6. Ledger(w)'
            BY <1>t, <1>u, <3>1, <3>3, <3>4, <3>5 DEF Ledger, InCalc, AfterCalcRead
        <3> QED
            BY <1>u, <3>6, ExactQuiet
    <2>2. CASE Entrants[t] # {}
        <3>1. /\ k.pc = IF Pool THEN "prizes" ELSE "rank"
              /\ k.t = t /\ k.fin = task[w].fin /\ k.asof = batch[t]
            BY <1>t DEF TaskType
        <3>2. Becomes(w, k)
            BY <1>1, <2>2 DEF CalcRead
        <3> HIDE DEF k
        <3>3. task'[w] = k
            BY <3>2, TaskUpdate
        <3>4. ~ Pool => Cardinality(configs[t]) <= 1
            <4>1. ~ Pool => configs[t] = {}
                BY <1>s DEF ExactInv
            <4>2. Cardinality({}) <= 1
                BY FS_EmptySet
            <4> QED
                BY <4>1, <4>2
        <3>5. t \notin weighted /\ (~ task[w].fin => status[t] = "ongoing")
            BY <1>1, <1>t DEF CalcRead, Ledger, InCalc
        <3>6. Ledger(w)'
            BY <1>u, <3>1, <3>3, <3>4, <3>5 DEF Ledger, InCalc, AfterCalcRead
        <3> QED
            BY <1>u, <3>6, ExactQuiet
    <2> QED
        BY <2>1, <2>2
<1>2. CASE CalcDelete(w)
    <2> DEFINE k == [task[w] EXCEPT !.doomed = configs[t], !.pc = "save"]
    <2>1. k.pc = "save" /\ k.t = t /\ k.fin = task[w].fin /\ k.asof = task[w].asof /\ k.doomed = configs[t]
        BY <1>t DEF TaskType
    <2>2. Becomes(w, k) /\ task[w].pc = "prizes"
        BY <1>2 DEF CalcDelete, DeletePrizes
    <2> HIDE DEF k
    <2>3. task'[w] = k
        BY <2>2, TaskUpdate
    <2>4. Ledger(w)'
        BY <1>t, <1>u, <2>1, <2>2, <2>3 DEF Ledger, InCalc, AfterCalcRead
    <2> QED
        BY <1>u, <2>4, ExactQuiet
<1>3. CASE CalcRank(w)
    <2> DEFINE k == [task[w] EXCEPT !.share = Cardinality(configs[t]), !.pc = "match"]
    <2>1. /\ k.pc = "match" /\ k.t = t /\ k.fin = task[w].fin /\ k.asof = task[w].asof
          /\ k.share = Cardinality(configs[t])
        BY <1>t DEF TaskType
    <2>2. Becomes(w, k) /\ task[w].pc = "rank"
        BY <1>3 DEF CalcRank
    <2> HIDE DEF k
    <2>3. task'[w] = k
        BY <2>2, TaskUpdate
    <2>4. Ledger(w)'
        BY <1>t, <1>u, <2>1, <2>2, <2>3 DEF Ledger, InCalc, AfterCalcRead
    <2> QED
        BY <1>u, <2>4, ExactQuiet
<1>4. CASE CalcMatch(w)
    <2> DEFINE rows == {r \in results[t] : r.deck \in Entrants[t]}
               k == [task[w] EXCEPT !.seen = rows, !.pc = "write"]
    <2>1. /\ k.pc = "write" /\ k.t = t /\ k.fin = task[w].fin /\ k.asof = task[w].asof
          /\ k.share = task[w].share
        BY <1>t DEF TaskType
    <2>2. (Becomes(w, k) \/ Becomes(w, Leave(w))) /\ task[w].pc = "match"
        BY <1>4 DEF CalcMatch
    <2> HIDE DEF k
    <2>3. CASE Becomes(w, k)
        <3>1. task'[w] = k
            BY <2>3, TaskUpdate
        <3>2. Ledger(w)'
            BY <1>t, <1>u, <2>1, <2>2, <3>1 DEF Ledger, InCalc, AfterCalcRead
        <3> QED
            BY <1>u, <3>2, ExactQuiet
    <2>4. CASE Becomes(w, Leave(w))
        <3>1. Ledger(w)'
            BY <1>t, <2>4, TaskUpdate, AwayLedger DEF Away, Elsewhere
        <3> QED
            BY <1>u, <3>1, ExactQuiet
    <2> QED
        BY <2>2, <2>3, <2>4
<1> QED
    BY <1>1, <1>2, <1>3, <1>4
\* With one task the old prize table is deleted whole: one copy is left.
LEMMA ExactSave ==
    ASSUME Serial, TypeInv, PhaseInv, ExactInv, NEW w \in Tasks, CalcSave(w)
    PROVE  ExactInv'
<1> DEFINE t == task[w].t
           new == CHOOSE n \in Tables \ UsedTables(t) : TRUE
           k == [task[w] EXCEPT !.pc = "rank", !.dirty = FALSE, !.doomed = {}]
<1>t. /\ task[w] \in TaskType /\ Ledger(w) /\ Shape(w, task[w]) /\ task[w].pc = "save"
      /\ t \in Tournaments /\ weighted \in SUBSET Tournaments
      /\ configs \in [Tournaments -> SUBSET Tables]
    BY TaskFields DEF CalcSave, ExactInv, PhaseInv, Elsewhere, TypeInv, TypeOK
<1>1. k.pc = "rank" /\ k.t = t /\ k.fin = task[w].fin /\ k.asof = task[w].asof
    BY <1>t DEF TaskType
<1>2. /\ Becomes(w, k) /\ FlushStatus(w)
      /\ UNCHANGED <<dates, snapshots, batch, results, rewards, weighted, packs, puts, crashes, faults>>
      /\ configs' = [configs EXCEPT ![t] = (@ \ task[w].doomed) \union {new}]
    BY DEF CalcSave
<1>3. task[w].doomed = configs[t] /\ Pool /\ task[w].asof = batch[t] /\ t \notin weighted
    BY <1>t DEF Ledger, AfterCalcRead, InCalc
<1>4. Cardinality(configs'[t]) <= 1
    <2>1. configs'[t] = {new}
        <3> HIDE DEF new
        <3> QED
            BY <1>t, <1>2, <1>3
    <2>2. Cardinality({new}) = 1
        BY FS_Singleton
    <2> HIDE DEF new
    <2> QED
        BY <2>1, <2>2
<1>5. ~ task[w].fin => status[t] = "ongoing" /\ status' = status
    BY <1>t, <1>2 DEF Ledger, InCalc, Shape, FlushStatus
<1> HIDE DEF k
<1>6. task'[w] = k
    BY <1>2, TaskUpdate
<1>7. Ledger(w)'
    BY <1>1, <1>2, <1>3, <1>4, <1>5, <1>6 DEF Ledger, InCalc, AfterCalcRead
<1>8. \A v \in Tasks : Ledger(v)'
    BY <1>7 DEF Serial, OneTask
<1>9. RewardsExact'
    BY <1>2 DEF ExactInv, RewardsExact
<1>10. WeightsAfterRewards'
    <2>1. \A s \in weighted : status'[s] = "finished"
        BY <1>t, <1>2, FlushKeepsFinished DEF ExactInv, WeightsAfterRewards
    <2> QED
        BY <1>2, <2>1 DEF ExactInv, WeightsAfterRewards
<1> QED
    BY <1>2, <1>3, <1>8, <1>9, <1>10 DEF ExactInv

\* Every result is written with the amount the task has computed.
LEMMA ExactWrite ==
    ASSUME Serial, TypeInv, PhaseInv, OnceInv, ExactInv, NEW w \in Tasks, CalcWrite(w)
    PROVE  ExactInv'
<1> DEFINE t == task[w].t
           rows == {Updated(w, r) : r \in results[t]} \union Inserted(w)
           l == [task[w] EXCEPT !.pc = "reward", !.dirty = FALSE, !.seen = {}, !.asof = 0, !.share = 0]
<1>0. WriteResults(w, rows)
    BY DEF CalcWrite
<1>t. /\ task[w] \in TaskType /\ Ledger(w) /\ Ready(w) /\ task[w].pc = "write"
      /\ t \in Tournaments /\ weighted \in SUBSET Tournaments
      /\ results \in [Tournaments -> SUBSET Result] /\ results[t] \in SUBSET Result
    BY <1>0, TaskFields DEF WriteResults, ExactInv, OnceInv, Elsewhere, TypeInv, TypeOK
<1>1. /\ Becomes(w, IF task[w].fin THEN l ELSE Idle) /\ FlushStatus(w)
      /\ results' = [results EXCEPT ![t] = rows]
      /\ UNCHANGED <<batch, configs, rewards, weighted>>
    BY <1>0 DEF WriteResults
<1>2. /\ task[w].seen = {r \in results[t] : r.deck \in Entrants[t]}
      /\ task[w].asof = batch[t] /\ task[w].share <= 1 /\ t \notin weighted
    BY <1>t DEF Ready, Ledger, InCalc, AfterCalcRead
<1>3. \A r \in results[t] : r \in task[w].seen
    BY <1>t, <1>2 DEF ExactInv
<1>4. \A r \in rows : r.deck \in Entrants[t] /\ r.asof = batch[t] /\ r.share <= 1
    <2>1. ASSUME NEW r \in results[t]
          PROVE  /\ Updated(w, r).deck \in Entrants[t]
                 /\ Updated(w, r).asof = batch[t] /\ Updated(w, r).share <= 1
        <3> DEFINE new == [deck |-> r.deck, by |-> r.by, asof |-> task[w].asof, share |-> task[w].share]
        <3>1. r.deck \in Entrants[t] /\ r \in Result
            BY <1>t DEF ExactInv
        <3>2. Updated(w, r).deck = r.deck
            BY <3>1, UpdatedDeck
        <3>3. Updated(w, r) = new
            <4> DEFINE old == CHOOSE q \in task[w].seen : q.deck = r.deck /\ q.by = r.by
            <4>1. r \in task[w].seen
                BY <1>3
            <4>2. old \in task[w].seen /\ old.deck = r.deck
                BY <4>1
            <4>3. old = r
                BY <1>t, <1>2, <4>1, <4>2 DEF OnceInv, OneResultPerDeck
            <4>4. Updated(w, r) = IF new # old THEN new ELSE r
                BY <4>1 DEF Updated
            <4> HIDE DEF new, old
            <4> QED
                BY <4>3, <4>4
        <3>4. new.asof = task[w].asof /\ new.share = task[w].share
            OBVIOUS
        <3> HIDE DEF new
        <3> QED
            BY <1>2, <3>1, <3>2, <3>3, <3>4
    <2>2. \A r \in Inserted(w) : r.deck \in Entrants[t] /\ r.asof = batch[t] /\ r.share <= 1
        BY <1>2 DEF Inserted
    <2> QED
        BY <2>1, <2>2
<1>5. l.pc = "reward" /\ l.t = t /\ ~ l.dirty /\ Idle.pc = "idle"
    BY <1>t DEF TaskType, Idle
<1> HIDE DEF rows, l
<1>6. task'[w] = l \/ task'[w] = Idle
    BY <1>1, TaskUpdate
<1>7. results'[t] = rows /\ \A s \in Tournaments : s # t => results'[s] = results[s]
    BY <1>t, <1>1
<1>8. Ledger(w)'
    <2>1. CASE task'[w] = l
        BY <1>1, <1>2, <1>4, <1>5, <1>7, <2>1 DEF Ledger, InCalc, AfterCalcRead
    <2>2. CASE task'[w] = Idle
        BY <1>5, <2>2, AwayLedger DEF Away, Elsewhere
    <2> QED
        BY <1>6, <2>1, <2>2
<1>9. \A v \in Tasks : Ledger(v)'
    BY <1>8 DEF Serial, OneTask
<1>10. \A s \in Tournaments : \A r \in results'[s] : r.deck \in Entrants[s]
    BY <1>4, <1>7 DEF ExactInv
<1>11. RewardsExact'
    BY <1>1 DEF ExactInv, RewardsExact
<1>12. WeightsAfterRewards'
    <2> SUFFICES ASSUME NEW s \in weighted
                 PROVE  /\ status'[s] = "finished"
                        /\ \A r \in results'[s] : r.share > 0 =>
                              \E p \in rewards[s] : p.deck = r.deck /\ p.by = r.by
        BY <1>1 DEF WeightsAfterRewards
    <2>1. results'[s] = results[s]
        BY <1>t, <1>2, <1>7
    <2>2. status'[s] = "finished"
        BY <1>t, <1>1, FlushKeepsFinished DEF ExactInv, WeightsAfterRewards
    <2> QED
        BY <2>1, <2>2 DEF ExactInv, WeightsAfterRewards
<1> QED
    BY <1>1, <1>9, <1>10, <1>11, <1>12 DEF ExactInv

\* The rewards are those of the results just written, and pay for all of them.
LEMMA ExactReward ==
    ASSUME Serial, TypeInv, PhaseInv, ExactInv, NEW w \in Tasks, RewardRead(w)
    PROVE  ExactInv'
<1> DEFINE t == task[w].t
           unpaid == {r \in results[t] : r.share > 0 /\
                        ~ \E p \in rewards[t] : p.deck = r.deck /\ p.by = r.by}
           k == [task[w] EXCEPT !.pc = "pay", !.seen = unpaid]
           l == [task[w] EXCEPT !.pc = "weights"]
<1>t. task[w] \in TaskType /\ Ledger(w) /\ Shape(w, task[w]) /\ task[w].pc = "reward"
    BY TaskFields DEF RewardRead, ExactInv, PhaseInv
<1>u. UNCHANGED <<status, batch, configs, results, rewards, weighted>>
    BY DEF RewardRead, tables
<1>1. task[w].fin
    BY <1>t DEF Shape, InFinish
<1>2. CASE results[t] = {}
    <2>1. l.pc = "weights" /\ l.t = t /\ l.fin
        BY <1>t, <1>1 DEF TaskType
    <2>2. Becomes(w, l)
        BY <1>2 DEF RewardRead
    <2> HIDE DEF l
    <2>3. task'[w] = l
        BY <2>2, TaskUpdate
    <2>4. Ledger(w)'
        BY <1>t, <1>u, <1>2, <2>1, <2>3 DEF Ledger, InCalc, AfterCalcRead, Settled
    <2> QED
        BY <1>u, <2>4, ExactQuiet
<1>3. CASE results[t] # {}
    <2>1. k.pc = "pay" /\ k.t = t /\ k.fin /\ k.dirty = task[w].dirty /\ k.seen = unpaid
        BY <1>t, <1>1 DEF TaskType
    <2>2. Becomes(w, k)
        BY <1>3 DEF RewardRead
    <2>3. ~ task[w].dirty
        BY <1>t, <1>3 DEF Ledger
    <2> HIDE DEF k
    <2>4. task'[w] = k
        BY <2>2, TaskUpdate
    <2>5. Ledger(w)'
        BY <1>t, <1>u, <2>1, <2>3, <2>4 DEF Ledger, InCalc, AfterCalcRead
    <2> QED
        BY <1>u, <2>5, ExactQuiet
<1> QED
    BY <1>2, <1>3
LEMMA ExactPay ==
    ASSUME Serial, TypeInv, PhaseInv, ExactInv, NEW w \in Tasks, PayRewards(w)
    PROVE  ExactInv'
<1> DEFINE t == task[w].t
           paid == {[deck |-> r.deck, by |-> r.by, payer |-> w, asof |-> r.asof, share |-> r.share] :
                      r \in task[w].seen}
           k == [task[w] EXCEPT !.pc = "weights", !.dirty = FALSE, !.seen = {}]
<1>t. /\ task[w] \in TaskType /\ Ledger(w) /\ Shape(w, task[w]) /\ task[w].pc = "pay"
      /\ t \in Tournaments /\ weighted \in SUBSET Tournaments
      /\ rewards \in [Tournaments -> SUBSET Reward] /\ results[t] \in SUBSET Result
    BY TaskFields DEF PayRewards, ExactInv, PhaseInv, Elsewhere, TypeInv, TypeOK
<1>1. /\ Becomes(w, k) /\ FlushStatus(w) /\ UNCHANGED <<batch, configs, results, weighted>>
      /\ rewards' = [rewards EXCEPT ![t] = @ \union paid]
    BY DEF PayRewards
<1>2. /\ task[w].fin /\ ~ task[w].dirty /\ t \notin weighted
      /\ task[w].seen = {r \in results[t] : r.share > 0 /\
                            ~ \E p \in rewards[t] : p.deck = r.deck /\ p.by = r.by}
      /\ \A r \in results[t] : r.asof = batch[t] /\ r.share <= 1
    BY <1>t DEF Ledger, Shape, InFinish
<1>3. k.pc = "weights" /\ k.t = t /\ k.fin
    BY <1>t, <1>2 DEF TaskType
<1>4. status' = status
    BY <1>1, <1>2 DEF FlushStatus
<1>5. \A p \in paid : p.asof = batch[t] /\ p.share = 1
    <2> SUFFICES ASSUME NEW r \in task[w].seen PROVE r.asof = batch[t] /\ r.share = 1
        OBVIOUS
    <2>1. r \in results[t] /\ r.share > 0 /\ r.share <= 1 /\ r.share \in Nat
        BY <1>t, <1>2 DEF Result
    <2> QED
        BY <1>2, <2>1
<1>6. \A r \in results[t] : r.share > 0 =>
         \E p \in rewards[t] \union paid : p.deck = r.deck /\ p.by = r.by
    <2> SUFFICES ASSUME NEW r \in results[t], r.share > 0
                 PROVE  \E p \in rewards[t] \union paid : p.deck = r.deck /\ p.by = r.by
        OBVIOUS
    <2>1. CASE r \in task[w].seen
        <3> DEFINE p == [deck |-> r.deck, by |-> r.by, payer |-> w, asof |-> r.asof, share |-> r.share]
        <3>1. p \in paid /\ p.deck = r.deck /\ p.by = r.by
            BY <2>1
        <3> QED
            BY <3>1
    <2>2. CASE r \notin task[w].seen
        BY <1>2, <2>2
    <2> QED
        BY <2>1, <2>2
<1> HIDE DEF paid, k
<1>7. rewards'[t] = rewards[t] \union paid /\ \A s \in Tournaments : s # t => rewards'[s] = rewards[s]
    BY <1>t, <1>1
<1>8. task'[w] = k
    BY <1>1, TaskUpdate
<1>9. Ledger(w)'
    BY <1>1, <1>3, <1>6, <1>7, <1>8, <1>2 DEF Ledger, InCalc, AfterCalcRead, Settled
<1>10. \A v \in Tasks : Ledger(v)'
    BY <1>9 DEF Serial, OneTask
<1>11. RewardsExact'
    BY <1>1, <1>5, <1>7 DEF ExactInv, RewardsExact
<1>12. WeightsAfterRewards'
    <2> SUFFICES ASSUME NEW s \in weighted
                 PROVE  /\ status'[s] = "finished"
                        /\ \A r \in results'[s] : r.share > 0 =>
                              \E p \in rewards'[s] : p.deck = r.deck /\ p.by = r.by
        BY <1>1 DEF WeightsAfterRewards
    <2>1. results'[s] = results[s] /\ rewards'[s] = rewards[s]
        BY <1>t, <1>1, <1>2, <1>7
    <2> QED
        BY <1>4, <2>1 DEF ExactInv, WeightsAfterRewards
<1> QED
    BY <1>1, <1>10, <1>11, <1>12 DEF ExactInv

LEMMA ExactWeights ==
    ASSUME Serial, TypeInv, PhaseInv, ExactInv, NEW w \in Tasks, Weights(w)
    PROVE  ExactInv'
<1> DEFINE t == task[w].t
           k == [task[w] EXCEPT !.pc = "commit", !.dirty = @ /\ batch[t] = 0]
<1>t. /\ task[w] \in TaskType /\ Ledger(w) /\ Shape(w, task[w]) /\ task[w].pc = "weights"
      /\ Held(task[w], status, snapshots)
      /\ t \in Tournaments /\ weighted \in SUBSET Tournaments
      /\ status \in [Tournaments -> Statuses]
    BY TaskFields DEF Weights, ExactInv, PhaseInv, Elsewhere, TypeInv, TypeOK
<1>1. Becomes(w, k) /\ UNCHANGED <<batch, configs, results, rewards>>
    BY DEF Weights
<1>2. k.pc = "commit"
    BY <1>t DEF TaskType
<1> HIDE DEF k
<1>3. Ledger(w)'
    BY <1>1, <1>2, TaskUpdate, AwayLedger DEF Away
<1>4. CASE batch[t] = 0
    <2>1. UNCHANGED <<status, weighted>>
        BY <1>4 DEF Weights
    <2> QED
        BY <1>1, <1>3, <2>1, ExactQuiet
<1>5. CASE batch[t] # 0
    <2>1. weighted' = weighted \union {t} /\ FlushStatus(w)
        BY <1>5 DEF Weights
    <2>2. status'[t] = "finished"
        BY <1>t, <2>1 DEF FlushStatus, Held, Shape, InFinish
    <2>3. \A s \in weighted : status'[s] = "finished"
        BY <1>t, <2>1, FlushKeepsFinished DEF ExactInv, WeightsAfterRewards
    <2>4. Settled(t)
        BY <1>t DEF Ledger
    <2>5. WeightsAfterRewards'
        BY <1>1, <2>1, <2>2, <2>3, <2>4 DEF ExactInv, WeightsAfterRewards, Settled
    <2>6. \A v \in Tasks : Ledger(v)'
        BY <1>3 DEF Serial, OneTask
    <2> QED
        BY <1>1, <2>5, <2>6 DEF ExactInv, RewardsExact
<1> QED
    BY <1>4, <1>5

LEMMA ExactNext ==
    Serial /\ TypeInv /\ PhaseInv /\ OnceInv /\ ExactInv /\ [Next]_vars => ExactInv'
<1> SUFFICES ASSUME Serial, TypeInv, PhaseInv, OnceInv, ExactInv, [Next]_vars PROVE ExactInv'
    OBVIOUS
<1>1. ASSUME NEW w \in Tasks, Work(w) PROVE ExactInv'
    BY <1>1, ExactOutside, ExactToCalc, ExactCalcReads, ExactSave, ExactWrite, ExactReward,
       ExactPay, ExactWeights DEF Work, Calculate
<1>2. ASSUME NEW w \in Tasks, Fault(w) \/ LifecycleBegin(w) \/ PriceBegin(w) PROVE ExactInv'
    BY <1>2, ExactOutside, ExactToCalc DEF Fault, Fails
<1>3. CASE UNCHANGED <<status, batch, configs, results, rewards, weighted, task>>
    BY <1>3 DEF ExactInv, Ledger, Settled, RewardsExact, WeightsAfterRewards
<1>4. ASSUME NEW t \in Tournaments, DatePasses(t) PROVE ExactInv'
    BY <1>3, <1>4 DEF DatePasses, tables
<1>5. CASE UNCHANGED vars
    BY <1>3, <1>5 DEF vars
<1> QED
    BY <1>1, <1>2, <1>4, <1>5 DEF Next, Serial

SerialInv == TypeInv /\ PhaseInv /\ OnceInv /\ ExactInv

LEMMA SerialNext == Serial /\ SerialInv /\ [Next]_vars => SerialInv'
BY TypeNext, PhaseNext, OnceNext, ExactNext DEF Serial, SerialInv, Alone, OneTask, Tasks

LEMMA SerialAlways == Serial /\ Spec => []SerialInv
<1> SUFFICES ASSUME Serial PROVE Spec => []SerialInv
    BY DEF Serial, OneTask
<1>1. SerialInv /\ [Next]_vars => SerialInv'
    BY SerialNext
<1>2. Init => SerialInv
    BY InitType, PhaseInit, OnceInit, ExactInit DEF SerialInv
<1> QED
    BY <1>1, <1>2, PTL DEF Spec

\* With one task and no PUT, a deck is paid what the last prices before the end
\* and one prize table say, whatever fails and is tried again.
THEOREM RewardsAreExact == Serial /\ Spec => []RewardsExact
BY SerialAlways, PTL DEF SerialInv, ExactInv

\* ... and token weights only change when every result with a prize is rewarded.
THEOREM WeightsComeLast == Serial /\ Spec => []WeightsAfterRewards
BY SerialAlways, PTL DEF SerialInv, ExactInv
----------------------------------------------------------------------------
(* The jobs implement TournamentPhases.                                    *)

\* What a step can do to what the players see.
Starts == \E t \in Tournaments :
    status[t] = "registration" /\ status' = [status EXCEPT ![t] = "ongoing"] /\ UNCHANGED rewards
Finishes == \E t \in Tournaments :
    status[t] = "ongoing" /\ status' = [status EXCEPT ![t] = "finished"] /\ UNCHANGED rewards
Pays == \E t \in Tournaments :
    /\ status[t] = "finished" /\ UNCHANGED status
    /\ \E paid : rewards' = [rewards EXCEPT ![t] = @ \union paid]

LEMMA FlushKind ==
    ASSUME SerialInv, NEW w \in Tasks, FlushStatus(w), UNCHANGED rewards,
           task[w].pc \notin Elsewhere
    PROVE  UNCHANGED <<status, rewards>> \/ Finishes
<1>1. task[w].t \in Tournaments
    BY TaskFields DEF SerialInv
<1> QED
    BY <1>1, FlushForward DEF SerialInv, FinishedBy, Finishes

LEMMA StepKinds ==
    ASSUME Serial, SerialInv, [Next]_vars
    PROVE  UNCHANGED <<status, rewards>> \/ Starts \/ Finishes \/ Pays
<1>1. ASSUME NEW w \in Tasks, Work(w)
      PROVE  UNCHANGED <<status, rewards>> \/ Starts \/ Finishes \/ Pays
    <2>1. CASE StartCommit(w)
        <3> DEFINE t == task[w].t
        <3>1. status' = [status EXCEPT ![t] = "ongoing"] /\ UNCHANGED rewards /\ task[w].pc = "ongoing"
            BY <2>1 DEF StartCommit, StartSet, tables
        <3>2. t \in Tournaments /\ status[t] = "registration"
            BY <3>1, TaskFields DEF SerialInv, Elsewhere, PhaseInv, Held
        <3> QED
            BY <3>1, <3>2 DEF Starts
    <2>2. CASE CalcSave(w)
        BY <2>2, FlushKind DEF CalcSave, Elsewhere
    <2>3. CASE CalcWrite(w)
        BY <2>3, FlushKind DEF CalcWrite, WriteResults, Elsewhere
    <2>4. CASE FinishCommit(w)
        BY <2>4, FlushKind DEF FinishCommit, tables, Elsewhere
    <2>5. CASE Weights(w)
        <3>1. UNCHANGED rewards /\ (UNCHANGED status \/ FlushStatus(w)) /\ task[w].pc \notin Elsewhere
            BY <2>5 DEF Weights, Elsewhere
        <3> QED
            BY <3>1, FlushKind
    <2>6. CASE PayRewards(w)
        <3> DEFINE t == task[w].t
                   paid == {[deck |-> r.deck, by |-> r.by, payer |-> w, asof |-> r.asof, share |-> r.share] :
                              r \in task[w].seen}
        <3>1. FlushStatus(w) /\ rewards' = [rewards EXCEPT ![t] = @ \union paid] /\ task[w].pc = "pay"
            BY <2>6 DEF PayRewards
        <3>2. t \in Tournaments
            BY <3>1, TaskFields DEF SerialInv, Elsewhere
        <3>3. ~ task[w].dirty /\ task[w].fin /\ status[t] = "finished"
            BY <3>1 DEF SerialInv, ExactInv, Ledger, PhaseInv, Shape, Held, InFinish
        <3>4. status' = status
            BY <3>1, <3>3 DEF FlushStatus
        <3> HIDE DEF paid
        <3> QED
            BY <3>1, <3>2, <3>3, <3>4 DEF Pays
    <2>7. CASE \/ StartRead(w) \/ Snapshot(w) \/ FinishSelect(w) \/ FinishRead(w)
               \/ CalcRead(w) \/ CalcDelete(w) \/ CalcRank(w) \/ CalcMatch(w) \/ RewardRead(w)
               \/ Cleanup(w) \/ LifecycleEnd(w) \/ ScoreStamp(w) \/ ScoreStore(w)
        BY <2>7 DEF StartRead, StartExpecting, Snapshot, FinishSelect, FinishDue, FinishRead,
           FinishAssign, CalcRead, CalcDelete, DeletePrizes, CalcRank, CalcMatch, RewardRead,
           Cleanup, LifecycleEnd, ScoreStamp, ScoreStore, tables
    <2>8. CASE \E u \in Users : GrantOne(w, u)
        BY <2>8 DEF GrantOne
    <2> QED
        BY <1>1, <2>1, <2>2, <2>3, <2>4, <2>5, <2>6, <2>7, <2>8 DEF Work, Calculate
<1>2. ASSUME NEW w \in Tasks, Fault(w) \/ LifecycleBegin(w) \/ PriceBegin(w)
      PROVE  UNCHANGED <<status, rewards>>
    BY <1>2 DEF Fault, Fails, StartFails, WorkFails, ScoreFails, CheckFails, Crash, GrantFails, LifecycleBegin,
       PriceBegin, tables
<1>3. ASSUME NEW t \in Tournaments, DatePasses(t) PROVE UNCHANGED <<status, rewards>>
    BY <1>3 DEF DatePasses, tables
<1>4. CASE UNCHANGED vars
    BY <1>4 DEF vars, tables
<1> QED
    BY <1>1, <1>2, <1>3, <1>4 DEF Next, Serial

\* The amounts paid for a deck.
Amounts(t, d) == {<<p.asof, p.share>> : p \in {q \in rewards[t] : q.deck = d}}

LEMMA PayOnce ==
    ASSUME SerialInv, SerialInv', NEW t \in Tournaments, NEW d \in Decks,
           rewards[t] \subseteq rewards'[t], Amounts(t, d)' # Amounts(t, d)
    PROVE  Amounts(t, d) = {} /\ \E amount \in Amounts(t, d)' : Amounts(t, d)' = {amount}
<1>1. \A p, q \in rewards'[t] : p.deck = q.deck => p = q
    BY DEF SerialInv, OnceInv, RewardedOnce
<1>2. \A p \in rewards[t] : p.deck # d
    <2> SUFFICES ASSUME NEW p \in rewards[t], p.deck = d PROVE FALSE
        OBVIOUS
    <2>1. {q \in rewards[t] : q.deck = d} = {p}
        BY <1>1
    <2>2. {q \in rewards'[t] : q.deck = d} = {p}
        BY <1>1
    <2> QED
        BY <2>1, <2>2 DEF Amounts
<1>3. Amounts(t, d) = {}
    BY <1>2 DEF Amounts
<1>4. PICK p \in rewards'[t] : p.deck = d
    BY <1>3 DEF Amounts
<1>5. {q \in rewards'[t] : q.deck = d} = {p}
    BY <1>1, <1>4
<1>6. Amounts(t, d)' = {<<p.asof, p.share>>}
    BY <1>5 DEF Amounts
<1> QED
    BY <1>3, <1>6

LEMMA PhasesInit == Init => Phases!Init
<1> SUFFICES ASSUME Init PROVE Phases!Init
    OBVIOUS
<1>1. \A t \in Tournaments : rewards[t] = {}
    BY DEF Init
<1>2. \A t \in Tournaments, d \in Decks : {<<p.asof, p.share>> : p \in {q \in rewards[t] : q.deck = d}} = {}
    BY <1>1
<1> QED
    BY <1>2 DEF Init, Phases!Init

LEMMA PhasesStep ==
    ASSUME Serial, SerialInv, SerialInv', [Next]_vars
    PROVE  [Phases!Next]_<<status, [t \in Tournaments |-> [d \in Decks |->
               {<<p.asof, p.share>> : p \in {q \in rewards[t] : q.deck = d}}]]>>
<1> DEFINE paid == [t \in Tournaments |-> [d \in Decks |->
               {<<p.asof, p.share>> : p \in {q \in rewards[t] : q.deck = d}}]]
<1>1. CASE UNCHANGED <<status, rewards>>
    BY <1>1
<1>2. CASE Starts
    BY <1>2 DEF Starts, Phases!Next, Phases!Start
<1>3. CASE Finishes
    BY <1>3 DEF Finishes, Phases!Next, Phases!Finish
<1>4. CASE Pays
    <2>1. PICK t \in Tournaments : /\ status[t] = "finished" /\ UNCHANGED status
                                   /\ \E more : rewards' = [rewards EXCEPT ![t] = @ \union more]
        BY <1>4 DEF Pays
    <2>2. /\ rewards[t] \subseteq rewards'[t]
          /\ \A s \in Tournaments : s # t => rewards'[s] = rewards[s]
        <3>1. rewards \in [Tournaments -> SUBSET Reward]
            BY DEF SerialInv, TypeInv, TypeOK
        <3> QED
            BY <2>1, <3>1
    <2>3. \A s \in Tournaments, d \in Decks : paid[s][d] = Amounts(s, d) /\ paid'[s][d] = Amounts(s, d)'
        BY DEF Amounts
    <2>4. \A d \in Decks :
             paid'[t][d] # paid[t][d]
               => paid[t][d] = {} /\ \E amount \in paid'[t][d] : paid'[t][d] = {amount}
        <3> HIDE DEF paid
        <3> QED
            BY <2>2, <2>3, PayOnce
    <2>5. paid' = [paid EXCEPT ![t] = paid'[t]]
        <3>1. \A s \in Tournaments : s # t => paid'[s] = paid[s]
            BY <2>2
        <3>2. /\ paid = [s \in Tournaments |-> paid[s]]
              /\ paid' = [s \in Tournaments |-> paid'[s]]
            OBVIOUS
        <3> HIDE DEF paid
        <3> QED
            BY <3>1, <3>2
    <2>6. Phases!Pay(t)
        <3> HIDE DEF paid
        <3>1. paid' = [paid EXCEPT ![t] = paid'[t]] /\ UNCHANGED status /\ status[t] = "finished"
            BY <2>1, <2>5
        <3> USE DEF paid
        <3> QED
            BY <2>4, <3>1 DEF Phases!Pay
    <2> QED
        BY <2>6 DEF Phases!Next
<1> QED
    BY <1>1, <1>2, <1>3, <1>4, StepKinds

\* With one task and no PUT, the two jobs implement the life cycle TournamentPhases
\* promises: forward from registration to play to the end, then one payment for
\* each deck that is never changed.
THEOREM Refinement == Serial /\ Spec => ImplementsPhases
<1> SUFFICES ASSUME Serial PROVE Spec => ImplementsPhases
    BY DEF Serial, OneTask
<1>1. Serial /\ Spec => []SerialInv
    BY SerialAlways
<1>2. SerialInv /\ SerialInv' /\ [Next]_vars
        => [Phases!Next]_<<status, [t \in Tournaments |-> [d \in Decks |->
               {<<p.asof, p.share>> : p \in {q \in rewards[t] : q.deck = d}}]]>>
    BY PhasesStep
<1> QED
    BY <1>1, <1>2, PhasesInit, PTL DEF Spec, ImplementsPhases, Phases!Spec
----------------------------------------------------------------------------
(* Grants: a run of tournament_lifecycle grants only when it finished a    *)
(* tournament or failed to.                                                *)

Finished == {t \in Tournaments : status[t] = "finished"}

\* The local state k of a task has a grant to u coming: the run has finished a
\* tournament, or failed to, and has not granted yet.
Credit(k, u) ==
    IF \/ k.pc = "finishing" /\ k.due = {}
       \/ k.fin /\ ~ k.dirty
       \/ k.pc = "grant" /\ u \in k.todo
    THEN 1 ELSE 0

\* What is left to finish is still ongoing, and is not what is being finished.
DueOngoing(k, st) ==
    k.pc = "finishing" \/ k.fin =>
        \A t \in k.due : st[t] = "ongoing" /\ (k.fin => t # k.t)

Covered(k) == \A u \in Users : packs[u] + Credit(k, u) <= Cardinality(Finished) + faults

GrantInv ==
    /\ IsFiniteSet(Finished)
    /\ \A w \in Tasks : DueOngoing(task[w], status) /\ Covered(task[w])
    /\ GrantsBounded

Inv == SerialInv /\ GrantInv

LEMMA CreditType == ASSUME NEW k, NEW u PROVE Credit(k, u) \in {0, 1}
BY DEF Credit

LEMMA GrantInit == Init => GrantInv
<1> SUFFICES ASSUME Init PROVE GrantInv
    OBVIOUS
<1>1. Finished = {} /\ faults = 0 /\ \A u \in Users : packs[u] = 0
    BY InitialAssumption DEF Init, Finished, Statuses
<1>2. IsFiniteSet(Finished) /\ Cardinality(Finished) = 0
    BY <1>1, FS_EmptySet
<1>3. \A w \in Tasks : task[w] = Idle
    BY DEF Init
<1>4. DueOngoing(Idle, status) /\ \A u \in Users : Credit(Idle, u) = 0
    BY DEF DueOngoing, Credit, Idle
<1>5. \A w \in Tasks : Covered(task[w])
    BY <1>1, <1>2, <1>3, <1>4 DEF Covered
<1> QED
    BY <1>1, <1>2, <1>3, <1>4, <1>5 DEF GrantInv, GrantsBounded, Finished

LEMMA Numbers ==
    ASSUME Inv
    PROVE  /\ \A u \in Users : packs[u] \in Nat
           /\ faults \in Nat /\ Cardinality(Finished) \in Nat
BY FS_CardinalityType DEF Inv, SerialInv, TypeInv, TypeOK, GrantInv

\* A step is good when what w goes on with is covered: there is no other task.
LEMMA StepCovers ==
    ASSUME Serial, Inv, NEW w \in Tasks, NEW k, Becomes(w, k), DueOngoing(k, status'),
           packs' \in [Users -> Nat], faults' \in Nat, IsFiniteSet(Finished'),
           \A u \in Users : packs'[u] + Credit(k, u) <= Cardinality(Finished') + faults'
    PROVE  GrantInv'
<1>1. \A v \in Tasks : v = w /\ task'[v] = k
    BY TaskUpdate DEF Serial, OneTask, Inv, SerialInv
<1>2. Cardinality(Finished') \in Nat
    BY FS_CardinalityType
<1>3. \A u \in Users : packs'[u] <= Cardinality(Finished') + faults'
    BY <1>2, CreditType
<1>4. GrantsBounded'
    BY <1>3 DEF GrantsBounded, Finished
<1> QED
    BY <1>1, <1>4 DEF GrantInv, Covered

\* No status and no packs change, and no credit is taken that was not there.
LEMMA QuietStep ==
    ASSUME Serial, Inv, NEW w \in Tasks, NEW k, Becomes(w, k), DueOngoing(k, status),
           UNCHANGED <<status, packs>>, faults' \in {faults, faults + 1},
           \A u \in Users : Credit(k, u) <= Credit(task[w], u)
    PROVE  GrantInv'
<1>1. Finished' = Finished
    BY DEF Finished
<1>2. \A u \in Users : packs[u] + Credit(task[w], u) <= Cardinality(Finished) + faults
    BY DEF Inv, GrantInv, Covered
<1>3. \A u \in Users : packs'[u] + Credit(k, u) <= Cardinality(Finished') + faults'
    BY <1>1, <1>2, Numbers, CreditType
<1>4. packs' \in [Users -> Nat] /\ faults' \in Nat
    BY Numbers DEF Inv, SerialInv, TypeInv, TypeOK
<1> QED
    BY <1>1, <1>3, <1>4, StepCovers DEF Inv, GrantInv

\* ... as when the task stays with its tournament.
LEMMA StayStep ==
    ASSUME Serial, Inv, NEW w \in Tasks, NEW k, Becomes(w, k), k.pc \notin {"finishing", "grant"},
           k.fin = task[w].fin, k.dirty = task[w].dirty, k.due = task[w].due, k.t = task[w].t,
           UNCHANGED <<status, packs, faults>>
    PROVE  GrantInv'
<1>1. DueOngoing(k, status)
    BY DEF Inv, GrantInv, DueOngoing
<1>2. \A u \in Users : Credit(k, u) <= Credit(task[w], u)
    BY DEF Credit
<1> QED
    BY <1>1, <1>2, QuietStep

\* ... or has none.
LEMMA AwayStep ==
    ASSUME Serial, Inv, NEW w \in Tasks, NEW k, Becomes(w, k), k.pc \notin {"finishing", "grant"},
           ~ k.fin, UNCHANGED <<status, packs>>, faults' \in {faults, faults + 1}
    PROVE  GrantInv'
<1>1. DueOngoing(k, status) /\ \A u \in Users : Credit(k, u) = 0
    BY DEF DueOngoing, Credit
<1> QED
    BY <1>1, QuietStep, CreditType

\* A commit of the session, which finishes the tournament or did so before, or
\* a failure.
LEMMA FlushStep ==
    ASSUME Serial, Inv, NEW w \in Tasks, NEW k, Becomes(w, k), FlushStatus(w),
           UNCHANGED <<packs, faults>>, task[w].pc \notin Elsewhere, k.pc # "grant",
           k.pc = "finishing" \/ k.fin => task[w].fin,
           k.due \subseteq task[w].due, k.fin => k.t = task[w].t
    PROVE  GrantInv'
<1> DEFINE t == task[w].t
<1>0. t \in Tournaments /\ status \in [Tournaments -> Statuses] /\ TypeInv /\ PhaseInv
    BY TaskFields DEF Inv, SerialInv, TypeInv, TypeOK
<1>1. packs' \in [Users -> Nat] /\ faults' \in Nat
    BY DEF Inv, SerialInv, TypeInv, TypeOK
<1>2. \A u \in Users : packs[u] + Credit(task[w], u) <= Cardinality(Finished) + faults
    BY DEF Inv, GrantInv, Covered
<1>3. DueOngoing(task[w], status) /\ task[w].due \in SUBSET Tournaments
    BY <1>0, TaskFields DEF Inv, GrantInv
<1>4. CASE ~ task[w].dirty
    <2>1. status' = status /\ Finished' = Finished
        BY <1>4 DEF FlushStatus, Finished
    <2>2. DueOngoing(k, status')
        BY <1>3, <2>1 DEF DueOngoing
    <2>3. \A u \in Users : Credit(k, u) <= Credit(task[w], u)
        BY <1>4 DEF Credit
    <2>4. \A u \in Users : packs'[u] + Credit(k, u) <= Cardinality(Finished') + faults'
        BY <1>2, <2>1, <2>3, Numbers, CreditType
    <2> QED
        BY <1>1, <2>1, <2>2, <2>4, StepCovers DEF Inv, GrantInv
<1>5. CASE task[w].dirty
    <2>1. status[t] = "ongoing" /\ status' = [status EXCEPT ![t] = "finished"]
        BY <1>0, <1>5, FlushForward DEF FinishedBy
    <2>2. task[w].fin
        BY <1>0, <1>5, TaskFields DEF PhaseInv, Shape
    <2>3. Finished' = Finished \union {t} /\ t \notin Finished
        BY <1>0, <2>1 DEF Finished
    <2>4. IsFiniteSet(Finished') /\ Cardinality(Finished') = Cardinality(Finished) + 1
        BY <2>3, FS_AddElement DEF Inv, GrantInv
    <2>5. DueOngoing(k, status')
        BY <1>0, <1>3, <2>1, <2>2 DEF DueOngoing
    <2>6. \A u \in Users : packs'[u] + Credit(k, u) <= Cardinality(Finished') + faults'
        BY <1>2, <2>4, Numbers, CreditType
    <2> QED
        BY <1>1, <2>4, <2>5, <2>6, StepCovers
<1> QED
    BY <1>0, <1>4, <1>5, TaskFields

----------------------------------------------------------------------------
(* The steps of a run.                                                     *)

\* Steps before and after the work on a tournament that is over.
LEMMA AwayKeeps ==
    ASSUME Serial, Inv, NEW w \in Tasks,
           \/ LifecycleBegin(w) \/ StartRead(w) \/ Snapshot(w) \/ StartFails(w)
           \/ CheckFails(w) \/ ScoreFails(w) \/ Crash(w) \/ LifecycleEnd(w) \/ PriceBegin(w)
    PROVE  GrantInv'
<1>0. task[w] \in TaskType /\ Shape(w, task[w]) /\ Idle.pc = "idle" /\ ~ Idle.fin
    BY TaskFields DEF Inv, SerialInv, PhaseInv, Idle
<1>1. PICK k : /\ Becomes(w, k) /\ k.pc \notin {"finishing", "grant"} /\ ~ k.fin
               /\ UNCHANGED <<status, packs>> /\ faults' \in {faults, faults + 1}
    <2>1. CASE LifecycleBegin(w)
        <3> DEFINE k == [task[w] EXCEPT !.pc = "starting",
                            !.due = {t \in Tournaments : status[t] = "registration" /\ dates[t] >= 2}]
        <3>1. k.pc = "starting" /\ ~ k.fin
            BY <1>0, <2>1 DEF TaskType, Shape, LifecycleBegin
        <3>2. Becomes(w, k)
            BY <2>1 DEF LifecycleBegin
        <3> HIDE DEF k
        <3> QED
            BY <2>1, <3>1, <3>2 DEF LifecycleBegin, tables
    <2>2. CASE StartRead(w)
        <3>1. PICK t \in task[w].due :
                IF status[t] = "registration"
                  THEN Becomes(w, [task[w] EXCEPT !.pc = "snapshot", !.t = t, !.due = @ \ {t}])
                  ELSE Becomes(w, [task[w] EXCEPT !.due = @ \ {t}])
            BY <2>2 DEF StartRead, StartExpecting
        <3> DEFINE k == [task[w] EXCEPT !.pc = "snapshot", !.t = t, !.due = @ \ {t}]
                   l == [task[w] EXCEPT !.due = @ \ {t}]
        <3>2. k.pc = "snapshot" /\ l.pc = "starting" /\ ~ k.fin /\ ~ l.fin
            BY <1>0, <2>2 DEF TaskType, Shape, InLifecycle, StartRead, StartExpecting
        <3>3. Becomes(w, k) \/ Becomes(w, l)
            BY <3>1
        <3> HIDE DEF k, l
        <3> QED
            BY <2>2, <3>2, <3>3 DEF StartRead, StartExpecting, tables
    <2>3. CASE Snapshot(w)
        <3>1. [task[w] EXCEPT !.pc = "ongoing"].pc = "ongoing" /\ ~ [task[w] EXCEPT !.pc = "ongoing"].fin
            BY <1>0, <2>3 DEF TaskType, Shape, InLifecycle, Snapshot
        <3> QED
            BY <2>3, <3>1 DEF Snapshot
    <2>4. CASE StartFails(w)
        <3> DEFINE k == [task[w] EXCEPT !.pc = "starting", !.t = None]
        <3>1. k.pc = "starting" /\ ~ k.fin
            BY <1>0, <2>4 DEF TaskType, Shape, InLifecycle, StartFails
        <3> QED
            BY <2>4, <3>1 DEF StartFails, tables
    <2>5. CASE CheckFails(w) \/ ScoreFails(w) \/ Crash(w) \/ LifecycleEnd(w)
        BY <1>0, <2>5 DEF CheckFails, ScoreFails, Crash, LifecycleEnd, tables
    <2>6. CASE PriceBegin(w)
        <3>1. PICK t \in Tournaments : Becomes(w, [task[w] EXCEPT !.t = t, !.pc = "score"])
            BY <2>6 DEF PriceBegin
        <3> DEFINE k == [task[w] EXCEPT !.t = t, !.pc = "score"]
        <3>2. k.pc = "score" /\ ~ k.fin
            BY <1>0, <2>6 DEF TaskType, Shape, PriceBegin
        <3> QED
            BY <2>6, <3>1, <3>2 DEF PriceBegin, tables
    <2> QED
        BY <2>1, <2>2, <2>3, <2>4, <2>5, <2>6
<1> QED
    BY <1>1, AwayStep

\* The start of a tournament finishes none.
LEMMA StartKeeps ==
    ASSUME Serial, Inv, NEW w \in Tasks, StartCommit(w)
    PROVE  GrantInv'
<1> DEFINE k == [task[w] EXCEPT !.pc = "starting", !.t = None]
<1>1. /\ task[w] \in TaskType /\ Shape(w, task[w]) /\ task[w].pc = "ongoing"
      /\ task[w].t \in Tournaments /\ status[task[w].t] = "registration"
      /\ status' = [status EXCEPT ![task[w].t] = "ongoing"] /\ Becomes(w, k)
      /\ UNCHANGED <<packs, faults>>
    BY TaskFields DEF Inv, SerialInv, PhaseInv, Held, StartCommit, StartSet, tables, Elsewhere
<1>2. k.pc = "starting" /\ ~ k.fin
    BY <1>1 DEF TaskType, Shape, InLifecycle
<1>3. status \in [Tournaments -> Statuses] /\ packs' \in [Users -> Nat] /\ faults' \in Nat
    BY <1>1 DEF Inv, SerialInv, TypeInv, TypeOK
<1>4. Finished' = Finished
    BY <1>1, <1>3 DEF Finished
<1>5. \A u \in Users : packs[u] + Credit(task[w], u) <= Cardinality(Finished) + faults
    BY DEF Inv, GrantInv, Covered
<1> HIDE DEF k
<1>6. DueOngoing(k, status') /\ \A u \in Users : Credit(k, u) = 0
    BY <1>2 DEF DueOngoing, Credit
<1>7. \A u \in Users : packs'[u] + Credit(k, u) <= Cardinality(Finished') + faults'
    BY <1>1, <1>4, <1>5, <1>6, Numbers, CreditType
<1> QED
    BY <1>1, <1>3, <1>4, <1>6, <1>7, StepCovers DEF Inv, GrantInv

\* What is chosen to be finished is ongoing, and is until its turn.
LEMMA ChoiceKeeps ==
    ASSUME Serial, Inv, NEW w \in Tasks, FinishSelect(w) \/ FinishRead(w) \/ Cleanup(w)
    PROVE  GrantInv'
<1>0. /\ task[w] \in TaskType /\ Shape(w, task[w]) /\ DueOngoing(task[w], status)
      /\ UNCHANGED <<status, packs, faults>>
    BY TaskFields DEF Inv, SerialInv, PhaseInv, GrantInv, FinishSelect, FinishDue, FinishRead,
       FinishAssign, Cleanup, tables
<1>1. CASE FinishSelect(w)
    <2> DEFINE due == {t \in Tournaments : status[t] = "ongoing" /\ dates[t] = 3}
               k == [Idle EXCEPT !.pc = "finishing", !.due = due]
    <2>1. CASE due = {}
        <3>1. Becomes(w, Idle) /\ Idle.pc = "idle" /\ ~ Idle.fin
            BY <1>1, <2>1 DEF FinishSelect, FinishDue, Idle
        <3> QED
            BY <1>0, <3>1, AwayStep
    <2>2. CASE due # {}
        <3>1. Becomes(w, k) /\ k.pc = "finishing" /\ k.due = due /\ ~ k.fin
            BY <1>1, <2>2 DEF FinishSelect, FinishDue, Idle
        <3>2. \A t \in due : status[t] = "ongoing"
            OBVIOUS
        <3> HIDE DEF k, due
        <3>3. DueOngoing(k, status) /\ \A u \in Users : Credit(k, u) = 0
            BY <2>2, <3>1, <3>2 DEF DueOngoing, Credit
        <3> QED
            BY <1>0, <3>1, <3>3, QuietStep, CreditType
    <2> QED
        BY <2>1, <2>2
<1>2. CASE FinishRead(w)
    <2>1. PICK t \in task[w].due :
            IF status[t] = "ongoing"
              THEN Becomes(w, [task[w] EXCEPT !.pc = "calc", !.t = t, !.due = @ \ {t},
                                              !.fin = TRUE, !.dirty = TRUE])
              ELSE Becomes(w, [task[w] EXCEPT !.due = @ \ {t}])
        BY <1>2 DEF FinishRead, FinishAssign
    <2>2. \A s \in task[w].due : status[s] = "ongoing"
        BY <1>0, <1>2 DEF DueOngoing, FinishRead, FinishAssign
    <2> DEFINE k == [task[w] EXCEPT !.pc = "calc", !.t = t, !.due = @ \ {t}, !.fin = TRUE, !.dirty = TRUE]
    <2>3. Becomes(w, k)
        BY <2>1, <2>2
    <2>4. k.pc = "calc" /\ k.t = t /\ k.due = task[w].due \ {t} /\ k.fin /\ k.dirty
        BY <1>0 DEF TaskType
    <2> HIDE DEF k
    <2>5. DueOngoing(k, status) /\ \A u \in Users : Credit(k, u) = 0
        BY <2>2, <2>4 DEF DueOngoing, Credit
    <2> QED
        BY <1>0, <2>3, <2>5, QuietStep, CreditType
<1>3. CASE Cleanup(w)
    <2> DEFINE k == [Idle EXCEPT !.pc = "grant", !.todo = Users]
    <2>1. Becomes(w, k) /\ task[w].pc = "finishing" /\ task[w].due = {}
        BY <1>3 DEF Cleanup
    <2>2. k.pc = "grant" /\ ~ k.fin
        BY DEF Idle
    <2>3. \A u \in Users : Credit(task[w], u) = 1
        BY <2>1 DEF Credit
    <2> HIDE DEF k
    <2>4. DueOngoing(k, status)
        BY <2>2 DEF DueOngoing
    <2>5. \A u \in Users : Credit(k, u) <= Credit(task[w], u)
        BY <2>3, CreditType
    <2> QED
        BY <1>0, <2>1, <2>4, <2>5, QuietStep
<1> QED
    BY <1>1, <1>2, <1>3

\* A grant uses up the credit of its user, and a grant that fails leaves it.
LEMMA GrantKeeps ==
    ASSUME Serial, Inv, NEW w \in Tasks, NEW u \in Users, GrantOne(w, u) \/ GrantFails(w, u)
    PROVE  GrantInv'
<1> DEFINE k == [task[w] EXCEPT !.todo = @ \ {u}]
<1>0. /\ task[w] \in TaskType /\ Shape(w, task[w]) /\ task[w].pc = "grant" /\ u \in task[w].todo
      /\ Becomes(w, k) /\ UNCHANGED status
    BY TaskFields DEF Inv, SerialInv, PhaseInv, GrantOne, GrantFails, tables
<1>1. ~ task[w].fin /\ k.pc = "grant" /\ ~ k.fin /\ k.todo = task[w].todo \ {u}
    BY <1>0 DEF TaskType, Shape, InLifecycle
<1> HIDE DEF k
<1>2. DueOngoing(k, status)
    BY <1>1 DEF DueOngoing
<1>3. \A v \in Users : Credit(k, v) = IF v # u /\ v \in task[w].todo THEN 1 ELSE 0
    BY <1>1 DEF Credit
<1>4. \A v \in Users : Credit(task[w], v) = IF v \in task[w].todo THEN 1 ELSE 0
    BY <1>0, <1>1 DEF Credit
<1>5. CASE GrantFails(w, u)
    BY <1>0, <1>2, <1>3, <1>4, <1>5, QuietStep DEF GrantFails, tables
<1>6. CASE GrantOne(w, u)
    <2>1. packs' = [packs EXCEPT ![u] = @ + 1] /\ UNCHANGED faults /\ packs \in [Users -> Nat]
        BY <1>6 DEF GrantOne, Inv, SerialInv, TypeInv, TypeOK
    <2>2. /\ packs' \in [Users -> Nat]
          /\ \A v \in Users : packs'[v] = IF v = u THEN packs[v] + 1 ELSE packs[v]
        BY <2>1
    <2>3. Finished' = Finished /\ faults' \in Nat
        BY <1>0, <2>1, Numbers DEF Finished
    <2>4. \A v \in Users : packs[v] + Credit(task[w], v) <= Cardinality(Finished) + faults
        BY DEF Inv, GrantInv, Covered
    <2>5. \A v \in Users : packs'[v] + Credit(k, v) = packs[v] + Credit(task[w], v)
        BY <1>0, <1>3, <1>4, <2>2, Numbers
    <2>6. \A v \in Users : packs'[v] + Credit(k, v) <= Cardinality(Finished') + faults'
        BY <2>1, <2>3, <2>4, <2>5
    <2> QED
        BY <1>0, <1>2, <2>2, <2>3, <2>6, StepCovers DEF Inv, GrantInv
<1> QED
    BY <1>5, <1>6

\* Steps of the calculation and the rewards that commit nothing.
LEMMA StayKeeps ==
    ASSUME Serial, Inv, NEW w \in Tasks,
           \/ CalcRead(w) \/ CalcDelete(w) \/ CalcRank(w) \/ CalcMatch(w) \/ RewardRead(w)
           \/ ScoreStamp(w) \/ ScoreStore(w)
    PROVE  GrantInv'
<1>0. task[w] \in TaskType /\ Idle.pc = "idle" /\ ~ Idle.fin
    BY TaskFields DEF Inv, SerialInv, Idle
<1>1. UNCHANGED <<status, packs, faults>>
    BY DEF CalcRead, CalcDelete, DeletePrizes, CalcRank, CalcMatch, RewardRead, ScoreStamp,
       ScoreStore, tables
<1>2. CASE CalcRead(w)
    <2> DEFINE k == [task[w] EXCEPT !.asof = batch[task[w].t], !.pc = IF Pool THEN "prizes" ELSE "rank"]
               l == [task[w] EXCEPT !.pc = "reward"]
    <2>1. /\ k.pc \in {"prizes", "rank"} /\ l.pc = "reward"
          /\ k.fin = task[w].fin /\ k.dirty = task[w].dirty /\ k.due = task[w].due /\ k.t = task[w].t
          /\ l.fin = task[w].fin /\ l.dirty = task[w].dirty /\ l.due = task[w].due /\ l.t = task[w].t
        BY <1>0 DEF TaskType
    <2>2. Becomes(w, k) \/ Becomes(w, l) \/ Becomes(w, Idle)
        BY <1>2 DEF CalcRead
    <2> HIDE DEF k, l
    <2> QED
        BY <1>0, <1>1, <2>1, <2>2, StayStep, AwayStep
<1>3. CASE CalcDelete(w)
    <2> DEFINE k == [task[w] EXCEPT !.doomed = configs[task[w].t], !.pc = "save"]
    <2>1. /\ k.pc = "save" /\ Becomes(w, k)
          /\ k.fin = task[w].fin /\ k.dirty = task[w].dirty /\ k.due = task[w].due /\ k.t = task[w].t
        BY <1>0, <1>3 DEF TaskType, CalcDelete, DeletePrizes
    <2> HIDE DEF k
    <2> QED
        BY <1>1, <2>1, StayStep
<1>4. CASE CalcRank(w)
    <2> DEFINE k == [task[w] EXCEPT !.share = Cardinality(configs[task[w].t]), !.pc = "match"]
    <2>1. /\ k.pc = "match" /\ Becomes(w, k)
          /\ k.fin = task[w].fin /\ k.dirty = task[w].dirty /\ k.due = task[w].due /\ k.t = task[w].t
        BY <1>0, <1>4 DEF TaskType, CalcRank
    <2> HIDE DEF k
    <2> QED
        BY <1>1, <2>1, StayStep
<1>5. CASE CalcMatch(w)
    <2> DEFINE rows == {r \in results[task[w].t] : r.deck \in Entrants[task[w].t]}
               k == [task[w] EXCEPT !.seen = rows, !.pc = "write"]
    <2>0. task[w].t \in Tournaments
        BY <1>5, TaskFields DEF Inv, SerialInv, CalcMatch, Elsewhere
    <2>1. ~ \E r, q \in rows : r # q /\ r.deck = q.deck
        BY <2>0 DEF Inv, SerialInv, OnceInv, OneResultPerDeck
    <2>2. /\ k.pc = "write" /\ Becomes(w, k)
          /\ k.fin = task[w].fin /\ k.dirty = task[w].dirty /\ k.due = task[w].due /\ k.t = task[w].t
        BY <1>0, <1>5, <2>1 DEF TaskType, CalcMatch
    <2> HIDE DEF k
    <2> QED
        BY <1>1, <2>2, StayStep
<1>6. CASE RewardRead(w)
    <2>1. PICK seen : \/ Becomes(w, [task[w] EXCEPT !.pc = "weights"])
                      \/ Becomes(w, [task[w] EXCEPT !.pc = "pay", !.seen = seen])
        BY <1>6 DEF RewardRead
    <2> DEFINE k == [task[w] EXCEPT !.pc = "weights"]
               l == [task[w] EXCEPT !.pc = "pay", !.seen = seen]
    <2>2. /\ k.pc = "weights" /\ l.pc = "pay"
          /\ k.fin = task[w].fin /\ k.dirty = task[w].dirty /\ k.due = task[w].due /\ k.t = task[w].t
          /\ l.fin = task[w].fin /\ l.dirty = task[w].dirty /\ l.due = task[w].due /\ l.t = task[w].t
        BY <1>0 DEF TaskType
    <2>3. Becomes(w, k) \/ Becomes(w, l)
        BY <2>1
    <2> HIDE DEF k, l
    <2> QED
        BY <1>1, <2>2, <2>3, StayStep
<1>7. CASE ScoreStamp(w) \/ ScoreStore(w)
    <2>1. PICK pc \in {"store", "calc"} : Becomes(w, [task[w] EXCEPT !.pc = pc])
        BY <1>7 DEF ScoreStamp, ScoreStore
    <2> DEFINE k == [task[w] EXCEPT !.pc = pc]
    <2>2. /\ k.pc = pc /\ k.fin = task[w].fin /\ k.dirty = task[w].dirty
          /\ k.due = task[w].due /\ k.t = task[w].t
        BY <1>0 DEF TaskType
    <2>3. Becomes(w, k)
        BY <2>1
    <2> HIDE DEF k
    <2> QED
        BY <1>1, <2>2, <2>3, StayStep
<1> QED
    BY <1>2, <1>3, <1>4, <1>5, <1>6, <1>7

\* The commits of a finish, and of the leaderboard.
LEMMA CommitKeeps ==
    ASSUME Serial, Inv, NEW w \in Tasks,
           CalcSave(w) \/ CalcWrite(w) \/ PayRewards(w) \/ Weights(w) \/ FinishCommit(w)
    PROVE  GrantInv'
<1>0. /\ task[w] \in TaskType /\ task[w].pc \notin Elsewhere /\ UNCHANGED <<packs, faults>>
      /\ Idle.pc = "idle" /\ ~ Idle.fin /\ Idle.due = {} /\ Shape(w, task[w])
    BY TaskFields DEF Inv, SerialInv, PhaseInv, CalcSave, CalcWrite, WriteResults, PayRewards, Weights,
       FinishCommit, Elsewhere, Idle, tables
<1>1. CASE CalcSave(w)
    <2> DEFINE k == [task[w] EXCEPT !.pc = "rank", !.dirty = FALSE, !.doomed = {}]
    <2>1. /\ k.pc = "rank" /\ Becomes(w, k) /\ FlushStatus(w)
          /\ k.fin = task[w].fin /\ k.due = task[w].due /\ k.t = task[w].t
        BY <1>0, <1>1 DEF TaskType, CalcSave
    <2> HIDE DEF k
    <2> QED
        BY <1>0, <2>1, FlushStep
<1>2. CASE CalcWrite(w)
    <2> DEFINE k == [task[w] EXCEPT !.pc = "reward", !.dirty = FALSE, !.seen = {}, !.asof = 0, !.share = 0]
    <2>1. /\ k.pc = "reward" /\ k.fin = task[w].fin /\ k.due = task[w].due /\ k.t = task[w].t
        BY <1>0 DEF TaskType
    <2>2. FlushStatus(w) /\ (Becomes(w, k) \/ Becomes(w, Idle))
        BY <1>2 DEF CalcWrite, WriteResults
    <2> HIDE DEF k
    <2> QED
        BY <1>0, <2>1, <2>2, FlushStep
<1>3. CASE PayRewards(w)
    <2> DEFINE k == [task[w] EXCEPT !.pc = "weights", !.dirty = FALSE, !.seen = {}]
    <2>1. /\ k.pc = "weights" /\ Becomes(w, k) /\ FlushStatus(w)
          /\ k.fin = task[w].fin /\ k.due = task[w].due /\ k.t = task[w].t
        BY <1>0, <1>3 DEF TaskType, PayRewards
    <2> HIDE DEF k
    <2> QED
        BY <1>0, <2>1, FlushStep
<1>4. CASE Weights(w)
    <2> DEFINE k == [task[w] EXCEPT !.pc = "commit", !.dirty = @ /\ batch[task[w].t] = 0]
    <2>1. /\ k.pc = "commit" /\ Becomes(w, k)
          /\ k.fin = task[w].fin /\ k.due = task[w].due /\ k.t = task[w].t
        BY <1>0, <1>4 DEF TaskType, Weights
    <2>2. k.dirty = (task[w].dirty /\ batch[task[w].t] = 0)
        BY <1>0 DEF TaskType
    <2>3. CASE batch[task[w].t] # 0
        <3>1. FlushStatus(w)
            BY <1>4, <2>3 DEF Weights
        <3> HIDE DEF k
        <3> QED
            BY <1>0, <2>1, <3>1, FlushStep
    <2>4. CASE batch[task[w].t] = 0
        <3>1. UNCHANGED status /\ k.dirty = task[w].dirty
            BY <1>0, <1>4, <2>2, <2>4 DEF Weights, TaskType
        <3> HIDE DEF k
        <3> QED
            BY <1>0, <2>1, <3>1, StayStep
    <2> QED
        BY <2>3, <2>4
<1>5. CASE FinishCommit(w)
    <2> DEFINE k == [Idle EXCEPT !.pc = "finishing", !.due = task[w].due]
    <2>1. k.pc = "finishing" /\ ~ k.fin /\ k.due = task[w].due /\ task[w].fin
        BY <1>0, <1>5 DEF Idle, FinishCommit, Shape, InFinish
    <2>2. Becomes(w, k) /\ FlushStatus(w)
        BY <1>5, <2>1 DEF FinishCommit, Leave
    <2> HIDE DEF k
    <2> QED
        BY <1>0, <2>1, <2>2, FlushStep
<1> QED
    BY <1>1, <1>2, <1>3, <1>4, <1>5

\* A finish that fails has its failure for the grants that follow.
LEMMA FailKeeps ==
    ASSUME Serial, Inv, NEW w \in Tasks, WorkFails(w)
    PROVE  GrantInv'
<1>1. /\ Becomes(w, Leave(w)) /\ faults' = faults + 1 /\ UNCHANGED <<status, packs>>
      /\ Finished' = Finished /\ DueOngoing(task[w], status)
    BY DEF WorkFails, tables, Finished, Inv, GrantInv
<1>2. DueOngoing(Leave(w), status) /\ Leave(w).pc # "grant" /\ ~ Leave(w).fin
    BY <1>1 DEF Leave, Idle, DueOngoing
<1>3. \A u \in Users : packs[u] + Credit(task[w], u) <= Cardinality(Finished) + faults
    BY DEF Inv, GrantInv, Covered
<1>4. \A u \in Users : packs'[u] + Credit(Leave(w), u) <= Cardinality(Finished') + faults'
    BY <1>1, <1>3, Numbers, CreditType
<1>5. packs' \in [Users -> Nat] /\ faults' \in Nat
    BY <1>1, Numbers DEF Inv, SerialInv, TypeInv, TypeOK
<1> QED
    BY <1>1, <1>2, <1>4, <1>5, StepCovers DEF Inv, GrantInv

LEMMA GrantNext ==
    ASSUME Serial, Inv, [Next]_vars
    PROVE  GrantInv'
<1>1. ASSUME NEW w \in Tasks, Work(w) PROVE GrantInv'
    BY <1>1, AwayKeeps, StartKeeps, ChoiceKeeps, GrantKeeps, StayKeeps, CommitKeeps DEF Work, Calculate
<1>2. ASSUME NEW w \in Tasks, Fault(w) \/ LifecycleBegin(w) \/ PriceBegin(w) PROVE GrantInv'
    BY <1>2, AwayKeeps, GrantKeeps, FailKeeps DEF Fault, Fails
<1>3. CASE UNCHANGED <<status, packs, task, faults>>
    BY <1>3 DEF Inv, GrantInv, Covered, Finished, GrantsBounded
<1>4. ASSUME NEW t \in Tournaments, DatePasses(t) PROVE GrantInv'
    BY <1>3, <1>4 DEF DatePasses, tables
<1>5. CASE UNCHANGED vars
    BY <1>3, <1>5 DEF vars, tables
<1> QED
    BY <1>1, <1>2, <1>4, <1>5 DEF Next, Serial

\* _check_tournaments_to_finish: users get packs at most once for each tournament that
\* ended and each statement that failed, however often a run is retried or killed, when
\* the two jobs do not overlap and no administrator writes.
THEOREM PacksBounded == Serial /\ Spec => []GrantsBounded
<1> SUFFICES ASSUME Serial PROVE Spec => []GrantsBounded
    BY DEF Serial, OneTask
<1>1. Init => Inv
    BY InitType, PhaseInit, OnceInit, ExactInit, GrantInit DEF Inv, SerialInv
<1>2. Inv /\ [Next]_vars => Inv'
    BY SerialNext, GrantNext DEF Inv
<1>3. Inv => GrantsBounded
    BY DEF Inv, GrantInv
<1> QED
    BY <1>1, <1>2, <1>3, PTL DEF Spec

-----------------------------------------------------------------------------
(***************************************************************************)
(* Under the scheduler: what the lock is for.  With any number of runs of  *)
(* tournament_lifecycle and of price_and_score, any timeouts, failures and *)
(* crashes, the life of tournaments goes as shown above for one lifecycle  *)
(* task, as long as no run outlives its lease.                             *)
(*                                                                         *)
(* A scheduled step is a step of JobLock or leaves its variables alone,    *)
(* and likewise of TournamentLifecycle, so the invariants of both hold.    *)
(* The one of the lock leaves a run that is at work in time alone with its *)
(* job; what is in the middle of a body is at work; hence a step of a      *)
(* lifecycle body finds every other lifecycle task idle, which is all that *)
(* PhaseTask asks for.                                                     *)
(***************************************************************************)

Locked == INSTANCE JobLockProofs WITH
    Names <- Jobs, Runs <- Tasks,
    pc <- run, faults <- lockFaults, crashes <- lockCrashes

\* A run on its way to the end of its body has a lease that lasts.
Punctual == \A w \in Tasks : run[w] \in {"purge", "insert", "working"} => Locked!Lease(w) >= now

\* What is in the middle of a body is at work.
BodyAtWork == \A w \in Tasks : task[w].pc # "idle" => run[w] = "working"

\* All that is invariant.
Scheduled == TypeInv /\ Locked!IInv /\ Punctual /\ BodyAtWork /\ PhaseInv

LEMMA JobsOfTasks == JobOf \in [Tasks -> Jobs]
BY DEF JobOf, Jobs

\* The two instances of the lock are one.
LEMMA SameLock ==
    ASSUME NEW w \in Tasks
    PROVE  /\ Lock!Lease(w) = Locked!Lease(w)
           /\ Lock!Begin(w) <=> Locked!Begin(w)
           /\ Lock!Purge(w) <=> Locked!Purge(w)
           /\ Lock!Insert(w) <=> Locked!Insert(w)
           /\ Lock!Finish(w) <=> Locked!Finish(w)
           /\ Lock!Release(w) <=> Locked!Release(w)
           /\ Lock!InsertUnanswered(w) <=> Locked!InsertUnanswered(w)
           /\ Lock!AcquireFails(w) <=> Locked!AcquireFails(w)
           /\ Lock!ReleaseFails(w) <=> Locked!ReleaseFails(w)
           /\ Lock!Crash(w) <=> Locked!Crash(w)
<1>1. Lock!Lease(w) = Locked!Lease(w)
    BY DEF Lock!Lease, Locked!Lease
<1>2. Lock!Begin(w) <=> Locked!Begin(w)
    BY DEF Lock!Begin, Locked!Begin
<1>3. Lock!Purge(w) <=> Locked!Purge(w)
    BY DEF Lock!Purge, Locked!Purge
<1>4. Lock!Insert(w) <=> Locked!Insert(w)
    BY <1>1 DEF Lock!Insert, Locked!Insert
<1>5. Lock!Finish(w) <=> Locked!Finish(w)
    BY DEF Lock!Finish, Locked!Finish
<1>6. Lock!Release(w) <=> Locked!Release(w)
    BY DEF Lock!Release, Locked!Release
<1>7. Lock!InsertUnanswered(w) <=> Locked!InsertUnanswered(w)
    BY <1>1 DEF Lock!InsertUnanswered, Locked!InsertUnanswered
<1>8. Lock!AcquireFails(w) <=> Locked!AcquireFails(w)
    BY DEF Lock!AcquireFails, Locked!AcquireFails
<1>9. Lock!ReleaseFails(w) <=> Locked!ReleaseFails(w)
    BY DEF Lock!ReleaseFails, Locked!ReleaseFails
<1>10. Lock!Crash(w) <=> Locked!Crash(w)
    BY DEF Lock!Crash, Locked!Crash
<1> QED
    BY <1>1, <1>2, <1>3, <1>4, <1>5, <1>6, <1>7, <1>8, <1>9, <1>10

\* A scheduled step is a step of the lock or leaves it alone.
LEMMA LockStep == ScheduledNext => [Locked!Next]_(Locked!vars)
<1> SUFFICES ASSUME ScheduledNext PROVE [Locked!Next]_(Locked!vars)
    OBVIOUS
<1>1. CASE Tick
    BY <1>1 DEF Tick, Lock!Tick, Locked!Tick, Locked!Next
<1>2. ASSUME NEW w \in Tasks, Locking(w) \/ Body(w) \/ NothingToScore(w) \/ Stop(w)
      PROVE  Locked!Run(w) \/ Locked!Fault(w) \/ UNCHANGED lockVars
    BY <1>2, SameLock
       DEF Locking, Body, NothingToScore, Stop, Locked!Run, Locked!Fault
<1>3. UNCHANGED lockVars => UNCHANGED Locked!vars
    BY DEF lockVars, Locked!vars
<1> QED
    BY <1>1, <1>2, <1>3 DEF ScheduledNext, Locked!Next

LEMMA LockInv == Locked!IInv /\ ScheduledNext => Locked!IInv'
<1> SUFFICES ASSUME Locked!IInv, ScheduledNext PROVE Locked!IInv'
    OBVIOUS
<1>1. [Locked!Next]_(Locked!vars)
    BY LockStep
<1>2. Locked!TypeOK /\ Locked!BeganInThePast
    BY DEF Locked!IInv
<1>3. Locked!TypeOK'
    BY <1>1, <1>2, Locked!TypeStep, LeaseAssumption, LockAssumption, JobsOfTasks
<1>4. Locked!BeganInThePast'
    BY <1>1, <1>2, Locked!BeganStep, LeaseAssumption, LockAssumption, JobsOfTasks
<1>5. Locked!LeaseHeld'
    BY <1>1, Locked!LeaseStep, LeaseAssumption, LockAssumption, JobsOfTasks
<1> QED
    BY <1>3, <1>4, <1>5 DEF Locked!IInv

\* A scheduled step is a step of TournamentLifecycle or leaves it alone.
LEMMA LifeStep == ScheduledNext => [Next]_vars
BY DEF ScheduledNext, Tick, Locking, Body, NothingToScore, Stop, Next, Fault

\* A step of one task leaves the local variables of the others.
LEMMA OthersRest ==
    ASSUME TypeInv, NEW w \in Tasks, NEW v \in Tasks, v # w,
           LifecycleBegin(w) \/ PriceBegin(w) \/ Work(w) \/ Fault(w)
    PROVE  task'[v] = task[v]
<1>1. \A k : Becomes(w, k) => task'[v] = task[v]
    BY TaskUpdate
<1>2. ASSUME LifecycleBegin(w) \/ PriceBegin(w) PROVE \E k : Becomes(w, k)
    BY <1>2 DEF LifecycleBegin, PriceBegin
<1>3. ASSUME StartRead(w) \/ Snapshot(w) \/ StartCommit(w) \/ FinishSelect(w) \/ FinishRead(w)
      PROVE  \E k : Becomes(w, k)
    BY <1>3 DEF StartRead, StartExpecting, Snapshot, StartCommit, StartSet,
                FinishSelect, FinishDue, FinishRead, FinishAssign
<1>4. ASSUME Calculate(w) PROVE \E k : Becomes(w, k)
    BY <1>4 DEF Calculate, CalcRead, CalcDelete, DeletePrizes, CalcSave, CalcRank, CalcMatch,
                CalcWrite, WriteResults
<1>5. ASSUME RewardRead(w) \/ PayRewards(w) \/ Weights(w) \/ FinishCommit(w)
      PROVE  \E k : Becomes(w, k)
    BY <1>5 DEF RewardRead, PayRewards, Weights, FinishCommit
<1>6. ASSUME Cleanup(w) \/ (\E u \in Users : GrantOne(w, u)) \/ LifecycleEnd(w)
             \/ ScoreStamp(w) \/ ScoreStore(w)
      PROVE  \E k : Becomes(w, k)
    BY <1>6 DEF Cleanup, GrantOne, LifecycleEnd, ScoreStamp, ScoreStore
<1>7. ASSUME Fault(w) PROVE \E k : Becomes(w, k)
    BY <1>7 DEF Fault, Fails, StartFails, CheckFails, WorkFails, ScoreFails, GrantFails, Crash
<1> QED
    BY <1>1, <1>2, <1>3, <1>4, <1>5, <1>6, <1>7 DEF Work

\* A step of a body or a crash changes the run of its own task only.
LEMMA RunOthers ==
    ASSUME Locked!TypeOK, NEW w \in Tasks, NEW v \in Tasks, v # w,
           Locking(w) \/ Body(w) \/ NothingToScore(w) \/ Stop(w)
    PROVE  run'[v] = run[v] /\ began'[v] = began[v] /\ now' = now
<1>1. run \in [Tasks -> {"idle", "purge", "insert", "working", "release"}]
      /\ began \in [Tasks -> Nat]
    BY DEF Locked!TypeOK
<1> QED
    BY <1>1 DEF Locking, Body, NothingToScore, Stop, lockVars, Lock!Begin, Lock!Purge, Lock!Insert,
                Lock!Finish, Lock!Release, Lock!InsertUnanswered, Lock!AcquireFails,
                Lock!ReleaseFails, Lock!Crash

\* What each step of the lock does to its own run.
LEMMA RunOwn ==
    ASSUME Locked!TypeOK, NEW w \in Tasks
    PROVE  /\ Locking(w) => /\ run[w] # "working"
                            /\ UNCHANGED vars
                            /\ \/ run'[w] = "idle"
                               \/ run[w] = "idle" /\ run'[w] = "purge" /\ began'[w] = now
                               \/ run[w] \in {"purge", "insert"} /\ began'[w] = began[w]
           /\ Lock!Finish(w) => run'[w] = "release"
           /\ Lock!Crash(w) => run'[w] = "idle"
<1>1. run \in [Tasks -> {"idle", "purge", "insert", "working", "release"}]
      /\ began \in [Tasks -> Nat]
    BY DEF Locked!TypeOK
<1>2. ASSUME Locking(w)
      PROVE  /\ run[w] # "working"
             /\ UNCHANGED vars
             /\ \/ run'[w] = "idle"
                \/ run[w] = "idle" /\ run'[w] = "purge" /\ began'[w] = now
                \/ run[w] \in {"purge", "insert"} /\ began'[w] = began[w]
    BY <1>1, <1>2 DEF Locking, Lock!Begin, Lock!Purge, Lock!Insert, Lock!Release,
                      Lock!InsertUnanswered, Lock!AcquireFails, Lock!ReleaseFails
<1>3. Lock!Finish(w) => run'[w] = "release"
    BY <1>1 DEF Lock!Finish
<1>4. Lock!Crash(w) => run'[w] = "idle"
    BY <1>1 DEF Lock!Crash
<1> QED
    BY <1>2, <1>3, <1>4

\* The lease is the clock that the run read and a timeout.
LEMMA LeaseOf ==
    ASSUME Locked!TypeOK, NEW w \in Tasks
    PROVE  /\ Locked!Lease(w) \in Nat /\ Locked!Lease(w) = began[w] + Timeout[JobOf[w]]
           /\ Timeout[JobOf[w]] \in Nat /\ began[w] \in Nat /\ now \in Nat
<1>1. JobOf[w] \in Jobs
    BY JobsOfTasks
<1> QED
    BY <1>1, LeaseAssumption DEF Locked!TypeOK, Locked!Lease

\* While no run outlives its lease, what is under way has one that lasts.
LEMMA PunctualStep == ~ Overrun /\ Locked!IInv /\ Punctual /\ ScheduledNext => Punctual'
<1> SUFFICES ASSUME ~ Overrun, Locked!IInv, Punctual, ScheduledNext,
                    NEW v \in Tasks, run'[v] \in {"purge", "insert", "working"}
             PROVE  Locked!Lease(v)' >= now'
    BY DEF Punctual
<1>1. Locked!TypeOK /\ Locked!TypeOK'
    BY LockInv DEF Locked!IInv
<1>2. Locked!Lease(v) \in Nat /\ Locked!Lease(v) = began[v] + Timeout[JobOf[v]]
      /\ Timeout[JobOf[v]] \in Nat /\ began[v] \in Nat /\ now \in Nat
    BY <1>1, LeaseOf
<1>3. Locked!Lease(v)' = began'[v] + Timeout[JobOf[v]]
    BY DEF Locked!Lease
<1>4. CASE Tick
    <2>1. now' = now + 1 /\ began' = began /\ run' = run
        BY <1>4 DEF Tick, Lock!Tick
    <2>2. InTime(v)
        BY <1>4 DEF Tick
    <2>3. now < Locked!Lease(v)
        BY <2>1, <2>2, SameLock DEF InTime
    <2> QED
        BY <1>2, <1>3, <2>1, <2>3
<1>5. CASE UNCHANGED lockVars
    BY <1>2, <1>3, <1>5 DEF lockVars, Punctual
<1>6. ASSUME NEW w \in Tasks, Locking(w) \/ Body(w) \/ NothingToScore(w) \/ Stop(w), v # w
      PROVE  Locked!Lease(v)' >= now'
    BY <1>1, <1>2, <1>3, <1>6, RunOthers DEF Punctual
<1>7. CASE Locking(v)
    <2>1. now' = now
        BY <1>7 DEF Locking, Lock!Begin, Lock!Purge, Lock!Insert, Lock!Release,
                    Lock!InsertUnanswered, Lock!AcquireFails, Lock!ReleaseFails
    <2>2. \/ run[v] = "idle" /\ began'[v] = now
          \/ run[v] \in {"purge", "insert"} /\ began'[v] = began[v]
        BY <1>1, <1>7, RunOwn
    <2> QED
        BY <1>2, <1>3, <2>1, <2>2 DEF Punctual
<1>8. CASE Body(v) \/ NothingToScore(v) \/ Stop(v)
    <2>1. Lock!Finish(v) \/ Lock!Crash(v) \/ UNCHANGED lockVars
        BY <1>8 DEF Body, NothingToScore, Stop
    <2> QED
        BY <1>1, <1>5, <2>1, RunOwn
<1> QED
    BY <1>4, <1>5, <1>6, <1>7, <1>8 DEF ScheduledNext

\* A body goes on only while its run is at work.
LEMMA BodyStep == TypeInv /\ Locked!IInv /\ BodyAtWork /\ ScheduledNext => BodyAtWork'
<1> SUFFICES ASSUME TypeInv, Locked!IInv, BodyAtWork, ScheduledNext,
                    NEW v \in Tasks, task'[v].pc # "idle"
             PROVE  run'[v] = "working"
    BY DEF BodyAtWork
<1>1. Locked!TypeOK
    BY DEF Locked!IInv
<1>2. ASSUME NEW w \in Tasks, Locking(w) PROVE run'[v] = "working"
    <2>1. task' = task /\ run[w] # "working"
        BY <1>1, <1>2, RunOwn DEF vars
    <2> QED
        BY <1>1, <1>2, <2>1, RunOthers DEF BodyAtWork
<1>3. ASSUME NEW w \in Tasks, Body(w) \/ NothingToScore(w) \/ Stop(w), v # w
      PROVE  run'[v] = "working"
    <2>1. task'[v] = task[v]
        <3>1. UNCHANGED vars \/ LifecycleBegin(w) \/ PriceBegin(w) \/ Work(w) \/ Fault(w)
            BY <1>3 DEF Body, NothingToScore, Stop, Fault
        <3> QED
            BY <1>3, <3>1, OthersRest DEF vars
    <2> QED
        BY <1>1, <1>3, <2>1, RunOthers DEF BodyAtWork
<1>4. CASE Body(v)
    BY <1>4 DEF Body, lockVars
<1>5. CASE NothingToScore(v)
    BY <1>5 DEF NothingToScore, vars
<1>6. CASE Stop(v)
    <2>1. task'[v].pc = "idle"
        <3>1. CASE Crash(v)
            BY <3>1, TaskUpdate DEF Crash, Idle
        <3> QED
            BY <1>6, <3>1 DEF Stop, vars
    <2> QED
        BY <2>1
<1>7. CASE UNCHANGED lockVars /\ \E t \in Tournaments : DatePasses(t)
    BY <1>7 DEF DatePasses, lockVars, BodyAtWork
<1>8. CASE Tick
    BY <1>8 DEF Tick, Lock!Tick, vars, BodyAtWork
<1> QED
    BY <1>2, <1>3, <1>4, <1>5, <1>6, <1>7, <1>8 DEF ScheduledNext

\* Two runs of a job that are at work in time are one.
LEMMA OneHolder ==
    ASSUME Locked!IInv, Punctual, NEW v \in Tasks, NEW w \in Tasks,
           JobOf[v] = JobOf[w], run[v] = "working", run[w] = "working"
    PROVE  v = w
<1>1. locks[JobOf[v]] = [by |-> v, expires |-> Locked!Lease(v)]
    BY DEF Punctual, Locked!IInv, Locked!LeaseHeld
<1>2. locks[JobOf[w]] = [by |-> w, expires |-> Locked!Lease(w)]
    BY DEF Punctual, Locked!IInv, Locked!LeaseHeld
<1>3. [by |-> v, expires |-> Locked!Lease(v)].by = [by |-> w, expires |-> Locked!Lease(w)].by
    BY <1>1, <1>2
<1> QED
    BY <1>3

\* A run that is at work finds every other task of the lifecycle job idle.
LEMMA AtWorkSole ==
    ASSUME Locked!IInv, Punctual, BodyAtWork, NEW w \in Tasks, run[w] = "working"
    PROVE  Sole(w)
<1> SUFFICES ASSUME w \in LifecycleTasks, NEW v \in LifecycleTasks \ {w}, task[v].pc # "idle"
             PROVE  FALSE
    BY DEF Sole
<1>1. v \in Tasks /\ JobOf[v] = JobOf[w]
    BY DEF Tasks, JobOf
<1>2. run[v] = "working"
    BY <1>1 DEF BodyAtWork
<1> QED
    BY <1>1, <1>2, OneHolder

\* Hence the steps of bodies keep what TournamentProofs shows of one lifecycle task.
LEMMA PhaseScheduled == Scheduled /\ ScheduledNext => PhaseInv'
<1> SUFFICES ASSUME Scheduled, ScheduledNext PROVE PhaseInv'
    OBVIOUS
<1>1. TypeInv /\ Locked!IInv /\ Punctual /\ BodyAtWork /\ PhaseInv
    BY DEF Scheduled
<1>2. CASE UNCHANGED vars \/ \E t \in Tournaments : DatePasses(t)
    BY <1>1, <1>2, PhaseTime
<1>3. ASSUME NEW w \in Tasks, Body(w) PROVE PhaseInv'
    <2>1. run[w] = "working" /\ (LifecycleBegin(w) \/ PriceBegin(w) \/ Work(w) \/ Fault(w))
        BY <1>3 DEF Body, Fault
    <2>2. Sole(w)
        BY <1>1, <2>1, AtWorkSole
    <2> QED
        BY <1>1, <2>1, <2>2, PhaseTask
<1>4. ASSUME NEW w \in Tasks, Crash(w) PROVE PhaseInv'
    <2>1. run[w] = "working"
        BY <1>1, <1>4 DEF Crash, BodyAtWork
    <2>2. Sole(w)
        BY <1>1, <2>1, AtWorkSole
    <2> QED
        BY <1>1, <1>4, <2>2, PhaseTask DEF Fault
<1> QED
    BY <1>2, <1>3, <1>4 DEF ScheduledNext, Tick, Locking, NothingToScore, Stop

LEMMA ScheduledStart == ScheduledInit => Scheduled
<1> SUFFICES ASSUME ScheduledInit PROVE Scheduled
    OBVIOUS
<1>1. Init /\ Locked!Init
    BY DEF ScheduledInit, Lock!Init, Locked!Init
<1>2. TypeInv /\ PhaseInv
    BY <1>1, InitType, PhaseInit
<1>3. Locked!IInv
    BY <1>1, Locked!InitIInv, LeaseAssumption, LockAssumption, JobsOfTasks
<1>4. \A w \in Tasks : task[w].pc = "idle" /\ run[w] = "idle"
    BY <1>1 DEF Init, Idle, Locked!Init
<1> QED
    BY <1>2, <1>3, <1>4 DEF Scheduled, Punctual, BodyAtWork

LEMMA ScheduledAlways == ~ Overrun /\ ScheduledSpec => []Scheduled
<1> SUFFICES ASSUME ~ Overrun PROVE ScheduledSpec => []Scheduled
    OBVIOUS
<1>1. ScheduledInit => Scheduled
    BY ScheduledStart
<1>2. ASSUME Scheduled, [ScheduledNext]_<<vars, lockVars>> PROVE Scheduled'
    <2>1. TypeInv /\ Locked!IInv /\ Punctual /\ BodyAtWork /\ PhaseInv
        BY <1>2 DEF Scheduled
    <2>2. CASE ScheduledNext
        <3>1. TypeInv'
            BY <2>1, <2>2, LifeStep, TypeNext
        <3>2. Locked!IInv' /\ Punctual' /\ BodyAtWork' /\ PhaseInv'
            BY <1>2, <2>1, <2>2, LockInv, PunctualStep, BodyStep, PhaseScheduled
        <3> QED
            BY <3>1, <3>2 DEF Scheduled
    <2>3. CASE UNCHANGED <<vars, lockVars>>
        <3>1. TypeInv' /\ PhaseInv'
            BY <2>1, <2>3, TypeNext, PhaseTime
        <3>2. Locked!IInv'
            BY <2>1, <2>3 DEF lockVars, Locked!IInv, Locked!TypeOK, Locked!BeganInThePast,
                              Locked!LeaseHeld, Locked!Lease
        <3>3. Punctual' /\ BodyAtWork'
            BY <2>1, <2>3 DEF lockVars, vars, Punctual, BodyAtWork, Locked!Lease
        <3> QED
            BY <3>1, <3>2, <3>3 DEF Scheduled
    <2> QED
        BY <1>2, <2>2, <2>3
<1> QED
    BY <1>1, <1>2, PTL DEF ScheduledSpec

\* With any number of runs of each job, at most one is in its body, and it holds the
\* lock, as long as no run outlives its lease (async with JobLockService).
THEOREM BodiesKeptApart == ~ Overrun /\ ScheduledSpec => []OneBody
<1>1. Scheduled => OneBody
    BY OneHolder DEF Scheduled, BodyAtWork, OneBody
<1> QED
    BY <1>1, ScheduledAlways, PTL

\* In that setting nobody is rewarded for a tournament that is not over, although
\* any number of processes run finish_tournament.
THEOREM ScheduledRewards == ~ Overrun /\ ScheduledSpec => []RewardsOnlyFinished
<1>1. Scheduled => RewardsOnlyFinished
    BY DEF Scheduled, PhaseInv
<1> QED
    BY <1>1, ScheduledAlways, PTL

\* And play never starts without the prices to score against.
THEOREM ScheduledPrices == ~ Overrun /\ ScheduledSpec => []SnapshotBeforePlay
<1>1. Scheduled => SnapshotBeforePlay
    BY DEF Scheduled, PhaseInv
<1> QED
    BY <1>1, ScheduledAlways, PTL
=============================================================================
