------------------------ MODULE TournamentLifecycle ------------------------
(***************************************************************************)
(* The scheduled life of a tournament: services/scheduler_service.py       *)
(* (price_and_score and tournament_lifecycle), the transactions of         *)
(* services/tournament_service.py and services/prize_config_service.py     *)
(* they run, and the status an administrator may set with PUT              *)
(* (api/routes/admin/tournaments.py).                                      *)
(*                                                                         *)
(* A step ends at a commit or before a statement whose answer another task *)
(* may change.  finish_tournament assigns the status first and commits it  *)
(* with whatever its callees commit, so the assignment is kept pending     *)
(* until the session's next commit.                                        *)
(*                                                                         *)
(* Abstracted: which deck wins.  A prize is the price batch it was         *)
(* computed from and how many copies of the prize table were added up; one *)
(* reward type, with a pool or without.  Tournaments are created before    *)
(* the model starts and their decks are those active when play begins.     *)
(***************************************************************************)
EXTENDS Naturals, FiniteSets

CONSTANTS
    Tournaments, Decks, Users,
    Entrants,        \* the valid active decks of each tournament
    Initial,         \* the status each tournament has at first
    Tables,          \* bound: numbers for copies of the prize table
    Pool,            \* whether prize_pools gives the reward type an amount
    LifecycleTasks,  \* the tasks that run tournament_lifecycle
    PriceTasks,      \* the tasks that run price_and_score; a task that is in
                     \* both sets never runs the two jobs at once
    Admins,          \* the PUT requests of administrators
    MaxBatches,      \* bound: price batches scored in one tournament
    MaxSnapshots,    \* bound: snapshots taken by hand stop here
    MaxCrashes,      \* bound: tasks lost with their process
    MaxFaults,       \* bound: statements that fail
    None             \* no tournament

Statuses == {"featured", "registration", "ongoing", "finished"}
Tasks == LifecycleTasks \union PriceTasks

ASSUME EntrantsAssumption == Entrants \in [Tournaments -> SUBSET Decks]
ASSUME InitialAssumption == Initial \in [Tournaments -> Statuses \ {"finished", "ongoing"}]
ASSUME TablesAssumption == IsFiniteSet(Tables)
ASSUME PoolAssumption == Pool \in BOOLEAN
ASSUME NoneAssumption == None \notin Tournaments

VARIABLES
    dates,      \* start_date, gameplay_start_date, end_date: how many are past
    status,     \* tournaments.status
    snapshots,  \* commits that copied the latest prices to tournament_token_snapshots
    batch,      \* batches of token_scores calculated before end_date
    configs,    \* copies of the table in tournament_prize_config, by number
    results,    \* tournament_results
    rewards,    \* user_rewards
    weighted,   \* tournaments whose scores were made into token weights
    packs,      \* packs granted to each user by the lifecycle job
    task,       \* the local state of each task
    puts,       \* what each PUT has read and is about to write
    crashes, faults

vars == <<dates, status, snapshots, batch, configs, results, rewards, weighted,
          packs, task, puts, crashes, faults>>
tables == <<snapshots, batch, configs, results, rewards, weighted, packs>>

\* A result row: by tells apart two rows of one deck.
Result == [deck : Decks, by : Tasks, asof : Nat, share : Nat]
\* A reward row names its result and the task that wrote it.
Reward == [deck : Decks, by : Tasks, payer : Tasks, asof : Nat, share : Nat]

Idle == [pc |-> "idle", t |-> None, due |-> {}, fin |-> FALSE, dirty |-> FALSE,
         doomed |-> {}, asof |-> 0, share |-> 0, seen |-> {}, todo |-> {}]

Init ==
    /\ dates = [t \in Tournaments |-> 0]
    /\ status = Initial
    /\ snapshots = [t \in Tournaments |-> 0]
    /\ batch = [t \in Tournaments |-> 0]
    /\ configs = [t \in Tournaments |-> {}]
    /\ results = [t \in Tournaments |-> {}]
    /\ rewards = [t \in Tournaments |-> {}]
    /\ weighted = {}
    /\ packs = [u \in Users |-> 0]
    /\ task = [w \in Tasks |-> Idle]
    /\ puts = [a \in Admins |-> None]
    /\ crashes = 0 /\ faults = 0

DatePasses(t) ==
    /\ dates[t] < 3
    /\ dates' = [dates EXCEPT ![t] = @ + 1]
    /\ UNCHANGED <<status, tables, task, puts, crashes, faults>>

----------------------------------------------------------------------------
(* The first half of tournament_lifecycle: _check_tournaments_to_start.    *)
(* FEATURED tournaments whose start_date is past are selected and handed   *)
(* to transition_featured_to_registration, which does not exist: the       *)
(* AttributeError is logged and nothing changes.                           *)

\* The local variables of w.
Becomes(w, local) == task' = [task EXCEPT ![w] = local]

LifecycleBegin(w) ==
    /\ w \in LifecycleTasks /\ task[w].pc = "idle"
    /\ Becomes(w, [task[w] EXCEPT !.pc = "starting",
                  !.due = {t \in Tournaments : status[t] = "registration" /\ dates[t] >= 2}])
    /\ UNCHANGED <<dates, status, tables, puts, crashes, faults>>

\* start_tournament reads the status again and gives up if it has changed.
StartExpecting(w, expected, next) ==
    /\ task[w].pc = "starting"
    /\ \E t \in task[w].due :
          IF status[t] = expected
            THEN Becomes(w, [task[w] EXCEPT !.pc = next, !.t = t, !.due = @ \ {t}])
            ELSE Becomes(w, [task[w] EXCEPT !.due = @ \ {t}])
    /\ UNCHANGED <<dates, status, tables, puts, crashes, faults>>

\* Mutants: the status the dead code after start_tournament checks, and no snapshot.
StartReadFeatured(w) == StartExpecting(w, "featured", "snapshot")
StartReadNoSnapshot(w) == StartExpecting(w, "registration", "ongoing")

StartRead(w) == StartExpecting(w, "registration", "snapshot")

\* The snapshot is a transaction of its own, and nothing in the table is
\* unique: ON CONFLICT DO NOTHING never finds a conflict.  It copies what
\* token_prices has, and succeeds when that is nothing: assumed not to be so.
Snapshot(w) ==
    /\ task[w].pc = "snapshot"
    /\ snapshots' = [snapshots EXCEPT ![task[w].t] = @ + 1]
    /\ Becomes(w, [task[w] EXCEPT !.pc = "ongoing"])
    /\ UNCHANGED <<dates, status, batch, configs, results, rewards, weighted, packs,
                   puts, crashes, faults>>

StartSet(w, new) ==
    /\ task[w].pc = "ongoing"
    /\ status' = [status EXCEPT ![task[w].t] = new]
    /\ Becomes(w, [task[w] EXCEPT !.pc = "starting", !.t = None])
    /\ UNCHANGED <<dates, tables, puts, crashes, faults>>

StartCommit(w) == StartSet(w, "ongoing")

\* An exception is logged and the next tournament is taken.
StartFails(w) ==
    /\ task[w].pc \in {"snapshot", "ongoing"} /\ faults < MaxFaults
    /\ Becomes(w, [task[w] EXCEPT !.pc = "starting", !.t = None])
    /\ faults' = faults + 1
    /\ UNCHANGED <<dates, status, tables, puts, crashes>>

----------------------------------------------------------------------------
(* The second half: _check_tournaments_to_finish and finish_tournament.    *)

FinishDue(w, chosen) ==
    /\ task[w].pc = "starting" /\ task[w].due = {}
    /\ Becomes(w, IF chosen = {} THEN Idle
                                   ELSE [Idle EXCEPT !.pc = "finishing", !.due = chosen])
    /\ UNCHANGED <<dates, status, tables, puts, crashes, faults>>

\* Mutant: every tournament that is over, finished or not.
FinishSelectAny(w) == FinishDue(w, {t \in Tournaments : dates[t] = 3})

FinishSelect(w) == FinishDue(w, {t \in Tournaments : status[t] = "ongoing" /\ dates[t] = 3})

FinishAssign(w, assigned) ==
    /\ task[w].pc = "finishing"
    /\ \E t \in task[w].due :
          IF status[t] = "ongoing"
            THEN Becomes(w, [task[w] EXCEPT !.pc = "calc", !.t = t, !.due = @ \ {t},
                                            !.fin = TRUE, !.dirty = assigned])
            ELSE Becomes(w, [task[w] EXCEPT !.due = @ \ {t}])
    /\ UNCHANGED <<dates, status, tables, puts, crashes, faults>>

\* Mutant: the status is not assigned.
FinishReadOnly(w) == FinishAssign(w, FALSE)

FinishRead(w) == FinishAssign(w, TRUE)

\* A commit of w's session writes the assigned status with everything else.
FlushStatus(w) ==
    status' = IF task[w].dirty THEN [status EXCEPT ![task[w].t] = "finished"] ELSE status

\* The task is done with a tournament, or has given up on it: the lifecycle job
\* goes on with the next one, the price job ends.
Leave(w) == IF task[w].fin THEN [Idle EXCEPT !.pc = "finishing", !.due = task[w].due] ELSE Idle

----------------------------------------------------------------------------
(* calculate_results, run by finish_tournament on the session that holds   *)
(* the assigned status, and by the price job on a session of its own.      *)

CalcRead(w) ==
    LET t == task[w].t
    IN  /\ task[w].pc = "calc"
        /\ IF Entrants[t] = {}
             THEN Becomes(w, IF task[w].fin THEN [task[w] EXCEPT !.pc = "reward"] ELSE Idle)
             ELSE Becomes(w, [task[w] EXCEPT !.asof = batch[t],
                                             !.pc = IF Pool THEN "prizes" ELSE "rank"])
        /\ UNCHANGED <<dates, status, tables, puts, crashes, faults>>

\* DELETE of the prize table, as the statement's snapshot shows it.  The rows
\* stay locked until the commit; rows committed in between are not deleted.
DeletePrizes(w, seen) ==
    /\ task[w].pc = "prizes"
    /\ Becomes(w, [task[w] EXCEPT !.doomed = seen, !.pc = "save"])
    /\ UNCHANGED <<dates, status, tables, puts, crashes, faults>>

\* Mutant: the old table is kept.
CalcDeleteNone(w) == DeletePrizes(w, {})

CalcDelete(w) == DeletePrizes(w, configs[task[w].t])

\* The numbers of tables that some task still sees.
UsedTables(t) == configs[t] \union UNION {task[v].doomed : v \in Tasks}

CalcSave(w) ==
    LET t == task[w].t
        new == CHOOSE n \in Tables \ UsedTables(t) : TRUE
    IN  /\ task[w].pc = "save" /\ Tables \ UsedTables(t) # {}
        /\ configs' = [configs EXCEPT ![t] = (@ \ task[w].doomed) \union {new}]
        /\ FlushStatus(w)
        /\ Becomes(w, [task[w] EXCEPT !.pc = "rank", !.dirty = FALSE, !.doomed = {}])
        /\ UNCHANGED <<dates, snapshots, batch, results, rewards, weighted, packs,
                       puts, crashes, faults>>

\* calculate_avg_prize_for_tie adds up every row of the places of a tie group.
CalcRank(w) ==
    /\ task[w].pc = "rank"
    /\ Becomes(w, [task[w] EXCEPT !.share = Cardinality(configs[task[w].t]), !.pc = "match"])
    /\ UNCHANGED <<dates, status, tables, puts, crashes, faults>>

\* scalar_one_or_none raises when a deck has two results.
CalcMatch(w) ==
    LET t == task[w].t
        rows == {r \in results[t] : r.deck \in Entrants[t]}
    IN  /\ task[w].pc = "match"
        /\ IF \E r, q \in rows : r # q /\ r.deck = q.deck
             THEN Becomes(w, Leave(w))
             ELSE Becomes(w, [task[w] EXCEPT !.seen = rows, !.pc = "write"])
        /\ UNCHANGED <<dates, status, tables, puts, crashes, faults>>

\* The ORM writes what differs from what the session read; the amount of a prize
\* depends on the scores and on the table, so both are written together.
Updated(w, r) ==
    LET old == CHOOSE q \in task[w].seen : q.deck = r.deck /\ q.by = r.by
        new == [deck |-> r.deck, by |-> r.by, asof |-> task[w].asof, share |-> task[w].share]
    IN  IF (\E q \in task[w].seen : q.deck = r.deck /\ q.by = r.by) /\ new # old THEN new ELSE r

Inserted(w) ==
    {[deck |-> d, by |-> w, asof |-> task[w].asof, share |-> task[w].share] :
        d \in Entrants[task[w].t] \ {q.deck : q \in task[w].seen}}

WriteResults(w, rows) ==
    /\ task[w].pc = "write"
    /\ results' = [results EXCEPT ![task[w].t] = rows]
    /\ FlushStatus(w)
    /\ Becomes(w, IF task[w].fin
                  THEN [task[w] EXCEPT !.pc = "reward", !.dirty = FALSE, !.seen = {}, !.asof = 0, !.share = 0]
                  ELSE Idle)
    /\ UNCHANGED <<dates, snapshots, batch, configs, rewards, weighted, packs,
                   puts, crashes, faults>>

\* Mutant: a new row for every deck, whether it has one or not.
CalcInsertAll(w) ==
    WriteResults(w, results[task[w].t] \union
        {[deck |-> d, by |-> w, asof |-> task[w].asof, share |-> task[w].share] :
            d \in Entrants[task[w].t]})

CalcWrite(w) ==
    WriteResults(w, {Updated(w, r) : r \in results[task[w].t]} \union Inserted(w))

----------------------------------------------------------------------------
(* The rest of finish_tournament: rewards, token weights, last commit.     *)

\* Mutant: the weights come next, whatever the results are.
RewardSkipped(w) ==
    /\ task[w].pc = "reward"
    /\ Becomes(w, [task[w] EXCEPT !.pc = "weights"])
    /\ UNCHANGED <<dates, status, tables, puts, crashes, faults>>

\* distribute_rewards: the results with a prize that have no reward yet.
\* Without results it returns before its commit.
RewardRead(w) ==
    LET t == task[w].t
        unpaid == {r \in results[t] : r.share > 0 /\
                     ~ \E p \in rewards[t] : p.deck = r.deck /\ p.by = r.by}
    IN  /\ task[w].pc = "reward"
        /\ IF results[t] = {}
             THEN Becomes(w, [task[w] EXCEPT !.pc = "weights"])
             ELSE Becomes(w, [task[w] EXCEPT !.pc = "pay", !.seen = unpaid])
        /\ UNCHANGED <<dates, status, tables, puts, crashes, faults>>

PayRewards(w) ==
    /\ task[w].pc = "pay"
    /\ rewards' = [rewards EXCEPT ![task[w].t] = @ \union
          {[deck |-> r.deck, by |-> r.by, payer |-> w, asof |-> r.asof, share |-> r.share] :
              r \in task[w].seen}]
    /\ FlushStatus(w)
    /\ Becomes(w, [task[w] EXCEPT !.pc = "weights", !.dirty = FALSE, !.seen = {}])
    /\ UNCHANGED <<dates, snapshots, batch, configs, results, weighted, packs,
                   puts, crashes, faults>>

\* recalculate_token_weights returns before its commit when no token has a
\* score of this tournament.
Weights(w) ==
    /\ task[w].pc = "weights"
    /\ Becomes(w, [task[w] EXCEPT !.pc = "commit", !.dirty = @ /\ batch[task[w].t] = 0])
    /\ IF batch[task[w].t] = 0
         THEN UNCHANGED <<status, weighted>>
         ELSE weighted' = weighted \union {task[w].t} /\ FlushStatus(w)
    /\ UNCHANGED <<dates, snapshots, batch, configs, results, rewards, packs,
                   puts, crashes, faults>>

FinishCommit(w) ==
    /\ task[w].pc = "commit"
    /\ FlushStatus(w)
    /\ Becomes(w, Leave(w))
    /\ UNCHANGED <<dates, tables, puts, crashes, faults>>

\* A statement of the calculation, the rewards or the weights fails: what the
\* session has not committed is rolled back and the exception is logged.
WorkFails(w) ==
    /\ task[w].pc \in {"calc", "prizes", "save", "rank", "match", "write",
                       "reward", "pay", "weights", "commit"}
    /\ faults < MaxFaults
    /\ Becomes(w, Leave(w))
    /\ faults' = faults + 1
    /\ UNCHANGED <<dates, status, tables, puts, crashes>>

\* After the last tournament, finished or not, expired cards are put away (the
\* cards are not modelled here) and every active user gets new packs, each in
\* a transaction whose failure is logged.
Cleanup(w) ==
    /\ task[w].pc = "finishing" /\ task[w].due = {}
    /\ Becomes(w, [Idle EXCEPT !.pc = "grant", !.todo = Users])
    /\ UNCHANGED <<dates, status, tables, puts, crashes, faults>>

\* The query for tournaments that are over, the cleanup or the query for users
\* fails: the exception is logged and the job ends.
CheckFails(w) ==
    /\ task[w].pc \in {"starting", "finishing"} /\ task[w].due = {} /\ faults < MaxFaults
    /\ Becomes(w, Idle)
    /\ faults' = faults + 1
    /\ UNCHANGED <<dates, status, tables, puts, crashes>>

GrantOne(w, u) ==
    /\ task[w].pc = "grant" /\ u \in task[w].todo
    /\ packs' = [packs EXCEPT ![u] = @ + 1]
    /\ Becomes(w, [task[w] EXCEPT !.todo = @ \ {u}])
    /\ UNCHANGED <<dates, status, snapshots, batch, configs, results, rewards, weighted,
                   puts, crashes, faults>>

GrantFails(w, u) ==
    /\ task[w].pc = "grant" /\ u \in task[w].todo /\ faults < MaxFaults
    /\ Becomes(w, [task[w] EXCEPT !.todo = @ \ {u}])
    /\ faults' = faults + 1
    /\ UNCHANGED <<dates, status, tables, puts, crashes>>

LifecycleEnd(w) ==
    /\ task[w].pc = "grant" /\ task[w].todo = {}
    /\ Becomes(w, Idle)
    /\ UNCHANGED <<dates, status, tables, puts, crashes, faults>>

----------------------------------------------------------------------------
(* price_and_score.  Two tournaments that are ONGOING make the query for   *)
(* one raise, and the job ends; with none it writes zero scores.           *)

PriceBegin(w) ==
    /\ w \in PriceTasks /\ task[w].pc = "idle"
    /\ \E t \in Tournaments :
          /\ {s \in Tournaments : status[s] = "ongoing"} = {t}
          /\ batch[t] < MaxBatches
          /\ Becomes(w, [task[w] EXCEPT !.t = t, !.pc = "score"])
    /\ UNCHANGED <<dates, status, tables, puts, crashes, faults>>

\* calculate_and_store_scores reads prices and the snapshot and stamps the
\* scores; without a snapshot there is nothing to score.  Scores stamped after
\* end_date do not count.
ScoreStamp(w) ==
    LET t == task[w].t
    IN  /\ task[w].pc = "score"
        /\ Becomes(w, [task[w] EXCEPT !.pc = IF snapshots[t] > 0 /\ dates[t] < 3 THEN "store" ELSE "calc"])
        /\ UNCHANGED <<dates, status, tables, puts, crashes, faults>>

ScoreStore(w) ==
    /\ task[w].pc = "store"
    /\ batch' = [batch EXCEPT ![task[w].t] = @ + 1]
    /\ Becomes(w, [task[w] EXCEPT !.pc = "calc"])
    /\ UNCHANGED <<dates, status, snapshots, configs, results, rewards, weighted, packs,
                   puts, crashes, faults>>

\* The job ends without a leaderboard.
ScoreFails(w) ==
    /\ task[w].pc \in {"score", "store"} /\ faults < MaxFaults
    /\ Becomes(w, Idle)
    /\ faults' = faults + 1
    /\ UNCHANGED <<dates, status, tables, puts, crashes>>

----------------------------------------------------------------------------
(* Crashes and administrators.                                             *)

\* The process of a task stops and is started again: the session's pending
\* changes and every local variable are gone.
Crash(w) ==
    /\ task[w].pc # "idle" /\ crashes < MaxCrashes
    /\ Becomes(w, Idle)
    /\ crashes' = crashes + 1
    /\ UNCHANGED <<dates, status, tables, puts, faults>>

Active == {"registration", "ongoing"}
Forbidden == {<<"ongoing", "featured">>, <<"ongoing", "registration">>,
              <<"finished", "featured">>, <<"finished", "registration">>, <<"finished", "ongoing">>}

\* update_tournament checks the status it read ...
PutRead(a, t, to) ==
    /\ puts[a] = None
    /\ to # status[t] /\ <<status[t], to>> \notin Forbidden
    /\ to = "registration" => dates[t] < 2
    /\ to \in Active => \A s \in Tournaments \ {t} : status[s] \notin Active
    /\ puts' = [puts EXCEPT ![a] = [t |-> t, to |-> to]]
    /\ UNCHANGED <<dates, status, tables, task, crashes, faults>>

\* ... and writes the new one over whatever the row holds by then.
PutWrite(a) ==
    /\ puts[a] # None
    /\ status' = [status EXCEPT ![puts[a].t] = puts[a].to]
    /\ puts' = [puts EXCEPT ![a] = None]
    /\ UNCHANGED <<dates, tables, task, crashes, faults>>

\* POST .../snapshot takes a snapshot whatever the status is.
SnapshotByHand(a, t) ==
    /\ snapshots[t] < MaxSnapshots
    /\ snapshots' = [snapshots EXCEPT ![t] = @ + 1]
    /\ UNCHANGED <<dates, status, batch, configs, results, rewards, weighted, packs,
                   task, puts, crashes, faults>>

----------------------------------------------------------------------------
Calculate(w) ==
    CalcRead(w) \/ CalcDelete(w) \/ CalcSave(w) \/ CalcRank(w) \/ CalcMatch(w) \/ CalcWrite(w)

\* What a task that is under way does next when nothing fails.
Work(w) ==
    \/ StartRead(w) \/ Snapshot(w) \/ StartCommit(w) \/ FinishSelect(w) \/ FinishRead(w)
    \/ Calculate(w)
    \/ RewardRead(w) \/ PayRewards(w) \/ Weights(w) \/ FinishCommit(w)
    \/ Cleanup(w) \/ (\E u \in Users : GrantOne(w, u)) \/ LifecycleEnd(w)
    \/ ScoreStamp(w) \/ ScoreStore(w)

Fails(w) ==
    \/ StartFails(w) \/ CheckFails(w) \/ WorkFails(w) \/ ScoreFails(w)
    \/ \E u \in Users : GrantFails(w, u)

Fault(w) == Fails(w) \/ Crash(w)

Admin(a) ==
    \/ \E t \in Tournaments, to \in Statuses : PutRead(a, t, to)
    \/ PutWrite(a)
    \/ \E t \in Tournaments : SnapshotByHand(a, t)

Next ==
    \/ \E t \in Tournaments : DatePasses(t)
    \/ \E w \in Tasks : LifecycleBegin(w) \/ PriceBegin(w) \/ Work(w) \/ Fault(w)
    \/ \E a \in Admins : Admin(a)

Spec == Init /\ [][Next]_vars

\* Dates pass; a job under way goes on; cron starts the lifecycle job again and
\* again, also on a task that runs the price job in between.
FairSpec ==
    /\ Spec
    /\ \A t \in Tournaments : WF_vars(DatePasses(t))
    /\ \A w \in Tasks : WF_vars(Work(w)) /\ SF_vars(LifecycleBegin(w))

----------------------------------------------------------------------------
(* Properties.                                                             *)

TaskType ==
    [pc : {"idle", "starting", "snapshot", "ongoing", "finishing", "calc", "prizes", "save",
           "rank", "match", "write", "reward", "pay", "weights", "commit", "grant",
           "score", "store"},
     t : Tournaments \union {None}, due : SUBSET Tournaments, fin : BOOLEAN, dirty : BOOLEAN,
     doomed : SUBSET Tables, asof : Nat, share : Nat, seen : SUBSET Result, todo : SUBSET Users]

\* Type correctness.
TypeOK ==
    /\ dates \in [Tournaments -> 0 .. 3]
    /\ status \in [Tournaments -> Statuses]
    /\ snapshots \in [Tournaments -> Nat]
    /\ batch \in [Tournaments -> Nat]
    /\ configs \in [Tournaments -> SUBSET Tables]
    /\ results \in [Tournaments -> SUBSET Result]
    /\ rewards \in [Tournaments -> SUBSET Reward]
    /\ weighted \in SUBSET Tournaments
    /\ packs \in [Users -> Nat]
    /\ task \in [Tasks -> TaskType]
    /\ puts \in [Admins -> [t : Tournaments, to : Statuses] \union {None}]
    /\ crashes \in Nat /\ faults \in Nat

\* Nobody is rewarded for a tournament that is not over, although the rewards
\* are committed apart from the status ("Should be called after: 1. Tournament
\* status changed to FINISHED", distribute_rewards).
RewardsOnlyFinished == \A t \in Tournaments : rewards[t] # {} => status[t] = "finished"

\* Play is never on before the prices it is scored against were copied (the latest
\* ones: a token_prices with no row yet, as on a new installation, gives none).
SnapshotBeforePlay ==
    \A t \in Tournaments : status[t] \in {"ongoing", "finished"} => snapshots[t] > 0

\* A deck is rewarded once, through retries of finish_tournament, leaderboards
\* before and after the end, failures and crashes.
RewardedOnce ==
    \A t \in Tournaments : \A p, q \in rewards[t] : p.deck = q.deck => p = q

\* What a deck is paid was computed from the last prices before the end and
\* from one copy of the prize table.
RewardsExact ==
    \A t \in Tournaments : \A p \in rewards[t] : p.asof = batch[t] /\ p.share = 1

\* Token weights change last: by then every result with a prize is rewarded.
WeightsAfterRewards ==
    \A t \in weighted :
        /\ status[t] = "finished"
        /\ \A r \in results[t] :
              r.share > 0 => \E p \in rewards[t] : p.deck = r.deck /\ p.by = r.by

\* Packs are granted at most once for each tournament that ended and each
\* failure: a finish that failed is tried again, a crash never grants twice
\* ("Granted weekly packs to user", _check_tournaments_to_finish).
GrantsBounded ==
    \A u \in Users :
        packs[u] <= Cardinality({t \in Tournaments : status[t] = "finished"}) + faults

\* A tournament in registration is played and finished.
Ends == \A t \in Tournaments : (status[t] = "registration") ~> (status[t] = "finished")

\* Every entrant of a tournament with a pool is rewarded in the end, unless a
\* statement failed or a process stopped.
EntrantsPaid ==
    \A t \in Tournaments : \A d \in Entrants[t] :
        (Pool /\ status[t] = "registration")
            ~> (crashes + faults > 0 \/ \E p \in rewards[t] : p.deck = d)

\* The two jobs implement the abstract life cycle: registration, play, the end,
\* and then one payment for each deck.
Phases == INSTANCE TournamentPhases WITH
    phase <- status,
    paid <- [t \in Tournaments |-> [d \in Decks |->
               {<<p.asof, p.share>> : p \in {q \in rewards[t] : q.deck = d}}]]
ImplementsPhases == Phases!Spec

----------------------------------------------------------------------------
(* What the comments say and the code does not keep.                       *)

\* "ALL operations happen in a SINGLE transaction - either everything succeeds
\* or everything rolls back" (finish_tournament): once nobody is finishing a
\* tournament any more, it is finished only together with its rewards.
AllOrNothing ==
    \A t \in Tournaments :
        (status[t] = "finished" /\ Pool /\ ~ \E w \in Tasks : task[w].fin /\ task[w].t = t)
            => \A d \in Entrants[t] : \E p \in rewards[t] : p.deck = d

\* "FEATURED -> REGISTRATION (when start_date arrives)"
\* (_check_tournaments_to_start).
RegistrationOpens ==
    \A t \in Tournaments :
        (status[t] = "featured" /\ dates[t] >= 1) ~> (status[t] # "featured")

\* "Updating existing result" (calculate_results) and result =
\* relationship(..., uselist=False) (TournamentDeck): a deck has one result.
OneResultPerDeck ==
    \A t \in Tournaments : \A r, q \in results[t] : r.deck = q.deck => r = q
=============================================================================
