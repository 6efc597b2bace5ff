# Verification of the HODLeague backend

HODLeague is a fantasy league of crypto tokens: users open packs of cards, enter a deck of five
into a tournament, and are paid by how the prices of their tokens move. The repository is a
FastAPI service over PostgreSQL with a scheduler inside the process (APScheduler), and the
contracts it works with on Avalanche. This directory holds TLA+ models of that code, the TLC
configurations that check them on small instances, and TLAPS proofs of what holds for every size.

1. [The system](#the-system)
2. [The models](#the-models)
3. [What is checked](#what-is-checked)
4. [What is proved](#what-is-proved)
5. [Where the code departs from its documents](#where-the-code-departs-from-its-documents)
6. [Not modelled, and the plan](#not-modelled-and-the-plan)

To run: `tlc -config JobLock_leases.cfg MCJobLock` checks one instance, `tlapm
PackOpeningProofs.tla` checks the proofs of a module. The configurations belong to these modules:

| Configurations | Module |
|---|---|
| `PackOpening_*.cfg` | `MCPackOpening` |
| `JobLock_*.cfg` | `MCJobLock` |
| `TournamentLifecycle_*.cfg` | `MCTournamentLifecycle` |
| `ScheduledLifecycle_*.cfg` | `MCScheduledLifecycle` |
| `Registration_*.cfg` | `MCTournamentRegistration` |
| `Accounts_serial.cfg` | `MCAccounts` |
| `Catalogue_panel.cfg` | `MCCatalogue` |
| `Parts.cfg` | `MCParts` |

## The system

| Component | Where | State it keeps | Operations | Module |
|---|---|---|---|---|
| Pack opening | `services/pack_opening_service.py`, `services/pack_signing_service.py`, `api/routes/packs.py` | `user_packs`, `pack_openings` | `prepare_open_offchain`: store an opening and its drawn cards, sign a mint payload, sign it again when asked again | `PackOpening` |
| Recording of mints | `services/blockchain_event_listener.py` | `user_cards`, `pack_openings.status`, `user_packs.is_opened` | confirm by transaction hash, `process_pack_opened_events_job` every ten seconds | `PackOpening` |
| HodleagueCards | `tournament-contracts/src/HodleagueCards.sol` | `used` openings, tokens, logs | `mintWithSignature` | `PackOpening` |
| Draw of cards, pack types, history | `services/pack_opening_service.py`, `api/routes/packs.py`, `api/routes/admin/packs.py` | `pack_types`, `pack_openings` | grant, draw the cards of an opening, edit a type, list packs and openings | `PackShelf` |
| Job lock | `services/lock_service.py` | `job_locks` | `acquire`, `release` | `JobLock` |
| Tournament life cycle | `services/scheduler_service.py`, `services/tournament_service.py` | `tournaments.status`, snapshots, results, rewards, token weights | start, finish, leaderboard, rewards, weights, grants of packs | `TournamentLifecycle`, `ScheduledLifecycle` |
| Tournament administration | `api/routes/admin/tournaments.py` | `tournaments` | set a status, take a snapshot by hand | `TournamentLifecycle` |
| Prize tables | `services/prize_config_service.py`, `utils/prize_distribution.py`, `tournament_service.py` | `tournament_prize_config` | scale the pool, cut the table, average over a tie | `PrizeTable` |
| Prices, scores, weights | `services/price_monitor_service.py`, `services/score_service.py`, `tournament_service.recalculate_token_weights` | `token_prices`, `token_scores`, `tokens.weight` | append a batch of prices and a batch of scores, deal the weights out anew | `Market` |
| Registration | `services/tournament_registration_service.py`, `services/web3_verification_service.py`, `TournamentRegistry.sol` | `tournament_decks`, `user_cards.status` | validate, register, unregister | `TournamentRegistration` |
| Login and accounts | `services/web3_auth_service.py`, `api/routes/auth.py`, `api/routes/users.py` | nonces in memory, `users`, starter packs | nonce, verify, onboarding, rename, mint of a pack by the panel | `Accounts` |
| Rewards of a user | `tournament_service.claim_tournament_rewards` | `user_rewards.claim_status` | claim | `Accounts` |
| Catalogue | `api/routes/admin/{cards,tokens,rarities,prizes,alpha_test}.py` | `tokens`, `rarities`, `cards`, `tournament_prize_config`, `alpha_test_access` | create, edit, delete | `Catalogue` |
| Card renderer | `services/card_render_service.py` | `cards.rendered_image_url`, files in storage | render, upload, delete the old image | `Catalogue` |
| Public reads | `api/routes/{tournaments,cards,users,tokens}.py`, the view `active_cards_with_score` | the view | lists, details, leaderboards, balances, refresh of the view | `Showcase` |
| HodleaguePacks | `tournament-contracts/src/HodleaguePacks.sol` | packs, commits, funds | buy, claim, commit, reveal, withdraw; transfers and burns of the cards it mints | `PackContract` |

**How they interact.** Everything in the process shares one event loop and one database. A request
or a job is a coroutine: it gives way at every `await`, and each `await db.execute` or
`db.commit` is one. Sessions are made with `autoflush=False` and `expire_on_commit=False`
(`models/database.py`), so an assignment to an object is written by the *next commit of its
session*, whoever calls it, and an object read before a commit keeps the values it had.
PostgreSQL runs READ COMMITTED; no statement of the modelled code takes a row lock (`FOR UPDATE`
appears nowhere), and most tables have no unique constraint besides their keys. The chain is seen
through receipts and logs, the process is restarted by its supervisor (`restart:
unless-stopped`), and nothing but the tables survives.

**What is hard.**

* *Check, await, act.* `prepare_open`, `confirm`, `register`, `update_tournament` read a row, wait,
  and write without reading it again.
* *Hidden commits.* `finish_tournament` is written as one transaction, and each helper it calls commits.
* *Two jobs, two locks.* `price_and_score` and `tournament_lifecycle` exclude themselves, not each
  other, and both call `calculate_results`.
* *Retries.* A job that failed is run again by its trigger over what the failed run left.
* *A lock that expires* while its holder is still at work.
* *A window of blocks* in place of a cursor over the logs.
* *Two records of one fact.* A registration is in a table and in a contract, a card's lock in the card
  and in the deck, a balance in several queries, an image in a row and in a store.
* *Memory.* The nonces live in one process.
* *Integer arithmetic in several steps*: pools, tables, ties, scores, weights.

Correct means, in short: for packs, that nobody rerolls and what is recorded was minted; for the
lock, that within its lease a run is alone and that no dead row blocks a job; for tournaments, that
play starts with prices, every deck is paid once and the right amount after the end, and that the
end is reached; for registration, that a card is locked exactly while a deck has it and that no deck is in the table which
its player did not commit to in the contract; for accounts, that a signature opens one session, starter packs
come once, and what an answer said stays true; for what is computed and shown, that pools are spent,
better is never paid or scored less, and that every page tells the same story.

## The models

A model keeps every state change, guard, early return and error path of the code it covers and
abstracts data to what the properties tell apart. A step of a task is what the code does from one
point at which others may interfere to the next: a commit, or a statement whose answer another
task may change. Names are those of the source. Definitions marked *Mutant* are plausible bugs;
nothing in the specifications uses them, they show that a property notices.

### `PackOpening` (with `PackLifecycle`)

| Model | Code |
|---|---|
| `isOpened`, `openings`, `nextOpeningId`, `userCards` | `user_packs.is_opened`, `pack_openings` and its sequence, rows of `user_cards` (one batch per application of a mint) |
| `signatures` | mint payloads the backend ever returned; a client may use any of them at any time |
| `block`, `used`, `events` | chain height, the `used` mapping of each deployed contract, `PackOpened` logs |
| `up`, `cardsAddress`, `lastPoll` | whether the process runs, the contract it is configured with, the block of the last poll |
| `PrepareBegin`, `PrepareRead`, `PrepareDraw`, `PrepareInsert` / `PrepareResign`, `PrepareFails` | `prepare_open_offchain`, await by await: the pack, its opening, the flush that takes an id, the commit; or the commit of a new signature |
| `MintWithSignature`, `NewBlock` | the contract, the chain |
| `ConfirmBegin`, `ConfirmReceipt` | `confirm_pack_opening_by_tx_hash` before and after the receipt comes back from its thread |
| `PollFetch`, `PollFails`, `PollNext` | one run of `process_pack_opened_events_job` |
| `ApplyRead`, `ApplyWrite`, `ApplyFails` | `_apply_pack_opened_event`, shared by both |
| `Crash`, `Restart` | the process; a restart may read another `CARDS_CONTRACT_ADDRESS` |

A draw (server seed and the card ids that go with it) is a model value. The contract checks the
signer of a payload, so a mint needs a member of `signatures`. `PackLifecycle` is the promise:
an opening is offered, minted, recorded, in this order, and the offer never changes. It is
implemented under the mapping `stageOf` / `offerOf` at the end of `PackOpening`.

### `JobLock`

`acquire` is two transactions, with the clock read before both: `Begin`, `Purge` (expired rows of
*every* job), `Insert` (`ON CONFLICT DO NOTHING`, the returned row decides). `Finish` ends the body
of the job after any time, `Release` deletes by name and `lock_id`. `AcquireFails`,
`ReleaseFails` and `InsertUnanswered` (the commit takes effect and its answer is lost) are the
error paths, `Crash` loses the run and keeps the row. A run stands for one occurrence of a job after
the other; the row of an earlier occurrence is gone before a later one can insert, as the name is
the primary key.

### `TournamentLifecycle` (with `TournamentPhases`)

| Model | Code |
|---|---|
| `dates` | how many of `start_date`, `gameplay_start_date`, `end_date` are past |
| `status` | `tournaments.status` |
| `snapshots`, `batch` | commits that copied the latest prices, score batches that count for the result |
| `configs` | the copies of the prize table in `tournament_prize_config` |
| `results`, `rewards` | rows of `tournament_results`, `user_rewards`; a result says which batch it was computed from (`asof`) and how many copies of the table were added up (`share`) |
| `weighted`, `packs` | tournaments that changed the token weights, packs granted at the end of tournaments |
| `task` | program counter and local variables of each scheduler task |
| `puts` | PUT requests between their checks and their write |
| `LifecycleBegin`, `StartRead`, `Snapshot`, `StartCommit`, `StartFails` | `_check_tournaments_to_start`, `start_tournament`, `create_tournament_snapshot` |
| `FinishSelect`, `FinishRead`, `FinishCommit`, `Cleanup`, `GrantOne`, `LifecycleEnd` | `_check_tournaments_to_finish`, `finish_tournament`, the grants of packs |
| `CalcRead`, `CalcDelete`, `CalcSave`, `CalcRank`, `CalcMatch`, `CalcWrite` | `calculate_results` with `generate_and_save_prize_structure` and `calculate_avg_prize_for_tie` |
| `RewardRead`, `PayRewards`, `Weights` | `distribute_rewards`, `recalculate_token_weights` |
| `PriceBegin`, `ScoreStamp`, `ScoreStore` | `_price_and_score_job` up to its call of `calculate_results` |
| `WorkFails`, `CheckFails`, `ScoreFails`, `GrantFails`, `Crash` | exceptions, at the handler that catches them, and the end of the process |
| `PutRead`, `PutWrite`, `SnapshotByHand` | `update_tournament`, `POST /{id}/snapshot` |

The field `task[w].dirty` is the point of the model: it is the status `finish_tournament` has
assigned and not yet written, and `FlushStatus` writes it with whichever commit comes next, that of
the prize table, of the results, of the rewards, of the weights or its own.

Coarser than the code, on purpose: `calculate_results` reads the existing result of each deck in a
loop and the model reads them in one step (`CalcMatch`); prizes of one reward type stand for those
of all; `is_active` of a tournament is true and the dates of a tournament are not edited while the
model runs; the cleanup of expired cards and the rendering of images touch nothing the model
keeps; of the weights only the commit is kept. The snapshot's `INSERT..SELECT` copies what
`token_prices` has; the model assumes that the table is not empty, as it is on a new installation until
the first cycle of prices (a tournament started then would never be scored: `Market` has that case, in
`Eligible`). The decks of a tournament are the constant
`Entrants`. `TournamentPhases` is the promise: registration, play, end, and after the end each
deck is paid at most once, an amount that is not changed.

### `ScheduledLifecycle`: the jobs under their locks

`JobLock` and `TournamentLifecycle` composed: a task is a run of its job's lock (`Lock == INSTANCE JobLock
WITH Runs <- Tasks, pc <- run, ...`), in `async with JobLockService(...)`.

| Model | Code |
|---|---|
| `Locking` | `__aenter__` and `__aexit__`: every step of acquire and release of `JobLock`, with its failures |
| `Body` | a step of the job's body, which is any step of the task in `TournamentLifecycle`; the one that brings the task back to idle ends the body (`Finish`) |
| `NothingToScore` | a `price_and_score` that finds no tournament, or fails before it has one |
| `Stop` | the process of a run stops, inside or outside the body |
| `Tick` | time passes for leases; unless `Overrun`, not beyond the lease of a run that is under way |

Two runs of one job come about although each has `max_instances=1`: `SchedulerService.start` calls the
jobs itself after the triggers are set, and a process being replaced may meet its successor. `Overrun` is the
assumption made visible: the code sets leases of 180 and 300 seconds and relies on bodies that are
shorter.

### `TournamentRegistration` (with `DeckCustody`)

| Model | Code |
|---|---|
| `tstatus`, `weight` | `tournaments.status`, `tokens.weight` |
| `cardStatus`, `isActive`, `lapsed` | `user_cards.status`, `.is_active`, the cards past `expires_at` |
| `decks`, `nextDeckId` | `tournament_decks` and its sequence |
| `registrations`, `txs` | the mapping of `TournamentRegistry.sol`, the mined transactions |
| `client` | what the wallet's front end holds: nothing, a previewed deck, a transaction to show |
| `req` | requests under way, with what they have read |
| `Preview`, `registerDeck`, `unregisterDeck`, `GiveUp` | validate-deck, the two calls of the contract, a front end that forgets |
| `TakeUp` | a front end that shows any transaction the wallet ever mined: the code asks of a transaction whether it was mined and successful, by whom, and for which deck, not whether it is the last one |
| `RegisterBegin`, `RegisterDeck`, `RegisterCards`, `RegisterCommit` / `RegisterRefused` | `register`, await by await: the tournament, the deck of the user, the cards, the transaction with the insert and the locks |
| `UnregisterBegin`, `UnregisterFind`, `UnregisterVerify`, `UnregisterCommit` | `unregister`, likewise |
| `RequestFails` | an exception, a lost request or a lost answer |
| `StartTournament`, `FinishTournament`, `Lapse`, `CleanupCards` | what the life of tournaments does to it: the scheduler's start, the finish with the new weights, `expires_at`, the cleanup of expired cards |

A registration may therefore be taken from an old transaction: a player enters with deck A, withdraws on the
chain, enters there with deck B and shows the transaction of A, and table and contract name two decks.
`ChainAgrees` says what remains true, whichever transaction is shown: a deck in the table was committed
to by a mined, successful `registerDeck` of its player, with these cards and for this tournament, and the
contract holds it still or the player has withdrawn it there *since*.

The hash of a deck is the record it is computed from. `DeckCustody` is the promise: a deck takes
cards of its user that no deck has, keeps them unchanged, and gives all of them back at once.

### `Accounts`

| Model | Code |
|---|---|
| `nonce_storage`, `issued` | the dictionary of the process, nonces issued so far |
| `users`, `packs`, `rewards` | `users` by wallet with referral and onboarding, `user_packs` by source, `user_rewards` |
| `generate_nonce`, `NonceExpires`, `verify_signature`, `verify_signature_late`, `test_verify` | `web3_auth_service`, the test route outside production |
| `get_user_by_wallet`, `SelectUser`, `ChooseNickname`, `FindReferrer`, `InsertUser` / `InsertUserCredited`, `grant_packs_to_user` | the sign-in of `auth.py` and `create_or_get_user`, statement by statement: `LookupFails`, `Refused` and `RequestFails` are its error paths |
| `OnboardingBegin/Commit`, `Award`, `ClaimBegin/Commit`, `UpdateUserBegin/Commit`, `admin_mint_pack` | onboarding steps, rewards, the claim as its read and its update, the panel's rename and mint |
| `Crash` | loses the nonces and the requests, keeps the tables |

`accepted` and `told` are history: the nonces accepted, and what answers reported.

### `Catalogue`

One handler is a check and a later commit (`CreateCardCheck`, `CreateCardCommit`, ...), as the
sessions of the panel await between the two. Tokens, rarities, cards with their
(token, rarity, design) key, prizes by ranges of places and reward type, and the whitelist are its tables;
`RenderRead`, `RenderUpload`, `RenderCommit`, `RenderClean` are a render, which runs beside the panel
and beside other renders of the same card. An image is named for its card and the second it was
stored in, as in the code: two renders in one second write one file.

The panel writes prizes until the tournament starts. Then every ranking does (`calculate_results`, which the
price job calls during play and `finish_tournament` at its end): for each reward type that has a pool,
`RankDelete` is the DELETE of the rows of *that* type and `RankSave` the commit with a row for each
place, beside rows of the panel for other types. So the panel's rule, one prize for a position, ends with
the first ranking, and `PrizesDisjoint` says what is kept: rows of the panel stay disjoint among each other,
and so do the rows of one reward type, whoever wrote them. Two exceptions have a place in the history:
a row committed between another ranking's DELETE and its commit was not seen by that DELETE
(`unseen`; the price job and a finish may rank side by side, which is the finding about two prize tables
below), and a request of the panel that passed its check before the start may commit after it (`Late`).
A DELETE that meets rows another ranking deletes waits for it and then finds them gone; it keeps the
snapshot it began with, so the model takes both sets when they are read. A start taken back by hand (a PUT of
the status) is in `TournamentLifecycle` and not here.

### `PrizeTable`, `Market`, `PackShelf`, `Showcase`, `PackContract`

* `PrizeTable`: `calculate_dynamic_prize_pool`, `distribute_prizes` and `calculate_avg_prize_for_tie`
  as operators over a table that is a sequence of runs of places of equal prize (`from`, `to`,
  `prize`); a field of decks joins one by one and is ranked. Fractions are exact: the doubles of the
  code round to the same integers for the pools of the run, and beyond 250 decks, where the code would
  carry a fraction of the pool along, the base is a multiple of 1000 (the bound in `PrizeStart`).
* `Market`: a cycle of the monitor (quotes to one price per token, all rows or none), the snapshot,
  the score of every eligible token (change, activity, capitalisation, growth bonus, normalisation),
  and the new weights. The two windows of the code are kept apart: activity adds up the moves from
  `start_date` on, the opening of registration (`MarketOpen` notes how many rows a token had then), the
  change is against the snapshot of `gameplay_start_date` (`MarketStart`).
* `PackShelf`: the draw behind prepare-open, one symbol at a time while tokens and cards are switched
  by the panel, and the history read page by page while packs are opened. Any exception of the service
  is answered as an empty page of total 0, with status 200 (`HistoryError`): a client cannot tell it from
  the history of a user without openings, so what `HistoryComplete` promises needs an empty page that comes
  with a total.
* `Showcase`: every public read as an operator on the tables, over a database that changes between
  reads, with the materialized view as a copy that is as old as its last refresh. A run of the price job
  about a tournament is `ShowRun`, `ShowScore`, `ShowRank`: it stores scores and ranks the decks *during play*, so
  results exist before the end and profiles count them, while the history shows finished tournaments
  only. The finish is `ShowFinish`, whose first commit has the status with the results, and `ShowReward`,
  later or never. A run of the price job that was under way may rank the decks again
  afterwards (`late`), and then results differ from the rewards paid. An administrator may switch a card, change a bonus, or
  switch off a token and leave its card alone: the list of tokens drops it, the view keeps its
  card. When two active cards of a token keep the view from being refreshed, the first half of `LiveScores`
  says nothing; that the panel does not create such cards is `UniqueActive` of `Catalogue`.
* `PackContract`: every call of `HodleaguePacks.sol` that changes its mappings and counters, with
  signatures as members of the set of signed messages, and the calls of `HodleagueCards.sol` that
  change who has a card: a burn by its owner or with `BURNER_ROLE`, and a transfer.
  A wallet with code (`coded`) is called back for each token it is sent and may make calls itself. The reveals
  mint their cards in a loop and write the next number and delete the commit after it, so a reveal
  is taken call by call: `calls` is the stack of reveals under way, `MintCard` one turn of the loop, `RevealEnds` what
  follows it. `mint`, `buyPack` and `claimPack` have written what they write when they call back and
  are one step. Properties of commits and cards are stated between transactions (`Idle`), those of packs and money
  at every moment.

`MCParts` puts the five beside each other in one run. They share no state in the model, so a
behaviour is one of one part and the others rest; the run's size is the sum of theirs, not the product. `Showcase` and
`PackContract` have two parts each, which bound different things: one tournament with edits and late runs (`season`)
or two without (`seasons`), packs that are sold and claimed (`sales`) or minted by the server and opened, with
wallets that have code or not (`openings`).

## What is checked

Every passing run is exhaustive for its constants; every property is shown by a mutant of the model
to be able to fail (`PROJECT.json` lists them). Properties that hold under the same conditions are
conjoined under one name; their parts are named and commented in the module.

### Packs

| Run | Checks | Shows |
|---|---|---|
| `packs_race` | `SignedAsStored`, `CardsBackedByMint`, `RecordsAgree`, `HistoryKept`, `ImplementsLifecycle` | two prepares, a confirm and the job on one pack with two possible draws, a crash and a redeploy: every payload binds what was stored, tables and chain agree, nothing recorded is lost |
| `packs_live` | `OneOpeningPerPack`, `OneRowPerToken`, `MintedIsRecorded` | two users' packs; prepares do not overlap, only the job applies mints, and two polls or commits fail: every mint is recorded, once, from one opening of its pack |
| `packs_two_prepares` | `OneOpeningPerPack` | violated, see below |

*Bounds.* The races are between two tasks over one row, so two preparers, one confirmer beside the
job, two draws and two opening ids give every order of two; a second contract gives the redeploy. In
`packs_race` the chain stands still (`MaxBlock = 0`), as the window plays no part in safety.
`packs_live` is tight: with a window of three blocks, one block per poll and two faults the last
admissible poll still sees a mint; with a window one block shorter it does not (the mutant
`PollFetchShort`).

*Fairness.* The poll interval fires again as long as the process is up; a run that fetched logs takes
them one after the other; a stopped process is restarted. Nothing is assumed of users, nor of
blocks: `NewBlock` only says that while the server is up the chain does not get further than
`BlocksPerPoll` past the last poll. That is an assumption about the environment, stated in the
model; the default window of the code is far larger than the blocks of ten seconds.

### Job lock

| Run | Checks | Shows |
|---|---|---|
| `lock_leases` | `TypeOK`, `OneUnexpiredHolder`, `HolderKeepsRow`, `LeaseProtected`, `OrphanRemoved` | two runs of one job and one of the other, each as slow as it likes, with an error and a crash: within its lease a run is alone and its row is safe from late runs, and a row left by a crash, a failed release or an unanswered insert is removed once it has expired |

*Bounds.* Timeouts of 3 and 2 keep the order of the code's 300 and 180 seconds and leave room for
a run to outlive its lease, and for the next one to begin, before the clock stops at 5. A row that
would expire at the last tick is excluded from `OrphanRemoved`, as no clock reading can exceed it.
*Fairness.* Time passes, cron fires again, the statements of a run return.

### Tournaments

| Run | Checks | Shows |
|---|---|---|
| `tournament_serial` | `RewardedOnce`, `RewardsExact`, `WeightsAfterRewards`, `GrantsBounded`, `ImplementsPhases`, `Ends`, `EntrantsPaid` | two tournaments and one task that runs both jobs (they do not overlap), a failure and a crash anywhere: each deck is paid once, from the last prices and one prize table, the weights change last, a tournament ends, and packs are granted once per end and failure |
| `scheduled` | `OneBody`, `RewardsOnlyFinished`, `SnapshotBeforePlay` | two runs of the lifecycle job and one of the price job under their locks, with a clock and a failure or a crash of a body or of the lock: within its lease a body is alone with its job, rewards come after the end, play after the snapshot |
| `tournament_admin` | `RewardedOnce` | statuses and snapshots set by hand at any moment, a finished tournament reopened included: still nobody is paid twice |
| `tournament_torn` | `AllOrNothing` | violated, see below |

*Bounds.* Two decks of two users tell apart a deck and another, paid and unpaid; two score batches
tell the last prices from earlier ones; four prize-table numbers are more than the copies two tasks
can make visible at once. A crash and a fault allow a retry of a retry. Two tournaments may be in
registration when their play does not overlap, which `create_tournament` checks; the model lets
their dates pass in any order and so has also the moments in which both are ongoing and the price
job stops at its query. `admin` has one tournament and one deck and adds the administrator that the
first run leaves out. `scheduled` has one tournament, one deck and no users: a second lifecycle run is
what it is about, and every step of both goes with every position of the clock. Leases of one
tick and a clock that stops at two let a lease run out, its row be purged by another run and the
job be taken over; one trouble in all, since each leaves at most one orphaned row to wait for.
`TournamentLifecycle_overlap.cfg` checks the same two invariants without locks, with one lifecycle task.

*Fairness.* `DatePasses`: time goes on. `Work`: a statement of a job under way returns. Strong
fairness of `LifecycleBegin`: where one task stands for both jobs it is busy with the price job
again and again, and the cron trigger of the life cycle fires all the same. Failures and crashes are
bounded, which is what "retried until it works" needs. `EntrantsPaid` promises payment only as
long as nothing failed: after a failure it is false, see the first entry below.

### Registration

| Run | Checks | Shows |
|---|---|---|
| `registration_serial` | `DecksAndLocks` (`TypeOK`, `LockedIffDecked`, `ChainAgrees`), `MinedIsRegistered`, `ImplementsCustody` | a player enters and leaves two tournaments while requests fail, answers are lost, cards expire, weights change and a tournament starts in the middle: cards are locked exactly while a deck has them; a deck in the table was committed to on the chain and is held there unless withdrawn since, whatever transaction of the wallet is shown; a mined registration is recorded |

*Bounds.* Three cards of two tokens give decks of two that share a card, a pair of one token (refused)
and a card that expires; the second token's weight puts a deck over the limit after a finish. Two
tournaments contend for the cards. Two deck rows allow a second registration after a withdrawal,
three transactions a registration, a withdrawal and another registration, after which the first of them may be
shown again. (When both rows are used up nothing more can be recorded, which `MinedIsRegistered` names as its bound.) One user is enough for
decks and locks, as every check and write is about the cards and decks of one user; the theorem is for
any number. `Overlap = FALSE`: the front end waits for its answer (a failed or lost request
is an answer to it); what happens otherwise is under *departs* below.

*Fairness.* A request under way is served, and a front end that holds a mined transaction shows it
until it has an answer, as the error message of the route asks it to. Tournaments, contract and
user are free.

### Accounts

| Run | Checks | Shows |
|---|---|---|
| `accounts` | `SignInSound` (`TypeOK`, `SignedOnce`, `ReferralsBacked`, `StarterOnce`), `AnswersKept` (`StepsKept`, `ClaimedOnce`) | two wallets sign in, refer each other, step through onboarding and claim while an administrator renames them and grants packs: a nonce opens one session, no referral is invented, starter packs come whole and once, and what an answer said stays so |

*Bounds.* Two tasks at once and three requests altogether: every order of two, on rows one earlier
request left. Two nonces of a wallet tell an old one from the one held. Three nicknames leave one
free when two are taken. One failure or crash at any await. Wallets, tasks, nicknames and
rewards are symmetric.

### Catalogue

| Run | Checks | Shows |
|---|---|---|
| `catalogue` | `CardsConsistent` (`TypeOK`, `UniqueActive`, `ActiveReferences`, `ShownExists`), `TablesReconcile` (`PrizesDisjoint`, `WhitelistReconciles`) | one administrator edits while two renderers draw, the tournament starts and two rankings write prizes: no second active card of a key but by reactivation, no active card of a deleted token, the image a card shows is in storage, the panel's ranges of prizes are disjoint and so are those of one reward type, the whitelist is what was reported |

*Bounds.* Two cards, rarities and wallets are what each check compares; four requests,
renders and rankings altogether build a card, change it and render it twice, or set a prize and rank twice beside
each other; two positions let a range lie beside another and across it, two reward types tell the rows a
ranking deletes from those it leaves, and four prize rows are the panel's and those of two rankings; three seconds tell
renders in one second from later ones. 730,107 states.

### Prizes, scores, draws, pages, contract

| Run | Checks | Shows |
|---|---|---|
| `parts` | `PrizesFair` | from 0 to 2000 strong decks and pools from 1 to 2000: the pool is spent and not exceeded, better is not paid less from a pool of 320 on, ties share exactly their places |
| | `MarketFair` | prices lie within their quotes, all rows of a cycle or none; scores span 0 to 1000; who gained more since play began and moved more since registration opened is not scored less; weights are dealt by score and not lost |
| | `DrawKept`, `HistoryComplete` | a draw holds only what its type lists although the panel switches cards in the middle; a history read page by page, to an empty page that comes with a total, misses no opening |
| | `ShownAsRanked`, `ViewsAgree`, `LiveScores` | a finished deck is shown with what it was ranked by; profile, history, leaderboards and panel agree on scores, prizes and balances in play, between the commits of a finish and after it; live scores are those of the ranking when the view is up to date, and no card of an active token outscores the first listed token |
| | `ContractAccounts`, `CommitsKept` | packs and money of the contract are accounted for, also in the middle of a call; each commit is settled to its user, with two draws only for a wallet with code, and as long as no wallet has code with cards of its own |

*Bounds.* Field sizes lie on both sides of every threshold of the tables (three and ten
winners, the groups below them, growth of the pool from 250, 500 and 750 decks on and up to 2000) and two listed decks tie or do not, at any place
relative to them. Prices are chosen so that changes are whole; a token without quotes, without
capitalisation, with a flat quote and with a quote of 0 is among them. Two players and two
tournaments are what a sum over tournaments and a rank over players need; two runs of the price job are one in time
and one late. Two draws signed for a commit and two cards in a draw give a reveal inside another; two moves
of cards (`MaxMoves`) burn one and send one on. 1,173,403 states.

## What is proved

TLAPS proves the theorems below for every value of the constants: any number of users, packs,
openings, contracts, tasks, tournaments, decks, cards, wallets, crashes and faults. Each safety theorem goes the
usual way: an inductive invariant that contains the property, established by `Init`, preserved by
each action in a step of its own, and combined by temporal reasoning at the end.

### `PackOpeningProofs`

`TypeCorrect`, `NoReroll` (`SignedAsStored`), `Backed` (`CardsBackedByMint`), `TablesAgree`
(`RecordsAgree`), `KeepsHistory` (`HistoryKept`) and `Implements` (`ImplementsLifecycle`), from the named assumptions on the constants of `PackOpening`. None of the
properties is inductive alone: they speak of tables, and the tables are written from what tasks
remember. The invariant `IInv` is `TypeOK`, `Records` (the properties of the tables) and `Links`,
which says what that memory is worth: every logged mint was signed (`EventsSigned`) and every
signature binds a stored row; ids the sequence has handed out are used once and an id flushed by a
task is its own (`FreshIds`); a task that found a row still finds it (`TaskRows`); what is being
applied was logged by the configured contract (`TaskEvents`), which a redeploy cannot change under
a task because a process that is down has none (`DownIdle`). The refinement is proved action by action: each
is a step of `PackLifecycle` for one opening or leaves `stageOf` and `offerOf` alone.

`SerialPrepare` and `SerialApply` prove `OneOpeningPerPack` and `OneRowPerToken` under the hypothesis
that there is one preparer, respectively no confirmer. The hypotheses are needed: the run
`packs_two_prepares` and `PackOpening_two_appliers.cfg` violate the properties without them.

### `JobLockProofs`

`TypeCorrect`, `RowKept`, `Exclusive`, `Protected`, for any jobs, runs and timeouts. The invariant is
`LeaseHeld`, which is `HolderKeepsRow` extended to a run about to release, with the fact that clocks
were read in the past (`BeganInThePast`): a purge removes only rows that expired before its run
read the clock, hence never an unexpired one. `OneUnexpiredHolder` follows because a name has one
row.

### `TournamentProofs`

| Theorem | Hypothesis | Why it is needed |
|---|---|---|
| `TypeCorrect` | none | |
| `RewardsFollowEnd`, `PricesBeforePlay` | `Alone`: at most one task runs `tournament_lifecycle`, no administrator writes | a PUT may set any status at any time; price tasks may run in any number |
| `RewardsOnce` | `OneTask`: the jobs do not overlap | two calculations side by side insert two results for a deck |
| `RewardsAreExact`, `WeightsComeLast`, `Refinement`, `PacksBounded` | `Serial`: `OneTask` and no administrator | a tournament reopened by hand is scored again after it was paid |

`Alone` is what the lock gives while runs stay within their leases, which is proved in
*Under the locks* below; the lemmas about steps ask only that a task of the lifecycle job finds the others
idle (`Sole`). `OneTask` asks in addition that the price job is not at work while a tournament
is finished, which the code does *not* ensure: `TournamentLifecycle_two_results.cfg` shows what
happens otherwise.

*Types* need one fact beside the shapes: a task that is at work on a tournament has one
(`PlacedTask`). *Order* (`PhaseInv`): what the lifecycle task has read stays true until it acts on it
(`Held`): while the assigned status is pending the tournament is ongoing, from its first commit on it
is finished, and between the snapshot and the start it is in registration and has its prices; `Shape`
says that only that task holds a pending status. *One payment* (`OnceInv`): a deck has one
result, and what a task has read for its next write of results or rewards is still there
(`Ready`). *Exact payment* (`ExactInv`): every task keeps a `Ledger`, for instance that the batch it
has read is the last one, that the prize table it adds up has one copy, that the results it is
about to pay were computed from both, and that the weights wait until every result with a prize is
settled. The refinement of `TournamentPhases` rests on all of them: a commit that flushes the
status is `Finish`, `PayRewards` is `Pay` for decks without a reward, `StartCommit` is `Start`,
every other step stutters.

*Grants* (`GrantInv`): `GrantsBounded` counts, so the invariant is about cardinalities. A run that has
finished a tournament, or failed to, and has not granted for it yet holds a credit; packs granted
and credits together are at most the tournaments finished and the faults, and what a run has left
to finish is still ongoing, so that no tournament is counted twice. Of the set of finished
tournaments the proof shows that it stays finite; nothing is assumed of `Tournaments`.

*Under the locks*: `BodiesKeptApart` (`OneBody`), `ScheduledRewards` (`RewardsOnlyFinished`) and `ScheduledPrices`
(`SnapshotBeforePlay`), for any number of runs of both jobs, any timeouts, failures and crashes, under one
hypothesis, `~Overrun`. The proof reuses both halves: a scheduled step is a step of `JobLock` or leaves its
variables alone (`LockStep`), so the invariant of `JobLockProofs` holds (its lemmas are cited through
`Locked == INSTANCE JobLockProofs`), and a step of `TournamentLifecycle` or leaves it alone (`LifeStep`).
Two facts tie them together: a run under way has a lease that lasts (`Punctual`), and what is in the
middle of a body is at work (`BodyAtWork`). Two runs of one job at work would then have the same row
(`OneHolder`), so a step of a lifecycle body finds the other lifecycle tasks idle, and `PhaseTask` applies.

### `RegistrationProofs`

`TypeCorrect` needs no hypothesis. `DecksAndLocksAgree` (`DecksAndLocks`) and `Refinement`
(`ImplementsCustody`) hold for any users, cards, tournaments and requests under `~Overlap`: while a
request of a user is served, that user's front end does nothing else. Without it two registrations of
one user both find the cards free. Of the front end nothing is assumed: it may show any transaction of its wallet.
The properties follow from what a request remembers: one request
at a time serves a user (`OneRequest`); what a request has read of decks and cards still
holds when it commits, because only this user's requests write there and only the cleanup takes
cards away (`Memory`); table rows, ids and locks fit, and the transaction of an active deck verifies for
just its player, tournament and cards (`Tables`, with `DecksVerified`); and the contract holds what a
successful `registerDeck` wrote there unless a later transaction of that wallet withdrew it, as a second
registration of one tournament reverts (`History`). In the refinement the commit of a
registration is `Enter`, the commit of an unregistration `Withdraw`, and every other step stutters.

### `AccountsProofs`

`SignInIsSound` (`SignInSound`) and `AnswersHold` (`AnswersKept`), under `~Overlap`: the requests of a
wallet do not overlap, those of different wallets do. The invariant: a request is alone with its
wallet and what it remembers is still so (`TaskInv`, for instance that a wallet about to be inserted
has no row and no packs); a nonce held is newer than every nonce accepted (`NonceInv`); a referrer's
count and the credits still to be inserted are backed by users (`ReferralsBacked`); packs are a whole
set or none (`PackInv`); onboarding steps equal what was told, in rows and in what requests carry
(`StepInv`); `ClaimedOnce`.

### `CatalogueProofs`

| Theorem | Hypothesis |
|---|---|
| `TypeCorrect`, `ImagesStay` (`ShownExists`), `ListedOnce` (`WhitelistReconciles`) | none: any number of administrators, renders and wallets |
| `CardsTheorem` (`CardsConsistent`), `TablesTheorem` (`TablesReconcile`) | `OneAdministrator`: the requests of the panel do not overlap; renders and rankings run beside them in any number |

The hypothesis is needed: two requests that create the same card both find none, and nothing but the
handler's own query keeps them apart. *Images* (`Images`) is about whoever holds the name of a file:
the row, a render that is to replace it, a render that is to delete the old one. A file that was named
by one render only is in storage while a row shows it, because who deletes it has seen it replaced. *What was
checked* (`Checked`, in which `Kept` says what the request under way has found out): between the check
of a request and its commit nobody changes what it looked at, as renders write only the address of
the image. Of *prizes* (`PrizesInv`) the same is kept among the rows of the panel only (`PrizeChecked`): a ranking
may take a row away between check and commit, or write one beside it. The rows a ranking
leaves of its own type are those it could not see (`unseen`), so what it writes is disjoint from every other row
of the type, and no ranking begins before the start. A card number or prize number a row has is below the counter,
which is why an insert meets no row. `RowAssumption` says that no row is `None`, as NULL is not a row.

### `PartsProofs`

`PackShelf`, `Showcase` and `PackContract`, each under its own specification (`ShelfSpec`,
`ShowcaseSpec`, `ContractSpec`), without a hypothesis.

| Theorem | Property | Argument |
|---|---|---|
| `DrawTheorem` | `DrawKept` | a draw has chosen places in the pools (`PicksOf`), and the cards stand for them one by one: an injective placement of cards on picks of their symbols, and what has no card was without one (`Filled`, `Drawn`) |
| `HistoryTheorem` | `HistoryComplete` | what lies before the offset of a client that reads has been shown, wherever the openings added since have moved it, unless its last answer was an error's (`Reading`) |
| `RankedTheorem` | `ShownAsRanked` | results exist in play at the earliest, from the finish on for each deck, and their list of scores has a score for each card and adds up to the score of the row, whichever run wrote it (`Ranks`) |
| `ViewsTheorem` | `ViewsAgree` | once distributed, a reward is the prize of its result unless that is 0 or a late run has ranked again (`Ranks`); the rewards claimed and those pending are two parts of what the history shows, and sums over parts add up |
| `LiveTheorem` | `LiveScores` | until the end all rows count and no run scores at a time after it (`RowsCounted`), and the catalog has one row for each listed card, at most one of a token |
| `CommitsSettled` | `CommitsKept` | commits are numbered as they come and settled or waiting (`Settled`); a signature is used by one reveal, which is under way or has ended (`Used`); a reveal within another is of a wallet with code, and the commit of one without waits until its reveal ends (`Nested`); without code, card numbers below the counter were given by exactly one reveal (`Numbered`) |
| `MoneyAccounted` | (part of the next) | the funds are the sales less the withdrawals, and a claim id is paid once (`Accounts`) |
| `PacksTheorem` | `ContractAccounts` | the packs issued of a type are those in wallets, those burned for a commit that waits, and those opened, counted by commit (`PacksCounted`) |

What is added up there are sums and folds of the community modules over sets of any finite size. Induction
theorems with an operator as parameter cannot be used, so the module starts with its own first-order
ones: a set of numbers has a least one (`LeastNumber`, from the well-foundedness of `<`), hence a fold
over a finite set exists (`FoldExists`), a sum does not depend on the order (`SumAdds`,
`SumUnique`), changes by what one element changes (`SumChanges`), and adds over parts (`SumUnion`); a
finite set has a first element in any order and a sorted list of all its elements (`FirstExists`,
`SortExists`), which gives `Max`, `Min` and the leaderboards. The assumptions say that
users, players, tournaments and cards are finitely many, as rows are, and that NULL is no row.

The proofs changed two definitions of `Showcase`: of a deck whose tournament is not finished, two
guards of a CASE could hold at once, which leaves its value open; the branches are now in the
order of the code, and sorted lists are those in the order of the query.

### `ScoringProofs`

`FairMarket` (`MarketFair`, for `MarketSpec`) and `FairPrizes` (`PrizesFair`, for `PrizeSpec`), without a
hypothesis: any tokens, quotes, capitalisations and weights, any pools, numbers of decks and scores that
the assumptions on the constants allow.

*Prices and scores.* `MarketInv` is the types and `ScoresSpread`; the action properties follow from it step by
step. A cycle writes the mean of a token's quotes, and the mean lies between the least and the
greatest of them although it is rounded (`AverageBetween`). Normalisation keeps the order of the raw scores
(`ScaledOrder`) and takes their ends to 0 and 1000 (`ScaledEnds`); of two tokens of one capitalisation
the one that gained more and moved more, each in its own window, has no smaller raw score, since its ranks and its growth bonus are no
smaller (`RawOrder`). The scored tokens, best first, take the first weights of the sorted list
(`ByWeightSorted`): no set of as many tokens has more weight together (`MostTogether`), so the sum does not shrink, and if
all tokens are scored it is a permutation (`WeightsKeeps`).

*The table of prizes.* A rank is fair because of four facts about
`distribute_prizes(pool, n)`:

1. Its runs follow each other from place 1 to the last winner (`Tabled`, `BareTabled`). What it pays for
   a range of places is then a sum over places (`Coverage`), and adjacent ranges add up (`PaidParts`).
2. What it pays in all is the pool, or what it cost before the top-up if that was more: the
   top-up gives away exactly what is left, whatever was rounded (`TopUpCost`, `TablePays`).
3. It cost less than the pool and 1 for every winner, because only a group lifted to 1 can cost more than
   its share (`ScaledDown`, `BareAtMost`); and no more than the pool once that is 3 for every winner
   (`AlwaysAffordable`). The latter is the hard part: the plan of the groups is scaled down to what the top
   ten leave, and no scaled prize may be lifted back to 1. Up to 28 winners the plan fits as it is (`FewWinners`).
   From 29 on there are seven groups: if the first is planned 12 or more, which it is beyond 250 decks
   (`LargeField`), even the prize of the seventh survives the scaling (`LargePlan`); if less, there are at most 82
   winners and the plan fits again (`SmallPlan`).
4. From a pool of 320 on, prizes fall from run to run (`TableFalls`). A group gets at most 85 percent of the
   tenth prize and three fourths of the group above (`EachFalls`). The top-up falls with its weights but for the
   last of the five, who takes the rest of the division and may get 4 more than the one above (`BonusFalls`); from
   320 on the first five differ by 4 or more before it (`GapsOfFour`, `PoolOf320`).

A better place is then paid no less on average over any range (`BetterPlaces`), which orders tied groups too, and the groups of a tie
partition the places they cover, so their shares add up to the table's (`TiesInFull`, in 840ths: a
multiple of every count up to `MaxListed`). `PrizeInv` adds that the table and the prizes are those of the
decks that joined.

*What the proof showed.* The bound on the base pool is needed as stated. With a base that is no multiple of
1000 the pool of more than 250 decks is cut with one more rounding, and outside the bound
clause 3 fails for pools up to about 3.47 for every winner, and the order fails for instance for 385 decks
and a pool of 320. Of smaller fields nothing is assumed. The theorem is about exact
fractions: where a double of the code lies just below an integer that the exact product reaches, a prize is one
smaller there, and the top-up gives the difference to the first five.

Some definitions could not be reasoned about and were restated without changing what they say, as
the runs and mutants confirm: sums are `MapThenSumSet` over sets of positions, and quotes are counted by
their index (the operator arguments of `SelectSeq` and `SetToSortSeq` are not expanded by the provers);
`ByWeight` says what the sorted list is; the groups of winners are given by where they end (`LastPlace`)
and not by the loop that cuts them.

### Only model-checked

* Liveness (`MintedIsRecorded`, `OrphanRemoved`, `Ends`, `EntrantsPaid`, `MinedIsRegistered`): ENABLED and
  fairness are outside the prover's reach.
* The violations, which are counterexamples of the runs.

## Where the code departs from its documents

Two of these are runs that TLC must find violated; the others are configurations to replay by hand
(`tlc -config` stops with the counterexample).

| Configuration | What the document says | What the code does |
|---|---|---|
| run `tournament_torn` (`AllOrNothing`) | "ALL operations happen in a SINGLE transaction" (`finish_tournament`) | the first commit of a helper writes the status `finished`; a crash after it leaves a finished tournament without rewards that no run takes up again |
| run `packs_two_prepares` (`OneOpeningPerPack`) | "same cards, no reroll" | overlapping requests draw twice |
| `TournamentLifecycle_featured.cfg` (`RegistrationOpens`) | "FEATURED -> REGISTRATION (when start_date arrives)" | the function called for it is not defined; the error is logged at every run |
| `TournamentLifecycle_two_results.cfg` (`OneResultPerDeck`) | one result per deck (`uselist=False`) | two overlapping calculations insert two; later ones raise |
| `PackOpening_downtime.cfg` (`MintedIsRecorded`) | "even if the client never calls /confirm" | no cursor: what was minted in a downtime longer than the window is not recorded |
| `PackOpening_two_appliers.cfg` (`OneRowPerToken`) | one row per token | confirm and job both insert it |
| `Registration_late.cfg` (`DecksFixed`) | a tournament that is not in status `registration` refuses the deck (`tournament_registration_service.py:57`) | the status is read before the chain is asked: a deck joins a tournament that started meanwhile |

Seen while modelling, without a run of their own:

*Tournaments*
* `CalcDelete` and `CalcSave` of two tasks can leave two prize tables, and `CalcRank` then adds up both
  (`prize_config_service.py:79`: the DELETE does not see rows that commit meanwhile);
* `Snapshot` followed by `StartFails` leaves a snapshot, and the retry takes a second one
  (`tournament_service.py:48`; no unique constraint backs the `ON CONFLICT`);
* `PutWrite` writes a status over one that changed after `PutRead`, and two PUTs for two tournaments
  both find no other active one (`admin/tournaments.py:418-455`);
* a finish that fails is followed by the grants all the same (`Cleanup`), which is why `GrantsBounded`
  has to count the failures;
* a run that outlives its lease is at work beside the next one (`lock_service.py:46`: nothing renews it
  or stops the body), which is why `OneUnexpiredHolder` speaks of leases. `ScheduledLifecycle_overrun.cfg`
  shows where it leads: a run of `tournament_lifecycle` that has read a tournament as due to start is overtaken
  by one that starts, finishes and pays it, and then sets it to `ongoing` (`tournament_service.py:83`
  writes the status without reading it again), so that `RewardsOnlyFinished` is violated and the
  next run finishes it a second time.

*Contract*
* a reveal stores the next card number and deletes its commit after the loop that mints
  (`HodleaguePacks.sol:319`), in which wallets with code are called back; `CommitsKept` therefore
  distinguishes wallets with code from those without.

*Prices and weights*
* a token whose sources report no change fails the line that logs it and rolls back the rows of all
  (`price_monitor_service.py:413`); a token without a market cap makes the scoring raise;
* the docstring of `recalculate_token_weights` ("Preserves weight distribution structure") is exact only when
  every active token was scored; otherwise weights together may grow, and a rerun grows them again;
* from a pool below 320 a lower place may be paid more than a higher one, by the rounding up to 1;
* supply and availability of a pack type are not looked at by grants; an unordered `LIMIT 1` picks the
  card of a symbol, so the seeds alone do not determine a draw.

*Registration and accounts*
* with overlapping requests of one user: two registrations lock cards twice, an unregistration
  unlocks cards a newer deck holds, two first logins both grant starter packs, two claims report
  the same rewards;
* after an unregistration the old transaction still registers the old deck again
  (`tournament_registration_service.py:316`), also while the contract holds another deck of the player;
  table and contract then name two decks until the next unregistration;
* cards of a finished tournament's decks stay locked: nothing in the code unlocks them.

*Panel and pages*
* a card switched back on may be a second active one of its key (`cards.py:382`); two active cards of one
  token break the refresh of the view (unique index, migration `72161b1da687`), which then
  stays as it was;
* the view takes the newest tournament in registration or ongoing: with a newer one in
  registration, live scores of the ongoing one are shown as 0; the summary of tournaments raises
  when there are two;
* an exception in `get_pack_history` is answered as the history of a user without openings
  (`pack_opening_service.py:444`);
* from the commit of the results to that of the rewards, and for good if the rewards fail, the boards show
  prizes that the history does not; a run of the price job that outlasts the finish ranks the decks anew
  after they were paid (`scheduler_service.py:192`);
* a token that is switched off by an update, and not deleted, stays in the view with its card (`admin/tokens.py:371`);
* a card's tournament statistics include rows after the end and use today's bonus (`cards.py:261`:
  "Token price at tournament end"); the order of equal ranks is the database's;
* the history fails as a whole when a card has no image, where the page by id falls back to the
  token's; `get_pack_history` indexes a scalar for the type (`pack_opening_service.py:429`); total
  and page are two statements;
* naive and aware datetimes are subtracted in the lists of users and of the alpha test and in the
  update of a user; the list of card weights joins `Card` twice when filtered by design and rarity;
  the panel's price refresh calls a function that does not exist (`tokens.py:454`);
  `get_deck_details` gathers coroutines on one session.

## Not modelled, and the plan

Done: packs from draw to record, the lock, the life of a tournament, registration, accounts, the
catalogue, prizes, scores, public reads and the contract of on-chain packs. Next, in this order:

1. `TournamentRegistration` composed with the start of `TournamentLifecycle`, so that `Entrants` is no
   longer a constant, and cards that stay locked after a finish are a statement about both.
2. What is left of the panel: deletes of cards, rarities and prizes, lists, reward types, edits of a
   tournament's dates.

In the contracts: cards minted in other ways than by a reveal (`MINTER_ROLE` holders on
`HodleagueCards`; `mintWithSignature` is in `PackOpening`), and changes of roles.

Left out for good: the edit of drop rates (tables of probabilities no other code reads) and the
distribution of the random draw, floating-point rounding beyond what the integer scales keep,
images themselves, uploads, wallet balances and NFT metadata (they change no state), the health job of
the inventory (reads and logs), retired routes (not mounted), scripts, simulation, migrations other
than the view's, monitoring. `PROJECT.json` lists every component with its status, the map from
definitions to lines of source, and the hazards with the properties that cover them.
