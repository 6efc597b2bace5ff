-------------------------------- MODULE Showcase --------------------------------
(***************************************************************************)
(* What players are shown: the public reads of tournaments, decks, users,  *)
(* cards and tokens, as operators on the tables they read, and the changes *)
(* of the tables between two reads.                                        *)
(*                                                                         *)
(* The scores of cards come from two places: while a tournament goes on,   *)
(* from the materialized view active_cards_with_score, a copy that is only *)
(* as new as its last REFRESH; and from the result rows, which every run   *)
(* of the price job brings up to date, and the end of the tournament once  *)
(* more.  A run that was under way then writes after it.                   *)
(*                                                                         *)
(* What becomes of an end that fails is TournamentLifecycle's subject, how *)
(* scores are calculated Market's: here scores are any numbers.            *)
(***************************************************************************)
EXTENDS Integers, Sequences, SequencesExt, FiniteSets, FiniteSetsExt

CONSTANTS
  Tours,             \* tournament ids, in the order they are created
  Players,           \* user ids
  Kinds, TokenOfKind,  \* cards and the token of each (a player has one of each card)
  Compositions,      \* decks players choose from: cards of different tokens
  Batches,           \* what a scoring run may give each token; None for no row
  Bonuses,           \* values of rarities.score_bonus
  Purse,             \* the prize of each place
  FirstListed, FirstBonus,  \* cards.is_active and their bonus at first; all tokens are active
  MaxEntries, MaxRuns, MaxChanges,  \* bounds: decks, runs of the price job, changes by administrators
  Touched,           \* bound: the cards these change
  None

ShownTokens == {TokenOfKind[c] : c \in Kinds}

\* Rows of tournament_results and of user_rewards; NULL is no row and no deck.
Result == [position : Nat \ {0}, score : Nat, cards : Seq(Nat), prize : Nat]
Reward == [amount : Nat, status : {"pending", "claimed"}]

ASSUME ShowcaseAssumption ==
  /\ Tours \subseteq Nat /\ Players \subseteq Nat /\ TokenOfKind \in [Kinds -> Nat]
  /\ IsFiniteSet(Tours) /\ IsFiniteSet(Players) /\ IsFiniteSet(Kinds)
  /\ MaxRuns \in Nat /\ MaxChanges \in Nat
  /\ None \notin Result \cup Reward \cup Compositions \cup Nat
  /\ \A b \in Batches : b \in [ShownTokens -> Nat \cup {None}]
  /\ Bonuses \subseteq Nat \ {0} /\ Purse \in Seq(Nat) /\ Cardinality(Players) <= Len(Purse)
  /\ \A d \in Compositions : d \in Seq(Kinds) /\ d # <<>>
  /\ FirstListed \subseteq Kinds /\ Touched \subseteq Kinds /\ FirstBonus \in [Kinds -> Bonuses]

VARIABLES
  stage, over,       \* tournaments: status, and whether end_date is past
  entered,           \* tournament_decks
  counted, newest,   \* token_scores: the last row up to the end date, the last of all
  result, reward,    \* tournament_results, user_rewards
  job,               \* a run of the price job about a tournament: the time it scores at,
                     \* or that it has scored
  late,              \* tournaments such a run wrote about when they were finished
  listed, bonus,     \* cards.is_active, the bonus of the card's rarity
  traded,            \* tokens.is_active
  catalog,           \* active_cards_with_score
  runs, changes

tableVars == <<listed, bonus, traded, catalog, changes>>
tourVars == <<stage, over, entered, counted, newest, result, reward, job, late, runs>>
showVars == <<tourVars, tableVars>>

NoRows == [k \in ShownTokens |-> None]

ShowcaseInit ==
  /\ stage = [t \in Tours |-> "none"] /\ over = [t \in Tours |-> FALSE]
  /\ entered = [t \in Tours |-> [u \in Players |-> None]]
  /\ counted = [t \in Tours |-> NoRows] /\ newest = [t \in Tours |-> NoRows]
  /\ result = entered /\ reward = entered
  /\ job = [t \in Tours |-> "none"] /\ late = {} /\ runs = 0
  /\ listed = FirstListed /\ bonus = FirstBonus /\ traded = ShownTokens
  /\ catalog = {} /\ changes = 0

-----------------------------------------------------------------------------
(* The tables change *)

Add(seq) == FoldLeft(LAMBDA a, b : a + b, 0, seq)

ShowOpen(t) ==
  /\ stage[t] = "none" /\ \A s \in Tours : s < t => stage[s] # "none"
  /\ stage' = [stage EXCEPT ![t] = "registration"]
  /\ UNCHANGED <<over, entered, counted, newest, result, reward, job, late, runs, tableVars>>

ShowEnter(t, u, d) ==
  /\ stage[t] = "registration" /\ entered[t][u] = None
  /\ Cardinality({p \in Tours \X Players : entered[p[1]][p[2]] # None}) < MaxEntries
  /\ entered' = [entered EXCEPT ![t][u] = d]
  /\ UNCHANGED <<stage, over, counted, newest, result, reward, job, late, runs, tableVars>>

ShowStart(t) ==
  /\ stage[t] = "registration" /\ stage' = [stage EXCEPT ![t] = "ongoing"]
  /\ UNCHANGED <<over, entered, counted, newest, result, reward, job, late, runs, tableVars>>

ShowOver(t) ==
  /\ stage[t] = "ongoing" /\ ~over[t] /\ over' = [over EXCEPT ![t] = TRUE]
  /\ UNCHANGED <<stage, entered, counted, newest, result, reward, job, late, runs, tableVars>>

\* _price_and_score_job finds the tournament ongoing and takes the time of its scores:
\* only the rows up to the end will count.  (One run at a time; the last may have failed.)
ShowRun(t) ==
  /\ stage[t] = "ongoing" /\ runs < MaxRuns /\ runs' = runs + 1
  /\ job' = [job EXCEPT ![t] = IF over[t] THEN "after" ELSE "before"]
  /\ UNCHANGED <<stage, over, entered, counted, newest, result, reward, late, tableVars>>

IfFinished(t) == IF stage[t] = "finished" THEN late \cup {t} ELSE late

\* It stores them, for active tokens, whatever became of the tournament.
ShowScore(t, b) ==
  LET last(rows) == [k \in ShownTokens |-> IF b[k] = None THEN rows[k] ELSE b[k]] IN
  /\ job[t] \in {"before", "after"} /\ \A k \in ShownTokens : b[k] # None => k \in traded
  /\ newest' = [newest EXCEPT ![t] = last(@)]
  /\ counted' = IF job[t] = "after" THEN counted ELSE [counted EXCEPT ![t] = last(@)]
  /\ job' = [job EXCEPT ![t] = "scored"] /\ late' = IfFinished(t)
  /\ UNCHANGED <<stage, over, entered, result, reward, runs, tableVars>>

\* What calculate_results makes of the decks; equal totals share their places.
CardScore(t, c) == LET row == counted[t][TokenOfKind[c]] IN IF row = None THEN 0 ELSE row * bonus[c]
CardScores(t, u) == [i \in DOMAIN entered[t][u] |-> CardScore(t, entered[t][u][i])]
Entrants(t) == {u \in Players : entered[t][u] # None}
Above(t, u) == {v \in Entrants(t) : Add(CardScores(t, v)) > Add(CardScores(t, u))}
Level(t, u) == {v \in Entrants(t) : Add(CardScores(t, v)) = Add(CardScores(t, u))}
Ranked(t, u) ==
  LET first == Cardinality(Above(t, u)) + 1
      size  == Cardinality(Level(t, u))
  IN [position |-> first, score |-> Add(CardScores(t, u)), cards |-> CardScores(t, u),
      prize |-> Add(SubSeq(Purse, first, first + size - 1)) \div size]

calculate_results(t) ==
  result' = [result EXCEPT ![t] = [u \in Players |-> IF u \in Entrants(t) THEN Ranked(t, u) ELSE None]]

\* Then it ranks the decks by them, with the same caution.
ShowRank(t) ==
  /\ job[t] = "scored" /\ calculate_results(t)
  /\ job' = [job EXCEPT ![t] = "none"] /\ late' = IfFinished(t)
  /\ UNCHANGED <<stage, over, entered, counted, newest, reward, runs, tableVars>>

\* finish_tournament: calculate_results commits the status with the results...
ShowFinish(t) ==
  /\ stage[t] = "ongoing" /\ over[t] /\ stage' = [stage EXCEPT ![t] = "finished"]
  /\ calculate_results(t)
  /\ UNCHANGED <<over, entered, counted, newest, reward, job, late, runs, tableVars>>

\* ...and distribute_rewards the rewards, later or, if it fails, not at all.  A prize
\* of 0 is none.
ShowReward(t) ==
  LET won(u) == result[t][u] # None /\ result[t][u].prize > 0 IN
  /\ stage[t] = "finished" /\ \A u \in Players : reward[t][u] = None
  /\ reward' = [reward EXCEPT ![t] =
       [u \in Players |-> IF won(u) THEN [amount |-> result[t][u].prize, status |-> "pending"] ELSE None]]
  /\ UNCHANGED <<stage, over, entered, counted, newest, result, job, late, runs, tableVars>>

ShowClaim(t, u) ==
  /\ reward[t][u] # None /\ reward[t][u].status = "pending"
  /\ reward' = [reward EXCEPT ![t][u].status = "claimed"]
  /\ UNCHANGED <<stage, over, entered, counted, newest, result, job, late, runs, tableVars>>

\* An administrator switches a card or, leaving its card alone, a token, or changes
\* the bonus of a rarity.
ShowEdit ==
  /\ changes < MaxChanges /\ changes' = changes + 1
  /\ \/ \E c \in Touched : listed' = SymDiff(listed, {c}) /\ UNCHANGED <<bonus, traded>>
     \/ \E c \in Touched, b \in Bonuses :
          b # bonus[c] /\ bonus' = [bonus EXCEPT ![c] = b] /\ UNCHANGED <<listed, traded>>
     \/ \E k \in ShownTokens : traded' = SymDiff(traded, {k}) /\ UNCHANGED <<listed, bonus>>
  /\ UNCHANGED <<tourVars, catalog>>

\* The view is about the newest tournament that is open or going on.
OpenTours == {t \in Tours : stage[t] \in {"registration", "ongoing"}}

\* (Wrong: the bonus is added, as it was before it was made a factor.)
LiveAdded(t, c) ==
  LET row == newest[t][TokenOfKind[c]]
  IN IF stage[t] = "ongoing" /\ row # None THEN row + bonus[c] ELSE 0

Live(t, c) ==
  LET row == newest[t][TokenOfKind[c]]
  IN IF stage[t] = "ongoing" /\ row # None THEN row * bonus[c] ELSE 0

active_cards_with_score ==
  {[card |-> c, token |-> TokenOfKind[c], score |-> IF OpenTours = {} THEN 0 ELSE Live(Max(OpenTours), c)] :
     c \in listed}

\* One row per token: with two listed cards of a token no refresh succeeds.
refresh_active_cards_view ==
  /\ \A c, d \in listed : TokenOfKind[c] = TokenOfKind[d] => c = d
  /\ catalog' = active_cards_with_score
  /\ UNCHANGED <<tourVars, listed, bonus, traded, changes>>

ShowcaseNext ==
  \/ \E t \in Tours : ShowOpen(t)
  \/ \E t \in Tours, u \in Players, d \in Compositions : ShowEnter(t, u, d)
  \/ \E t \in Tours : ShowStart(t)
  \/ \E t \in Tours : ShowOver(t)
  \/ \E t \in Tours : ShowRun(t)
  \/ \E t \in Tours, b \in Batches : ShowScore(t, b)
  \/ \E t \in Tours : ShowRank(t)
  \/ \E t \in Tours : ShowFinish(t)
  \/ \E t \in Tours : ShowReward(t)
  \/ \E t \in Tours, u \in Players : ShowClaim(t, u)
  \/ ShowEdit
  \/ refresh_active_cards_view

ShowcaseSpec == ShowcaseInit /\ [][ShowcaseNext]_showVars

-----------------------------------------------------------------------------
(* Cards and tokens as shown *)

RowOf(c) == CHOOSE r \in catalog : r.card = c
InCatalog == {r.card : r \in catalog}

\* GET /cards, /cards/{card_id}, /tokens and a user's collection.
get_cards_catalog == [c \in InCatalog |-> RowOf(c).score]
get_card_details(c) == [score |-> RowOf(c).score, total_owned |-> Cardinality(Players)]
get_user_cards(u) == [c \in Kinds \cap InCatalog |-> RowOf(c).score]

\* GET /cards/{card_id}/tournament-stats, for an active card: the last row of
\* each finished tournament, those after its end included, by today's bonus.
get_card_tournament_stats(c) ==
  [t \in {t \in Tours : c \in listed /\ stage[t] = "finished" /\ newest[t][TokenOfKind[c]] # None} |->
     newest[t][TokenOfKind[c]] * bonus[c]]

TokenScore(k) ==
  LET scores == {r.score : r \in {r \in catalog : r.token = k}}
  IN IF scores = {} THEN 0 ELSE Max(scores)

\* By default the active tokens.
list_tokens_with_prices ==
  CHOOSE list \in SetToSeqs(traded) :
    \A i, j \in DOMAIN list : i < j =>
      \/ TokenScore(list[i]) > TokenScore(list[j])
      \/ TokenScore(list[i]) = TokenScore(list[j]) /\ list[i] < list[j]

\* The cards of a deck with their live scores: those the view has.
get_full_cards_info(d) ==
  FoldLeft(LAMBDA cards, c : IF c \in InCatalog
                             THEN Append(cards, [card |-> c, score |-> RowOf(c).score]) ELSE cards,
           <<>>, d)

\* What a deck consists of, listed or not, as the boards and the history show it.
get_cards_info(d) == [i \in DOMAIN d |-> [card |-> d[i], token |-> TokenOfKind[d[i]]]]
_get_deck_cards_info(d) == get_cards_info(d)

\* (Wrong: what the cards are worth today.)
get_historical_cards_info_now(d, scores) ==
  [i \in DOMAIN d |-> [card |-> d[i], score |-> IF d[i] \in InCatalog THEN RowOf(d[i]).score ELSE 0]]

\* With the scores of the result, by place in the deck; 0 without one.
get_historical_cards_info(d, scores) ==
  [i \in DOMAIN d |-> [card |-> d[i], score |-> IF i \in DOMAIN scores THEN scores[i] ELSE 0]]

-----------------------------------------------------------------------------
(* Tournaments and decks as shown *)

get_tournaments_list(u) ==
  [t \in {t \in Tours : stage[t] # "none"} |->
     [participants |-> Cardinality(Entrants(t)), registered |-> u \in Entrants(t)]]

get_tournament_details(u, t) ==
  [participants |-> Cardinality(Entrants(t)), registered |-> u \in Entrants(t),
   deck |-> IF entered[t][u] = None THEN <<>>
            ELSE IF stage[t] # "finished" THEN get_full_cards_info(entered[t][u])
            ELSE IF result[t][u] = None THEN entered[t][u]
            ELSE get_historical_cards_info(entered[t][u], result[t][u].cards)]

\* The prize of a place, as a result row has it: an amount, which may be 0.
get_prizes_info(row) == {row.prize}

\* A deck of another player is shown from the start of play on.
get_deck_details(viewer, t, u) ==
  IF viewer # u /\ stage[t] \notin {"ongoing", "finished"} THEN [answer |-> "403"]
  ELSE IF result[t][u] = None
  THEN [answer |-> "deck", score |-> None, prizes |-> {},
        cards |-> get_historical_cards_info(entered[t][u], <<>>)]
  ELSE [answer |-> "deck", prizes |-> get_prizes_info(result[t][u]),
        score |-> IF result[t][u].score = 0 THEN None ELSE result[t][u].score,
        cards |-> get_historical_cards_info(entered[t][u], result[t][u].cards)]

Finished(t) == {u \in Players : result[t][u] # None}
LeaderboardEntry(t, u) ==
  [user |-> u, position |-> result[t][u].position, final_score |-> result[t][u].score,
   cards |-> get_cards_info(entered[t][u]), prizes |-> get_prizes_info(result[t][u])]

\* By position; of equal ones the database chooses the order, page by page.
get_tournament_leaderboard(viewer, t) ==
  [rows |-> {LeaderboardEntry(t, u) : u \in Finished(t)},
   my_position |-> IF viewer \in Finished(t) THEN {LeaderboardEntry(t, viewer)} ELSE {}]

-----------------------------------------------------------------------------
(* Users as shown *)

Played(u) == {t \in Tours : result[t][u] # None}
Best(S) == IF S = {} THEN None ELSE Max(S)

Rewarded(u, status) ==
  MapThenSumSet(LAMBDA t : reward[t][u].amount,
                {t \in Tours : reward[t][u] # None /\ reward[t][u].status = status})
\* (Wrong: what is pending is added to what is available.)
get_balances_summed(u) ==
  [available |-> Rewarded(u, "claimed") + Rewarded(u, "pending"), pending |-> Rewarded(u, "pending")]

\* user_balances_view
get_balances(u) == [available |-> Rewarded(u, "claimed"), pending |-> Rewarded(u, "pending")]

get_user_stats(u) ==
  [tournaments   |-> Cardinality({t \in Tours : u \in Entrants(t)}),
   best_position |-> IF Played(u) = {} THEN None ELSE Min({result[t][u].position : t \in Played(u)}),
   best_score    |-> Best({result[t][u].score : t \in Played(u)} \ {0}),
   balances      |-> get_balances(u)]

\* The reward of a prize that is not 0, and whether it was claimed.
_get_prizes_with_claim_status(t, u) == IF reward[t][u] = None THEN {} ELSE {reward[t][u]}

get_my_tournament_history(u) ==
  [t \in {t \in Played(u) : stage[t] = "finished"} |->
     [position |-> result[t][u].position, score |-> result[t][u].score,
      cards    |-> _get_deck_cards_info(entered[t][u]),
      prizes   |-> _get_prizes_with_claim_status(t, u)]]

\* GET /users/me and /users/{wallet_address}: the same, but for what only the
\* user is shown of the account (Accounts).
get_user_profile(u) == [stats |-> get_user_stats(u), cards |-> get_user_cards(u)]
get_my_profile(u) == get_user_profile(u)

\* By what is available, then the newest users first.
get_leaderboard ==
  CHOOSE list \in SetToSeqs(Players) :
    \A i, j \in DOMAIN list : i < j =>
      \/ get_balances(list[i]).available > get_balances(list[j]).available
      \/ get_balances(list[i]).available = get_balances(list[j]).available /\ list[i] > list[j]

-----------------------------------------------------------------------------
(* As the administrators' panel shows them: all rows, by filter *)

get_all_tournaments(status) == {t \in Tours : stage[t] = status}
get_tournament_decks(t) == {[user |-> u, deck |-> entered[t][u]] : u \in Entrants(t)}
get_tournament_results(t) ==
  {[position |-> result[t][u].position, score |-> result[t][u].score] : u \in Finished(t)}
get_user_rewards(u, is_claimed) ==
  {t \in Tours : reward[t][u] # None /\ (reward[t][u].status = "claimed" <=> is_claimed)}

\* It fails when a tournament opens while another is still open or going on.
get_tournaments_summary ==
  [answer  |-> IF Cardinality(OpenTours) > 1 THEN "500" ELSE "summary",
   count   |-> [s \in {"registration", "ongoing", "finished"} |-> Cardinality({t \in Tours : stage[t] = s})],
   current |-> OpenTours]

-----------------------------------------------------------------------------
(* Properties *)

ShowcaseTypeOK ==
  /\ stage \in [Tours -> {"none", "registration", "ongoing", "finished"}]
  /\ over \in [Tours -> BOOLEAN]
  /\ \A t \in Tours, u \in Players :
       /\ entered[t][u] \in Compositions \cup {None}
       /\ result[t][u] # None => entered[t][u] # None
       /\ result[t][u] \in Result \cup {None} /\ reward[t][u] \in Reward \cup {None}
       /\ reward[t][u] # None => result[t][u] # None
  /\ job \in [Tours -> {"none", "before", "after", "scored"}] /\ late \subseteq Tours
  /\ listed \subseteq Kinds /\ bonus \in [Kinds -> Bonuses] /\ InCatalog \subseteq Kinds
  /\ traded \subseteq ShownTokens
  /\ runs \in 0 .. MaxRuns /\ changes \in 0 .. MaxChanges

\* get_deck_details, get_tournament_details, get_tournament_leaderboard: of a
\* finished tournament every page shows cards whose scores add up to the score
\* the deck was ranked by, whatever became of cards, bonuses and later scores
\* (and the statistics of a card agree with them if none of these changed and
\* no run of the price job was late); before play begins no page shows a deck
\* of another player.
ShownAsRanked ==
  \A t \in Tours : \A u \in Entrants(t) :
    LET total(cards) == Add([i \in DOMAIN cards |-> cards[i].score])
        mine == get_tournament_details(u, t).deck
    IN /\ \A viewer \in Players :
            LET page  == get_deck_details(viewer, t, u)
                board == get_tournament_leaderboard(viewer, t).rows
            IN /\ stage[t] = "registration" => board = {} /\ (page.answer = "403" <=> viewer # u)
               /\ stage[t] = "finished" =>
                    /\ \E row \in board : row.user = u /\ row.final_score = total(page.cards)
                    /\ page.score \in {total(page.cards), None}
                    /\ page.cards = mine
                    /\ changes = 0 /\ counted[t] = newest[t] /\ t \notin late =>
                         \A i \in DOMAIN mine : mine[i].card \in listed =>
                           LET stats == get_card_tournament_stats(mine[i].card)
                           IN mine[i].score = IF t \in DOMAIN stats THEN stats[t] ELSE 0
       /\ get_tournament_leaderboard(u, t).my_position \subseteq get_tournament_leaderboard(u, t).rows

\* What a user's history says was won in a tournament, and in several.
Won(u, t) == MapThenSumSet(LAMBDA r : r.amount, get_my_tournament_history(u)[t].prizes)
WonInAll(u, ts) == MapThenSumSet(LAMBDA t : Won(u, t), ts)

\* The tournaments whose rewards were distributed.
Distributed == {t \in Tours : \E u \in Players : reward[t][u] # None}

\* get_user_stats, get_my_tournament_history, get_leaderboard: the profile, the
\* history, the leaderboards and the panel tell the same: the tournaments
\* entered, the cards played and the positions; a best score of the history and
\* of the tournaments still going on; prizes that are those won once the
\* rewards were distributed (if no late run of the price job ranked the decks
\* again); and balances that are together what was won.
ViewsAgree ==
  /\ \A u \in Players :
       LET stats   == get_user_profile(u).stats
           history == get_my_tournament_history(u)
           mine(t) == get_tournament_leaderboard(u, t).my_position
       IN /\ \A t \in DOMAIN history :
               /\ history[t].position >= stats.best_position
               /\ [user |-> u, deck |-> entered[t][u]] \in get_tournament_decks(t)
               /\ [position |-> history[t].position, score |-> history[t].score] \in get_tournament_results(t)
               /\ \A row \in mine(t) : /\ history[t].position = row.position /\ history[t].cards = row.cards
                                       /\ t \in Distributed \ late => row.prizes = {Won(u, t)}
          /\ stats.best_score =
               Best(({history[t].score : t \in DOMAIN history} \cup
                     {row.final_score : row \in UNION {mine(t) : t \in get_all_tournaments("ongoing")}}) \ {0})
          /\ stats.balances = [available |-> WonInAll(u, get_user_rewards(u, TRUE)),
                               pending   |-> WonInAll(u, get_user_rewards(u, FALSE))]
          /\ stats.balances.available + stats.balances.pending = WonInAll(u, DOMAIN history)
          /\ stats.tournaments = Cardinality({t \in DOMAIN get_tournaments_list(u) :
                                                get_tournaments_list(u)[t].registered})
          /\ get_my_profile(u).cards = get_cards_catalog
  /\ LET order == get_leaderboard
     IN \A i \in 2 .. Len(order) : get_balances(order[i - 1]).available >= get_balances(order[i]).available
  /\ LET summary == get_tournaments_summary
     IN /\ \A s \in DOMAIN summary.count : summary.count[s] = Cardinality(get_all_tournaments(s))
        /\ summary.answer = "summary" =>
             {t \in DOMAIN get_tournaments_list(Min(Players)) : stage[t] # "finished"} = summary.current

\* active_cards_with_score: while the newest open tournament is played and the
\* view is up to date, the live scores of a deck are those it would be ranked by
\* if play ended now.  At any time every page shows a card with the score that
\* the view has of its token, and as long as the token is active the list of
\* tokens begins with none that scored less.
LiveScores ==
  LET t == Max(OpenTours)
      best == TokenScore(Head(list_tokens_with_prices))
  IN /\ ShowcaseTypeOK
     /\ catalog = active_cards_with_score /\ OpenTours # {} /\ stage[t] = "ongoing" /\ ~over[t] =>
          \A u \in Entrants(t) : ToSet(entered[t][u]) \subseteq listed =>
            LET live == get_tournament_details(u, t).deck
            IN [i \in DOMAIN live |-> live[i].score] = CardScores(t, u)
     /\ \A c \in InCatalog, u \in Players :
          /\ get_cards_catalog[c] = TokenScore(TokenOfKind[c])
          /\ get_cards_catalog[c] \in {get_card_details(c).score} \cap {get_user_cards(u)[c]}
          /\ TokenOfKind[c] \in traded => get_cards_catalog[c] <= best
================================================================================
