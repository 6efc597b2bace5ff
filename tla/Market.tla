-------------------------------- MODULE Market --------------------------------
(***************************************************************************)
(* From quotes to weights: the monitor averages what the exchanges answer  *)
(* into one price per token, the score service turns the gain since play   *)
(* began and the moves since registration opened into scores of 0 to 1000, *)
(* and the end of the tournament deals the tokens' weights out again by    *)
(* these scores.                                                           *)
(*                                                                         *)
(* Time is the order of the rows of token_prices.  Changes are in thirds   *)
(* of a percent, so that those of the quoted prices are whole; the powers  *)
(* of the code (change to the 1.3, capitalisation to the 0.12) are rounded *)
(* tables.  When the jobs run is TournamentLifecycle's subject: here one   *)
(* tournament opens, starts, ends and is finished at any time.             *)
(***************************************************************************)
EXTENDS Integers, Sequences, SequencesExt, FiniteSets, FiniteSetsExt, Functions

CONSTANTS
  Tokens,      \* ids
  Common,      \* tokens with an active card of the common rarity
  Feeds,       \* what the exchanges may answer: quotes per token
  Caps,        \* what CoinMarketCap may answer: a capitalisation per token, or NoValue
  FirstWeight, \* tokens.weight at first
  MaxCycles, MaxToggles, \* bounds: cycles of the monitor, changes of is_active
  NoValue

ASSUME MarketAssumption ==
  /\ Tokens \subseteq Nat /\ IsFiniteSet(Tokens) /\ Common \subseteq Tokens
  /\ \A f \in Feeds : f \in [Tokens -> Seq([price : Nat, flat : BOOLEAN])]
  /\ \A c \in Caps : c \in [Tokens -> {0, 1, 1000, NoValue}]
  /\ FirstWeight \in [Tokens -> 1 .. 10] /\ NoValue \notin Nat
  /\ MaxCycles \in Nat /\ MaxToggles \in Nat

VARIABLES
  active, weight,    \* tokens
  prices,            \* token_prices of each token, oldest first
  phase,             \* of the tournament, by its dates: "upcoming" before start_date,
                     \* "registration" from it on, "ended" once end_date is past
  snapshot,          \* tournament_token_snapshots
  since, until,      \* rows of each token before start_date, and up to the end
  score, latest,     \* token_scores: the last of the tournament that count, the last of all
  feed,              \* the quotes of the last cycle
  cycles, toggles

marketVars == <<active, weight, prices, phase, snapshot, since, until, score, latest,
                feed, cycles, toggles>>

Nothing == [t \in Tokens |-> NoValue]

MarketInit ==
  /\ active = Tokens /\ weight = FirstWeight
  /\ prices = [t \in Tokens |-> <<>>]
  /\ phase = "upcoming" /\ snapshot = Nothing
  /\ since = [t \in Tokens |-> 0] /\ until = [t \in Tokens |-> 0]
  /\ score = Nothing /\ latest = Nothing
  /\ feed = [t \in Tokens |-> <<>>] /\ cycles = 0 /\ toggles = 0

Abs(n) == IF n < 0 THEN -n ELSE n
SumOver(v, S) == MapThenSumSet(LAMBDA x : v[x], S)

-----------------------------------------------------------------------------
(* The monitor *)

\* A quote of 0 is no quote.
Quoted(quotes) == {i \in DOMAIN quotes : quotes[i].price > 0}
calculate_average_price(quotes) ==
  LET price == [i \in Quoted(quotes) |-> quotes[i].price]
  IN SumOver(price, Quoted(quotes)) \div Cardinality(Quoted(quotes))

\* No change in any quote leaves none to average, and the line that logs the
\* token raises: the rows of every token are rolled back.
Unloggable(quotes) == \A i \in DOMAIN quotes : quotes[i].flat

MarketCycle(quotes, cap) ==
  LET priced == {t \in active : Quoted(quotes[t]) # {}}
      stored == IF \E t \in priced : Unloggable(quotes[t]) THEN {} ELSE priced
  IN /\ cycles < MaxCycles
     /\ cycles' = cycles + 1 /\ feed' = quotes
     /\ prices' = [t \in Tokens |->
          IF t \notin stored THEN prices[t]
          ELSE Append(prices[t], [price |-> calculate_average_price(quotes[t]), cap |-> cap[t]])]
     /\ UNCHANGED <<active, weight, phase, snapshot, since, until, score, latest, toggles>>

\* PUT and DELETE of a token.
MarketToggle(t) ==
  /\ toggles < MaxToggles /\ toggles' = toggles + 1
  /\ active' = IF t \in active THEN active \ {t} ELSE active \cup {t}
  /\ UNCHANGED <<weight, prices, phase, snapshot, since, until, score, latest, feed, cycles>>

-----------------------------------------------------------------------------
(* The tournament *)

Rows(t) == Len(prices[t])
Current(t) == prices[t][Rows(t)]

\* start_date, from which on the activity of a token is counted.
MarketOpen ==
  /\ phase = "upcoming" /\ phase' = "registration"
  /\ since' = [t \in Tokens |-> Rows(t)]
  /\ UNCHANGED <<active, weight, prices, snapshot, until, score, latest, feed, cycles, toggles>>

\* gameplay_start_date: create_tournament_snapshot takes every token that has a price, active or not.
MarketStart ==
  /\ phase = "registration" /\ phase' = "ongoing"
  /\ snapshot' = [t \in Tokens |-> IF Rows(t) = 0 THEN NoValue ELSE Current(t).price]
  /\ UNCHANGED <<active, weight, prices, since, until, score, latest, feed, cycles, toggles>>

MarketEnd ==
  /\ phase = "ongoing" /\ phase' = "ended"
  /\ until' = [t \in Tokens |-> Rows(t)]
  /\ UNCHANGED <<active, weight, prices, snapshot, since, score, latest, feed, cycles, toggles>>

-----------------------------------------------------------------------------
(* Scores *)

Eligible == {t \in active : Rows(t) > 0 /\ snapshot[t] # NoValue}

Change(t) == (300 * (Current(t).price - snapshot[t])) \div snapshot[t]
Moves(t) == {i \in since[t] + 1 .. Rows(t) : i < Rows(t)}
Activity(t) ==
  LET price(i) == prices[t][i].price
      moved == [i \in Moves(t) |-> (300 * Abs(price(i + 1) - price(i))) \div price(i)]
  IN SumOver(moved, Moves(t))

\* A token gets a point for itself and for each one it beats; of equals the
\* lower id is ahead.
Points(measure, t) ==
  Cardinality({u \in Eligible : \/ measure[u] < measure[t]
                                \/ measure[u] = measure[t] /\ u >= t})

\* 12 times the capitalisation in billions to the 0.12, in tenths.
_calculate_mc_factor(cap) == CASE cap = 0 -> 10 [] cap = 1 -> 120 [] cap = 1000 -> 275

\* 1.5 times the change in percent to the 1.3.
GrowthBonus(change) ==
  LET size == Abs(change)
      bonus == CASE size = 0 -> 0 [] size \in 1 .. 75 -> 98 [] size \in 76 .. 100 -> 143
                 [] size \in 101 .. 150 -> 243 [] OTHER -> 597
  IN IF change < 0 THEN -bonus ELSE bonus

Raw(change, activity, t) ==
  _calculate_mc_factor(Current(t).cap)
    * (4 * Points(change, t) + Points(activity, t) + GrowthBonus(change[t]))

\* How far a token is above the mean, times the number of tokens.  Dividing by
\* the deviation and then by the largest quotient is dividing by the largest
\* distance: above the mean to 500..1000, below it to 0..500.
Normalized(raw, t) ==
  LET sum     == SumOver(raw, Eligible)
      off(u)  == Cardinality(Eligible) * raw[u] - sum
      highest == Max({off(u) : u \in Eligible})
      lowest  == -Min({off(u) : u \in Eligible})
  IN IF highest = 0 THEN 500
     ELSE IF off(t) >= 0 THEN 500 + (500 * off(t)) \div highest
     ELSE (500 * (lowest + off(t))) \div lowest

Store(batch) ==
  /\ latest' = batch
  /\ score' = IF phase = "ongoing" THEN batch ELSE score
  /\ UNCHANGED <<active, weight, prices, phase, snapshot, since, until, feed, cycles, toggles>>

Zeros(set) == [t \in Tokens |-> IF t \in set THEN 0 ELSE NoValue]

\* calculate_and_store_scores, for a tournament that is ongoing until it is
\* finished.  A token without a capitalisation raises, and no token is scored.
MarketScore ==
  LET change   == [t \in Eligible |-> Change(t)]
      activity == [t \in Eligible |-> Activity(t)]
      raw      == [t \in Eligible |-> Raw(change, activity, t)]
      still    == \A t \in Eligible : change[t] = 0 /\ activity[t] = 0
  IN /\ phase \in {"ongoing", "ended"} /\ Eligible # {}
     /\ \/ still /\ Store(Zeros(Eligible))
        \/ /\ ~still /\ \A t \in Eligible : Current(t).cap # NoValue
           /\ Store([t \in Tokens |-> IF t \in Eligible THEN Normalized(raw, t) ELSE NoValue])

\* calculate_and_store_zero_scores: no tournament is ongoing.
MarketZero ==
  LET priced == {t \in active : Rows(t) > 0}
  IN /\ phase \in {"upcoming", "registration", "finished"} /\ priced # {}
     /\ Store(Zeros(priced))

-----------------------------------------------------------------------------
(* Weights *)

\* The last capitalisation known when the tournament ended, 0 for none.
LastCap(t) ==
  LET known == {i \in 1 .. until[t] : prices[t][i].cap # NoValue}
  IN IF known = {} THEN 0 ELSE prices[t][Max(known)].cap

Scored == {t \in active \cap Common : score[t] # NoValue}
Ahead(t, u) == score[t] > score[u] \/ (score[t] = score[u] /\ LastCap(t) > LastCap(u))

\* The weights of the active tokens, largest first, and the scored tokens, best
\* first (equal ones in the order the database returned them).
ByWeight == CHOOSE order \in SetToSeqs(active) :
              \A i, j \in DOMAIN order : i < j => weight[order[i]] >= weight[order[j]]
Distribution == [i \in DOMAIN ByWeight |-> weight[ByWeight[i]]]

\* (Wrong: the worst token comes first.)
MarketWeightsReversed ==
  /\ phase = "ended" /\ phase' = "finished"
  /\ \E place \in Bijection(Scored, 1 .. Cardinality(Scored)) :
       /\ \A t, u \in Scored : Ahead(t, u) => place[t] > place[u]
       /\ weight' = [t \in Tokens |-> IF t \in Scored THEN Distribution[place[t]] ELSE weight[t]]
  /\ UNCHANGED <<active, prices, snapshot, since, until, score, latest, feed, cycles, toggles>>

MarketWeights ==
  /\ phase = "ended" /\ phase' = "finished"
  /\ \E place \in Bijection(Scored, 1 .. Cardinality(Scored)) :
       /\ \A t, u \in Scored : Ahead(t, u) => place[t] < place[u]
       /\ weight' = [t \in Tokens |-> IF t \in Scored THEN Distribution[place[t]] ELSE weight[t]]
  /\ UNCHANGED <<active, prices, snapshot, since, until, score, latest, feed, cycles, toggles>>

MarketNext ==
  \/ \E quotes \in Feeds, cap \in Caps : MarketCycle(quotes, cap)
  \/ \E t \in Tokens : MarketToggle(t)
  \/ MarketOpen \/ MarketStart \/ MarketEnd \/ MarketScore \/ MarketZero \/ MarketWeights

MarketSpec == MarketInit /\ [][MarketNext]_marketVars

-----------------------------------------------------------------------------
(* Properties *)

TokenPrice == [price : Nat \ {0}, cap : {0, 1, 1000, NoValue}]

MarketTypeOK ==
  /\ active \subseteq Tokens /\ weight \in [Tokens -> 1 .. 10]
  /\ \A t \in Tokens : prices[t] \in Seq(TokenPrice)
  /\ phase \in {"upcoming", "registration", "ongoing", "ended", "finished"}
  /\ \A t \in Tokens : /\ snapshot[t] \in Nat \cup {NoValue}
                       /\ since[t] \in 0 .. cycles /\ until[t] \in 0 .. cycles
                       /\ score[t] \in 0 .. 1000 \cup {NoValue} /\ latest[t] \in 0 .. 1000 \cup {NoValue}
  /\ feed \in Feeds \cup {[t \in Tokens |-> <<>>]}
  /\ cycles \in 0 .. MaxCycles /\ toggles \in 0 .. MaxToggles

\* monitor_and_update_prices: a price that enters the table lies between the
\* lowest and the highest quote of that cycle that is not 0, and a cycle prices
\* every active token that was quoted or none of them.
PricesQuoted ==
  [][LET new    == {t \in Tokens : prices'[t] # prices[t]}
         quoted == {t \in active : Quoted(feed'[t]) # {}}
     IN /\ new \in {{}, quoted}
        /\ \A t \in new :
             LET q == feed'[t]
                 p == Last(prices'[t]).price
             IN /\ \E i \in Quoted(q) : q[i].price <= p
                /\ \E i \in Quoted(q) : p <= q[i].price]_marketVars

\* calculate_and_store_scores: unless no price moved, the best token of a batch
\* has exactly 1000 and the worst exactly 0, whatever the outliers; a single
\* token, or tokens the formula does not tell apart, have 500.
ScoresSpread ==
  LET tokens == {t \in Tokens : latest[t] # NoValue}
      values == {latest[t] : t \in tokens}
  IN tokens # {} => values \in {{0}, {500}} \/ {0, 1000} \subseteq values

\* _rank_tokens and the formula: of two tokens of one capitalisation, the one
\* that gained more since play began and moved more since registration opened
\* is not scored below the other.
GainIsRewarded ==
  [][\A t, u \in Eligible :
       /\ latest' # latest /\ phase = "ongoing"
       /\ Current(t).cap = Current(u).cap
       /\ Change(t) > Change(u) /\ Activity(t) > Activity(u)
       => latest'[t] >= latest'[u]]_marketVars

Together(w) == SumOver(w, active)
Times(w, n) == Cardinality({t \in active : w[t] = n})

\* recalculate_token_weights: a better scored token is never left with less
\* weight than a worse one, the weights together never shrink, and when every
\* active token was scored they are the same weights dealt out anew.
WeightsDealtByScore ==
  [][phase' = "finished" /\ phase # "finished" =>
       /\ \A t, u \in Scored : score[t] > score[u] => weight'[t] >= weight'[u]
       /\ Together(weight') >= Together(weight)
       /\ Scored = active => \A n \in 1 .. 10 : Times(weight', n) = Times(weight, n)]_marketVars

\* From quotes to scores and weights.
MarketFair == [](MarketTypeOK /\ ScoresSpread) /\ PricesQuoted /\ GainIsRewarded /\ WeightsDealtByScore
==============================================================================
