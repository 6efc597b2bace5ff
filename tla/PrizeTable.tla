------------------------------ MODULE PrizeTable ------------------------------
(***************************************************************************)
(* What calculate_results pays: the pool of a reward type grows with the   *)
(* number of decks, a table of prizes is cut from it for the best third,   *)
(* and decks of equal score share the mean of the places they cover.       *)
(*                                                                         *)
(* The decks that decide nothing are counted, not listed: "strong" is how  *)
(* many decks of pairwise different scores stand above the listed ones.    *)
(* Fractions are exact, in permille, in fourths and in 2000ths; the pools  *)
(* are such that the doubles of the code round to the same integers.       *)
(***************************************************************************)
EXTENDS Integers, Sequences, FiniteSets, FiniteSetsExt

CONSTANTS
  Pools,     \* base pools of a reward type
  Fields,    \* numbers of strong decks
  Scores,    \* scores of the listed decks
  MaxListed  \* bound: decks listed

ASSUME PrizeAssumption ==
  /\ Pools \subseteq Nat \ {0} /\ Fields \subseteq Nat /\ Scores \subseteq Nat
  /\ MaxListed \in 0 .. 8  \* so that 840 is a multiple of every count of a tie

VARIABLES
  base, strong, scores,  \* the pool asked for, the decks above, the listed decks' scores
  rows,                  \* tournament_prize_config of the tournament, by position
  prizes                 \* what each listed deck is given: a sum and who share it

prizeVars == <<base, strong, scores, rows, prizes>>

PrizeInit == base = 0 /\ strong = 0 /\ scores = <<>> /\ rows = <<>> /\ prizes = <<>>

-----------------------------------------------------------------------------
(* The pool and the table *)

Least(a, b) == IF a <= b THEN a ELSE b
Most(a, b)  == IF a <= b THEN b ELSE a

SumOf(seq) == MapThenSumSet(LAMBDA i : seq[i], DOMAIN seq)

\* How many of the places from .. to a run of places covers, and what a table
\* pays for them.
Overlap(run, from, to) == Most(0, Least(run.to, to) - Most(run.from, from) + 1)
Paid(table, from, to) ==
  SumOf([i \in DOMAIN table |-> table[i].prize * Overlap(table[i], from, to)])

calculate_dynamic_prize_pool(pool, n) ==
  LET Within(from, to) == Most(0, Least(n, to) - from)
  IN pool + (pool * (3 * Within(250, 500) + 2 * Within(500, 750) + Within(750, 2000))) \div 1000

Winners(n) == LET third == (33 * n) \div 100 IN IF third < 3 THEN Least(3, n) ELSE third

\* The ten places paid one by one, as permille of the pool before scaling.
TopShares == <<140, 105, 85, 70, 57, 47, 39, 33, 28, 24>>
TopPrizes(pool, winners) ==
  LET scale == Most(1200, 2000 - winners)
  IN [i \in 1 .. Least(10, winners) |-> (pool * TopShares[i] * scale) \div 2000000]

\* The winners below them in groups, by percent of the winners; what is left is
\* the seventh group.
GroupShares == <<2, 3, 5, 8, 12, 20>>
LastPlace(winners, i) ==
  IF i = 7 THEN winners
  ELSE Least(winners, 10 + SumOf([j \in 1 .. i |-> Most(1, (winners * GroupShares[j]) \div 100)]))
Groups(winners) == {i \in 1 .. 7 : LastPlace(winners, i - 1) < winners}
Size(winners, i) == LastPlace(winners, i) - LastPlace(winners, i - 1)

\* A group is paid three fourths of the group above it, but never less than 1;
\* a plan dearer than what is left is scaled down to it, again to no less than 1.
GroupPrizes(winners, last, left) ==
  LET first   == (last * 85) \div 100
      plan    == [i \in Groups(winners) |-> Most(1, (first * 3 ^ (i - 1)) \div 4 ^ (i - 1))]
      planned == SumOf([i \in Groups(winners) |-> Size(winners, i) * plan[i]])
  IN IF planned <= left THEN plan
     ELSE [i \in Groups(winners) |-> Most(1, (plan[i] * left) \div planned)]

\* What is left over goes to the first five by weight, the last of them taking the rest.
Extra(winners, left) ==
  LET count    == Least(5, winners)
      weights  == [i \in 1 .. count |-> <<5, 3, 2, 1, 1>>[i]]
      share(i) == (weights[i] * left) \div SumOf(weights)
  IN [i \in 1 .. count |-> IF i < count THEN share(i)
                           ELSE left - SumOf([j \in 1 .. count - 1 |-> share(j)])]
TopUp(table, winners, left) ==
  [i \in DOMAIN table |-> [table[i] EXCEPT !.prize =
     @ + IF left > 0 /\ i <= Least(5, winners) THEN Extra(winners, left)[i] ELSE 0]]

\* A table is the runs of places of equal prize, best first.
distribute_prizes(pool, n) ==
  LET winners == Winners(n)
      alone   == Least(10, winners)
      top     == TopPrizes(pool, winners)
      each    == GroupPrizes(winners, top[alone], pool - SumOf(top))
      table   == [i \in 1 .. alone \cup {10 + g : g \in Groups(winners)} |->
                    IF i <= 10 THEN [from |-> i, to |-> i, prize |-> top[i]]
                    ELSE [from |-> LastPlace(winners, i - 11) + 1, to |-> LastPlace(winners, i - 10),
                          prize |-> each[i - 10]]]
  IN TopUp(table, winners, pool - Paid(table, 1, winners))

\* (Wrong: the range of a tie leaves out its last place.)
avg_prize_short(table, from, to) ==
  [sum |-> Paid(table, from, Most(from, to - 1)), count |-> to - from + 1]

\* A group of equal scores shares what the table has for the places it covers.
calculate_avg_prize_for_tie(table, from, to) ==
  [sum |-> Paid(table, from, to), count |-> to - from + 1]

Better(s) == strong + Cardinality({i \in DOMAIN scores : scores[i] > s})
Equal(s)  == Cardinality({i \in DOMAIN scores : scores[i] = s})

-----------------------------------------------------------------------------
(* A tournament fills, and is ranked *)

Decks == strong + Len(scores)

PrizeStart(pool, field) ==
  /\ base = 0 /\ base' = pool /\ strong' = field
  /\ field + MaxListed > 250 => pool % 1000 = 0  \* (bound: no fractional pool)
  /\ UNCHANGED <<scores, rows, prizes>>

PrizeJoin(s) ==
  /\ base # 0 /\ rows = <<>> /\ Len(scores) < MaxListed
  /\ scores' = Append(scores, s)
  /\ UNCHANGED <<base, strong, rows, prizes>>

\* calculate_results: without a valid deck nothing is written.
PrizeRank ==
  /\ base # 0 /\ rows = <<>> /\ Decks > 0
  /\ rows' = distribute_prizes(calculate_dynamic_prize_pool(base, Decks), Decks)
  /\ prizes' = [i \in DOMAIN scores |->
       calculate_avg_prize_for_tie(rows', Better(scores[i]) + 1, Better(scores[i]) + Equal(scores[i]))]
  /\ UNCHANGED <<base, strong, scores>>

PrizeNext ==
  \/ \E pool \in Pools, field \in Fields : PrizeStart(pool, field)
  \/ \E s \in Scores : PrizeJoin(s)
  \/ PrizeRank

PrizeSpec == PrizeInit /\ [][PrizeNext]_prizeVars

-----------------------------------------------------------------------------
(* Properties *)

PrizeTypeOK ==
  /\ base \in Pools \cup {0} /\ strong \in Fields \cup {0}
  /\ scores \in Seq(Scores) /\ Len(scores) <= MaxListed
  /\ rows \in Seq([from : Nat, to : Nat, prize : Nat])
  /\ prizes \in Seq([sum : Nat, count : 1 .. MaxListed])

Pool == calculate_dynamic_prize_pool(base, Decks)

\* prize_distribution.py: everything of the pool is given away and, but for the
\* prizes lifted to 1 of a pool too small for its winners, nothing more.
PoolKept ==
  rows # <<>> =>
    LET winners == Winners(Decks)
        paid    == Paid(rows, 1, Decks)
    IN /\ Pool <= paid /\ paid < Pool + winners
       /\ Pool >= 3 * winners => paid = Pool

\* calculate_results, ties included: with a pool of 320 or more a better score
\* is never paid less, and an equal one is paid the same.
PaidInOrder ==
  Pool >= 320 =>
    \A i, j \in DOMAIN prizes :
      scores[i] >= scores[j] => prizes[i].sum * prizes[j].count >= prizes[j].sum * prizes[i].count

\* The decks below the strong ones get what the table has below these, whichever
\* places their ties straddle (in 840ths, so that every mean is whole).
TiesPaidInFull ==
  LET share == [i \in DOMAIN prizes |-> (840 * prizes[i].sum) \div prizes[i].count]
  IN SumOf(share) = 840 * Paid(rows, strong + 1, Decks)

\* What a rank pays, with the size of every value.
PrizesFair == PrizeTypeOK /\ PoolKept /\ PaidInOrder /\ TiesPaidInFull
==============================================================================
