-------------------------------- MODULE MCParts --------------------------------
(***************************************************************************)
(* Parts that share no state, checked in one run: a behaviour is one of    *)
(* one part, chosen at first, while the others rest.                       *)
(***************************************************************************)
EXTENDS PrizeTable, Market, PackShelf, Showcase, PackContract, TLC

VARIABLE part

allVars == <<part, prizeVars, marketVars, shelfVars, showVars, contractVars>>

PartsInit ==
  /\ part \in {"prizes", "market", "shelf", "season", "seasons", "sales", "openings"}
  /\ PrizeInit /\ MarketInit /\ ShowcaseInit /\ ContractInit
  \* (The other parts rest beside one offer of packs, not beside each.)
  /\ ShelfInit
  /\ part # "shelf" => \A k \in PackTypes : types[k].slots = NoRow
  /\ part # "openings" => coded = {}

PartsNext ==
  \/ part = "prizes"   /\ PrizeNext    /\ UNCHANGED <<part, marketVars, shelfVars, showVars, contractVars>>
  \/ part = "market"   /\ MarketNext   /\ UNCHANGED <<part, prizeVars, shelfVars, showVars, contractVars>>
  \/ part = "shelf"    /\ ShelfNext    /\ UNCHANGED <<part, prizeVars, marketVars, showVars, contractVars>>
  \* (One tournament with changes by administrators and late runs, or two without.)
  \/ /\ part \in {"season", "seasons"} /\ ShowcaseNext
     /\ part = "season"  => stage'[2] = "none"
     /\ part = "seasons" => changes' = 0 /\ late' = {}
     /\ UNCHANGED <<part, prizeVars, marketVars, shelfVars, contractVars>>
  \* (Packs are sold and claimed without reveals, and opened when minted by the server.)
  \/ /\ part \in {"sales", "openings"} /\ ContractNext
     /\ part = "sales"    => signed' \cap RevealMessage = {}
     /\ part = "openings" => adminCalls' = 0 /\ signed' \cap ClaimMessage = {}
     /\ UNCHANGED <<part, prizeVars, marketVars, shelfVars, showVars>>

Spec == PartsInit /\ [][PartsNext]_allVars

-----------------------------------------------------------------------------
(* Prizes: small and large fields around every threshold of the tables. *)
BasePools == {1, 7, 40, 320, 1000, 2000}
StrongDecks == {0, 1, 2, 7, 29, 32, 120, 249, 498, 749, 1999}
DeckScores == {1, 2, 3}

\* Market: one price, two that disagree, none, a zero and a flat quote.
TokenIds == 1 .. 3
Quote(p) == [price |-> p, flat |-> FALSE]
At(p) == <<Quote(p)>>
Quotes == {<<At(50), At(50), At(100)>>,
           <<At(100), At(100), <<Quote(50), Quote(100)>>>>,
           <<At(100), <<>>, At(50)>>,
           <<<<[price |-> 100, flat |-> TRUE]>>, At(50), <<Quote(0), Quote(100)>>>>}
Capitals == {<<1000, 1, NoValue>>}
Weights == <<10, 5, 5>>

\* Packs: one category, two that share a symbol, none; a token with two cards.
Token == [c1 |-> "a", c2 |-> "b", c3 |-> "b"]
Category(p, n) == [pool |-> p, count |-> n]
Offers == {<<Category(<<"a", "b">>, 1)>>,
           <<Category(<<"a">>, 2), Category(<<"b", "a">>, 1)>>,
           NoRow}

\* Showcase: two cards of one token with different bonuses.
KindToken == [c1 |-> 1, c2 |-> 2, c3 |-> 2]
DecksOffered == {<<"c1", "c2">>, <<"c3", "c1">>}
ScoresGiven == {<<3, 0>>, <<None, 5>>}
Prizes == <<6, 2>>
BonusOf == [c1 |-> 1, c2 |-> 1, c3 |-> 2]

\* Contract: draws of one and of two cards.
CONSTANTS u1, u2, s1, s2
OneAndTwo == {[size |-> 1, seed |-> s1], [size |-> 2, seed |-> s2]}
CommitNumbers == 1 .. 2
CardNumbers == 0 .. 3
Symmetry == Permutations({u1, u2})
================================================================================
