----------------------------- MODULE Catalogue -----------------------------
(***************************************************************************)
(* The administration of the catalogue: tokens, rarities and the cards     *)
(* made of them, prizes by position, the whitelist of the alpha test, and  *)
(* the renderers that draw a card's image, store it and take the old one   *)
(* away.  A handler reads what it checks and commits later, without        *)
(* another look; renderers run beside it (their job takes no lock, a       *)
(* finish and the panel start them too), tournaments start on their own,   *)
(* and then every ranking, of the price job or of a finish, writes the     *)
(* prizes of the reward types that have a pool.                            *)
(*                                                                         *)
(* The database refuses a second token of a symbol and a second rarity of  *)
(* a name, so a token and a rarity are their names here.  A template is    *)
(* only whether it changed.                                                *)
(***************************************************************************)
EXTENDS Integers, Sequences, FiniteSets

CONSTANTS
  Tokens, Rarities, Designs, Wallets,
  CardIds,             \* values of the sequence of cards (bound)
  PrizeIds, Positions, \* prize rows (bound), positions they may name
  RewardTypes,
  Admins, Renderers,   \* tasks of the panel, tasks that render
  Rankers,             \* tasks that rank: the price job, a finish
  MaxRequests,         \* bound: requests of the panel, renders and rankings
  MaxSecond,           \* bound: the clock that names images
  None

ASSUME SequenceAssumption == CardIds \subseteq Nat \ {0} /\ PrizeIds \subseteq Nat \ {0}
ASSUME NumberAssumption   == MaxRequests \in Nat /\ MaxSecond \in Nat
ASSUME PositionAssumption == Positions \subseteq Nat \ {0} /\ \A n \in Positions : 1 .. n \subseteq Positions
ASSUME NoneAssumption     == None \notin Tokens \cup Rarities \cup Designs \cup RewardTypes \cup BOOLEAN \cup Nat

VARIABLES
  token, rarity,       \* tokens and rarities: missing, active or inactive
  card, nextCard,      \* table cards and its sequence
  prize, nextPrize,    \* tournament_prize_config of one tournament
  ranking,             \* the prize tables being written
  started,             \* whether that tournament has left registration
  whitelist,           \* alpha_test_access
  req, served,         \* the panel's requests under way; how many of them, of
                       \* renders and of rankings began
  files, now, ren,     \* images in storage, the second, the renders under way
  history              \* what was told or done, for the properties

goodsVars  == <<token, rarity, card, nextCard>>
prizeVars  == <<prize, nextPrize, ranking>>
panelVars  == <<req, served>>
renderVars == <<files, now, ren>>
vars == <<goodsVars, prizeVars, started, whitelist, panelVars, renderVars, history>>

State == {"missing", "active", "inactive"}
\* An image is named for its card and the second it was stored in.
File == CardIds \X (0 .. MaxSecond)
Card == [token: Tokens, rarity: Rarities, design: Designs, active: BOOLEAN,
         rendered: File \cup {None}]
Prize == [from: Positions, to: Positions, type: RewardTypes]

\* A prize table being written: its winners, and the rows its DELETE saw.
Table == [op: {"save"}, type: RewardTypes, winners: Positions, doomed: SUBSET PrizeIds]

\* NULL is no row.
ASSUME RowAssumption == None \notin Card \cup Prize

\* What a PUT may carry for a card, None where it says nothing.
CardUpdate == [token: Tokens \cup {None}, rarity: Rarities \cup {None},
               design: Designs \cup {None}, active: BOOLEAN \cup {None}, template: BOOLEAN]
Lists == UNION {[1 .. n -> Wallets] : n \in 1 .. 2}   \* (bound: two)

Idle == [op |-> "idle"]

Init ==
  /\ token = [t \in Tokens |-> "active"] /\ rarity = [k \in Rarities |-> "active"]
  /\ card = [c \in CardIds |-> None] /\ nextCard = 1
  /\ prize = [p \in PrizeIds |-> None] /\ nextPrize = 1 /\ ranking = [r \in Rankers |-> Idle]
  /\ started = FALSE /\ whitelist = {}
  /\ req = [a \in Admins |-> Idle] /\ served = 0
  /\ files = {} /\ now = 0 /\ ren = [r \in Renderers |-> Idle]
  /\ history = [listed |-> [w \in Wallets |-> 0], revived |-> {}, switched |-> {}, twice |-> {},
                ranked |-> {}, unseen |-> {}]

-----------------------------------------------------------------------------
(* Requests of the panel *)

Checks(a, task) ==
  /\ req[a] = Idle /\ served < MaxRequests
  /\ req' = [req EXCEPT ![a] = task]
  /\ served' = served + 1
  /\ UNCHANGED <<goodsVars, prizeVars, started, whitelist, renderVars, history>>

Done(a) == req' = [req EXCEPT ![a] = Idle] /\ UNCHANGED <<served, started, renderVars>>

Rows == {c \in CardIds : card[c] # None}
SameCard(t, k, d) ==
  {c \in Rows : card[c].active /\ card[c].token = t /\ card[c].rarity = k /\ card[c].design = d}
Given(value, otherwise) == IF value = None THEN otherwise ELSE value

\* Tokens and rarities are created, and their is_active may be set either way.
SetTokenCheck(a, t, is_active) ==
  Checks(a, [op |-> "set token", token |-> t, active |-> is_active])

SetTokenCommit(a) ==
  /\ req[a].op = "set token"
  /\ LET t == req[a].token IN
     /\ token' = [token EXCEPT ![t] = IF req[a].active THEN "active" ELSE "inactive"]
     /\ history' = [history EXCEPT !.switched = IF req[a].active THEN @ \ {t} ELSE @ \cup {t}]
  /\ Done(a)
  /\ UNCHANGED <<rarity, card, nextCard, prizeVars, whitelist>>

\* DELETE token: it and its active cards are switched off.
DeleteTokenCheck(a, t) ==
  /\ token[t] # "missing"
  /\ Checks(a, [op |-> "delete token", token |-> t,
                cards |-> {c \in Rows : card[c].token = t /\ card[c].active}])

DeleteTokenCommit(a) ==
  /\ req[a].op = "delete token"
  /\ token' = [token EXCEPT ![req[a].token] = "inactive"]
  /\ card' = [c \in CardIds |-> IF c \in req[a].cards THEN [card[c] EXCEPT !.active = FALSE]
                                ELSE card[c]]
  /\ history' = [history EXCEPT !.revived = @ \ req[a].cards, !.switched = @ \ {req[a].token}]
  /\ Done(a)
  /\ UNCHANGED <<rarity, nextCard, prizeVars, whitelist>>

\* A rarity in use by an active card cannot be switched off.
SetRarityCheck(a, k, is_active) ==
  /\ rarity[k] = "active" /\ ~is_active => \A c \in Rows : card[c].rarity = k => ~card[c].active
  /\ Checks(a, [op |-> "set rarity", rarity |-> k, active |-> is_active])

SetRarityCommit(a) ==
  /\ req[a].op = "set rarity"
  /\ rarity' = [rarity EXCEPT ![req[a].rarity] = IF req[a].active THEN "active" ELSE "inactive"]
  /\ Done(a)
  /\ UNCHANGED <<token, card, nextCard, prizeVars, whitelist, history>>

-----------------------------------------------------------------------------
(* Cards *)

\* Its token and rarity active, and no other active card of the kind.
CreateCardCheck(a, t, k, d, is_active) ==
  /\ token[t] = "active" /\ rarity[k] = "active" /\ SameCard(t, k, d) = {}
  /\ Checks(a, [op |-> "create card", token |-> t, rarity |-> k, design |-> d,
                active |-> is_active])

CreateCardCommit(a) ==
  /\ req[a].op = "create card" /\ nextCard \in CardIds
  /\ card' = [card EXCEPT ![nextCard] =
       [token |-> req[a].token, rarity |-> req[a].rarity, design |-> req[a].design,
        active |-> req[a].active, rendered |-> None]]
  /\ nextCard' = nextCard + 1
  /\ Done(a)
  /\ UNCHANGED <<token, rarity, prizeVars, whitelist, history>>

\* Mutant: the combination is looked for only when it is given whole.
UpdateCardCheckWhole(a, c, data) ==
  /\ c \in Rows
  /\ data.token \notin {None, card[c].token} => token[data.token] = "active"
  /\ data.rarity \notin {None, card[c].rarity} => rarity[data.rarity] = "active"
  /\ None \notin {data.token, data.rarity, data.design} =>
       SameCard(data.token, data.rarity, data.design) \subseteq {c}
  /\ Checks(a, [op |-> "update card", card |-> c, data |-> data, drawn |-> card[c].rendered # None])

\* A new token or rarity must be active; a key that is given, whole or in part, must
\* leave the card the only active one of its kind.  is_active is not looked at.
UpdateCardCheck(a, c, data) ==
  /\ c \in Rows
  /\ data.token \notin {None, card[c].token} => token[data.token] = "active"
  /\ data.rarity \notin {None, card[c].rarity} => rarity[data.rarity] = "active"
  /\ {data.token, data.rarity, data.design} # {None} =>
       SameCard(Given(data.token, card[c].token), Given(data.rarity, card[c].rarity),
                Given(data.design, card[c].design)) \subseteq {c}
  /\ Checks(a, [op |-> "update card", card |-> c, data |-> data, drawn |-> card[c].rendered # None])

\* A new template takes the image back; a row that had none when it was read is not
\* written there.
UpdateCardCommit(a) ==
  /\ req[a].op = "update card"
  /\ LET c == req[a].card  data == req[a].data  row == card[c] IN
     /\ card' = [card EXCEPT ![c] =
          [token |-> Given(data.token, row.token), rarity |-> Given(data.rarity, row.rarity),
           design |-> Given(data.design, row.design), active |-> Given(data.active, row.active),
           rendered |-> IF data.template /\ req[a].drawn THEN None ELSE row.rendered]]
     /\ history' = [history EXCEPT !.revived =
          IF data.active = TRUE /\ ~row.active THEN @ \cup {c}
          ELSE IF data.active = FALSE THEN @ \ {c} ELSE @]
  /\ Done(a)
  /\ UNCHANGED <<token, rarity, nextCard, prizeVars, whitelist>>

-----------------------------------------------------------------------------
(* Prizes by position *)

Overlapping(from, to, except) ==
  {p \in PrizeIds \ {except} : prize[p] # None /\ prize[p].from <= to /\ prize[p].to >= from}

\* The rows a ranking has deleted and not committed.
Doomed(r) == IF ranking[r].op = "save" THEN ranking[r].doomed ELSE {}

\* The panel looks for another row at the positions, of any reward type.
CreatePrizeCheck(a, from, to, type) ==
  /\ ~started /\ from <= to /\ Overlapping(from, to, None) = {}
  /\ Checks(a, [op |-> "create prize", from |-> from, to |-> to, type |-> type])

\* A row the panel writes once the tournament started was not seen by its rankings.
Late(p) == history' = IF started THEN [history EXCEPT !.unseen = @ \cup {p}] ELSE history

CreatePrizeCommit(a) ==
  /\ req[a].op = "create prize" /\ nextPrize \in PrizeIds
  /\ prize' = [prize EXCEPT ![nextPrize] =
       [from |-> req[a].from, to |-> req[a].to, type |-> req[a].type]]
  /\ nextPrize' = nextPrize + 1 /\ Late(nextPrize)
  /\ Done(a)
  /\ UNCHANGED <<goodsVars, ranking, whitelist>>

\* One bound may be given alone, and then is not compared with the other; a reward type
\* given alone is not compared with anything.
UpdatePrizeCheck(a, p, from, to, type) ==
  /\ prize[p] # None /\ ~started /\ (from # None /\ to # None => from <= to)
  /\ {from, to} # {None} => Overlapping(Given(from, prize[p].from), Given(to, prize[p].to), p) = {}
  /\ Checks(a, [op |-> "update prize", prize |-> p, from |-> from, to |-> to, type |-> type])

\* A row that a ranking deletes is waited for, and is not there any more.
UpdatePrizeCommit(a) ==
  /\ req[a].op = "update prize" /\ \A r \in Rankers : req[a].prize \notin Doomed(r)
  /\ IF prize[req[a].prize] = None THEN UNCHANGED <<prize, history>>
     ELSE /\ prize' = [prize EXCEPT ![req[a].prize] =
               [from |-> Given(req[a].from, @.from), to |-> Given(req[a].to, @.to),
                type |-> Given(req[a].type, @.type)]]
          /\ Late(req[a].prize)
  /\ Done(a)
  /\ UNCHANGED <<goodsVars, nextPrize, ranking, whitelist>>

StartTournament ==
  /\ ~started /\ started' = TRUE
  /\ UNCHANGED <<goodsVars, prizeVars, whitelist, panelVars, renderVars, history>>

Ranks(r, task) ==
  /\ ranking' = [ranking EXCEPT ![r] = task]
  /\ UNCHANGED <<goodsVars, started, whitelist, req, renderVars>>

\* The DELETE of a ranking: the rows of one reward type its statement sees, which stay
\* locked.  The number of winners follows from that of the decks.
RankDelete(r, type, winners) ==
  /\ started /\ ranking[r] = Idle /\ served < MaxRequests /\ served' = served + 1
  /\ Ranks(r, [op |-> "save", type |-> type, winners |-> winners,
               doomed |-> {p \in PrizeIds : prize[p] # None /\ prize[p].type = type}])
  /\ UNCHANGED <<prize, nextPrize, history>>

\* Its commit: they go, and each place has a row.
SavePrizes(r, doomed) ==
  LET new == nextPrize .. nextPrize + ranking[r].winners - 1
      type == ranking[r].type IN
  /\ ranking[r].op = "save" /\ new \subseteq PrizeIds
  /\ prize' = [p \in PrizeIds |->
       IF p \in new THEN [from |-> p - nextPrize + 1, to |-> p - nextPrize + 1, type |-> type]
       ELSE IF p \in doomed THEN None ELSE prize[p]]
  /\ nextPrize' = nextPrize + ranking[r].winners
  /\ history' = [history EXCEPT !.ranked = @ \cup new,
       !.unseen = @ \cup {p \in PrizeIds \ Doomed(r) : prize[p] # None /\ prize[p].type = type}]
  /\ Ranks(r, Idle)
  /\ UNCHANGED served

\* Mutant: the old rows stay.
RankSaveBeside(r) == SavePrizes(r, {})

RankSave(r) == SavePrizes(r, Doomed(r))

\* The ranking fails or its process ends: rolled back.
RankFails(r) ==
  /\ ranking[r] # Idle
  /\ Ranks(r, Idle)
  /\ UNCHANGED <<prize, nextPrize, served, history>>

-----------------------------------------------------------------------------
(* The whitelist *)

\* One address, or a list of them.
WhitelistBegin(a, list) == Checks(a, [op |-> "whitelist", todo |-> list, added |-> <<>>])

\* Each is looked for among the rows committed, not among those before it in the list.
WhitelistLook(a) ==
  /\ req[a].op = "whitelist" /\ req[a].todo # <<>>
  /\ LET w == Head(req[a].todo) IN
     req' = [req EXCEPT ![a].todo = Tail(@), ![a].added = IF w \in whitelist THEN @ ELSE Append(@, w)]
  /\ UNCHANGED <<goodsVars, prizeVars, started, whitelist, served, renderVars, history>>

Listed(a) == {req[a].added[i] : i \in DOMAIN req[a].added}
TellListed(a) ==
  history' = [history EXCEPT !.listed =
    [w \in Wallets |-> @[w] + Cardinality({i \in DOMAIN req[a].added : req[a].added[i] = w})]]

\* Mutant: rows that exist are passed over.
WhitelistCommitUpsert(a) ==
  /\ req[a].op = "whitelist" /\ req[a].todo = <<>>
  /\ whitelist' = whitelist \cup Listed(a) /\ TellListed(a)
  /\ Done(a)
  /\ UNCHANGED <<goodsVars, prizeVars>>

\* A row that exists by now, or twice in the list, loses the whole list.
WhitelistCommit(a) ==
  /\ req[a].op = "whitelist" /\ req[a].todo = <<>>
  /\ IF Listed(a) \cap whitelist = {} /\ Cardinality(Listed(a)) = Len(req[a].added)
     THEN whitelist' = whitelist \cup Listed(a) /\ TellListed(a)
     ELSE UNCHANGED <<whitelist, history>>
  /\ Done(a)
  /\ UNCHANGED <<goodsVars, prizeVars>>

\* A removal; what was told of the address is settled with it.
WhitelistRemove(w) ==
  /\ w \in whitelist /\ served < MaxRequests /\ served' = served + 1
  /\ whitelist' = whitelist \ {w}
  /\ history' = [history EXCEPT !.listed[w] = @ - 1]
  /\ UNCHANGED <<goodsVars, prizeVars, started, req, renderVars>>

-----------------------------------------------------------------------------
(* Rendering *)

Renders(r, task) ==
  /\ ren' = [ren EXCEPT ![r] = task]
  /\ UNCHANGED <<token, rarity, nextCard, prizeVars, started, whitelist, req, now>>

\* The card is read with its token, then the token's last price.
RenderRead(r, c) ==
  /\ ren[r] = Idle /\ c \in Rows /\ served < MaxRequests /\ served' = served + 1
  /\ Renders(r, [op |-> "draw", card |-> c, row |-> card[c]])
  /\ UNCHANGED <<card, files, history>>

\* Download, drawing and upload do not yield.
RenderUpload(r) ==
  /\ ren[r].op = "draw"
  /\ LET file == <<ren[r].card, now>> IN
     /\ files' = files \cup {file}
     /\ history' = [history EXCEPT !.twice = IF file \in files THEN @ \cup {file} ELSE @]
     /\ Renders(r, [op |-> "commit", card |-> ren[r].card, row |-> ren[r].row, file |-> file])
  /\ UNCHANGED <<card, served>>

\* The old image, if it was another one, has to be looked at.
AfterRender(r) ==
  IF ren[r].row.rendered \in {None, ren[r].file} THEN Idle
  ELSE [op |-> "clean", card |-> ren[r].card, old |-> ren[r].row.rendered]

\* The name is written unless the row read had it already.
RenderCommit(r) ==
  /\ ren[r].op = "commit"
  /\ card' = IF ren[r].row.rendered = ren[r].file THEN card
             ELSE [card EXCEPT ![ren[r].card].rendered = ren[r].file]
  /\ Renders(r, AfterRender(r))
  /\ UNCHANGED <<files, history, served>>

\* The old image goes unless another card shows it.
RenderClean(r) ==
  /\ ren[r].op = "clean"
  /\ files' = IF \E c \in Rows \ {ren[r].card} : card[c].rendered = ren[r].old THEN files
              ELSE files \ {ren[r].old}
  /\ Renders(r, Idle)
  /\ UNCHANGED <<card, history, served>>

\* A download, the storage or the database fails, or the process ends.
RenderFails(r) ==
  /\ ren[r] # Idle
  /\ Renders(r, Idle)
  /\ UNCHANGED <<card, files, history, served>>

Tick ==
  /\ now < MaxSecond /\ now' = now + 1
  /\ UNCHANGED <<goodsVars, prizeVars, started, whitelist, panelVars, files, ren, history>>

Commit(a) ==
  \/ SetTokenCommit(a) \/ DeleteTokenCommit(a) \/ SetRarityCommit(a)
  \/ CreateCardCommit(a) \/ UpdateCardCommit(a)
  \/ CreatePrizeCommit(a) \/ UpdatePrizeCommit(a)
  \/ WhitelistLook(a) \/ WhitelistCommit(a)

Ask(a) ==
  \/ \E t \in Tokens : DeleteTokenCheck(a, t) \/ \E b \in BOOLEAN : SetTokenCheck(a, t, b)
  \/ \E k \in Rarities, b \in BOOLEAN : SetRarityCheck(a, k, b)
  \/ \E t \in Tokens, k \in Rarities, d \in Designs, b \in BOOLEAN : CreateCardCheck(a, t, k, d, b)
  \/ \E c \in CardIds, data \in CardUpdate : UpdateCardCheck(a, c, data)
  \/ \E from, to \in Positions, type \in RewardTypes : CreatePrizeCheck(a, from, to, type)
  \/ \E p \in PrizeIds, from, to \in Positions \cup {None}, type \in RewardTypes \cup {None} :
       UpdatePrizeCheck(a, p, from, to, type)
  \/ \E list \in Lists : WhitelistBegin(a, list)

Render(r) ==
  \/ \E c \in CardIds : RenderRead(r, c)
  \/ RenderUpload(r) \/ RenderCommit(r) \/ RenderClean(r) \/ RenderFails(r)

Rank(r) ==
  \/ \E type \in RewardTypes, winners \in Positions : RankDelete(r, type, winners)
  \/ RankSave(r) \/ RankFails(r)

Next ==
  \/ \E a \in Admins : Ask(a) \/ Commit(a)
  \/ \E w \in Wallets : WhitelistRemove(w)
  \/ \E r \in Renderers : Render(r)
  \/ \E r \in Rankers : Rank(r)
  \/ StartTournament \/ Tick

Spec == Init /\ [][Next]_vars

-----------------------------------------------------------------------------
(* Properties, with one administrator at work *)

TypeOK ==
  /\ token \in [Tokens -> State] /\ rarity \in [Rarities -> State]
  /\ card \in [CardIds -> Card \cup {None}] /\ nextCard \in Nat \ {0}
  /\ prize \in [PrizeIds -> Prize \cup {None}] /\ nextPrize \in Nat \ {0}
  /\ ranking \in [Rankers -> Table \cup {Idle}]
  /\ started \in BOOLEAN /\ whitelist \subseteq Wallets
  /\ files \subseteq File /\ now \in 0 .. MaxSecond /\ served \in 0 .. MaxRequests

Active(c) == card[c] # None /\ card[c].active

\* Two active cards of one token, rarity and design come about only by switching a
\* card back on: a create, and an update of any part of the key, sees the other card.
UniqueActive ==
  \A c, d \in CardIds :
    /\ c # d /\ Active(c) /\ Active(d) /\ {c, d} \cap history.revived = {}
    => d \notin SameCard(card[c].token, card[c].rarity, card[c].design)

\* A card in play is made of a rarity and a token in play, unless it was switched back
\* on or its token was switched off without being deleted: a delete takes the cards
\* with it, a rarity in use stays, and a render that ends later does not undo either.
ActiveReferences ==
  \A c \in CardIds :
    Active(c) /\ c \notin history.revived =>
      /\ rarity[card[c].rarity] = "active"
      /\ token[card[c].token] = "active" \/ card[c].token \in history.switched

\* No two rows of the panel cover one position, whatever they reward, though an update
\* of one bound may leave a row that covers none.  Nor do two rows of one reward type,
\* the panel's and a ranking's or those of two rankings, although each ranking deletes
\* only the rows of its type: unless one was committed between the other's DELETE and
\* its commit, or by a request of the panel that outlasted the start.
PrizesDisjoint ==
  \A p, q \in PrizeIds : \A n \in Positions :
    /\ p # q /\ prize[p] # None /\ prize[q] # None
    /\ \/ {p, q} \cap history.ranked = {}
       \/ prize[p].type = prize[q].type /\ {p, q} \cap history.unseen = {}
    /\ n \in prize[p].from .. prize[p].to
    => n \notin prize[q].from .. prize[q].to

\* The image a card shows is in storage, whatever renders and updates overlap: an old
\* image goes after its successor is committed.  (Two renders of a card in one second
\* share a name, and then a third may take the image away.)
ShownExists ==
  \A c \in CardIds :
    card[c] # None /\ card[c].rendered # None /\ card[c].rendered \notin history.twice
      => card[c].rendered \in files

\* Each address on the whitelist was reported added by one request, and none that is
\* missing: a list with an address twice is lost as a whole.
WhitelistReconciles ==
  \A w \in Wallets : history.listed[w] = IF w \in whitelist THEN 1 ELSE 0

\* Tokens, rarities, cards and their images fit together, edits and renders in any order.
CardsConsistent == TypeOK /\ UniqueActive /\ ActiveReferences /\ ShownExists

\* The rows of the prize table and of the whitelist are what the requests said.
TablesReconcile == PrizesDisjoint /\ WhitelistReconciles
==============================================================================
