--------------------------- MODULE CatalogueProofs ---------------------------
(***************************************************************************)
(* What holds of Catalogue for every number of tokens, rarities, designs,  *)
(* wallets, requests and renders.                                          *)
(*                                                                         *)
(* Whoever works beside whom, the image a card shows is in storage, and    *)
(* the whitelist is what was reported.  With one administrator, whatever   *)
(* is rendered meanwhile, what a request has checked still holds when it   *)
(* commits (Kept): from that follow the cards without a double and their   *)
(* references.  Of the prizes it is kept among the panel's own rows        *)
(* (PrizesInv), whatever rankings write beside or take away.               *)
(***************************************************************************)
EXTENDS Catalogue, FiniteSetTheorems, SequenceTheorems, TLAPS

\* Two requests of administrators are never under way at once.
OneAdministrator == \A a, b \in Admins : a = b

-----------------------------------------------------------------------------
(* Types: what requests and renders remember, by what they are about *)

RequestOK(q) ==
  /\ q.op \in {"idle", "set token", "delete token", "set rarity", "create card", "update card",
               "create prize", "update prize", "whitelist"}
  /\ q.op = "set token" => q.token \in Tokens /\ q.active \in BOOLEAN
  /\ q.op = "delete token" => q.token \in Tokens /\ q.cards \subseteq Rows
  /\ q.op = "set rarity" => q.rarity \in Rarities /\ q.active \in BOOLEAN
  /\ q.op = "create card" => /\ q.token \in Tokens /\ q.rarity \in Rarities
                             /\ q.design \in Designs /\ q.active \in BOOLEAN
  /\ q.op = "update card" => q.card \in Rows /\ q.data \in CardUpdate /\ q.drawn \in BOOLEAN
  /\ q.op = "create prize" => q.from \in Positions /\ q.to \in Positions /\ q.type \in RewardTypes
  /\ q.op = "update prize" => /\ q.prize \in PrizeIds /\ q.type \in RewardTypes \cup {None}
                              /\ q.from \in Positions \cup {None} /\ q.to \in Positions \cup {None}
  /\ q.op = "whitelist" => q \in [op : {"whitelist"}, todo : Seq(Wallets), added : Seq(Wallets)]

Requests == DOMAIN req = Admins /\ \A a \in Admins : RequestOK(req[a])

\* An image of the card, of this second or an earlier one.
Named(f, c) == f \in File /\ f[1] = c /\ f[2] <= now
RowNamed(row, c) == row \in Card /\ (row.rendered # None => Named(row.rendered, c))

RenderOK(k) ==
  /\ k.op \in {"idle", "draw", "commit", "clean"}
  /\ k.op # "idle" => k.card \in Rows
  /\ k.op \in {"draw", "commit"} => RowNamed(k.row, k.card)
  /\ k.op = "commit" => Named(k.file, k.card) /\ (k.row.rendered # None => k.row.rendered[2] <= k.file[2])
  /\ k.op = "clean" => Named(k.old, k.card) /\ k.old[2] < now

Drawings == DOMAIN ren = Renderers /\ \A r \in Renderers : RenderOK(ren[r])

\* Rows have the numbers given so far, and images of their own.
Numbered ==
  /\ \A c \in CardIds : card[c] # None => c < nextCard /\ RowNamed(card[c], c)
  /\ \A p \in PrizeIds : prize[p] # None => p < nextPrize

Told == history \in [listed : [Wallets -> Int], revived : SUBSET CardIds,
                     switched : SUBSET Tokens, twice : SUBSET File,
                     ranked : SUBSET PrizeIds, unseen : SUBSET PrizeIds]

TypeInv == TypeOK /\ Requests /\ Drawings /\ Numbered /\ Told

LEMMA InitTypes == Init => TypeInv
<1> SUFFICES ASSUME Init PROVE TypeInv
  OBVIOUS
<1>1. TypeOK
  <2>1. now \in 0 .. MaxSecond /\ served \in 0 .. MaxRequests
    BY NumberAssumption DEF Init
  <2>2. token \in [Tokens -> State] /\ rarity \in [Rarities -> State]
    BY DEF Init, State
  <2>3. /\ card \in [CardIds -> Card \cup {None}] /\ prize \in [PrizeIds -> Prize \cup {None}]
        /\ ranking \in [Rankers -> Table \cup {Idle}]
    BY DEF Init
  <2>4. files \subseteq File /\ whitelist \subseteq Wallets /\ started \in BOOLEAN
    BY DEF Init
  <2>. QED
    BY <2>1, <2>2, <2>3, <2>4 DEF Init, TypeOK
<1>2. Requests /\ Drawings
  BY DEF Init, Requests, Drawings, RequestOK, RenderOK, Idle
<1>3. Numbered
  BY DEF Init, Numbered
<1>4. Told
  BY DEF Init, Told
<1>. QED
  BY <1>1, <1>2, <1>3, <1>4 DEF TypeInv

\* A request that was answered leaves the others as they are.
LEMMA Answered ==
  ASSUME Requests, NEW a \in Admins, req' = [req EXCEPT ![a] = Idle],
         Rows \subseteq Rows'
  PROVE  Requests'
<1>1. DOMAIN req' = Admins /\ req'[a].op = "idle" /\ \A b \in Admins : b # a => req'[b] = req[b]
  BY DEF Requests, Idle
<1>2. ASSUME NEW b \in Admins, b # a PROVE RequestOK(req[b])'
  <2>1. req'[b] = req[b] /\ RequestOK(req[b])
    BY <1>1, <1>2 DEF Requests
  <2>. QED
    BY <2>1 DEF RequestOK
<1>3. RequestOK(req[a])'
  BY <1>1 DEF RequestOK
<1>. QED
  BY <1>1, <1>2, <1>3 DEF Requests

LEMMA DrawingsStay ==
  ASSUME Drawings, UNCHANGED <<ren, now>>, Rows \subseteq Rows'
  PROVE  Drawings'
<1>1. ASSUME NEW r \in Renderers PROVE RenderOK(ren[r])'
  <2>1. RenderOK(ren[r])
    BY DEF Drawings
  <2>. QED
    BY <2>1 DEF RenderOK, RowNamed, Named
<1>. QED
  BY <1>1 DEF Drawings

\* A request that begins.
LEMMA CheckTypes ==
  ASSUME TypeInv, NEW a \in Admins, NEW task, Checks(a, task), RequestOK(task)
  PROVE  TypeInv'
<1> USE DEF TypeInv, Checks, goodsVars, prizeVars, renderVars
<1>1. TypeOK'
  <2>1. served' \in 0 .. MaxRequests
    BY NumberAssumption DEF TypeOK
  <2>. QED
    BY <2>1 DEF TypeOK
<1>2. Requests'
  <2>1. DOMAIN req' = Admins /\ req'[a] = task /\ \A b \in Admins : b # a => req'[b] = req[b]
    BY DEF Requests
  <2>2. ASSUME NEW b \in Admins PROVE RequestOK(req[b])'
    <3>1. RequestOK(req[b]) /\ (req'[b] = req[b] \/ req'[b] = task)
      BY <2>1 DEF Requests
    <3>. QED
      BY <3>1 DEF RequestOK, Rows
  <2>. QED
    BY <2>1, <2>2 DEF Requests
<1>3. Drawings'
  BY DrawingsStay DEF Rows
<1>4. Numbered'
  BY DEF Numbered, RowNamed, Named
<1>. QED
  BY <1>1, <1>2, <1>3, <1>4 DEF Told

LEMMA AskTypes ==
  ASSUME TypeInv, NEW a \in Admins, Ask(a)
  PROVE  TypeInv'
<1>1. ASSUME NEW t \in Tokens, DeleteTokenCheck(a, t) PROVE TypeInv'
  BY <1>1, CheckTypes DEF DeleteTokenCheck, RequestOK
<1>2. ASSUME NEW t \in Tokens, NEW b \in BOOLEAN, SetTokenCheck(a, t, b) PROVE TypeInv'
  BY <1>2, CheckTypes DEF SetTokenCheck, RequestOK
<1>3. ASSUME NEW k \in Rarities, NEW b \in BOOLEAN, SetRarityCheck(a, k, b) PROVE TypeInv'
  BY <1>3, CheckTypes DEF SetRarityCheck, RequestOK
<1>4. ASSUME NEW t \in Tokens, NEW k \in Rarities, NEW d \in Designs, NEW b \in BOOLEAN,
             CreateCardCheck(a, t, k, d, b) PROVE TypeInv'
  BY <1>4, CheckTypes DEF CreateCardCheck, RequestOK
<1>5. ASSUME NEW c \in CardIds, NEW data \in CardUpdate, UpdateCardCheck(a, c, data) PROVE TypeInv'
  BY <1>5, CheckTypes DEF UpdateCardCheck, RequestOK
<1>6. ASSUME NEW from \in Positions, NEW to \in Positions, NEW type \in RewardTypes,
             CreatePrizeCheck(a, from, to, type) PROVE TypeInv'
  BY <1>6, CheckTypes DEF CreatePrizeCheck, RequestOK
<1>7. ASSUME NEW p \in PrizeIds, NEW from \in Positions \cup {None}, NEW to \in Positions \cup {None},
             NEW type \in RewardTypes \cup {None}, UpdatePrizeCheck(a, p, from, to, type) PROVE TypeInv'
  BY <1>7, CheckTypes DEF UpdatePrizeCheck, RequestOK
<1>8. ASSUME NEW list \in Lists, WhitelistBegin(a, list) PROVE TypeInv'
  <2>1. list \in Seq(Wallets) /\ <<>> \in Seq(Wallets)
    BY SeqDef, EmptySeq DEF Lists
  <2>. QED
    BY <1>8, <2>1, CheckTypes DEF WhitelistBegin, RequestOK
<1>. QED
  BY <1>1, <1>2, <1>3, <1>4, <1>5, <1>6, <1>7, <1>8 DEF Ask

\* A row is changed in place, or one is added: none goes.
LEMMA RowsStay ==
  ASSUME TypeInv, NEW c \in CardIds, NEW row \in Card, card' = [card EXCEPT ![c] = row]
  PROVE  /\ card' \in [CardIds -> Card \cup {None}] /\ Rows \subseteq Rows'
         /\ card'[c] = row /\ row # None /\ \A d \in CardIds : d # c => card'[d] = card[d]
BY RowAssumption DEF TypeInv, TypeOK, Rows

LEMMA SetTokenTypes ==
  ASSUME TypeInv, NEW a \in Admins, SetTokenCommit(a)
  PROVE  TypeInv'
<1> USE DEF TypeInv, SetTokenCommit, Done, prizeVars, renderVars
<1>1. req[a].token \in Tokens
  BY DEF Requests, RequestOK
<1>2. TypeOK'
  BY <1>1 DEF TypeOK, State
<1>3. Rows \subseteq Rows' /\ prize' = prize
  BY DEF Rows
<1>4. Requests' /\ Drawings'
  BY <1>3, Answered, DrawingsStay
<1>5. Numbered' /\ Told'
  BY <1>1 DEF Numbered, RowNamed, Named, Told
<1>. QED
  BY <1>2, <1>4, <1>5

LEMMA DeleteTokenTypes ==
  ASSUME TypeInv, NEW a \in Admins, DeleteTokenCommit(a)
  PROVE  /\ TypeInv'
         /\ \A c \in CardIds : c \notin req[a].cards => card'[c] = card[c]
         /\ \A c \in req[a].cards : card[c] \in Card /\ card'[c] = [card[c] EXCEPT !.active = FALSE]
<1> USE DEF TypeInv, DeleteTokenCommit, Done, prizeVars, renderVars
<1>1. req[a].token \in Tokens /\ req[a].cards \subseteq Rows
  BY DEF Requests, RequestOK
<1>2. \A c \in req[a].cards : c \in CardIds /\ card[c] \in Card
  BY <1>1 DEF Rows, TypeOK
<1>3. /\ \A c \in CardIds : c \notin req[a].cards => card'[c] = card[c]
      /\ \A c \in req[a].cards : /\ card'[c] = [card[c] EXCEPT !.active = FALSE]
                                /\ card'[c] \in Card /\ card'[c].rendered = card[c].rendered
  BY <1>2 DEF Card
<1>4. card' \in [CardIds -> Card \cup {None}]
  <2>1. \A c \in CardIds : card'[c] \in Card \cup {None}
    BY <1>3 DEF TypeOK
  <2>. QED
    BY <2>1
<1>5. TypeOK'
  BY <1>1, <1>4 DEF TypeOK, State
<1>6. Rows \subseteq Rows' /\ prize' = prize
  BY <1>3, RowAssumption DEF Rows
<1>7. Requests' /\ Drawings'
  BY <1>6, Answered, DrawingsStay
<1>8. Numbered'
  BY <1>2, <1>3, RowAssumption DEF Numbered, RowNamed, Named
<1>9. Told'
  BY <1>1, <1>2 DEF Told
<1>. QED
  BY <1>2, <1>3, <1>5, <1>7, <1>8, <1>9

LEMMA SetRarityTypes ==
  ASSUME TypeInv, NEW a \in Admins, SetRarityCommit(a)
  PROVE  TypeInv'
<1> USE DEF TypeInv, SetRarityCommit, Done, prizeVars, renderVars
<1>1. req[a].rarity \in Rarities
  BY DEF Requests, RequestOK
<1>2. TypeOK'
  BY <1>1 DEF TypeOK, State
<1>3. Rows \subseteq Rows' /\ prize' = prize
  BY DEF Rows
<1>4. Requests' /\ Drawings'
  BY <1>3, Answered, DrawingsStay
<1>5. Numbered' /\ Told'
  BY DEF Numbered, RowNamed, Named, Told
<1>. QED
  BY <1>2, <1>4, <1>5

LEMMA CreateCardTypes ==
  ASSUME TypeInv, NEW a \in Admins, CreateCardCommit(a)
  PROVE  /\ TypeInv' /\ nextCard \notin Rows
         /\ card'[nextCard] =
              [token |-> req[a].token, rarity |-> req[a].rarity, design |-> req[a].design,
               active |-> req[a].active, rendered |-> None]
         /\ \A d \in CardIds : d # nextCard => card'[d] = card[d]
<1> DEFINE row == [token |-> req[a].token, rarity |-> req[a].rarity, design |-> req[a].design,
                   active |-> req[a].active, rendered |-> None]
<1>1. row \in Card
  BY DEF TypeInv, CreateCardCommit, Requests, RequestOK, Card
<1>2. /\ card' = [card EXCEPT ![nextCard] = row] /\ nextCard \in CardIds /\ nextCard' = nextCard + 1
      /\ req' = [req EXCEPT ![a] = Idle]
      /\ UNCHANGED <<token, rarity, prize, nextPrize, ranking, started, whitelist, served, files, now, ren, history>>
  BY DEF CreateCardCommit, Done, prizeVars, renderVars
<1>3. /\ card' \in [CardIds -> Card \cup {None}] /\ Rows \subseteq Rows'
      /\ card'[nextCard] = row /\ \A d \in CardIds : d # nextCard => card'[d] = card[d]
  <2>. HIDE DEF row
  <2>. QED
    BY <1>1, <1>2, RowsStay
<1>4. nextCard \in Nat /\ \A c \in CardIds : c \in Nat
  BY <1>2, SequenceAssumption
<1>5. nextCard \notin Rows
  BY <1>4 DEF TypeInv, Numbered, Rows
<1>6. TypeOK'
  BY <1>2, <1>3, <1>4 DEF TypeInv, TypeOK
<1>7. Requests' /\ Drawings'
  BY <1>2, <1>3, Answered, DrawingsStay DEF TypeInv
<1>8. Numbered'
  <2>1. ASSUME NEW c \in CardIds, card'[c] # None PROVE (c < nextCard /\ RowNamed(card[c], c))'
    <3>1. CASE c = nextCard
      <4>1. row.rendered = None
        OBVIOUS
      <4>. HIDE DEF row
      <4>. QED
        BY <1>1, <1>2, <1>3, <1>4, <3>1, <4>1 DEF RowNamed
    <3>2. CASE c # nextCard
      <4>1. c < nextCard /\ RowNamed(card[c], c) /\ card'[c] = card[c]
        BY <1>3, <2>1, <3>2 DEF TypeInv, Numbered
      <4>. QED
        BY <1>2, <1>4, <4>1 DEF RowNamed, Named
    <3>. QED
      BY <3>1, <3>2
  <2>. QED
    BY <1>2, <2>1 DEF TypeInv, Numbered
<1>. QED
  BY <1>2, <1>3, <1>5, <1>6, <1>7, <1>8 DEF TypeInv, Told

LEMMA UpdateCardTypes ==
  ASSUME TypeInv, NEW a \in Admins, UpdateCardCommit(a)
  PROVE  /\ TypeInv' /\ req[a].card \in Rows
         /\ \A d \in CardIds : d # req[a].card => card'[d] = card[d]
         /\ LET c == req[a].card  data == req[a].data  row == card[c]
            IN card'[c] =
                 [token |-> Given(data.token, row.token), rarity |-> Given(data.rarity, row.rarity),
                  design |-> Given(data.design, row.design), active |-> Given(data.active, row.active),
                  rendered |-> IF data.template /\ req[a].drawn THEN None ELSE row.rendered]
<1> DEFINE c == req[a].card
           data == req[a].data
           row == card[c]
           new == [token |-> Given(data.token, row.token), rarity |-> Given(data.rarity, row.rarity),
                   design |-> Given(data.design, row.design), active |-> Given(data.active, row.active),
                   rendered |-> IF data.template /\ req[a].drawn THEN None ELSE row.rendered]
<1>1. c \in Rows /\ data \in CardUpdate
  BY DEF TypeInv, UpdateCardCommit, Requests, RequestOK
<1>2. c \in CardIds /\ row \in Card
  BY <1>1 DEF Rows, TypeInv, TypeOK
<1>3. new \in Card
  BY <1>1, <1>2 DEF Card, CardUpdate, Given
<1>4. /\ card' = [card EXCEPT ![c] = new] /\ req' = [req EXCEPT ![a] = Idle]
      /\ UNCHANGED <<token, rarity, nextCard, prize, nextPrize, ranking, started, whitelist, served, files, now, ren>>
  BY DEF UpdateCardCommit, Done, prizeVars, renderVars
<1>5. /\ card' \in [CardIds -> Card \cup {None}] /\ Rows \subseteq Rows'
      /\ card'[c] = new /\ \A d \in CardIds : d # c => card'[d] = card[d]
  <2>. HIDE DEF new, c
  <2>. QED
    BY <1>2, <1>3, <1>4, RowsStay
<1>6. TypeOK'
  BY <1>4, <1>5 DEF TypeInv, TypeOK
<1>7. Requests' /\ Drawings'
  BY <1>4, <1>5, Answered, DrawingsStay DEF TypeInv
<1>8. Numbered'
  <2>1. ASSUME NEW d \in CardIds, card'[d] # None PROVE (d < nextCard /\ RowNamed(card[d], d))'
    <3>1. CASE d = c
      <4>1. c < nextCard /\ RowNamed(row, c)
        BY <1>1 DEF TypeInv, Numbered, Rows
      <4>2. new.rendered \in {None, row.rendered}
        OBVIOUS
      <4>. HIDE DEF new, c, row
      <4>. QED
        BY <1>3, <1>4, <1>5, <3>1, <4>1, <4>2 DEF RowNamed, Named
    <3>2. CASE d # c
      <4>1. d < nextCard /\ RowNamed(card[d], d) /\ card'[d] = card[d]
        BY <1>5, <2>1, <3>2 DEF TypeInv, Numbered
      <4>. QED
        BY <1>4, <4>1 DEF RowNamed, Named
    <3>. QED
      BY <3>1, <3>2
  <2>. QED
    BY <1>4, <2>1 DEF TypeInv, Numbered
<1>9. Told'
  BY <1>2 DEF TypeInv, UpdateCardCommit, Told
<1>. QED
  BY <1>1, <1>5, <1>6, <1>7, <1>8, <1>9 DEF TypeInv

\* A row of the panel that was not seen stays out of what the rankings know.
LEMMA LateTypes ==
  ASSUME TypeInv, NEW p \in PrizeIds, Late(p)
  PROVE  /\ Told' /\ UNCHANGED <<history.listed, history.revived, history.switched, history.twice, history.ranked>>
         /\ history'.unseen = IF started THEN history.unseen \cup {p} ELSE history.unseen
BY DEF Late, TypeInv, Told

LEMMA CreatePrizeTypes ==
  ASSUME TypeInv, NEW a \in Admins, CreatePrizeCommit(a)
  PROVE  /\ TypeInv' /\ nextPrize \in PrizeIds /\ nextPrize' = nextPrize + 1
         /\ prize'[nextPrize] = [from |-> req[a].from, to |-> req[a].to, type |-> req[a].type]
         /\ \A q \in PrizeIds : q # nextPrize => prize'[q] = prize[q]
<1> DEFINE row == [from |-> req[a].from, to |-> req[a].to, type |-> req[a].type]
<1>1. row \in Prize /\ row # None
  <2>1. req[a].from \in Positions /\ req[a].to \in Positions /\ req[a].type \in RewardTypes
    BY DEF TypeInv, CreatePrizeCommit, Requests, RequestOK
  <2>. QED
    BY <2>1, RowAssumption DEF Prize
<1>2. /\ prize' = [prize EXCEPT ![nextPrize] = row] /\ nextPrize \in PrizeIds /\ nextPrize' = nextPrize + 1
      /\ req' = [req EXCEPT ![a] = Idle] /\ Late(nextPrize)
      /\ UNCHANGED <<token, rarity, card, nextCard, ranking, started, whitelist, served, files, now, ren>>
  BY DEF CreatePrizeCommit, Done, goodsVars, renderVars
<1>. HIDE DEF row
<1>3. /\ prize' \in [PrizeIds -> Prize \cup {None}] /\ prize'[nextPrize] = row
      /\ \A q \in PrizeIds : q # nextPrize => prize'[q] = prize[q]
  BY <1>1, <1>2 DEF TypeInv, TypeOK
<1>4. Rows' = Rows
  BY <1>2 DEF Rows
<1>5. nextPrize \in Nat /\ \A q \in PrizeIds : q \in Nat
  BY <1>2, SequenceAssumption
<1>6. TypeOK'
  BY <1>2, <1>3, <1>5 DEF TypeInv, TypeOK
<1>7. Requests' /\ Drawings'
  BY <1>2, <1>4, Answered, DrawingsStay DEF TypeInv
<1>8. Numbered'
  <2>1. ASSUME NEW q \in PrizeIds, prize'[q] # None PROVE q < nextPrize'
    BY <1>2, <1>3, <1>5, <2>1 DEF TypeInv, Numbered
  <2>. QED
    BY <1>2, <2>1 DEF TypeInv, Numbered, RowNamed, Named
<1>9. Told'
  BY <1>2, LateTypes
<1>. QED
  BY <1>2, <1>3, <1>6, <1>7, <1>8, <1>9 DEF TypeInv, row

LEMMA UpdatePrizeTypes ==
  ASSUME TypeInv, NEW a \in Admins, UpdatePrizeCommit(a)
  PROVE  /\ TypeInv' /\ req[a].prize \in PrizeIds
         /\ \A q \in PrizeIds : q # req[a].prize => prize'[q] = prize[q]
         /\ prize[req[a].prize] = None => UNCHANGED <<prize, history>>
         /\ prize[req[a].prize] # None =>
              /\ prize[req[a].prize] \in Prize /\ Late(req[a].prize)
              /\ LET row == prize[req[a].prize]
                 IN prize'[req[a].prize] =
                      [from |-> Given(req[a].from, row.from), to |-> Given(req[a].to, row.to),
                       type |-> Given(req[a].type, row.type)]
<1> DEFINE p == req[a].prize
           new == [from |-> Given(req[a].from, prize[p].from), to |-> Given(req[a].to, prize[p].to),
                   type |-> Given(req[a].type, prize[p].type)]
<1>1. /\ p \in PrizeIds /\ req[a].type \in RewardTypes \cup {None}
      /\ req[a].from \in Positions \cup {None} /\ req[a].to \in Positions \cup {None}
  BY DEF TypeInv, UpdatePrizeCommit, Requests, RequestOK
<1>2. prize[p] # None => prize[p] \in Prize
  BY <1>1 DEF TypeInv, TypeOK
<1>3. prize[p] # None => new \in Prize /\ new # None
  BY <1>1, <1>2, RowAssumption DEF Prize, Given
<1>4. /\ req' = [req EXCEPT ![a] = Idle]
      /\ prize[p] = None => UNCHANGED <<prize, history>>
      /\ prize[p] # None => prize' = [prize EXCEPT ![p] = new] /\ Late(p)
      /\ UNCHANGED <<token, rarity, card, nextCard, nextPrize, ranking, started, whitelist, served,
                     files, now, ren>>
  BY DEF UpdatePrizeCommit, Done, goodsVars, renderVars
<1>. HIDE DEF new, p
<1>5. /\ prize' \in [PrizeIds -> Prize \cup {None}]
      /\ prize[p] # None => prize'[p] = new
      /\ \A q \in PrizeIds : q # p => prize'[q] = prize[q]
      /\ \A q \in PrizeIds : prize'[q] # None => prize[q] # None
  BY <1>1, <1>3, <1>4 DEF TypeInv, TypeOK
<1>6. Rows' = Rows
  BY <1>4 DEF Rows
<1>7. TypeOK'
  BY <1>4, <1>5 DEF TypeInv, TypeOK
<1>8. Requests' /\ Drawings'
  BY <1>4, <1>6, Answered, DrawingsStay DEF TypeInv
<1>9. Numbered'
  BY <1>4, <1>5 DEF TypeInv, Numbered, RowNamed, Named
<1>10. Told'
  <2>1. CASE prize[p] = None
    BY <1>4, <2>1 DEF TypeInv, Told
  <2>2. CASE prize[p] # None
    BY <1>1, <1>4, <2>2, LateTypes
  <2>. QED
    BY <2>1, <2>2
<1>. QED
  BY <1>1, <1>2, <1>4, <1>5, <1>7, <1>8, <1>9, <1>10 DEF TypeInv, new, p

\* A ranking changes prizes and what is known of them.
LEMMA RankStays ==
  ASSUME NEW r \in Rankers, Rank(r)
  PROVE  UNCHANGED <<token, rarity, card, nextCard, started, whitelist, req, files, now, ren>>
BY DEF Rank, RankDelete, RankSave, SavePrizes, RankFails, Ranks, goodsVars, renderVars

\* The commit of a ranking: the rows it saw go, new ones take the places.
LEMMA SaveStep ==
  ASSUME TypeInv, NEW r \in Rankers, RankSave(r)
  PROVE  /\ TypeInv'
         /\ \E new \in SUBSET PrizeIds, type \in RewardTypes :
              /\ \A p \in new : /\ prize'[p].from = p - nextPrize + 1 /\ prize'[p].to = p - nextPrize + 1
                                /\ prize'[p].type = type /\ nextPrize <= p
              /\ \A p \in PrizeIds \ new : prize'[p] = IF p \in ranking[r].doomed THEN None ELSE prize[p]
              /\ history'.ranked = history.ranked \cup new
              /\ history'.unseen = history.unseen \cup
                   {p \in PrizeIds \ ranking[r].doomed : prize[p] # None /\ prize[p].type = type}
         /\ UNCHANGED <<history.listed, history.revived, history.switched, history.twice>>
         /\ nextPrize' >= nextPrize
<1> DEFINE n == ranking[r].winners
           type == ranking[r].type
           new == nextPrize .. nextPrize + n - 1
           row(p) == [from |-> p - nextPrize + 1, to |-> p - nextPrize + 1, type |-> type]
           late == {p \in PrizeIds \ ranking[r].doomed : prize[p] # None /\ prize[p].type = type}
<1>1. /\ ranking[r].op = "save" /\ ranking[r] \in Table /\ new \subseteq PrizeIds
      /\ nextPrize \in Nat /\ n \in Positions /\ n \in Nat \ {0} /\ type \in RewardTypes
      /\ \A p \in PrizeIds : p \in Nat
  BY SequenceAssumption, PositionAssumption DEF RankSave, SavePrizes, TypeInv, TypeOK, Table, Idle
<1>2. Doomed(r) = ranking[r].doomed /\ ranking[r].doomed \subseteq PrizeIds
  BY <1>1 DEF Doomed, Table
<1>3. /\ prize' = [p \in PrizeIds |-> IF p \in new THEN row(p)
                                      ELSE IF p \in ranking[r].doomed THEN None ELSE prize[p]]
      /\ nextPrize' = nextPrize + n
      /\ history' = [history EXCEPT !.ranked = @ \cup new, !.unseen = @ \cup late]
      /\ ranking' = [ranking EXCEPT ![r] = Idle]
      /\ UNCHANGED <<token, rarity, card, nextCard, started, whitelist, req, served, files, now, ren>>
  BY <1>2 DEF RankSave, SavePrizes, Ranks, goodsVars, renderVars
<1>4. \A p \in new : row(p) \in Prize /\ nextPrize <= p
  <2>1. ASSUME NEW p \in new PROVE row(p) \in Prize /\ nextPrize <= p
    <3>1. p - nextPrize + 1 \in 1 .. n /\ p \in PrizeIds /\ p \in Nat /\ nextPrize <= p
      BY <1>1
    <3>2. p - nextPrize + 1 \in Positions
      BY <1>1, <3>1, PositionAssumption
    <3>. QED
      BY <1>1, <3>1, <3>2 DEF Prize
  <2>. QED
    BY <2>1
<1>5. /\ history'.ranked = history.ranked \cup new /\ history'.unseen = history.unseen \cup late
      /\ UNCHANGED <<history.listed, history.revived, history.switched, history.twice>>
      /\ Told'
  <2>1. late \subseteq PrizeIds
    OBVIOUS
  <2>. HIDE DEF late, new
  <2>. QED
    BY <1>1, <1>3, <2>1 DEF TypeInv, Told
<1>6. TypeOK'
  <2>1. prize' \in [PrizeIds -> Prize \cup {None}]
    <3>. HIDE DEF row, new
    <3>. QED
      BY <1>3, <1>4 DEF TypeInv, TypeOK
  <2>2. nextPrize' \in Nat \ {0} /\ ranking' \in [Rankers -> Table \cup {Idle}]
    <3>1. nextPrize \in Nat \ {0} /\ ranking \in [Rankers -> Table \cup {Idle}]
      BY DEF TypeInv, TypeOK
    <3>. QED
      BY <1>1, <1>3, <3>1
  <2>. QED
    BY <1>3, <2>1, <2>2 DEF TypeInv, TypeOK
<1>7. Requests' /\ Drawings'
  BY <1>3 DEF TypeInv, Requests, RequestOK, Rows, Drawings, RenderOK, RowNamed, Named
<1>8. Numbered'
  <2>1. ASSUME NEW q \in PrizeIds, prize'[q] # None PROVE q < nextPrize'
    <3>1. CASE q \in new
      BY <1>1, <1>3, <3>1
    <3>2. CASE q \notin new
      <4>1. prize[q] # None
        BY <1>3, <2>1, <3>2
      <4>2. q < nextPrize
        BY <4>1 DEF TypeInv, Numbered
      <4>. QED
        BY <1>1, <1>3, <4>2
    <3>. QED
      BY <3>1, <3>2
  <2>. QED
    BY <1>3, <2>1 DEF TypeInv, Numbered, RowNamed, Named
<1>9. nextPrize' >= nextPrize
  BY <1>1, <1>3
<1>10. \A p : /\ row(p).from = p - nextPrize + 1 /\ row(p).to = p - nextPrize + 1
             /\ row(p).type = type
  OBVIOUS
<1>. HIDE DEF new, row, late
<1>11. /\ new \in SUBSET PrizeIds
       /\ \A p \in new : prize'[p] = row(p)
       /\ \A p \in PrizeIds \ new : prize'[p] = IF p \in ranking[r].doomed THEN None ELSE prize[p]
  BY <1>1, <1>3
<1>12. \A p \in new : /\ prize'[p].from = p - nextPrize + 1 /\ prize'[p].to = p - nextPrize + 1
                      /\ prize'[p].type = type /\ nextPrize <= p
  BY <1>4, <1>10, <1>11
<1>. HIDE DEF type
<1>13. \E rows \in SUBSET PrizeIds, kind \in RewardTypes :
         /\ \A p \in rows : /\ prize'[p].from = p - nextPrize + 1 /\ prize'[p].to = p - nextPrize + 1
                            /\ prize'[p].type = kind /\ nextPrize <= p
         /\ \A p \in PrizeIds \ rows : prize'[p] = IF p \in ranking[r].doomed THEN None ELSE prize[p]
         /\ history'.ranked = history.ranked \cup rows
         /\ history'.unseen = history.unseen \cup
              {p \in PrizeIds \ ranking[r].doomed : prize[p] # None /\ prize[p].type = kind}
  BY <1>1, <1>5, <1>11, <1>12 DEF late
<1>. QED
  BY <1>5, <1>6, <1>7, <1>8, <1>9, <1>13 DEF TypeInv

\* A ranking that deletes, or fails, changes no row.
LEMMA RankApart ==
  ASSUME TypeInv, NEW r \in Rankers, Rank(r), ~ RankSave(r)
  PROVE  TypeInv' /\ UNCHANGED <<prize, nextPrize, history>>
<1>1. /\ UNCHANGED <<prize, nextPrize, history, token, rarity, card, nextCard, started, whitelist, req>>
      /\ UNCHANGED <<files, now, ren>>
  BY RankStays DEF Rank, RankDelete, RankFails
<1>2. ranking' \in [Rankers -> Table \cup {Idle}] /\ served' \in 0 .. MaxRequests
  <2>0. ranking \in [Rankers -> Table \cup {Idle}] /\ served \in 0 .. MaxRequests /\ MaxRequests \in Nat
    BY NumberAssumption DEF TypeInv, TypeOK
  <2>1. ASSUME NEW type \in RewardTypes, NEW winners \in Positions, RankDelete(r, type, winners)
        PROVE  ranking' \in [Rankers -> Table \cup {Idle}] /\ served' \in 0 .. MaxRequests
    <3> DEFINE table == [op |-> "save", type |-> type, winners |-> winners,
                         doomed |-> {p \in PrizeIds : prize[p] # None /\ prize[p].type = type}]
    <3>1. table \in Table
      BY DEF Table
    <3>2. ranking' = [ranking EXCEPT ![r] = table] /\ served < MaxRequests /\ served' = served + 1
      BY <2>1 DEF RankDelete, Ranks
    <3>. HIDE DEF table
    <3>. QED
      BY <2>0, <3>1, <3>2
  <2>2. CASE RankFails(r)
    BY <2>0, <2>2 DEF RankFails, Ranks
  <2>. QED
    BY <2>1, <2>2 DEF Rank
<1>3. Requests' /\ Drawings'
  BY <1>1 DEF TypeInv, Requests, RequestOK, Rows, Drawings, RenderOK, RowNamed, Named
<1>4. Numbered' /\ Told'
  BY <1>1 DEF TypeInv, Numbered, RowNamed, Named, Told
<1>. QED
  BY <1>1, <1>2, <1>3, <1>4 DEF TypeInv, TypeOK

LEMMA RankTypes ==
  ASSUME TypeInv, NEW r \in Rankers, Rank(r)
  PROVE  /\ TypeInv' /\ UNCHANGED <<history.listed, history.revived, history.switched, history.twice>>
BY SaveStep, RankApart

LEMMA WhitelistRequest ==
  ASSUME TypeInv, NEW a \in Admins, req[a].op = "whitelist"
  PROVE  /\ req[a] \in [op : {"whitelist"}, todo : Seq(Wallets), added : Seq(Wallets)]
         /\ DOMAIN req[a].added = 1 .. Len(req[a].added) /\ Len(req[a].added) \in Nat
         /\ IsFiniteSet(DOMAIN req[a].added) /\ Listed(a) \subseteq Wallets
<1>1. req[a] \in [op : {"whitelist"}, todo : Seq(Wallets), added : Seq(Wallets)]
  BY DEF TypeInv, Requests, RequestOK
<1>2. /\ DOMAIN req[a].added = 1 .. Len(req[a].added) /\ Len(req[a].added) \in Nat
      /\ \A i \in DOMAIN req[a].added : req[a].added[i] \in Wallets
  BY <1>1, LenProperties, ElementOfSeq
<1>3. IsFiniteSet(DOMAIN req[a].added)
  BY <1>2, FS_Interval
<1>. QED
  BY <1>1, <1>2, <1>3 DEF Listed

LEMMA LookTypes ==
  ASSUME TypeInv, NEW a \in Admins, WhitelistLook(a)
  PROVE  TypeInv'
<1> DEFINE q == req[a]
           new == [op |-> "whitelist", todo |-> Tail(q.todo),
                   added |-> IF Head(q.todo) \in whitelist THEN q.added ELSE Append(q.added, Head(q.todo))]
<1>1. q \in [op : {"whitelist"}, todo : Seq(Wallets), added : Seq(Wallets)] /\ q.todo # <<>>
  BY WhitelistRequest DEF WhitelistLook
<1>2. new \in [op : {"whitelist"}, todo : Seq(Wallets), added : Seq(Wallets)]
  <2>1. Head(q.todo) \in Wallets /\ Tail(q.todo) \in Seq(Wallets)
    BY <1>1, HeadTailProperties
  <2>2. Append(q.added, Head(q.todo)) \in Seq(Wallets)
    BY <1>1, <2>1, AppendProperties
  <2>. QED
    BY <1>1, <2>1, <2>2
<1>3. DOMAIN req' = Admins /\ req'[a] = new /\ \A b \in Admins : b # a => req'[b] = req[b]
  <2>1. DOMAIN req' = Admins /\ \A b \in Admins : b # a => req'[b] = req[b]
    BY DEF WhitelistLook, TypeInv, Requests
  <2>2. req'[a] = [q EXCEPT !.todo = Tail(@),
                            !.added = IF Head(q.todo) \in whitelist THEN @ ELSE Append(@, Head(q.todo))]
    BY DEF WhitelistLook, TypeInv, Requests
  <2>. QED
    BY <1>1, <2>1, <2>2
<1>4. UNCHANGED <<token, rarity, card, nextCard, prize, nextPrize, ranking, started, whitelist, served,
                  files, now, ren, history>>
  BY DEF WhitelistLook, goodsVars, prizeVars, renderVars
<1>. HIDE DEF new
<1>5. Requests'
  <2>1. ASSUME NEW b \in Admins, b # a PROVE RequestOK(req[b])'
    <3>1. req'[b] = req[b] /\ RequestOK(req[b])
      BY <1>3, <2>1 DEF TypeInv, Requests
    <3>. QED
      BY <1>4, <3>1 DEF RequestOK, Rows
  <2>2. RequestOK(req[a])'
    BY <1>2, <1>3 DEF RequestOK
  <2>. QED
    BY <1>3, <2>1, <2>2 DEF Requests
<1>6. Drawings' /\ Numbered'
  BY <1>4, DrawingsStay DEF TypeInv, Numbered, RowNamed, Named, Rows
<1>. QED
  BY <1>4, <1>5, <1>6 DEF TypeInv, TypeOK, Told

\* How often a list names a wallet.
Times(a, w) == Cardinality({i \in DOMAIN req[a].added : req[a].added[i] = w})

LEMMA WhitelistTypes ==
  ASSUME TypeInv, NEW a \in Admins, WhitelistCommit(a)
  PROVE  /\ TypeInv' /\ \A w \in Wallets : Times(a, w) \in Nat
         /\ TellListed(a) => \A w \in Wallets : history'.listed[w] = history.listed[w] + Times(a, w)
<1>1. ASSUME NEW w \in Wallets PROVE Times(a, w) \in Nat
  <2>1. IsFiniteSet({i \in DOMAIN req[a].added : req[a].added[i] = w})
    BY WhitelistRequest, FS_Subset DEF WhitelistCommit
  <2>. QED
    BY <2>1, FS_CardinalityType DEF Times
<1>2. /\ req' = [req EXCEPT ![a] = Idle]
      /\ UNCHANGED <<token, rarity, card, nextCard, prize, nextPrize, ranking, started, served, files, now, ren>>
      /\ \/ whitelist' = whitelist \cup Listed(a) /\ TellListed(a)
         \/ UNCHANGED <<whitelist, history>>
  BY DEF WhitelistCommit, Done, goodsVars, prizeVars, renderVars
<1>3. whitelist' \subseteq Wallets
  BY <1>2, WhitelistRequest DEF WhitelistCommit, TypeInv, TypeOK
<1>4. ASSUME TellListed(a)
      PROVE  Told' /\ \A w \in Wallets : history'.listed[w] = history.listed[w] + Times(a, w)
  <2>1. history' = [history EXCEPT !.listed = [w \in Wallets |-> @[w] + Times(a, w)]]
    BY <1>4 DEF TellListed, Times
  <2>. QED
    BY <1>1, <2>1 DEF TypeInv, Told
<1>5. Told'
  BY <1>2, <1>4 DEF TypeInv, Told
<1>6. Requests' /\ Drawings' /\ Numbered'
  BY <1>2, Answered, DrawingsStay DEF TypeInv, Rows, Numbered, RowNamed, Named
<1>. QED
  BY <1>1, <1>2, <1>3, <1>4, <1>5, <1>6 DEF TypeInv, TypeOK

LEMMA RemoveTypes ==
  ASSUME TypeInv, NEW w \in Wallets, WhitelistRemove(w)
  PROVE  TypeInv'
<1>1. /\ whitelist' = whitelist \ {w} /\ served < MaxRequests /\ served' = served + 1
      /\ UNCHANGED <<token, rarity, card, nextCard, prize, nextPrize, ranking, started, req, files, now, ren>>
  BY DEF WhitelistRemove, goodsVars, prizeVars, renderVars
<1>2. TypeOK'
  <2>1. served' \in 0 .. MaxRequests
    BY <1>1, NumberAssumption DEF TypeInv, TypeOK
  <2>. QED
    BY <1>1, <2>1 DEF TypeInv, TypeOK
<1>3. Told'
  BY DEF TypeInv, Told, WhitelistRemove
<1>4. Requests' /\ Drawings' /\ Numbered'
  BY <1>1 DEF TypeInv, Requests, RequestOK, Drawings, RenderOK, Rows, Numbered, RowNamed, Named
<1>. QED
  BY <1>2, <1>3, <1>4 DEF TypeInv

\* A render takes its next step; rows stay.
LEMMA DrawingStep ==
  ASSUME Drawings, NEW r \in Renderers, NEW task, RenderOK(task),
         ren' = [ren EXCEPT ![r] = task], now' = now, Rows \subseteq Rows'
  PROVE  /\ Drawings' /\ ren'[r] = task
         /\ \A q \in Renderers : q # r => ren'[q] = ren[q]
<1>1. DOMAIN ren' = Renderers /\ ren'[r] = task /\ \A q \in Renderers : q # r => ren'[q] = ren[q]
  BY DEF Drawings
<1>2. ASSUME NEW q \in Renderers PROVE RenderOK(ren[q])'
  <2>1. RenderOK(ren[q]) /\ (ren'[q] = ren[q] \/ ren'[q] = task)
    BY <1>1 DEF Drawings
  <2>. QED
    BY <2>1 DEF RenderOK, RowNamed, Named
<1>. QED
  BY <1>1, <1>2 DEF Drawings

\* What a render step leaves alone.
Undrawn == UNCHANGED <<token, rarity, nextCard, prize, nextPrize, ranking, started, whitelist, req, now>>

LEMMA ReadStep ==
  ASSUME TypeInv, NEW r \in Renderers, NEW c \in CardIds, RenderRead(r, c)
  PROVE  /\ TypeInv' /\ Undrawn /\ UNCHANGED <<card, files, history>> /\ c \in Rows
         /\ ren'[r] = [op |-> "draw", card |-> c, row |-> card[c]]
         /\ \A q \in Renderers : q # r => ren'[q] = ren[q]
<1> DEFINE task == [op |-> "draw", card |-> c, row |-> card[c]]
<1>1. /\ ren' = [ren EXCEPT ![r] = task] /\ Undrawn /\ UNCHANGED <<card, files, history>> /\ c \in Rows
      /\ served < MaxRequests /\ served' = served + 1
  BY DEF RenderRead, Renders, Undrawn, prizeVars
<1>2. RenderOK(task)
  <2>1. RowNamed(card[c], c)
    BY <1>1 DEF TypeInv, Numbered, Rows
  <2>. QED
    BY <1>1, <2>1 DEF RenderOK
<1>. HIDE DEF task
<1>3. Drawings' /\ ren'[r] = task /\ \A q \in Renderers : q # r => ren'[q] = ren[q]
  BY <1>1, <1>2, DrawingStep DEF TypeInv, Undrawn, Rows
<1>4. TypeOK'
  <2>1. served' \in 0 .. MaxRequests
    BY <1>1, NumberAssumption DEF TypeInv, TypeOK
  <2>. QED
    BY <1>1, <2>1 DEF TypeInv, TypeOK, Undrawn
<1>5. Requests' /\ Numbered'
  BY <1>1 DEF TypeInv, Requests, RequestOK, Rows, Numbered, RowNamed, Named, Undrawn
<1>. QED
  BY <1>1, <1>3, <1>4, <1>5 DEF TypeInv, Told, task

LEMMA UploadStep ==
  ASSUME TypeInv, NEW r \in Renderers, RenderUpload(r)
  PROVE  /\ TypeInv' /\ Undrawn /\ card' = card /\ RenderOK(ren[r]) /\ ren[r].op = "draw"
         /\ LET file == <<ren[r].card, now>>
            IN /\ Named(file, ren[r].card) /\ files' = files \cup {file}
               /\ ren'[r] = [op |-> "commit", card |-> ren[r].card, row |-> ren[r].row, file |-> file]
               /\ history'.twice = IF file \in files THEN history.twice \cup {file} ELSE history.twice
               /\ UNCHANGED <<history.revived, history.switched, history.listed, history.ranked, history.unseen>>
         /\ \A q \in Renderers : q # r => ren'[q] = ren[q]
<1> DEFINE file == <<ren[r].card, now>>
           task == [op |-> "commit", card |-> ren[r].card, row |-> ren[r].row, file |-> file]
<1>1. /\ ren' = [ren EXCEPT ![r] = task] /\ Undrawn /\ UNCHANGED <<card, served>>
      /\ ren[r].op = "draw" /\ files' = files \cup {file}
      /\ history' = [history EXCEPT !.twice = IF file \in files THEN @ \cup {file} ELSE @]
  BY DEF RenderUpload, Renders, Undrawn, prizeVars
<1>2. RenderOK(ren[r]) /\ ren[r].card \in CardIds
  BY <1>1 DEF TypeInv, Drawings, RenderOK, Rows
<1>3. Named(file, ren[r].card) /\ file \in File
  <2>1. now \in 0 .. MaxSecond /\ now <= now
    BY NumberAssumption DEF TypeInv, TypeOK
  <2>. QED
    BY <1>2, <2>1 DEF Named, File
<1>4. RenderOK(task)
  BY <1>1, <1>2, <1>3 DEF RenderOK, RowNamed, Named
<1>. HIDE DEF task, file
<1>5. Drawings' /\ ren'[r] = task /\ \A q \in Renderers : q # r => ren'[q] = ren[q]
  BY <1>1, <1>4, DrawingStep DEF TypeInv, Undrawn, Rows
<1>6. TypeOK'
  BY <1>1, <1>3 DEF TypeInv, TypeOK, Undrawn
<1>7. Requests' /\ Numbered'
  BY <1>1 DEF TypeInv, Requests, RequestOK, Rows, Numbered, RowNamed, Named, Undrawn
<1>8. /\ history'.twice = IF file \in files THEN history.twice \cup {file} ELSE history.twice
      /\ UNCHANGED <<history.revived, history.switched, history.listed, history.ranked, history.unseen>> /\ Told'
  BY <1>1, <1>3 DEF TypeInv, Told
<1>. QED
  BY <1>1, <1>2, <1>3, <1>5, <1>6, <1>7, <1>8 DEF TypeInv, task, file

LEMMA CommitStep ==
  ASSUME TypeInv, NEW r \in Renderers, RenderCommit(r)
  PROVE  /\ TypeInv' /\ Undrawn /\ UNCHANGED <<files, history>>
         /\ RenderOK(ren[r]) /\ ren[r].op = "commit" /\ ren'[r] = AfterRender(r)
         /\ \A q \in Renderers : q # r => ren'[q] = ren[q]
         /\ \A c \in CardIds : c # ren[r].card => card'[c] = card[c]
         /\ LET c == ren[r].card
            IN /\ c \in Rows /\ card[c] \in Card /\ card'[c] \in Card
               /\ card'[c] \in {card[c], [card[c] EXCEPT !.rendered = ren[r].file]}
               /\ ren[r].row.rendered # ren[r].file => card'[c] = [card[c] EXCEPT !.rendered = ren[r].file]
<1> DEFINE c == ren[r].card
           file == ren[r].file
           new == [card[c] EXCEPT !.rendered = file]
<1>1. /\ ren' = [ren EXCEPT ![r] = AfterRender(r)] /\ Undrawn /\ UNCHANGED <<files, history, served>>
      /\ ren[r].op = "commit"
      /\ card' = IF ren[r].row.rendered = file THEN card ELSE [card EXCEPT ![c].rendered = file]
  BY DEF RenderCommit, Renders, Undrawn, prizeVars
<1>2. RenderOK(ren[r])
  BY DEF TypeInv, Drawings
<1>3. c \in Rows /\ c \in CardIds /\ card[c] \in Card /\ RowNamed(card[c], c)
  BY <1>1, <1>2 DEF RenderOK, Rows, TypeInv, TypeOK, Numbered
<1>4. Named(file, c) /\ RowNamed(ren[r].row, c)
  BY <1>1, <1>2 DEF RenderOK
<1>5. new \in Card /\ new # None /\ new.rendered = file
  BY <1>3, <1>4, RowAssumption DEF Card, Named
<1>6. /\ \A d \in CardIds : d # c => card'[d] = card[d]
      /\ ren[r].row.rendered # file => card'[c] = new
      /\ card'[c] \in {card[c], new} /\ card' \in [CardIds -> Card \cup {None}]
  <2>1. ren[r].row.rendered # file => card' = [card EXCEPT ![c] = new]
    BY <1>1
  <2>. HIDE DEF new, c, file
  <2>2. CASE ren[r].row.rendered # file
    BY <1>3, <1>5, <2>1, <2>2, RowsStay
  <2>3. CASE ren[r].row.rendered = file
    BY <1>1, <2>3 DEF TypeInv, TypeOK, file, c
  <2>. QED
    BY <2>2, <2>3
<1>7. RenderOK(AfterRender(r))
  <2>1. CASE ren[r].row.rendered \in {None, file}
    BY <2>1 DEF AfterRender, RenderOK, Idle
  <2>2. CASE ren[r].row.rendered \notin {None, file}
    <3>1. Named(ren[r].row.rendered, c) /\ ren[r].row.rendered[2] <= file[2]
      BY <1>1, <1>2, <1>4, <2>2 DEF RenderOK, RowNamed
    <3>2. ren[r].row.rendered[2] # file[2] /\ ren[r].row.rendered[2] \in Nat /\ file[2] \in Nat
          /\ file[2] <= now /\ now \in Nat
      BY <1>4, <2>2, <3>1, NumberAssumption DEF Named, File, TypeInv, TypeOK
    <3>3. AfterRender(r) = [op |-> "clean", card |-> c, old |-> ren[r].row.rendered]
      BY <2>2 DEF AfterRender
    <3>. QED
      BY <1>3, <3>1, <3>2, <3>3 DEF RenderOK
  <2>. QED
    BY <2>1, <2>2
<1>8. Rows' = Rows
  BY <1>3, <1>5, <1>6 DEF Rows
<1>9. Drawings' /\ ren'[r] = AfterRender(r) /\ \A q \in Renderers : q # r => ren'[q] = ren[q]
  BY <1>1, <1>7, <1>8, DrawingStep DEF TypeInv, Undrawn
<1>10. Requests'
  BY <1>1, <1>8 DEF TypeInv, Requests, RequestOK, Undrawn
<1>11. Numbered'
  <2>1. ASSUME NEW d \in CardIds, card'[d] # None PROVE (d < nextCard /\ RowNamed(card[d], d))'
    <3>1. d < nextCard' /\ now' = now
      BY <1>1, <1>8, <2>1 DEF TypeInv, Numbered, Rows, Undrawn
    <3>2. CASE d # c
      BY <1>1, <1>6, <2>1, <3>1, <3>2 DEF TypeInv, Numbered, RowNamed, Named, Undrawn
    <3>3. CASE d = c
      <4>. HIDE DEF new
      <4>. QED
        BY <1>3, <1>4, <1>5, <1>6, <3>1, <3>3 DEF RowNamed, Named
    <3>. QED
      BY <3>2, <3>3
  <2>. QED
    BY <1>1, <2>1 DEF TypeInv, Numbered, Undrawn
<1>12. TypeOK'
  BY <1>1, <1>6 DEF TypeInv, TypeOK, Undrawn
<1>. QED
  BY <1>1, <1>2, <1>3, <1>5, <1>6, <1>9, <1>10, <1>11, <1>12 DEF TypeInv, Told

\* A render that is over: its card and the history stay.
LEMMA EndStep ==
  ASSUME TypeInv, NEW r \in Renderers, RenderClean(r) \/ RenderFails(r)
  PROVE  /\ TypeInv' /\ Undrawn /\ UNCHANGED <<card, history>> /\ ren'[r] = Idle
         /\ \A q \in Renderers : q # r => ren'[q] = ren[q]
         /\ \/ files' = files
            \/ RenderClean(r) /\ RenderOK(ren[r]) /\ ren[r].op = "clean" /\ files' = files \ {ren[r].old}
<1>1. /\ ren' = [ren EXCEPT ![r] = Idle] /\ Undrawn /\ UNCHANGED <<card, history, served>>
      /\ \/ files' = files
         \/ RenderClean(r) /\ ren[r].op = "clean" /\ files' = files \ {ren[r].old}
  BY DEF RenderClean, RenderFails, Renders, Undrawn, prizeVars
<1>2. RenderOK(Idle) /\ RenderOK(ren[r])
  BY DEF RenderOK, Idle, TypeInv, Drawings
<1>3. Drawings' /\ ren'[r] = Idle /\ \A q \in Renderers : q # r => ren'[q] = ren[q]
  BY <1>1, <1>2, DrawingStep DEF TypeInv, Undrawn, Rows
<1>4. TypeOK'
  BY <1>1 DEF TypeInv, TypeOK, Undrawn
<1>5. Requests' /\ Numbered'
  BY <1>1 DEF TypeInv, Requests, RequestOK, Rows, Numbered, RowNamed, Named, Undrawn
<1>. QED
  BY <1>1, <1>2, <1>3, <1>4, <1>5 DEF TypeInv, Told

LEMMA ClockTypes ==
  ASSUME TypeInv, StartTournament \/ Tick
  PROVE  TypeInv'
<1>1. /\ UNCHANGED <<token, rarity, card, nextCard, prize, nextPrize, ranking, whitelist, req, served, files, ren, history>>
      /\ started' \in BOOLEAN /\ now' \in 0 .. MaxSecond /\ now <= now' /\ now \in Nat /\ now' \in Nat
  <2>1. started \in BOOLEAN /\ now \in 0 .. MaxSecond /\ MaxSecond \in Nat
    BY NumberAssumption DEF TypeInv, TypeOK
  <2>2. CASE StartTournament
    BY <2>1, <2>2 DEF StartTournament, goodsVars, prizeVars, panelVars, renderVars
  <2>3. CASE Tick
    BY <2>1, <2>3 DEF Tick, goodsVars, prizeVars, panelVars
  <2>. QED
    BY <2>2, <2>3
<1>2. \A f, c : Named(f, c) => Named(f, c)'
  BY <1>1 DEF Named, File
<1>3. Drawings'
  <2>1. ASSUME NEW r \in Renderers PROVE RenderOK(ren[r])'
    <3>1. RenderOK(ren[r])
      BY DEF TypeInv, Drawings
    <3>. QED
      BY <1>1, <1>2, <3>1 DEF RenderOK, RowNamed, Rows, Named, File
  <2>. QED
    BY <1>1, <2>1 DEF TypeInv, Drawings
<1>4. Numbered'
  BY <1>1, <1>2 DEF TypeInv, Numbered, RowNamed, Named, File
<1>5. Requests'
  BY <1>1 DEF TypeInv, Requests, RequestOK, Rows
<1>. QED
  BY <1>1, <1>3, <1>4, <1>5 DEF TypeInv, TypeOK, Told

LEMMA StepTypes == TypeInv /\ [Next]_vars => TypeInv'
<1> SUFFICES ASSUME TypeInv, [Next]_vars PROVE TypeInv'
  OBVIOUS
<1>1. ASSUME NEW a \in Admins, Ask(a) \/ Commit(a) PROVE TypeInv'
  BY <1>1, AskTypes, SetTokenTypes, DeleteTokenTypes, SetRarityTypes, CreateCardTypes, UpdateCardTypes,
     CreatePrizeTypes, UpdatePrizeTypes, LookTypes, WhitelistTypes DEF Commit
<1>2. ASSUME NEW w \in Wallets, WhitelistRemove(w) PROVE TypeInv'
  BY <1>2, RemoveTypes
<1>3. ASSUME NEW r \in Renderers, Render(r) PROVE TypeInv'
  BY <1>3, ReadStep, UploadStep, CommitStep, EndStep DEF Render
<1>4. CASE StartTournament \/ Tick
  BY <1>4, ClockTypes
<1>5. ASSUME NEW r \in Rankers, Rank(r) PROVE TypeInv'
  BY <1>5, RankTypes
<1>6. CASE UNCHANGED vars
  <2>1. /\ UNCHANGED <<token, rarity, card, nextCard, prize, nextPrize, ranking, started, whitelist, req, served>>
        /\ UNCHANGED <<files, now, ren, history>>
    BY <1>6 DEF vars, goodsVars, prizeVars, panelVars, renderVars
  <2>2. Requests'
    BY <2>1 DEF TypeInv, Requests, RequestOK, Rows
  <2>3. Drawings' /\ Numbered'
    BY <2>1 DEF TypeInv, Drawings, RenderOK, Rows, Numbered, RowNamed, Named
  <2>. QED
    BY <2>1, <2>2, <2>3 DEF TypeInv, TypeOK, Told
<1>. QED
  BY <1>1, <1>2, <1>3, <1>4, <1>5, <1>6 DEF Next

\* Every table, request and render keeps its type: what a request or a render will
\* write to is a row that is still there, and rows are numbered once.
THEOREM TypeCorrect == Spec => []TypeInv
<1>. QED
  BY InitTypes, StepTypes, PTL DEF Spec

-----------------------------------------------------------------------------
(* Images.  A name is given once but for two renders of a card in one second. *)

Pends(r, f) == ren[r].op = "commit" /\ ren[r].file = f
Spent(f) == \A r \in Renderers : ~ Pends(r, f)
Once(f) == f # None /\ f \notin history.twice

\* What a card shows is in storage and no render is about to commit it again.
Shown == \A c \in CardIds : card[c] # None /\ Once(card[c].rendered) =>
            card[c].rendered \in files /\ Spent(card[c].rendered)

\* The same of what a render has seen a card show, while its second lasts.
Seen == \A r \in Renderers : ren[r].op \in {"draw", "commit"} /\ Once(ren[r].row.rendered) =>
           /\ Spent(ren[r].row.rendered)
           /\ ren[r].row.rendered[2] = now => ren[r].row.rendered \in files

\* What a render is about to commit is in storage, and no other render's.
Stored == \A r \in Renderers : ren[r].op = "commit" /\ Once(ren[r].file) =>
             /\ ren[r].file \in files
             /\ \A q \in Renderers : Pends(q, ren[r].file) => q = r

\* What a render is about to take away is shown no more, and will not be.
Replaced == \A r \in Renderers : ren[r].op = "clean" /\ Once(ren[r].old) =>
               card[ren[r].card].rendered # ren[r].old /\ Spent(ren[r].old)

Images == Shown /\ Seen /\ Stored /\ Replaced

LEMMA InitImages == Init => Images
BY DEF Init, Images, Shown, Seen, Stored, Replaced, Idle

\* The panel gives no card an image.
LEMMA ImagesApart ==
  ASSUME TypeInv, TypeInv', Images, UNCHANGED <<files, now, ren>>, history'.twice = history.twice,
         \A c \in CardIds : card'[c] # None =>
            card'[c].rendered = None \/ (card[c] # None /\ card'[c].rendered = card[c].rendered)
  PROVE  Images'
<1> USE DEF Once, Spent, Pends
<1>1. Shown' /\ Seen' /\ Stored'
  BY DEF Images, Shown, Seen, Stored
<1>2. Replaced'
  <2>1. ASSUME NEW r \in Renderers, ren[r].op = "clean" PROVE card'[ren[r].card] # None /\ ren[r].card \in CardIds
    BY <2>1 DEF TypeInv, Drawings, RenderOK, Rows
  <2>. QED
    BY <2>1 DEF Images, Replaced
<1>. QED
  BY <1>1, <1>2 DEF Images

LEMMA PanelImages ==
  ASSUME TypeInv, Images, NEW a \in Admins, Ask(a) \/ Commit(a)
  PROVE  Images'
<1>1. TypeInv' /\ UNCHANGED <<files, now, ren>>
  BY StepTypes DEF Next, Ask, Commit, DeleteTokenCheck, SetTokenCheck, SetRarityCheck, CreateCardCheck,
     UpdateCardCheck, CreatePrizeCheck, UpdatePrizeCheck, WhitelistBegin, Checks, SetTokenCommit,
     DeleteTokenCommit, SetRarityCommit, CreateCardCommit, UpdateCardCommit, CreatePrizeCommit,
     UpdatePrizeCommit, WhitelistLook, WhitelistCommit, Done, renderVars
<1>2. CASE DeleteTokenCommit(a)
  <2>1. \A c \in CardIds : card'[c].rendered = card[c].rendered /\ (card'[c] # None => card[c] # None)
    BY <1>2, DeleteTokenTypes, RowAssumption DEF Card
  <2>2. history'.twice = history.twice
    BY <1>2 DEF DeleteTokenCommit, TypeInv, Told
  <2>. QED
    BY <1>1, <2>1, <2>2, ImagesApart
<1>3. CASE CreateCardCommit(a)
  <2>1. \A c \in CardIds : card'[c] = card[c] \/ card'[c].rendered = None
    <3>1. /\ card'[nextCard] = [token |-> req[a].token, rarity |-> req[a].rarity, design |-> req[a].design,
                                active |-> req[a].active, rendered |-> None]
          /\ \A d \in CardIds : d # nextCard => card'[d] = card[d]
      BY <1>3, CreateCardTypes
    <3>2. card'[nextCard].rendered = None
      BY <3>1
    <3>. QED
      BY <3>1, <3>2
  <2>2. history' = history
    BY <1>3 DEF CreateCardCommit
  <2>. QED
    BY <1>1, <2>1, <2>2, ImagesApart
<1>4. CASE UpdateCardCommit(a)
  <2>1. \A c \in CardIds : card'[c] = card[c] \/ card'[c].rendered = None
                           \/ (c \in Rows /\ card'[c].rendered = card[c].rendered)
    <3> DEFINE c == req[a].card
               data == req[a].data
               row == card[c]
               shown == IF data.template /\ req[a].drawn THEN None ELSE row.rendered
    <3>1. /\ c \in Rows /\ \A d \in CardIds : d # c => card'[d] = card[d]
          /\ card'[c] = [token |-> Given(data.token, row.token), rarity |-> Given(data.rarity, row.rarity),
                         design |-> Given(data.design, row.design), active |-> Given(data.active, row.active),
                         rendered |-> shown]
      BY <1>4, UpdateCardTypes
    <3>2. card'[c].rendered = shown /\ shown \in {None, card[c].rendered}
      BY <3>1
    <3>. HIDE DEF c, shown
    <3>. QED
      BY <3>1, <3>2
  <2>2. history'.twice = history.twice
    BY <1>4 DEF UpdateCardCommit, TypeInv, Told
  <2>. QED
    BY <1>1, <2>1, <2>2, ImagesApart DEF Rows
<1>5. CASE ~ (DeleteTokenCommit(a) \/ CreateCardCommit(a) \/ UpdateCardCommit(a))
  <2>1. card' = card /\ history'.twice = history.twice
    <3>1. CASE Ask(a)
      BY <3>1 DEF Ask, DeleteTokenCheck, SetTokenCheck, SetRarityCheck, CreateCardCheck,
         UpdateCardCheck, CreatePrizeCheck, UpdatePrizeCheck, WhitelistBegin, Checks, goodsVars
    <3>2. CASE Commit(a)
      BY <1>5, <3>2 DEF Commit, SetTokenCommit, SetRarityCommit, CreatePrizeCommit,
         UpdatePrizeCommit, Late, WhitelistLook, WhitelistCommit, TellListed, goodsVars, TypeInv, Told
    <3>. QED
      BY <3>1, <3>2
  <2>. QED
    BY <1>1, <2>1, ImagesApart
<1>. QED
  BY <1>2, <1>3, <1>4, <1>5

LEMMA ReadImages ==
  ASSUME TypeInv, Images, NEW r \in Renderers, NEW c \in CardIds, RenderRead(r, c)
  PROVE  Images'
<1> USE DEF Once, Spent, Pends
<1>1. /\ UNCHANGED <<card, files, history, now>> /\ c \in Rows
      /\ ren'[r].op = "draw" /\ ren'[r].row = card[c]
      /\ \A q \in Renderers : q # r => ren'[q] = ren[q]
  <2>1. ren'[r] = [op |-> "draw", card |-> c, row |-> card[c]]
    BY ReadStep
  <2>. QED
    BY <2>1, ReadStep DEF Undrawn
<1>2. \A q \in Renderers : \A f : Pends(q, f)' => Pends(q, f)
  BY <1>1
<1>3. Shown' /\ Stored'
  BY <1>1, <1>2 DEF Images, Shown, Stored
<1>4. Seen'
  <2>1. Once(card[c].rendered) => card[c].rendered \in files /\ Spent(card[c].rendered)
    BY <1>1 DEF Images, Shown, Rows
  <2>. QED
    BY <1>1, <2>1 DEF Images, Seen
<1>5. Replaced'
  BY <1>1 DEF Images, Replaced
<1>. QED
  BY <1>3, <1>4, <1>5 DEF Images

LEMMA UploadImages ==
  ASSUME TypeInv, Images, NEW r \in Renderers, RenderUpload(r)
  PROVE  Images'
<1> DEFINE file == <<ren[r].card, now>>
<1>1. /\ UNCHANGED <<card, now>> /\ files' = files \cup {file} /\ ren[r].op = "draw"
      /\ ren'[r].op = "commit" /\ ren'[r].row = ren[r].row /\ ren'[r].file = file
      /\ history'.twice = IF file \in files THEN history.twice \cup {file} ELSE history.twice
      /\ \A q \in Renderers : q # r => ren'[q] = ren[q]
  <2>1. ren'[r] = [op |-> "commit", card |-> ren[r].card, row |-> ren[r].row, file |-> file]
    BY UploadStep
  <2>2. ren'[r].op = "commit" /\ ren'[r].row = ren[r].row /\ ren'[r].file = file
    BY <2>1
  <2>3. /\ Undrawn /\ card' = card /\ files' = files \cup {file} /\ ren[r].op = "draw"
        /\ history'.twice = IF file \in files THEN history.twice \cup {file} ELSE history.twice
        /\ \A q \in Renderers : q # r => ren'[q] = ren[q]
    BY UploadStep
  <2>. QED
    BY <2>2, <2>3 DEF Undrawn
<1>2. file[2] = now
  OBVIOUS
<1>. HIDE DEF file
<1>3. \A f : Once(f)' => Once(f) /\ (f = file => file \notin files)
  BY <1>1 DEF Once
<1>4. \A q \in Renderers : \A f : Pends(q, f)' => Pends(q, f) \/ (q = r /\ f = file)
  BY <1>1 DEF Pends
<1>5. Shown'
  BY <1>1, <1>3, <1>4 DEF Images, Shown, Spent, Once, Pends
<1>6. Seen'
  <2>1. ASSUME NEW q \in Renderers, ren'[q].op \in {"draw", "commit"}, Once(ren[q].row.rendered)'
        PROVE  /\ Spent(ren[q].row.rendered)'
               /\ ren'[q].row.rendered[2] = now' => ren'[q].row.rendered \in files'
    <3>1. ren[q].op \in {"draw", "commit"} /\ ren'[q].row = ren[q].row
      BY <1>1, <2>1
    <3>2. Once(ren[q].row.rendered) /\ (ren[q].row.rendered = file => file \notin files)
      BY <1>1, <2>1, <3>1 DEF Once
    <3>3. /\ \A p \in Renderers : ~ Pends(p, ren[q].row.rendered)
          /\ ren[q].row.rendered[2] = now => ren[q].row.rendered \in files
      BY <3>1, <3>2 DEF Images, Seen, Spent
    <3>. QED
      BY <1>1, <1>2, <3>1, <3>2, <3>3 DEF Spent, Pends
  <2>. QED
    BY <2>1 DEF Seen
<1>7. Stored'
  <2>1. ASSUME NEW q \in Renderers, ren'[q].op = "commit", Once(ren[q].file)'
        PROVE  /\ ren'[q].file \in files'
               /\ \A p \in Renderers : ren'[p].op = "commit" /\ ren'[p].file = ren'[q].file => p = q
    <3>1. ren'[q].file = file => file \notin files
      BY <1>1, <2>1 DEF Once
    <3>2. \A p \in Renderers : p # r /\ ren'[p].op = "commit" /\ Once(ren[p].file)' =>
             /\ ren'[p].file = ren[p].file /\ ren[p].file \in files
             /\ \A o \in Renderers : ren[o].op = "commit" /\ ren[o].file = ren[p].file => o = p
      BY <1>1 DEF Images, Stored, Once, Pends
    <3>3. CASE q = r
      BY <1>1, <2>1, <3>1, <3>2, <3>3 DEF Once
    <3>4. CASE q # r
      BY <1>1, <2>1, <3>1, <3>2, <3>4
    <3>. QED
      BY <3>3, <3>4
  <2>. QED
    BY <2>1 DEF Stored, Pends
<1>8. Replaced'
  <2>1. ASSUME NEW q \in Renderers, ren'[q].op = "clean", Once(ren[q].old)'
        PROVE  card'[ren'[q].card].rendered # ren'[q].old /\ Spent(ren[q].old)'
    <3>1. q # r /\ ren'[q] = ren[q] /\ ren[q].op = "clean" /\ Once(ren[q].old)
      BY <1>1, <2>1 DEF Once
    <3>2. ren[q].old[2] < now /\ now \in Nat /\ ren[q].old[2] \in Nat
      BY <3>1, NumberAssumption DEF TypeInv, TypeOK, Drawings, RenderOK, Named, File
    <3>3. ren[q].old # file
      BY <1>2, <3>2
    <3>4. card[ren[q].card].rendered # ren[q].old /\ \A p \in Renderers : ~ Pends(p, ren[q].old)
      BY <3>1 DEF Images, Replaced, Spent
    <3>. QED
      BY <1>1, <3>1, <3>3, <3>4 DEF Spent, Pends
  <2>. QED
    BY <2>1 DEF Replaced
<1>. QED
  BY <1>5, <1>6, <1>7, <1>8 DEF Images

LEMMA CommitImages ==
  ASSUME TypeInv, Images, NEW r \in Renderers, RenderCommit(r)
  PROVE  Images'
<1> DEFINE c == ren[r].card
           file == ren[r].file
           seen == ren[r].row.rendered
<1>1. /\ UNCHANGED <<files, history, now>> /\ c \in CardIds /\ c \in Rows
      /\ ren[r].op = "commit" /\ ren'[r] = AfterRender(r)
      /\ \A q \in Renderers : q # r => ren'[q] = ren[q]
      /\ \A d \in CardIds : d # c => card'[d] = card[d]
      /\ card'[c] = card[c] \/ card'[c].rendered = file
      /\ seen # file => card'[c].rendered = file
  <2>1. card[c] \in Card => [card[c] EXCEPT !.rendered = file].rendered = file
    BY DEF Card
  <2>. QED
    BY <2>1, CommitStep DEF Undrawn, Rows
<1>2. \/ ren'[r].op = "idle"
      \/ ren'[r].op = "clean" /\ ren'[r].card = c /\ ren'[r].old = seen /\ seen \notin {None, file}
  BY <1>1 DEF AfterRender, Idle
<1>3. \A f : Once(f)' <=> Once(f)
  BY <1>1 DEF Once
<1>4. \A q \in Renderers : \A f : Pends(q, f)' => Pends(q, f) /\ q # r
  BY <1>1, <1>2 DEF Pends
<1>5. Pends(r, file) /\ (Once(file) => file \in files /\ \A q \in Renderers : Pends(q, file) => q = r)
  BY <1>1 DEF Images, Stored, Pends
<1>. HIDE DEF c, file, seen
<1>6. Shown'
  <2>1. ASSUME NEW d \in CardIds, card'[d] # None, Once(card[d].rendered)'
        PROVE  card'[d].rendered \in files' /\ Spent(card[d].rendered)'
    <3>1. CASE card'[d] = card[d]
      <4>1. card[d] # None /\ Once(card[d].rendered)
        BY <1>1, <2>1, <3>1 DEF Once
      <4>2. card[d].rendered \in files /\ \A q \in Renderers : ~ Pends(q, card[d].rendered)
        BY <4>1 DEF Images, Shown, Spent
      <4>. QED
        BY <1>1, <1>4, <3>1, <4>2 DEF Spent, Pends
    <3>2. CASE card'[d].rendered = file
      <4>1. Once(file)
        BY <1>1, <2>1, <3>2 DEF Once
      <4>. QED
        BY <1>1, <1>4, <1>5, <3>2, <4>1 DEF Spent, Pends
    <3>. QED
      BY <1>1, <3>1, <3>2
  <2>. QED
    BY <2>1 DEF Shown
<1>7. Seen' /\ Stored'
  BY <1>1, <1>2, <1>4 DEF Images, Seen, Stored, Spent, Pends, Once
<1>8. Replaced'
  <2>1. ASSUME NEW q \in Renderers, ren'[q].op = "clean", Once(ren[q].old)'
        PROVE  card'[ren'[q].card].rendered # ren'[q].old /\ Spent(ren[q].old)'
    <3>1. CASE q = r
      <4>1. ren'[r].card = c /\ ren'[r].old = seen /\ seen # file /\ Once(seen)
        BY <1>1, <1>2, <2>1, <3>1 DEF Once
      <4>2. \A p \in Renderers : ~ Pends(p, seen)
        BY <1>1, <4>1 DEF Images, Seen, Spent, seen
      <4>. QED
        BY <1>1, <1>4, <3>1, <4>1, <4>2 DEF Spent, Pends
    <3>2. CASE q # r
      <4>1. ren'[q] = ren[q] /\ ren[q].op = "clean" /\ Once(ren[q].old) /\ ren[q].card \in CardIds
        BY <1>1, <2>1, <3>2 DEF Once, TypeInv, Drawings, RenderOK, Rows
      <4>2. card[ren[q].card].rendered # ren[q].old /\ \A p \in Renderers : ~ Pends(p, ren[q].old)
        BY <4>1 DEF Images, Replaced, Spent
      <4>3. ren[q].old # file
        BY <1>5, <4>2
      <4>. QED
        BY <1>1, <1>4, <4>1, <4>2, <4>3 DEF Spent, Pends
    <3>. QED
      BY <3>1, <3>2
  <2>. QED
    BY <2>1 DEF Replaced
<1>. QED
  BY <1>6, <1>7, <1>8 DEF Images

LEMMA EndImages ==
  ASSUME TypeInv, Images, NEW r \in Renderers, RenderClean(r) \/ RenderFails(r)
  PROVE  Images'
<1>1. /\ UNCHANGED <<card, history, now>> /\ ren'[r].op = "idle"
      /\ \A q \in Renderers : q # r => ren'[q] = ren[q]
      /\ \/ files' = files
         \/ RenderOK(ren[r]) /\ ren[r].op = "clean" /\ files' = files \ {ren[r].old}
  BY EndStep DEF Undrawn, Idle
<1>2. \A q \in Renderers : \A f : Pends(q, f)' => Pends(q, f)
  BY <1>1 DEF Pends
<1>3. ASSUME NEW f \in files, f \notin files', Once(f)
      PROVE  /\ Spent(f) /\ f[2] # now
             /\ \A d \in CardIds : card[d] # None => card[d].rendered # f
  <2>1. /\ f = ren[r].old /\ ren[r].op = "clean" /\ Named(f, ren[r].card) /\ f[2] < now
        /\ card[ren[r].card].rendered # f /\ Spent(f)
    BY <1>1, <1>3 DEF RenderOK, Images, Replaced
  <2>2. ASSUME NEW d \in CardIds, card[d] # None, card[d].rendered = f PROVE FALSE
    <3>1. f[1] = d
      BY <1>3, <2>2 DEF TypeInv, Numbered, RowNamed, Named, Once
    <3>. QED
      BY <2>1, <2>2, <3>1 DEF Named
  <2>3. f[2] # now
    BY <2>1, NumberAssumption DEF TypeInv, TypeOK, Named, File
  <2>. QED
    BY <2>1, <2>2, <2>3
<1>4. Shown'
  BY <1>1, <1>2, <1>3 DEF Images, Shown, Spent, Once, Pends
<1>5. Seen'
  BY <1>1, <1>2, <1>3 DEF Images, Seen, Spent, Once, Pends
<1>6. Stored'
  BY <1>1, <1>2, <1>3 DEF Images, Stored, Spent, Once, Pends
<1>7. Replaced'
  BY <1>1, <1>2 DEF Images, Replaced, Spent, Once, Pends
<1>. QED
  BY <1>4, <1>5, <1>6, <1>7 DEF Images

\* A second passes: what was seen is of an earlier one.
LEMMA TickImages ==
  ASSUME TypeInv, Images, Tick
  PROVE  Images'
<1>1. UNCHANGED <<card, files, ren, history>> /\ now' = now + 1 /\ now \in Nat
  BY NumberAssumption DEF Tick, goodsVars, TypeInv, TypeOK
<1>2. Shown' /\ Stored' /\ Replaced'
  BY <1>1 DEF Images, Shown, Stored, Replaced, Spent, Pends, Once
<1>3. ASSUME NEW r \in Renderers, ren[r].op \in {"draw", "commit"}, Once(ren[r].row.rendered)
      PROVE  ren[r].row.rendered[2] # now' /\ Spent(ren[r].row.rendered)
  <2>1. Named(ren[r].row.rendered, ren[r].card)
    BY <1>3 DEF TypeInv, Drawings, RenderOK, RowNamed, Once
  <2>2. ren[r].row.rendered[2] <= now /\ ren[r].row.rendered[2] \in Nat
    BY <2>1, NumberAssumption DEF Named, File
  <2>. QED
    BY <1>1, <1>3, <2>2 DEF Images, Seen
<1>4. Seen'
  BY <1>1, <1>3 DEF Seen, Spent, Pends, Once
<1>. QED
  BY <1>2, <1>4 DEF Images

LEMMA StepImages == TypeInv /\ Images /\ [Next]_vars => Images'
<1> SUFFICES ASSUME TypeInv, Images, [Next]_vars PROVE Images'
  OBVIOUS
<1>1. ASSUME NEW a \in Admins, Ask(a) \/ Commit(a) PROVE Images'
  BY <1>1, PanelImages
<1>2. ASSUME NEW w \in Wallets, WhitelistRemove(w) PROVE Images'
  <2>1. UNCHANGED <<card, files, now, ren>> /\ history'.twice = history.twice
    BY <1>2 DEF WhitelistRemove, goodsVars, renderVars, TypeInv, Told
  <2>. QED
    BY <1>2, <2>1, RemoveTypes, ImagesApart
<1>3. ASSUME NEW r \in Renderers, Render(r) PROVE Images'
  BY <1>3, ReadImages, UploadImages, CommitImages, EndImages DEF Render
<1>4. CASE StartTournament \/ UNCHANGED vars
  <2>1. UNCHANGED <<card, files, now, ren, history>>
    BY <1>4 DEF StartTournament, vars, goodsVars, renderVars
  <2>. QED
    BY <2>1, StepTypes, ImagesApart
<1>5. CASE Tick
  BY <1>5, TickImages
<1>6. ASSUME NEW r \in Rankers, Rank(r) PROVE Images'
  <2>1. UNCHANGED <<card, files, now, ren>> /\ history'.twice = history.twice
    BY <1>6, RankStays, RankTypes
  <2>. QED
    BY <1>6, <2>1, RankTypes, ImagesApart
<1>. QED
  BY <1>1, <1>2, <1>3, <1>4, <1>5, <1>6 DEF Next

\* add_render_card_task and _delete_old_image: with any number of renders of a card
\* and of administrators, the image a card shows is in storage, unless two renders of
\* the card stored an image in one second.
THEOREM ImagesStay == Spec => []ShownExists
<1>1. TypeInv /\ Images => ShownExists
  BY DEF Images, Shown, Once, ShownExists
<1>. QED
  BY <1>1, InitTypes, StepTypes, InitImages, StepImages, PTL DEF Spec

-----------------------------------------------------------------------------
(* The whitelist.  A list is added only if no wallet is in it twice. *)

LEMMA NamedOnce ==
  ASSUME TypeInv, NEW a \in Admins, req[a].op = "whitelist",
         Cardinality(Listed(a)) = Len(req[a].added), NEW w \in Wallets
  PROVE  Times(a, w) = IF w \in Listed(a) THEN 1 ELSE 0
<1> DEFINE added == req[a].added
           places == {i \in DOMAIN added : added[i] = w}
<1>1. /\ DOMAIN added = 1 .. Len(added) /\ Len(added) \in Nat /\ IsFiniteSet(DOMAIN added)
      /\ added \in Seq(Wallets)
  BY WhitelistRequest
<1>2. \A i, j \in DOMAIN added : added[i] = added[j] => i = j
  <2>1. added \in Surjection(DOMAIN added, Listed(a))
    BY <1>1 DEF Surjection, Listed
  <2>2. Cardinality(DOMAIN added) = Len(added)
    BY <1>1, FS_Interval
  <2>3. added \in Injection(DOMAIN added, Listed(a))
    BY <1>1, <2>1, <2>2, FS_Surjection
  <2>. QED
    BY <2>3 DEF Injection, IsInjective
<1>3. CASE w \in Listed(a)
  <2>1. PICK i \in DOMAIN added : added[i] = w
    BY <1>3 DEF Listed
  <2>2. places = {i}
    BY <1>2, <2>1
  <2>. QED
    BY <1>3, <2>2, FS_Singleton DEF Times
<1>4. CASE w \notin Listed(a)
  <2>1. places = {}
    BY <1>4 DEF Listed
  <2>. QED
    BY <1>4, <2>1, FS_EmptySet DEF Times
<1>. QED
  BY <1>3, <1>4

LEMMA ListedApart ==
  ASSUME WhitelistReconciles, whitelist' = whitelist, history'.listed = history.listed
  PROVE  WhitelistReconciles'
BY DEF WhitelistReconciles

LEMMA StepListed == TypeInv /\ WhitelistReconciles /\ [Next]_vars => WhitelistReconciles'
<1> SUFFICES ASSUME TypeInv, WhitelistReconciles, [Next]_vars PROVE WhitelistReconciles'
  OBVIOUS
<1>1. ASSUME NEW a \in Admins, WhitelistCommit(a) PROVE WhitelistReconciles'
  <2>1. CASE Listed(a) \cap whitelist = {} /\ Cardinality(Listed(a)) = Len(req[a].added)
    <3>1. whitelist' = whitelist \cup Listed(a) /\ TellListed(a) /\ req[a].op = "whitelist"
      BY <1>1, <2>1 DEF WhitelistCommit
    <3>2. \A w \in Wallets : /\ history'.listed[w] = history.listed[w] + Times(a, w)
                            /\ Times(a, w) = IF w \in Listed(a) THEN 1 ELSE 0
      BY <1>1, <2>1, <3>1, NamedOnce, WhitelistTypes
    <3>. QED
      BY <2>1, <3>1, <3>2 DEF WhitelistReconciles
  <2>2. CASE ~ (Listed(a) \cap whitelist = {} /\ Cardinality(Listed(a)) = Len(req[a].added))
    BY <1>1, <2>2, ListedApart DEF WhitelistCommit
  <2>. QED
    BY <2>1, <2>2
<1>2. ASSUME NEW w \in Wallets, WhitelistRemove(w) PROVE WhitelistReconciles'
  <2>1. /\ w \in whitelist /\ whitelist' = whitelist \ {w} /\ history.listed \in [Wallets -> Int]
        /\ history'.listed = [history.listed EXCEPT ![w] = @ - 1]
    BY <1>2 DEF WhitelistRemove, TypeInv, Told
  <2>. QED
    BY <2>1 DEF WhitelistReconciles
<1>3. ASSUME NEW a \in Admins, Ask(a) PROVE WhitelistReconciles'
  BY <1>3, ListedApart DEF Ask, DeleteTokenCheck, SetTokenCheck, SetRarityCheck, CreateCardCheck,
     UpdateCardCheck, CreatePrizeCheck, UpdatePrizeCheck, WhitelistBegin, Checks
<1>4. ASSUME NEW a \in Admins, Commit(a), ~ WhitelistCommit(a) PROVE WhitelistReconciles'
  BY <1>4, ListedApart DEF Commit, SetTokenCommit, DeleteTokenCommit, SetRarityCommit, CreateCardCommit,
     UpdateCardCommit, CreatePrizeCommit, UpdatePrizeCommit, Late, WhitelistLook, TypeInv, Told
<1>5. ASSUME NEW r \in Renderers, Render(r) PROVE WhitelistReconciles'
  BY <1>5, ReadStep, UploadStep, CommitStep, EndStep, ListedApart DEF Render, Undrawn
<1>6. CASE StartTournament \/ Tick \/ UNCHANGED vars
  BY <1>6, ListedApart DEF StartTournament, Tick, vars
<1>7. ASSUME NEW r \in Rankers, Rank(r) PROVE WhitelistReconciles'
  BY <1>7, RankStays, RankTypes, ListedApart
<1>. QED
  BY <1>1, <1>2, <1>3, <1>4, <1>5, <1>6, <1>7 DEF Next

\* add_wallets_to_whitelist and its removal: with any number of administrators at
\* work, an address is on the whitelist exactly if one request reported it added, and
\* no list is half added.
THEOREM ListedOnce == Spec => []WhitelistReconciles
<1>1. Init => WhitelistReconciles
  BY DEF Init, WhitelistReconciles
<1>. QED
  BY <1>1, InitTypes, StepTypes, StepListed, PTL DEF Spec

-----------------------------------------------------------------------------
(* One administrator: what a request has checked still holds. *)

CardChecked(q) ==
  /\ q.op = "delete token" => \A c \in Rows : card[c].token = q.token /\ card[c].active => c \in q.cards
  /\ q.op = "set rarity" /\ rarity[q.rarity] = "active" /\ ~ q.active =>
       \A c \in Rows : card[c].rarity = q.rarity => ~ card[c].active
  /\ q.op = "create card" => /\ token[q.token] = "active" /\ rarity[q.rarity] = "active"
                             /\ SameCard(q.token, q.rarity, q.design) = {}
  /\ q.op = "update card" =>
       /\ q.data.token \notin {None, card[q.card].token} => token[q.data.token] = "active"
       /\ q.data.rarity \notin {None, card[q.card].rarity} => rarity[q.data.rarity] = "active"
       /\ {q.data.token, q.data.rarity, q.data.design} # {None} =>
            SameCard(Given(q.data.token, card[q.card].token), Given(q.data.rarity, card[q.card].rarity),
                     Given(q.data.design, card[q.card].design)) \subseteq {q.card}

Kept == \A a \in Admins : CardChecked(req[a])

CardsInv == UniqueActive /\ ActiveReferences
Checked == Kept /\ CardsInv

LEMMA InitChecked == Init => Checked
<1> SUFFICES ASSUME Init PROVE Checked
  OBVIOUS
<1>1. Kept
  BY DEF Init, Kept, CardChecked, Idle
<1>2. CardsInv
  BY DEF Init, CardsInv, UniqueActive, ActiveReferences, Active
<1>. QED
  BY <1>1, <1>2 DEF Checked

\* A card but for the image it shows.
SameGoods == \A c \in CardIds :
  /\ card[c] # None <=> card'[c] # None
  /\ card[c] # None => /\ card'[c].token = card[c].token /\ card'[c].rarity = card[c].rarity
                       /\ card'[c].design = card[c].design /\ card'[c].active = card[c].active

\* What changes neither goods nor requests leaves all of it as it is.
LEMMA CheckedApart ==
  ASSUME Checked, TypeInv, SameGoods, UNCHANGED <<token, rarity, req>>,
         UNCHANGED <<history.revived, history.switched>>
  PROVE  Checked'
<1>1. Rows' = Rows /\ \A t, k, d : SameCard(t, k, d)' = SameCard(t, k, d)
  BY DEF SameGoods, Rows, SameCard
<1>2. ASSUME NEW a \in Admins PROVE CardChecked(req[a])'
  <2>1. CardChecked(req[a]) /\ RequestOK(req[a])
    BY DEF Checked, Kept, TypeInv, Requests
  <2>2. \A c \in Rows : /\ card'[c].token = card[c].token /\ card'[c].rarity = card[c].rarity
                       /\ card'[c].design = card[c].design /\ card'[c].active = card[c].active
    BY DEF SameGoods, Rows
  <2>3. CASE req[a].op = "update card"
    <3>1. req[a].card \in Rows
      BY <2>1, <2>3 DEF RequestOK
    <3>2. /\ card'[req[a].card].token = card[req[a].card].token
          /\ card'[req[a].card].rarity = card[req[a].card].rarity
          /\ card'[req[a].card].design = card[req[a].card].design
      BY <2>2, <3>1
    <3>. QED
      BY <1>1, <2>1, <2>3, <3>2 DEF CardChecked
  <2>4. CASE req[a].op # "update card"
    BY <1>1, <2>1, <2>2, <2>4 DEF CardChecked
  <2>. QED
    BY <2>3, <2>4
<1>3. CardsInv'
  BY <1>1 DEF Checked, CardsInv, UniqueActive, ActiveReferences, Active, SameGoods, SameCard, Rows
<1>. QED
  BY <1>2, <1>3 DEF Checked, Kept

\* A request begins: its checks are what is kept.
LEMMA CheckedAsk ==
  ASSUME OneAdministrator, TypeInv, Checked, NEW a \in Admins, NEW task, Checks(a, task),
         CardChecked(task)
  PROVE  Checked'
<1>1. /\ UNCHANGED <<token, rarity, card, history>> /\ req'[a] = task
      /\ \A b \in Admins : b = a
  BY DEF OneAdministrator, Checks, goodsVars, TypeInv, Requests
<1>2. CardChecked(req[a])'
  BY <1>1 DEF CardChecked, SameCard, Rows
<1>3. CardsInv'
  BY <1>1 DEF Checked, CardsInv, UniqueActive, ActiveReferences, Active, SameCard, Rows
<1>. QED
  BY <1>1, <1>2, <1>3 DEF Checked, Kept

LEMMA AskChecked ==
  ASSUME OneAdministrator, TypeInv, Checked, NEW a \in Admins, Ask(a)
  PROVE  Checked'
<1> USE DEF CardChecked
<1>1. ASSUME NEW t \in Tokens, DeleteTokenCheck(a, t) PROVE Checked'
  BY <1>1, CheckedAsk DEF DeleteTokenCheck
<1>2. ASSUME NEW t \in Tokens, NEW b \in BOOLEAN, SetTokenCheck(a, t, b) PROVE Checked'
  BY <1>2, CheckedAsk DEF SetTokenCheck
<1>3. ASSUME NEW k \in Rarities, NEW b \in BOOLEAN, SetRarityCheck(a, k, b) PROVE Checked'
  BY <1>3, CheckedAsk DEF SetRarityCheck
<1>4. ASSUME NEW t \in Tokens, NEW k \in Rarities, NEW d \in Designs, NEW b \in BOOLEAN,
             CreateCardCheck(a, t, k, d, b) PROVE Checked'
  BY <1>4, CheckedAsk DEF CreateCardCheck
<1>5. ASSUME NEW c \in CardIds, NEW data \in CardUpdate, UpdateCardCheck(a, c, data) PROVE Checked'
  BY <1>5, CheckedAsk DEF UpdateCardCheck
<1>6. ASSUME NEW from \in Positions, NEW to \in Positions, NEW type \in RewardTypes,
             CreatePrizeCheck(a, from, to, type) PROVE Checked'
  BY <1>6, CheckedAsk DEF CreatePrizeCheck
<1>7. ASSUME NEW p \in PrizeIds, NEW from \in Positions \cup {None}, NEW to \in Positions \cup {None},
             NEW type \in RewardTypes \cup {None}, UpdatePrizeCheck(a, p, from, to, type) PROVE Checked'
  BY <1>7, CheckedAsk DEF UpdatePrizeCheck
<1>8. ASSUME NEW list \in Lists, WhitelistBegin(a, list) PROVE Checked'
  BY <1>8, CheckedAsk DEF WhitelistBegin
<1>. QED
  BY <1>1, <1>2, <1>3, <1>4, <1>5, <1>6, <1>7, <1>8 DEF Ask

\* A request that was answered, or reads the whitelist, has nothing to keep.
LEMMA KeptAfter ==
  ASSUME OneAdministrator, NEW a \in Admins, req'[a].op \in {"idle", "whitelist"}
  PROVE  Kept'
<1>1. \A b \in Admins : b = a
  BY DEF OneAdministrator
<1>. QED
  BY <1>1 DEF Kept, CardChecked

LEMMA SwitchChecked ==
  ASSUME OneAdministrator, TypeInv, Checked, NEW a \in Admins, SetTokenCommit(a) \/ SetRarityCommit(a)
  PROVE  Checked'
<1>1. card' = card /\ history'.revived = history.revived /\ req'[a].op = "idle"
  <2>1. card' = card /\ history'.revived = history.revived
    BY DEF SetTokenCommit, SetRarityCommit, TypeInv, Told
  <2>2. req' = [req EXCEPT ![a] = Idle]
    BY DEF SetTokenCommit, SetRarityCommit, Done
  <2>. QED
    BY <2>1, <2>2 DEF TypeInv, Requests, Idle
<1>2. UniqueActive'
  BY <1>1 DEF Checked, CardsInv, UniqueActive, Active, SameCard, Rows
<1>3. ASSUME NEW c \in CardIds, Active(c), c \notin history.revived
      PROVE  /\ rarity[card[c].rarity] = "active" /\ card[c].rarity \in Rarities
             /\ token[card[c].token] = "active" \/ card[c].token \in history.switched
             /\ card[c].token \in Tokens /\ c \in Rows /\ card[c].active
  BY <1>3 DEF Checked, CardsInv, ActiveReferences, Active, Rows, TypeInv, TypeOK, Card
<1>4. CASE SetTokenCommit(a)
  <2>1. /\ rarity' = rarity /\ req[a].token \in Tokens
        /\ token' = [token EXCEPT ![req[a].token] = IF req[a].active THEN "active" ELSE "inactive"]
        /\ history'.switched = IF req[a].active THEN history.switched \ {req[a].token}
                               ELSE history.switched \cup {req[a].token}
    BY <1>4 DEF SetTokenCommit, TypeInv, Told, Requests, RequestOK
  <2>2. ActiveReferences'
    BY <1>1, <1>3, <2>1 DEF ActiveReferences, Active, TypeInv, TypeOK
  <2>. QED
    BY <1>1, <1>2, <2>2, KeptAfter DEF Checked, CardsInv
<1>5. CASE SetRarityCommit(a)
  <2>1. /\ UNCHANGED <<token, history>> /\ req[a].rarity \in Rarities /\ req[a].op = "set rarity"
        /\ req[a].active \in BOOLEAN
        /\ rarity' = [rarity EXCEPT ![req[a].rarity] = IF req[a].active THEN "active" ELSE "inactive"]
    BY <1>5 DEF SetRarityCommit, TypeInv, Requests, RequestOK
  <2>2. rarity[req[a].rarity] = "active" /\ ~ req[a].active =>
           \A c \in Rows : card[c].rarity = req[a].rarity => ~ card[c].active
    BY <2>1 DEF Checked, Kept, CardChecked
  <2>3. ActiveReferences'
    BY <1>1, <1>3, <2>1, <2>2 DEF ActiveReferences, Active, TypeInv, TypeOK
  <2>. QED
    BY <1>1, <1>2, <2>3, KeptAfter DEF Checked, CardsInv
<1>. QED
  BY <1>4, <1>5

LEMMA DeleteTokenChecked ==
  ASSUME OneAdministrator, TypeInv, Checked, NEW a \in Admins, DeleteTokenCommit(a)
  PROVE  Checked'
<1> DEFINE gone == req[a].cards
           t == req[a].token
<1>1. /\ rarity' = rarity /\ req'[a].op = "idle" /\ req[a].op = "delete token"
      /\ token' = [token EXCEPT ![t] = "inactive"] /\ t \in Tokens
      /\ history'.revived = history.revived \ gone /\ history'.switched = history.switched \ {t}
  BY DEF DeleteTokenCommit, Done, TypeInv, Told, Requests, RequestOK, Idle
<1>2. /\ \A c \in CardIds : c \notin gone => card'[c] = card[c]
      /\ \A c \in gone : ~ card'[c].active
  <2>1. /\ \A c \in CardIds : c \notin gone => card'[c] = card[c]
        /\ \A c \in gone : card[c] \in Card /\ card'[c] = [card[c] EXCEPT !.active = FALSE]
    BY DeleteTokenTypes
  <2>. QED
    BY <2>1 DEF Card
<1>3. \A c \in CardIds : Active(c)' => Active(c) /\ c \notin gone /\ card'[c] = card[c]
  BY <1>2 DEF Active
<1>4. \A c \in CardIds : Active(c)' /\ c \notin history'.revived => c \notin history.revived
  BY <1>1, <1>3
<1>5. UniqueActive'
  <2>1. ASSUME NEW c \in CardIds, NEW d \in CardIds, c # d, Active(c)', Active(d)',
               c \notin history'.revived, d \notin history'.revived,
               card'[c].token = card'[d].token, card'[c].rarity = card'[d].rarity,
               card'[c].design = card'[d].design
        PROVE  FALSE
    BY <1>3, <1>4, <2>1 DEF Checked, CardsInv, UniqueActive, Active, SameCard, Rows
  <2>. QED
    BY <2>1 DEF UniqueActive, SameCard
<1>6. ActiveReferences'
  <2>1. ASSUME NEW c \in CardIds, Active(c)', c \notin history'.revived
        PROVE  /\ rarity'[card'[c].rarity] = "active"
               /\ token'[card'[c].token] = "active" \/ card'[c].token \in history'.switched
    <3>1. Active(c) /\ c \notin gone /\ card'[c] = card[c] /\ c \notin history.revived /\ c \in Rows
      BY <1>3, <1>4, <2>1 DEF Active, Rows
    <3>2. card[c].token # t
      BY <1>1, <3>1 DEF Checked, Kept, CardChecked, Active
    <3>3. card[c].token \in Tokens
      BY <3>1 DEF Rows, TypeInv, TypeOK, Card
    <3>. QED
      BY <1>1, <3>1, <3>2, <3>3 DEF Checked, CardsInv, ActiveReferences, TypeInv, TypeOK
  <2>. QED
    BY <2>1 DEF ActiveReferences
<1>. QED
  BY <1>1, <1>5, <1>6, KeptAfter DEF Checked, CardsInv

LEMMA CreateCardChecked ==
  ASSUME OneAdministrator, TypeInv, Checked, NEW a \in Admins, CreateCardCommit(a)
  PROVE  Checked'
<1> DEFINE t == req[a].token
           k == req[a].rarity
           d == req[a].design
<1>1. /\ UNCHANGED <<token, rarity, history>> /\ req'[a].op = "idle" /\ req[a].op = "create card"
  BY DEF CreateCardCommit, Done, TypeInv, Requests, Idle
<1>2. /\ card'[nextCard].token = t /\ card'[nextCard].rarity = k /\ card'[nextCard].design = d
      /\ \A c \in CardIds : c # nextCard => card'[c] = card[c]
  <2>1. card'[nextCard] = [token |-> t, rarity |-> k, design |-> d,
                           active |-> req[a].active, rendered |-> None]
    BY CreateCardTypes
  <2>2. \A c \in CardIds : c # nextCard => card'[c] = card[c]
    BY CreateCardTypes
  <2>. QED
    BY <2>1, <2>2
<1>3. token[t] = "active" /\ rarity[k] = "active" /\ SameCard(t, k, d) = {}
  BY <1>1 DEF Checked, Kept, CardChecked
<1>. HIDE DEF t, k, d
<1>4. UniqueActive'
  <2>1. ASSUME NEW c \in CardIds, NEW e \in CardIds, c # e, Active(c)', Active(e)',
               c \notin history.revived, e \notin history.revived,
               card'[c].token = card'[e].token, card'[c].rarity = card'[e].rarity,
               card'[c].design = card'[e].design
        PROVE  FALSE
    <3>1. CASE c # nextCard /\ e # nextCard
      BY <1>2, <2>1, <3>1 DEF Checked, CardsInv, UniqueActive, Active, SameCard, Rows
    <3>2. CASE c = nextCard
      BY <1>2, <1>3, <2>1, <3>2 DEF Active, SameCard, Rows
    <3>3. CASE e = nextCard
      BY <1>2, <1>3, <2>1, <3>3 DEF Active, SameCard, Rows
    <3>. QED
      BY <3>1, <3>2, <3>3
  <2>. QED
    BY <1>1, <2>1 DEF UniqueActive, SameCard
<1>5. ActiveReferences'
  BY <1>1, <1>2, <1>3 DEF Checked, CardsInv, ActiveReferences, Active
<1>. QED
  BY <1>1, <1>4, <1>5, KeptAfter DEF Checked, CardsInv

LEMMA UpdateCardChecked ==
  ASSUME OneAdministrator, TypeInv, Checked, NEW a \in Admins, UpdateCardCommit(a)
  PROVE  Checked'
<1> DEFINE c == req[a].card
           data == req[a].data
           t == Given(data.token, card[c].token)
           k == Given(data.rarity, card[c].rarity)
           d == Given(data.design, card[c].design)
           on == Given(data.active, card[c].active)
<1>1. /\ UNCHANGED <<token, rarity>> /\ req'[a].op = "idle" /\ req[a].op = "update card"
      /\ history'.revived = (IF data.active = TRUE /\ ~ card[c].active THEN history.revived \cup {c}
                             ELSE IF data.active = FALSE THEN history.revived \ {c} ELSE history.revived)
      /\ history'.switched = history.switched
  BY DEF UpdateCardCommit, Done, TypeInv, Requests, Idle, Told
<1>2. /\ card'[c].token = t /\ card'[c].rarity = k /\ card'[c].design = d /\ card'[c].active = on
      /\ c \in Rows /\ \A e \in CardIds : e # c => card'[e] = card[e]
  <2> DEFINE shown == IF data.template /\ req[a].drawn THEN None ELSE card[c].rendered
  <2>1. card'[c] = [token |-> t, rarity |-> k, design |-> d, active |-> on, rendered |-> shown]
    BY UpdateCardTypes
  <2>2. c \in Rows /\ \A e \in CardIds : e # c => card'[e] = card[e]
    BY UpdateCardTypes
  <2>. HIDE DEF c, t, k, d, on, shown
  <2>. QED
    BY <2>1, <2>2
<1>3. data \in CardUpdate /\ card[c] \in Card /\ c \in CardIds
  BY <1>1, <1>2 DEF TypeInv, Requests, RequestOK, TypeOK, Rows
<1>4. /\ data.token \notin {None, card[c].token} => token[data.token] = "active"
      /\ data.rarity \notin {None, card[c].rarity} => rarity[data.rarity] = "active"
      /\ {data.token, data.rarity, data.design} # {None} => SameCard(t, k, d) \subseteq {c}
  BY <1>1 DEF Checked, Kept, CardChecked
<1>5. /\ token[t] = "active" \/ t = card[c].token
      /\ rarity[k] = "active" \/ k = card[c].rarity
  BY <1>4 DEF Given
<1>6. SameCard(t, k, d) \subseteq {c} \/ (t = card[c].token /\ k = card[c].rarity /\ d = card[c].design)
  BY <1>4 DEF Given
<1>7. on /\ c \notin history'.revived => card[c].active /\ c \notin history.revived
  BY <1>1, <1>3, NoneAssumption DEF Given, CardUpdate, Card
<1>8. \A e \in CardIds : e # c => (e \in history'.revived <=> e \in history.revived)
  BY <1>1
<1>. HIDE DEF c, t, k, d, on
<1>9. UniqueActive'
  <2>1. ASSUME NEW f \in CardIds, NEW e \in CardIds, f # e, Active(f)', Active(e)',
               f \notin history'.revived, e \notin history'.revived,
               card'[f].token = card'[e].token, card'[f].rarity = card'[e].rarity,
               card'[f].design = card'[e].design
        PROVE  FALSE
    <3>1. CASE f # c /\ e # c
      BY <1>2, <1>8, <2>1, <3>1 DEF Checked, CardsInv, UniqueActive, Active, SameCard, Rows
    <3>2. ASSUME NEW o \in CardIds, o # c, Active(o), o \notin history.revived, on, c \notin history'.revived,
                 card[o].token = t, card[o].rarity = k, card[o].design = d
          PROVE  FALSE
      <4>1. o \in SameCard(t, k, d)
        BY <3>2 DEF SameCard, Active, Rows
      <4>2. t = card[c].token /\ k = card[c].rarity /\ d = card[c].design
        BY <1>6, <3>2, <4>1
      <4>3. Active(c) /\ c \notin history.revived
        BY <1>2, <1>7, <3>2 DEF Active, Rows
      <4>. QED
        BY <1>3, <3>2, <4>1, <4>2, <4>3 DEF Checked, CardsInv, UniqueActive
    <3>3. CASE f = c
      BY <1>2, <1>8, <2>1, <3>2, <3>3 DEF Active
    <3>4. CASE e = c
      BY <1>2, <1>8, <2>1, <3>2, <3>4 DEF Active
    <3>. QED
      BY <3>1, <3>3, <3>4
  <2>. QED
    BY <2>1 DEF UniqueActive, SameCard
<1>10. ActiveReferences'
  <2>1. ASSUME NEW e \in CardIds, Active(e)', e \notin history'.revived
        PROVE  /\ rarity[card'[e].rarity] = "active"
               /\ token[card'[e].token] = "active" \/ card'[e].token \in history.switched
    <3>1. CASE e # c
      BY <1>2, <1>8, <2>1, <3>1 DEF Checked, CardsInv, ActiveReferences, Active
    <3>2. CASE e = c
      <4>1. Active(c) /\ c \notin history.revived
        BY <1>2, <1>7, <2>1, <3>2 DEF Active, Rows
      <4>2. rarity[card[c].rarity] = "active" /\ (token[card[c].token] = "active" \/ card[c].token \in history.switched)
        BY <1>3, <4>1 DEF Checked, CardsInv, ActiveReferences
      <4>. QED
        BY <1>2, <1>5, <3>2, <4>2
    <3>. QED
      BY <3>1, <3>2
  <2>. QED
    BY <1>1, <2>1 DEF ActiveReferences
<1>. QED
  BY <1>1, <1>9, <1>10, KeptAfter DEF Checked, CardsInv

\* A prize that is written changes no card.
LEMMA PrizeChangeChecked ==
  ASSUME OneAdministrator, TypeInv, Checked, NEW a \in Admins, CreatePrizeCommit(a) \/ UpdatePrizeCommit(a)
  PROVE  Checked'
<1>1. UNCHANGED <<token, rarity, card>> /\ req'[a].op = "idle"
  <2>1. UNCHANGED <<token, rarity, card>> /\ req' = [req EXCEPT ![a] = Idle]
    BY DEF CreatePrizeCommit, UpdatePrizeCommit, Done, goodsVars
  <2>. QED
    BY <2>1 DEF TypeInv, Requests, Idle
<1>2. UNCHANGED <<history.revived, history.switched>>
  <2>1. CASE CreatePrizeCommit(a)
    <3>1. nextPrize \in PrizeIds /\ Late(nextPrize)
      BY <2>1 DEF CreatePrizeCommit
    <3>. QED
      BY <3>1, LateTypes
  <2>2. CASE UpdatePrizeCommit(a)
    BY <2>2, UpdatePrizeTypes, LateTypes
  <2>. QED
    BY <2>1, <2>2
<1>3. CardsInv'
  BY <1>1, <1>2 DEF Checked, CardsInv, UniqueActive, ActiveReferences, Active, SameCard, Rows
<1>. QED
  BY <1>1, <1>3, KeptAfter DEF Checked

LEMMA WhitelistChecked ==
  ASSUME OneAdministrator, TypeInv, Checked, NEW a \in Admins, WhitelistLook(a) \/ WhitelistCommit(a)
  PROVE  Checked'
<1>1. /\ UNCHANGED <<token, rarity, card>>
      /\ UNCHANGED <<history.revived, history.switched>>
  <2>1. UNCHANGED <<token, rarity, card>>
    BY DEF WhitelistLook, WhitelistCommit, goodsVars
  <2>2. history' = history \/ TellListed(a)
    BY DEF WhitelistLook, WhitelistCommit
  <2>. QED
    BY <2>1, <2>2 DEF TellListed, TypeInv, Told
<1>2. req'[a].op \in {"idle", "whitelist"}
  <2>1. CASE WhitelistCommit(a)
    BY <2>1 DEF WhitelistCommit, Done, TypeInv, Requests, Idle
  <2>2. CASE WhitelistLook(a)
    <3>1. req'[a] = [req[a] EXCEPT !.todo = Tail(@),
                       !.added = IF Head(req[a].todo) \in whitelist THEN @ ELSE Append(@, Head(req[a].todo))]
      BY <2>2 DEF WhitelistLook, TypeInv, Requests
    <3>2. req[a] \in [op : {"whitelist"}, todo : Seq(Wallets), added : Seq(Wallets)]
      BY <2>2, WhitelistRequest DEF WhitelistLook
    <3>. QED
      BY <3>1, <3>2
  <2>. QED
    BY <2>1, <2>2
<1>3. CardsInv'
  BY <1>1 DEF Checked, CardsInv, UniqueActive, ActiveReferences, Active, SameCard, Rows
<1>. QED
  BY <1>2, <1>3, KeptAfter DEF Checked

LEMMA RenderChecked ==
  ASSUME TypeInv, Checked, NEW r \in Renderers, Render(r)
  PROVE  Checked'
<1>1. UNCHANGED <<token, rarity, req>> /\ UNCHANGED <<history.revived, history.switched>>
  BY ReadStep, UploadStep, CommitStep, EndStep DEF Render, Undrawn
<1>2. SameGoods
  <2>1. CASE RenderCommit(r)
    <3> DEFINE c == ren[r].card
               file == ren[r].file
    <3>1. /\ c \in Rows /\ card[c] \in Card /\ card'[c] \in Card
          /\ card'[c] = card[c] \/ card'[c] = [card[c] EXCEPT !.rendered = file]
          /\ \A d \in CardIds : d # c => card'[d] = card[d]
      BY <2>1, CommitStep
    <3>. HIDE DEF c, file
    <3>2. /\ card'[c].token = card[c].token /\ card'[c].rarity = card[c].rarity
          /\ card'[c].design = card[c].design /\ card'[c].active = card[c].active
          /\ card[c] # None /\ card'[c] # None
      BY <3>1, RowAssumption DEF Card
    <3>. QED
      BY <3>1, <3>2 DEF SameGoods
  <2>2. CASE ~ RenderCommit(r)
    <3>1. card' = card
      BY <2>2, ReadStep, UploadStep, EndStep DEF Render
    <3>. QED
      BY <3>1 DEF SameGoods
  <2>. QED
    BY <2>1, <2>2
<1>. QED
  BY <1>1, <1>2, CheckedApart

LEMMA StepChecked == OneAdministrator /\ TypeInv /\ Checked /\ [Next]_vars => Checked'
<1> SUFFICES ASSUME OneAdministrator, TypeInv, Checked, [Next]_vars PROVE Checked'
  OBVIOUS
<1>1. ASSUME NEW a \in Admins, Ask(a) \/ Commit(a) PROVE Checked'
  BY <1>1, AskChecked, SwitchChecked, DeleteTokenChecked, CreateCardChecked, UpdateCardChecked,
     PrizeChangeChecked, WhitelistChecked DEF Commit
<1>2. ASSUME NEW r \in Renderers, Render(r) PROVE Checked'
  BY <1>2, RenderChecked
<1>3. CASE (\E w \in Wallets : WhitelistRemove(w)) \/ StartTournament \/ Tick \/ UNCHANGED vars
  <2>1. /\ UNCHANGED <<token, rarity, card, req>>
        /\ UNCHANGED <<history.revived, history.switched>>
    BY <1>3 DEF WhitelistRemove, StartTournament, Tick, vars, goodsVars, panelVars, TypeInv, Told
  <2>2. SameGoods
    BY <2>1 DEF SameGoods
  <2>. QED
    BY <2>1, <2>2, CheckedApart
<1>4. ASSUME NEW r \in Rankers, Rank(r) PROVE Checked'
  BY <1>4, RankStays, RankTypes, CheckedApart DEF SameGoods
<1>. QED
  BY <1>1, <1>2, <1>3, <1>4 DEF Next

LEMMA OneAtATime == ASSUME OneAdministrator PROVE Spec => []Checked
<1>1. TypeInv /\ Checked /\ [Next]_vars => Checked'
  BY StepChecked
<1>. QED
  BY <1>1, InitTypes, StepTypes, InitChecked, PTL DEF Spec

\* The cards of the panel: with one administrator, whatever is rendered beside, no two
\* active cards are of one kind and what they are made of is in play, but for what was
\* switched by hand; and the image each shows is in storage.
THEOREM CardsTheorem == ASSUME OneAdministrator PROVE Spec => []CardsConsistent
<1>1. TypeInv /\ Checked /\ ShownExists => CardsConsistent
  BY DEF TypeInv, Checked, CardsInv, CardsConsistent
<1>. QED
  BY <1>1, TypeCorrect, OneAtATime, ImagesStay, PTL

-----------------------------------------------------------------------------
(* Prizes.  What the panel has looked for is kept among its own rows only: a *)
(* ranking may write beside it meanwhile, or take the row away.              *)

\* No other row of the panel at these positions.
Free(from, to, except) ==
  \A q \in PrizeIds \ {except} :
    prize[q] # None /\ q \notin history.ranked => ~ (prize[q].from <= to /\ prize[q].to >= from)

PrizeChecked(q) ==
  /\ q.op = "create prize" => Free(q.from, q.to, None)
  /\ q.op = "update prize" =>
       /\ q.prize < nextPrize
       /\ prize[q.prize] # None /\ {q.from, q.to} # {None} =>
            Free(Given(q.from, prize[q.prize].from), Given(q.to, prize[q.prize].to), q.prize)

PrizesInv ==
  /\ \A a \in Admins : PrizeChecked(req[a])
  /\ PrizesDisjoint
  /\ started \/ (history.ranked = {} /\ \A r \in Rankers : ranking[r] = Idle)

LEMMA InitPrizes == Init => PrizesInv
<1> SUFFICES ASSUME Init PROVE PrizesInv
  OBVIOUS
<1>1. \A a \in Admins : req[a].op = "idle"
  BY DEF Init, Idle
<1>2. PrizesDisjoint
  BY DEF Init, PrizesDisjoint
<1>3. history.ranked = {} /\ \A r \in Rankers : ranking[r] = Idle
  BY DEF Init
<1>. QED
  BY <1>1, <1>2, <1>3 DEF PrizesInv, PrizeChecked

\* What writes no prize and begins no request about one.
LEMMA PrizesApart ==
  ASSUME PrizesInv, UNCHANGED <<prize, nextPrize>>, UNCHANGED <<history.ranked, history.unseen>>,
         started => started', started \/ ranking' = ranking,
         \A a \in Admins : req'[a] = req[a] \/ req'[a].op \notin {"create prize", "update prize"}
  PROVE  PrizesInv'
<1>1. ASSUME NEW a \in Admins PROVE PrizeChecked(req[a])'
  <2>1. CASE req'[a] = req[a]
    BY <2>1 DEF PrizesInv, PrizeChecked, Free
  <2>2. CASE req'[a].op \notin {"create prize", "update prize"}
    BY <2>2 DEF PrizeChecked
  <2>. QED
    BY <2>1, <2>2
<1>2. PrizesDisjoint'
  BY DEF PrizesInv, PrizesDisjoint
<1>. QED
  BY <1>1, <1>2 DEF PrizesInv

\* A request about a prize begins.
LEMMA PrizeAsked ==
  ASSUME OneAdministrator, TypeInv, PrizesInv, NEW a \in Admins, NEW task, Checks(a, task), PrizeChecked(task)
  PROVE  PrizesInv'
<1>1. /\ UNCHANGED <<prize, nextPrize, ranking, history, started>> /\ req'[a] = task
      /\ \A b \in Admins : b = a
  BY DEF OneAdministrator, Checks, prizeVars, TypeInv, Requests
<1>2. PrizeChecked(req[a])'
  BY <1>1 DEF PrizeChecked, Free
<1>3. PrizesDisjoint'
  BY <1>1 DEF PrizesInv, PrizesDisjoint
<1>. QED
  BY <1>1, <1>2, <1>3 DEF PrizesInv

LEMMA AskPrizes ==
  ASSUME OneAdministrator, TypeInv, PrizesInv, NEW a \in Admins, Ask(a)
  PROVE  PrizesInv'
<1>1. ASSUME NEW from \in Positions, NEW to \in Positions, NEW type \in RewardTypes,
             CreatePrizeCheck(a, from, to, type) PROVE PrizesInv'
  BY <1>1, PrizeAsked DEF CreatePrizeCheck, PrizeChecked, Free, Overlapping
<1>2. ASSUME NEW p \in PrizeIds, NEW from \in Positions \cup {None}, NEW to \in Positions \cup {None},
             NEW type \in RewardTypes \cup {None}, UpdatePrizeCheck(a, p, from, to, type) PROVE PrizesInv'
  <2>1. p < nextPrize
    BY <1>2 DEF UpdatePrizeCheck, TypeInv, Numbered
  <2>. QED
    BY <1>2, <2>1, PrizeAsked DEF UpdatePrizeCheck, PrizeChecked, Free, Overlapping
<1>3. ASSUME NEW task, Checks(a, task), task.op \notin {"create prize", "update prize"} PROVE PrizesInv'
  BY <1>3, PrizeAsked DEF PrizeChecked
<1>. QED
  BY <1>1, <1>2, <1>3 DEF Ask, DeleteTokenCheck, SetTokenCheck, SetRarityCheck, CreateCardCheck,
     UpdateCardCheck, WhitelistBegin

\* A row of the panel placed where it has no other, or left where it was.
LEMMA PrizePlaced ==
  ASSUME OneAdministrator, TypeInv, TypeInv', PrizesInv, NEW a \in Admins, NEW p \in PrizeIds,
         prize'[p] # None, Late(p), started' = started, ranking' = ranking, req'[a].op = "idle",
         \A q \in PrizeIds : q # p => prize'[q] = prize[q],
         \/ Free(prize'[p].from, prize'[p].to, p)
         \/ prize[p] # None /\ prize'[p].from = prize[p].from /\ prize'[p].to = prize[p].to
  PROVE  PrizesInv'
<1>1. /\ history'.ranked = history.ranked
      /\ history'.unseen = IF started THEN history.unseen \cup {p} ELSE history.unseen
  BY LateTypes
<1>2. ASSUME NEW q \in PrizeIds, q # p, prize'[q] # None,
             \/ {p, q} \cap history'.ranked = {}
             \/ {p, q} \cap history'.unseen = {},
             NEW n \in Positions, n \in prize'[p].from .. prize'[p].to, n \in prize'[q].from .. prize'[q].to
      PROVE  FALSE
  <2>1. {p, q} \cap history.ranked = {}
    BY <1>1, <1>2 DEF PrizesInv
  <2>2. CASE prize[p] # None /\ prize'[p].from = prize[p].from /\ prize'[p].to = prize[p].to
    BY <1>2, <2>1, <2>2 DEF PrizesInv, PrizesDisjoint
  <2>3. CASE Free(prize'[p].from, prize'[p].to, p)
    <3>1. prize'[p] \in Prize /\ prize'[q] \in Prize /\ prize[q] = prize'[q]
      BY <1>2 DEF TypeInv, TypeOK
    <3>2. /\ prize'[p].from \in Nat /\ prize'[p].to \in Nat /\ prize[q].from \in Nat /\ prize[q].to \in Nat
          /\ n \in Nat
      BY <3>1, PositionAssumption DEF Prize
    <3>3. ~ (prize[q].from <= prize'[p].to /\ prize[q].to >= prize'[p].from)
      BY <1>2, <2>1, <2>3, <3>1 DEF Free
    <3>. QED
      BY <1>2, <3>1, <3>2, <3>3
  <2>. QED
    BY <2>2, <2>3
<1>3. PrizesDisjoint'
  <2>1. ASSUME NEW q \in PrizeIds, NEW o \in PrizeIds, q # o, prize'[q] # None, prize'[o] # None,
               \/ {q, o} \cap history'.ranked = {}
               \/ prize'[q].type = prize'[o].type /\ {q, o} \cap history'.unseen = {},
               NEW n \in Positions, n \in prize'[q].from .. prize'[q].to, n \in prize'[o].from .. prize'[o].to
        PROVE  FALSE
    <3>1. CASE q = p
      BY <1>2, <2>1, <3>1
    <3>2. CASE o = p
      BY <1>2, <2>1, <3>2
    <3>3. CASE q # p /\ o # p
      <4>1. {q, o} \cap history.unseen = {} \/ {q, o} \cap history'.unseen # {}
        BY <1>1, <3>3
      <4>. QED
        BY <1>1, <2>1, <3>3, <4>1 DEF PrizesInv, PrizesDisjoint
    <3>. QED
      BY <3>1, <3>2, <3>3
  <2>. QED
    BY <2>1 DEF PrizesDisjoint
<1>4. \A b \in Admins : PrizeChecked(req[b])'
  BY DEF OneAdministrator, PrizeChecked
<1>. QED
  BY <1>1, <1>3, <1>4 DEF PrizesInv

LEMMA PrizeCommits ==
  ASSUME OneAdministrator, TypeInv, PrizesInv, NEW a \in Admins, CreatePrizeCommit(a) \/ UpdatePrizeCommit(a)
  PROVE  PrizesInv'
<1>1. UNCHANGED <<started, ranking>> /\ req'[a].op = "idle" /\ PrizeChecked(req[a])
  <2>1. UNCHANGED <<started, ranking>> /\ req' = [req EXCEPT ![a] = Idle]
    BY DEF CreatePrizeCommit, UpdatePrizeCommit, Done
  <2>. QED
    BY <2>1 DEF TypeInv, Requests, Idle, PrizesInv
<1>2. CASE CreatePrizeCommit(a)
  <2>1. /\ TypeInv' /\ nextPrize \in PrizeIds /\ nextPrize \notin {None} /\ Late(nextPrize)
        /\ prize'[nextPrize] = [from |-> req[a].from, to |-> req[a].to, type |-> req[a].type]
        /\ \A q \in PrizeIds : q # nextPrize => prize'[q] = prize[q]
    BY <1>2, CreatePrizeTypes, SequenceAssumption, NoneAssumption DEF CreatePrizeCommit
  <2>2. req[a].op = "create prize"
    BY <1>2 DEF CreatePrizeCommit
  <2>3. /\ prize'[nextPrize].from = req[a].from /\ prize'[nextPrize].to = req[a].to
        /\ prize'[nextPrize] # None
    <3>1. req[a].from \in Positions /\ req[a].to \in Positions /\ req[a].type \in RewardTypes
      BY <2>2 DEF TypeInv, Requests, RequestOK
    <3>2. prize'[nextPrize] \in Prize
      BY <2>1, <3>1 DEF Prize
    <3>. QED
      BY <2>1, <3>2, RowAssumption
  <2>4. Free(req[a].from, req[a].to, nextPrize)
    <3>1. \A q \in PrizeIds : q # None
      BY SequenceAssumption, NoneAssumption
    <3>. QED
      BY <1>1, <2>2, <3>1 DEF PrizeChecked, Free
  <2>. QED
    BY <1>1, <2>1, <2>3, <2>4, PrizePlaced
<1>3. CASE UpdatePrizeCommit(a)
  <2> DEFINE p == req[a].prize
             from == Given(req[a].from, prize[p].from)
             to == Given(req[a].to, prize[p].to)
             row == [from |-> from, to |-> to, type |-> Given(req[a].type, prize[p].type)]
  <2>1. /\ TypeInv' /\ p \in PrizeIds /\ req[a].op = "update prize"
        /\ \A q \in PrizeIds : q # p => prize'[q] = prize[q]
    BY <1>3, UpdatePrizeTypes DEF UpdatePrizeCommit
  <2>2. CASE prize[p] = None
    <3>1. UNCHANGED <<prize, history, nextPrize>> /\ \A b \in Admins : b = a
      BY <1>3, <2>2, UpdatePrizeTypes DEF UpdatePrizeCommit, OneAdministrator
    <3>. QED
      BY <1>1, <3>1, PrizesApart
  <2>3. CASE prize[p] # None
    <3>1. prize[p] \in Prize /\ Late(p) /\ prize'[p] = row
      BY <1>3, <2>3, UpdatePrizeTypes
    <3>2. prize'[p].from = from /\ prize'[p].to = to /\ prize'[p] # None
      <4>1. row \in Prize
        <5>1. /\ req[a].from \in Positions \cup {None} /\ req[a].to \in Positions \cup {None}
              /\ req[a].type \in RewardTypes \cup {None}
          BY <2>1 DEF TypeInv, Requests, RequestOK
        <5>. QED
          BY <3>1, <5>1 DEF Prize, Given
      <4>. QED
        BY <3>1, <4>1, RowAssumption
    <3>3. CASE {req[a].from, req[a].to} # {None}
      <4>1. Free(from, to, p)
        BY <1>1, <2>1, <2>3, <3>3 DEF PrizeChecked
      <4>. HIDE DEF p, from, to, row
      <4>. QED
        BY <1>1, <2>1, <3>1, <3>2, <4>1, PrizePlaced
    <3>4. CASE {req[a].from, req[a].to} = {None}
      <4>1. from = prize[p].from /\ to = prize[p].to
        BY <3>4 DEF Given
      <4>. HIDE DEF p, from, to, row
      <4>. QED
        BY <1>1, <2>1, <2>3, <3>1, <3>2, <4>1, PrizePlaced
    <3>. QED
      BY <3>3, <3>4
  <2>. QED
    BY <2>2, <2>3
<1>. QED
  BY <1>2, <1>3

\* The rows of a ranking share no place with each other; what it did not see is known.
LEMMA SavePrizesInv ==
  ASSUME TypeInv, PrizesInv, NEW r \in Rankers, RankSave(r)
  PROVE  PrizesInv'
<1> DEFINE doomed == ranking[r].doomed
<1>1. PICK new \in SUBSET PrizeIds, type \in RewardTypes :
        /\ \A p \in new : /\ prize'[p].from = p - nextPrize + 1 /\ prize'[p].to = p - nextPrize + 1
                          /\ prize'[p].type = type /\ nextPrize <= p
        /\ \A p \in PrizeIds \ new : prize'[p] = IF p \in doomed THEN None ELSE prize[p]
        /\ history'.ranked = history.ranked \cup new
        /\ history'.unseen = history.unseen \cup
             {p \in PrizeIds \ doomed : prize[p] # None /\ prize[p].type = type}
  BY SaveStep
<1>2. /\ TypeInv' /\ nextPrize' >= nextPrize /\ nextPrize \in Nat /\ nextPrize' \in Nat
      /\ UNCHANGED <<req, started>> /\ started
  <2>1. ranking[r] # Idle
    BY DEF RankSave, SavePrizes, Idle
  <2>2. TypeInv' /\ nextPrize' >= nextPrize /\ UNCHANGED <<req, started>>
    BY SaveStep, RankStays DEF Rank
  <2>. QED
    BY <2>1, <2>2 DEF TypeInv, TypeOK, PrizesInv
<1>. HIDE DEF doomed
<1>3. ASSUME NEW p \in PrizeIds, prize'[p] # None, p \notin new
      PROVE  prize'[p] = prize[p] /\ prize[p] # None /\ p \notin doomed
  BY <1>1, <1>3
<1>4. ASSUME NEW a \in Admins PROVE PrizeChecked(req[a])'
  <2>1. PrizeChecked(req[a]) /\ RequestOK(req[a])
    BY DEF PrizesInv, TypeInv, Requests
  <2>2. \A from, to, e : Free(from, to, e) => Free(from, to, e)'
    <3>1. ASSUME NEW from, NEW to, NEW e, Free(from, to, e), NEW q \in PrizeIds \ {e},
                 prize'[q] # None, q \notin history'.ranked
          PROVE  ~ (prize'[q].from <= to /\ prize'[q].to >= from)
      BY <1>1, <1>3, <3>1 DEF Free
    <3>. QED
      BY <3>1 DEF Free
  <2>3. CASE req[a].op = "update prize"
    <3>1. req[a].prize \in PrizeIds /\ req[a].prize \in Nat /\ req[a].prize < nextPrize
      BY <2>1, <2>3, SequenceAssumption DEF RequestOK, PrizeChecked
    <3>2. req[a].prize \notin new /\ req[a].prize < nextPrize'
      <4>1. \A p \in new : nextPrize <= p
        BY <1>1
      <4>. QED
        BY <1>2, <3>1, <4>1
    <3>. QED
      BY <1>2, <1>3, <2>1, <2>2, <2>3, <3>1, <3>2 DEF PrizeChecked
  <2>4. CASE req[a].op # "update prize"
    BY <1>2, <2>1, <2>2, <2>4 DEF PrizeChecked
  <2>. QED
    BY <2>3, <2>4
<1>5. ASSUME NEW p \in new, NEW q \in PrizeIds, p # q, prize'[q] # None,
             \/ {p, q} \cap history'.ranked = {}
             \/ prize'[p].type = prize'[q].type /\ {p, q} \cap history'.unseen = {},
             NEW n \in Positions, n \in prize'[p].from .. prize'[p].to, n \in prize'[q].from .. prize'[q].to
      PROVE  FALSE
  <2>1. prize'[p].type = type /\ prize'[q].type = type /\ q \notin history'.unseen
    <3>1. prize'[p].type = type /\ p \in history'.ranked
      BY <1>1
    <3>. QED
      BY <1>5, <3>1
  <2>2. CASE q \in new
    <3>1. p \in Nat /\ q \in Nat /\ n \in Nat
      BY <1>1, <2>2, SequenceAssumption, PositionAssumption
    <3>2. n = p - nextPrize + 1 /\ n = q - nextPrize + 1
      <4>1. /\ prize'[p].from = p - nextPrize + 1 /\ prize'[p].to = p - nextPrize + 1
            /\ prize'[q].from = q - nextPrize + 1 /\ prize'[q].to = q - nextPrize + 1
        BY <1>1, <2>2
      <4>. QED
        BY <1>2, <1>5, <3>1, <4>1
    <3>. QED
      BY <1>2, <1>5, <3>1, <3>2
  <2>3. CASE q \notin new
    <3>1. prize'[q] = prize[q] /\ prize[q] # None /\ q \notin doomed
      BY <1>3, <1>5, <2>3
    <3>. QED
      BY <1>1, <2>1, <3>1
  <2>. QED
    BY <2>2, <2>3
<1>6. PrizesDisjoint'
  <2>1. ASSUME NEW p \in PrizeIds, NEW q \in PrizeIds, p # q, prize'[p] # None, prize'[q] # None,
               \/ {p, q} \cap history'.ranked = {}
               \/ prize'[p].type = prize'[q].type /\ {p, q} \cap history'.unseen = {},
               NEW n \in Positions, n \in prize'[p].from .. prize'[p].to, n \in prize'[q].from .. prize'[q].to
        PROVE  FALSE
    <3>1. CASE p \in new
      BY <1>5, <2>1, <3>1
    <3>2. CASE q \in new
      BY <1>5, <2>1, <3>2
    <3>3. CASE p \notin new /\ q \notin new
      <4>1. prize'[p] = prize[p] /\ prize'[q] = prize[q]
        BY <1>3, <2>1, <3>3
      <4>2. \/ {p, q} \cap history.ranked = {}
            \/ prize[p].type = prize[q].type /\ {p, q} \cap history.unseen = {}
        BY <1>1, <2>1, <4>1
      <4>. QED
        BY <2>1, <4>1, <4>2 DEF PrizesInv, PrizesDisjoint
    <3>. QED
      BY <3>1, <3>2, <3>3
  <2>. QED
    BY <2>1 DEF PrizesDisjoint
<1>. QED
  BY <1>2, <1>4, <1>6 DEF PrizesInv

LEMMA StepPrizes == OneAdministrator /\ TypeInv /\ PrizesInv /\ [Next]_vars => PrizesInv'
<1> SUFFICES ASSUME OneAdministrator, TypeInv, PrizesInv, [Next]_vars PROVE PrizesInv'
  OBVIOUS
<1>1. ASSUME NEW a \in Admins, Ask(a) PROVE PrizesInv'
  BY <1>1, AskPrizes
<1>2. ASSUME NEW a \in Admins, CreatePrizeCommit(a) \/ UpdatePrizeCommit(a) PROVE PrizesInv'
  BY <1>2, PrizeCommits
<1>3. ASSUME NEW a \in Admins, Commit(a), ~ (CreatePrizeCommit(a) \/ UpdatePrizeCommit(a)) PROVE PrizesInv'
  <2>1. /\ UNCHANGED <<prize, nextPrize, ranking, started>> /\ UNCHANGED <<history.ranked, history.unseen>>
    BY <1>3 DEF Commit, SetTokenCommit, DeleteTokenCommit, SetRarityCommit, CreateCardCommit, UpdateCardCommit,
       WhitelistLook, WhitelistCommit, TellListed, Done, prizeVars, TypeInv, Told
  <2>2. \A b \in Admins : b = a
    BY DEF OneAdministrator
  <2>3. req'[a].op \notin {"create prize", "update prize"}
    <3>1. CASE WhitelistLook(a)
      <4>1. req'[a] = [req[a] EXCEPT !.todo = Tail(@),
                         !.added = IF Head(req[a].todo) \in whitelist THEN @ ELSE Append(@, Head(req[a].todo))]
        BY <3>1 DEF WhitelistLook, TypeInv, Requests
      <4>2. req[a] \in [op : {"whitelist"}, todo : Seq(Wallets), added : Seq(Wallets)]
        BY <3>1, WhitelistRequest DEF WhitelistLook
      <4>. QED
        BY <4>1, <4>2
    <3>2. CASE ~ WhitelistLook(a)
      <4>1. req' = [req EXCEPT ![a] = Idle]
        BY <1>3, <3>2 DEF Commit, SetTokenCommit, DeleteTokenCommit, SetRarityCommit, CreateCardCommit,
           UpdateCardCommit, WhitelistCommit, Done
      <4>. QED
        BY <4>1 DEF TypeInv, Requests, Idle
    <3>. QED
      BY <3>1, <3>2
  <2>. QED
    BY <2>1, <2>2, <2>3, PrizesApart
<1>4. ASSUME NEW r \in Renderers, Render(r) PROVE PrizesInv'
  BY <1>4, ReadStep, UploadStep, CommitStep, EndStep, PrizesApart DEF Render, Undrawn, TypeInv, Told
<1>5. ASSUME NEW r \in Rankers, RankSave(r) PROVE PrizesInv'
  BY <1>5, SavePrizesInv
<1>6. ASSUME NEW r \in Rankers, Rank(r), ~ RankSave(r) PROVE PrizesInv'
  <2>1. UNCHANGED <<prize, nextPrize, history, req, started>>
    BY <1>6, RankApart, RankStays
  <2>2. started
    BY <1>6 DEF Rank, RankDelete, RankFails, PrizesInv
  <2>. QED
    BY <2>1, <2>2, PrizesApart
<1>7. CASE (\E w \in Wallets : WhitelistRemove(w)) \/ StartTournament \/ Tick \/ UNCHANGED vars
  <2>1. /\ UNCHANGED <<prize, nextPrize, ranking, req>> /\ (started => started')
        /\ UNCHANGED <<history.ranked, history.unseen>>
    BY <1>7 DEF WhitelistRemove, StartTournament, Tick, vars, prizeVars, panelVars, TypeInv, Told
  <2>. QED
    BY <2>1, PrizesApart
<1>. QED
  BY <1>1, <1>2, <1>3, <1>4, <1>5, <1>6, <1>7 DEF Next

\* generate_and_save_prize_structure beside the panel, and the whitelist: with one
\* administrator and any number of rankings, no two rows of the panel cover one place
\* and no two rows of one reward type do, but for those that were written unseen; and
\* the whitelist is what was reported.
THEOREM TablesTheorem == ASSUME OneAdministrator PROVE Spec => []TablesReconcile
<1>1. TypeInv /\ PrizesInv /\ [Next]_vars => PrizesInv'
  BY StepPrizes
<1>2. PrizesInv /\ WhitelistReconciles => TablesReconcile
  BY DEF PrizesInv, TablesReconcile
<1>. QED
  BY <1>1, <1>2, InitTypes, StepTypes, InitPrizes, ListedOnce, PTL DEF Spec
==============================================================================
