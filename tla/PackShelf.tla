------------------------------- MODULE PackShelf -------------------------------
(***************************************************************************)
(* What is in a pack and what its owner is shown of it: the draw behind    *)
(* prepare-open, statement by statement while an administrator switches    *)
(* tokens, cards and pack types, and the opening history, read page by     *)
(* page while packs are opened.                                            *)
(*                                                                         *)
(* PackOpening follows an opening through signature, mint and confirm;     *)
(* here the draw is what it left open, and confirming is one step.  One    *)
(* request draws at a time, and there is one user: no query reads the rows *)
(* of another.                                                             *)
(***************************************************************************)
EXTENDS Integers, Sequences, SequencesExt, FiniteSets, FiniteSetsExt

CONSTANTS
  Symbols, Cards, TokenOf,  \* tokens.symbol; cards and the symbol of each
  Rendered,                 \* cards with a rendered_image_url
  PackTypes, AnySlots,      \* pack types; values of guaranteed_slots
  PageSize,                 \* limit of the history
  MaxPacks, MaxEdits,       \* bounds: packs granted, changes by administrators
  NoRow

\* A category of guaranteed_slots: symbols to pick from, and how many.
ASSUME ShelfAssumption ==
  /\ TokenOf \in [Cards -> Symbols] /\ Rendered \subseteq Cards
  /\ \A slots \in AnySlots \ {NoRow} : slots \in Seq([pool : Seq(Symbols), count : Nat])
  /\ PageSize \in Nat \ {0} /\ MaxPacks \in Nat /\ MaxEdits \in Nat

VARIABLES
  tokenOn, cardOn,   \* tokens.is_active, cards.is_active
  types,             \* pack_types
  packs,             \* user_packs of the user
  draw,              \* the draw under way
  openings,          \* pack_openings of the user, oldest first
  walk,              \* a client reading the history page by page
  edits

stockVars == <<tokenOn, cardOn>>
shelfVars == <<stockVars, types, packs, draw, openings, walk, edits>>

Unread == [pc |-> "idle", offset |-> 0, total |-> 0, owed |-> {}, shown |-> {}]

ShelfInit ==
  /\ tokenOn = [s \in Symbols |-> TRUE] /\ cardOn = [c \in Cards |-> TRUE]
  /\ types \in [PackTypes -> [active : {TRUE}, slots : AnySlots, supply : {NoRow}]]
  /\ packs = <<>> /\ draw = NoRow /\ openings = <<>> /\ walk = Unread /\ edits = 0

-----------------------------------------------------------------------------
(* Packs and the draw *)

\* Packs of an active type are granted; its supply is not looked at.
ShelfGrant(k) ==
  /\ Len(packs) < MaxPacks /\ types[k].active
  /\ packs' = Append(packs, [type |-> k, opened |-> FALSE])
  /\ UNCHANGED <<stockVars, types, draw, openings, walk, edits>>

get_available_packs == {i \in DOMAIN packs : ~packs[i].opened /\ types[packs[i].type].active}

\* What a category may yield: the whole pool if it is short, else any "count" of it.
Samples(category) ==
  LET count  == category.count
      pool   == category.pool
      Places == {f \in [1 .. count -> DOMAIN pool] : IsInjective(f)}
  IN IF Len(pool) < count THEN {pool} ELSE {[i \in 1 .. count |-> pool[f[i]]] : f \in Places}

Picks(slots) == FoldLeft(LAMBDA done, category : {a \o b : a \in done, b \in Samples(category)},
                         {<<>>}, slots)

Found(s) == {c \in Cards : TokenOf[c] = s /\ cardOn[c] /\ tokenOn[s]}
Missing == {s \in Symbols : Found(s) = {}}

\* The random numbers are those of the seeds, so all picks are known at once.
\* "gone" collects the symbols without a card at some moment of the draw.
ShelfPrepare(i) ==
  LET type == types[packs[i].type] IN
  /\ draw = NoRow /\ ~packs[i].opened
  /\ \A o \in DOMAIN openings : openings[o].pack # i
  /\ type.active /\ type.slots # NoRow
  /\ \E picks \in Picks(type.slots) :
       draw' = [pack |-> i, slots |-> type.slots, todo |-> picks, cards |-> <<>>, gone |-> Missing]
  /\ UNCHANGED <<stockVars, types, packs, openings, walk, edits>>

\* (Wrong: a card of a token that is switched off will do.)
LookupAnyToken ==
  /\ draw # NoRow /\ draw.todo # <<>>
  /\ LET found == {c \in Cards : TokenOf[c] = Head(draw.todo) /\ cardOn[c]}
         rest  == [draw EXCEPT !.todo = Tail(@)]
     IN \/ draw' = rest
        \/ \E c \in found : draw' = [rest EXCEPT !.cards = Append(@, c)]
  /\ UNCHANGED <<stockVars, types, packs, openings, walk, edits>>

\* A symbol becomes some active card of it; without one it is skipped.
_get_card_id_by_symbol ==
  /\ draw # NoRow /\ draw.todo # <<>>
  /\ LET found == Found(Head(draw.todo))
         rest  == [draw EXCEPT !.todo = Tail(@)]
     IN \/ found = {} /\ draw' = rest
        \/ \E c \in found : draw' = [rest EXCEPT !.cards = Append(@, c)]
  /\ UNCHANGED <<stockVars, types, packs, openings, walk, edits>>

\* An opening of no card is refused.
ShelfStore ==
  /\ draw # NoRow /\ draw.todo = <<>> /\ draw' = NoRow
  /\ openings' = IF draw.cards = <<>> THEN openings
                 ELSE Append(openings, [pack |-> draw.pack, slots |-> draw.slots, cards |-> draw.cards,
                                        gone |-> draw.gone, status |-> "prepared"])
  /\ UNCHANGED <<stockVars, types, packs, walk, edits>>

ShelfConfirm(o) ==
  /\ openings[o].status = "prepared"
  /\ openings' = [openings EXCEPT ![o].status = "completed"]
  /\ packs' = [packs EXCEPT ![openings[o].pack].opened = TRUE]
  /\ UNCHANGED <<stockVars, types, draw, walk, edits>>

-----------------------------------------------------------------------------
(* The panel *)

\* A token or a card is switched on or off, whoever is drawing.
ShelfSwitch ==
  /\ edits < MaxEdits /\ edits' = edits + 1
  /\ \/ /\ \E s \in Symbols : tokenOn' = [tokenOn EXCEPT ![s] = ~@]
        /\ UNCHANGED cardOn
     \/ /\ \E c \in Cards : cardOn' = [cardOn EXCEPT ![c] = ~@]
        /\ UNCHANGED tokenOn
  /\ draw' = IF draw = NoRow THEN NoRow ELSE [draw EXCEPT !.gone = @ \cup Missing']
  /\ UNCHANGED <<types, packs, openings, walk>>

Bought(k) == Cardinality({i \in DOMAIN packs : packs[i].type = k})

\* PUT of a pack type: a supply below what was issued is refused.
update_pack_type(k) ==
  /\ edits < MaxEdits /\ edits' = edits + 1
  /\ \/ types' = [types EXCEPT ![k].active = ~@]
     \/ \E slots \in AnySlots : types' = [types EXCEPT ![k].slots = slots]
     \/ Bought(k) <= 1 /\ types' = [types EXCEPT ![k].supply = 1]
  /\ UNCHANGED <<stockVars, packs, draw, openings, walk>>

-----------------------------------------------------------------------------
(* The history: a page of openings, then the cards of each *)

\* The user_cards of an opening, which a prepared one has not got yet.
_get_opening_cards(o) == IF openings[o].status = "completed" THEN openings[o].cards ELSE <<>>

\* By id the same cards are shown, with the token's image for a missing one.
get_pack_opening_by_id(o) == _get_opening_cards(o)

\* Newest first, from the offset of the client on.
Page(offset) == {o \in DOMAIN openings : Len(openings) - o \in offset .. offset + PageSize - 1}

\* The client reads until a page is empty.  (The total is a statement of its own
\* and may be older than the page; whether it is 0 is all that is used of it.)  A
\* card without an image fails the answer outside the service, which catches errors.
Read(shown, next) ==
  /\ walk.pc \in {"idle", "next"}
  /\ walk' =
       IF \E o \in shown : ~(ToSet(_get_opening_cards(o)) \subseteq Rendered)
       THEN [walk EXCEPT !.pc = "failed"]
       ELSE [walk EXCEPT !.pc = IF shown = {} THEN "done" ELSE "next",
                         !.offset = next, !.total = Len(openings), !.shown = @ \cup shown,
                         !.owed = IF walk.pc = "idle" THEN DOMAIN openings ELSE @]
  /\ UNCHANGED <<stockVars, types, packs, draw, openings, edits>>

\* (Wrong: the next page starts one opening too far.)
HistorySkips == Read(Page(walk.offset), walk.offset + PageSize + 1)

get_pack_history == Read(Page(walk.offset), walk.offset + PageSize)

\* Any error of the request is answered, with 200, as an empty history.
HistoryError ==
  /\ walk.pc \in {"idle", "next"}
  /\ walk' = [walk EXCEPT !.pc = "done", !.total = 0,
                          !.owed = IF walk.pc = "idle" THEN DOMAIN openings ELSE @]
  /\ UNCHANGED <<stockVars, types, packs, draw, openings, edits>>

ShelfNext ==
  \/ \E k \in PackTypes : ShelfGrant(k)
  \/ \E k \in PackTypes : update_pack_type(k)
  \/ \E i \in DOMAIN packs : ShelfPrepare(i)
  \/ _get_card_id_by_symbol \/ ShelfStore
  \/ \E o \in DOMAIN openings : ShelfConfirm(o)
  \/ ShelfSwitch
  \/ get_pack_history \/ HistoryError

ShelfSpec == ShelfInit /\ [][ShelfNext]_shelfVars

-----------------------------------------------------------------------------
(* Properties *)

PackType == [active : BOOLEAN, slots : AnySlots, supply : {NoRow, 1}]

ShelfTypeOK ==
  /\ tokenOn \in [Symbols -> BOOLEAN] /\ cardOn \in [Cards -> BOOLEAN]
  /\ types \in [PackTypes -> PackType]
  /\ packs \in Seq([type : PackTypes, opened : BOOLEAN]) /\ Len(packs) <= MaxPacks
  /\ \A o \in DOMAIN openings : /\ openings[o].pack \in DOMAIN packs
                                /\ openings[o].cards \in Seq(Cards) \ {<<>>}
                                /\ openings[o].status \in {"prepared", "completed"}
  /\ walk.pc \in {"idle", "next", "done", "failed"}
  /\ walk.shown \subseteq DOMAIN openings /\ walk.owed \subseteq DOMAIN openings
  /\ edits \in 0 .. MaxEdits

\* _deterministic_card_ids_from_rng: whatever an administrator switches during
\* a draw, a symbol fills no more cards than the pools of its pack type list it,
\* and a pack is smaller than its type promises only by symbols that had no
\* card to give at some moment of the draw.
DrawKept ==
  /\ ShelfTypeOK
  /\ \A o \in DOMAIN openings :
      LET opening  == openings[o]
          category == opening.slots
          Listed(S) == MapThenSumSet(LAMBDA k :
                         Cardinality({i \in DOMAIN category[k].pool : category[k].pool[i] \in S}),
                         DOMAIN category)
          Promised == MapThenSumSet(LAMBDA k : Min({category[k].count, Len(category[k].pool)}),
                                    DOMAIN category)
      IN /\ \A s \in Symbols :
              Cardinality({i \in DOMAIN opening.cards : TokenOf[opening.cards[i]] = s}) <= Listed({s})
         /\ Len(opening.cards) <= Promised
         /\ Len(opening.cards) + Listed(opening.gone) >= Promised

\* get_pack_history: a client that reads on to an empty page, and is told a total
\* with it, has been shown every opening there was when it began, although each
\* opening added meanwhile moves the pages.  (An empty page of total 0 says
\* nothing to one that had openings: it is what an error is answered with.)
\* And a pack of an active type is offered until its cards are shown.
HistoryComplete ==
  /\ walk.pc = "done" /\ walk.total # 0 => walk.owed \subseteq walk.shown
  /\ \A i \in DOMAIN packs : types[packs[i].type].active =>
       (i \in get_available_packs <=>
          \A o \in DOMAIN openings : openings[o].pack = i => get_pack_opening_by_id(o) = <<>>)
================================================================================
