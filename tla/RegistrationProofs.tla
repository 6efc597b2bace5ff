-------------------------- MODULE RegistrationProofs --------------------------
(***************************************************************************)
(* What holds of TournamentRegistration for every number of players, cards, *)
(* tournaments and requests, when the requests of one player do not overlap. *)
(***************************************************************************)
EXTENDS TournamentRegistration, FiniteSetTheorems, TLAPS

-----------------------------------------------------------------------------
(* Types: what requests and front ends remember, by where they are. *)

\* The deck an unregister request has found stays in its table.
DeckPlaced == \A r \in Requests : req[r].pc \in {"proof", "unlock"} => decks[req[r].deck] # None

TypeInv == TypeOK /\ DeckPlaced

LEMMA RequestType ==
  ASSUME TypeOK, NEW r \in Requests
  PROVE  /\ req[r].pc = "idle" <=> req[r] = Idle
         /\ req[r].pc \in {"idle", "deck", "cards", "verify", "find", "proof", "unlock"}
         /\ req[r] # Idle => /\ req[r].user \in Users /\ req[r].t \in Tournaments
                             /\ req[r].tx \in TxIds
         /\ req[r].pc \in {"deck", "cards", "verify"} => req[r].cards \in SUBSET Cards
         /\ req[r].pc \in {"proof", "unlock"} => req[r].deck \in DeckIds
         /\ req[r].pc = "unlock" => req[r].locked \in SUBSET Cards
<1>1. req[r] \in Request
  BY DEF TypeOK
<1>. QED
  BY <1>1 DEF Request, Idle

LEMMA ClientType ==
  ASSUME TypeOK, NEW u \in Users
  PROVE  /\ client[u].pc = "idle" <=> client[u] = Idle
         /\ client[u].pc \in {"idle", "previewed", "mined", "left"}
         /\ client[u] # Idle => client[u].t \in Tournaments
         /\ client[u].pc \in {"previewed", "mined"} => client[u].cards \in SUBSET Cards
         /\ client[u].pc \in {"mined", "left"} => client[u].tx \in TxIds
<1>1. client[u] \in Client
  BY DEF TypeOK
<1>. QED
  BY <1>1 DEF Client, Idle

LEMMA InitTypes == Init => TypeInv
<1> SUFFICES ASSUME Init PROVE TypeInv
  OBVIOUS
<1>1. TypeOK
  <2>1. client \in [Users -> Client] /\ req \in [Requests -> Request]
    BY DEF Init, Idle, Request, Client
  <2>2. weight \in [Tokens -> Nat] /\ faults \in 0 .. MaxFaults
    BY WeightAssumption, NumberAssumption DEF Init
  <2>3. registrations \in [Tournaments -> [Users -> Hash \cup {None}]]
    BY DEF Init
  <2>4. /\ cardStatus \in [Cards -> {"available", "locked", "expired"}]
        /\ isActive \in [Cards -> BOOLEAN] /\ lapsed \subseteq Cards
    BY DEF Init
  <2>5. tstatus \in [Tournaments -> {"registration", "ongoing", "finished"}] /\ cleanup \in BOOLEAN
    BY DEF Init
  <2>6. /\ decks \in [DeckIds -> Deck \cup {None}] /\ nextDeckId \in Nat \ {0}
        /\ txs \in [TxIds -> Tx \cup {None}] /\ nextTx \in Nat \ {0}
    BY DEF Init
  <2>. QED
    BY <2>1, <2>2, <2>3, <2>4, <2>5, <2>6 DEF TypeOK
<1>2. DeckPlaced
  BY DEF Init, DeckPlaced, Idle
<1>. QED
  BY <1>1, <1>2 DEF TypeInv

LEMMA ClientTypes ==
  ASSUME TypeInv, NEW u \in Users, Act(u) \/ Send(u)
  PROVE  TypeInv'
<1> USE DEF gameVars, cardVars, deckVars, chainVars
<1>0. TypeOK /\ DeckPlaced
  BY DEF TypeInv
<1>1. ASSUME NEW t \in Tournaments, NEW cards \in SUBSET Cards, Preview(u, t, cards)
      PROVE  TypeInv'
  <2>1. client' \in [Users -> Client]
    BY <1>0, <1>1 DEF Preview, TypeOK, Client
  <2>. QED
    BY <1>0, <1>1, <2>1 DEF Preview, TypeInv, TypeOK, DeckPlaced
<1>2. CASE registerDeck(u)
  <2>1. client[u].t \in Tournaments /\ client[u].cards \in SUBSET Cards /\ nextTx \in TxIds
    BY <1>0, <1>2, ClientType DEF registerDeck, Idle
  <2>2. generate_deck_hash(client[u].t, u, client[u].cards) \in Hash
    BY <2>1 DEF generate_deck_hash, Hash
  <2>3. registrations' \in [Tournaments -> [Users -> Hash \cup {None}]]
    BY <1>0, <1>2, <2>1, <2>2 DEF registerDeck, TypeOK
  <2>4. txs' \in [TxIds -> Tx \cup {None}]
    BY <1>0, <1>2, <2>1, <2>2 DEF registerDeck, TypeOK, Tx
  <2>5. client' \in [Users -> Client]
    BY <1>0, <1>2, <2>1 DEF registerDeck, TypeOK, Client
  <2>6. nextTx' \in Nat \ {0}
    BY <1>0, <1>2 DEF registerDeck, TypeOK
  <2>. QED
    BY <1>0, <1>2, <2>3, <2>4, <2>5, <2>6 DEF registerDeck, TypeInv, TypeOK, DeckPlaced
<1>3. ASSUME NEW t \in Tournaments, unregisterDeck(u, t) PROVE TypeInv'
  <2>1. registrations' \in [Tournaments -> [Users -> Hash \cup {None}]]
    BY <1>0, <1>3 DEF unregisterDeck, TypeOK
  <2>2. txs' \in [TxIds -> Tx \cup {None}]
    BY <1>0, <1>3 DEF unregisterDeck, TypeOK, Tx
  <2>3. client' \in [Users -> Client]
    BY <1>0, <1>3 DEF unregisterDeck, TypeOK, Client
  <2>4. nextTx' \in Nat \ {0}
    BY <1>0, <1>3 DEF unregisterDeck, TypeOK
  <2>. QED
    BY <1>0, <1>3, <2>1, <2>2, <2>3, <2>4 DEF unregisterDeck, TypeInv, TypeOK, DeckPlaced
<1>4. CASE GiveUp(u)
  <2>1. client' \in [Users -> Client]
    BY <1>0, <1>4 DEF GiveUp, TypeOK, Client
  <2>. QED
    BY <1>0, <1>4, <2>1 DEF GiveUp, TypeInv, TypeOK, DeckPlaced
<1>5. ASSUME NEW r \in Requests, RegisterBegin(r, u) PROVE TypeInv'
  <2>1. client[u].t \in Tournaments /\ client[u].cards \in SUBSET Cards /\ client[u].tx \in TxIds
    BY <1>0, <1>5, ClientType DEF RegisterBegin, Idle
  <2>2. req' \in [Requests -> Request]
    BY <1>0, <1>5, <2>1 DEF RegisterBegin, TypeOK, Request
  <2>3. \A q \in Requests : q # r => req'[q] = req[q]
    BY <1>0, <1>5 DEF RegisterBegin, TypeOK
  <2>4. req'[r].pc = "deck"
    BY <1>0, <1>5 DEF RegisterBegin, TypeOK
  <2>. QED
    BY <1>0, <1>5, <2>2, <2>3, <2>4 DEF RegisterBegin, TypeInv, TypeOK, DeckPlaced
<1>6. ASSUME NEW r \in Requests, UnregisterBegin(r, u) PROVE TypeInv'
  <2>1. client[u].t \in Tournaments /\ client[u].tx \in TxIds
    BY <1>0, <1>6, ClientType DEF UnregisterBegin, Idle
  <2>2. req' \in [Requests -> Request]
    BY <1>0, <1>6, <2>1 DEF UnregisterBegin, TypeOK, Request
  <2>3. \A q \in Requests : q # r => req'[q] = req[q]
    BY <1>0, <1>6 DEF UnregisterBegin, TypeOK
  <2>4. req'[r].pc = "find"
    BY <1>0, <1>6 DEF UnregisterBegin, TypeOK
  <2>. QED
    BY <1>0, <1>6, <2>2, <2>3, <2>4 DEF UnregisterBegin, TypeInv, TypeOK, DeckPlaced
<1>7. ASSUME NEW x \in TxIds, TakeUp(u, x) PROVE TypeInv'
  <2>1. txs[x] \in Tx
    BY <1>0, <1>7 DEF TakeUp, TypeOK
  <2>2. CASE txs[x].kind = "registerDeck"
    <3>1. txs[x].t \in Tournaments /\ txs[x].hash \in Hash
      BY <2>1, <2>2 DEF Tx
    <3>2. txs[x].hash.cards \in SUBSET Cards
      BY <3>1 DEF Hash
    <3>3. client' \in [Users -> Client]
      BY <1>0, <1>7, <2>2, <3>1, <3>2 DEF TakeUp, TypeOK, Client
    <3>. QED
      BY <1>0, <1>7, <3>3 DEF TakeUp, TypeInv, TypeOK, DeckPlaced
  <2>3. CASE txs[x].kind # "registerDeck"
    <3>1. txs[x].t \in Tournaments
      BY <2>1 DEF Tx
    <3>2. client' \in [Users -> Client]
      BY <1>0, <1>7, <2>3, <3>1 DEF TakeUp, TypeOK, Client
    <3>. QED
      BY <1>0, <1>7, <3>2 DEF TakeUp, TypeInv, TypeOK, DeckPlaced
  <2>. QED
    BY <2>2, <2>3
<1>. QED
  BY <1>1, <1>2, <1>3, <1>4, <1>5, <1>6, <1>7 DEF Act, Send

\* The client of an answered request goes back to the start or stays as it was.
LEMMA AnsweredType ==
  ASSUME TypeOK, NEW r \in Requests, Answered(r)
  PROVE  client' \in [Users -> Client]
BY DEF TypeOK, Answered, Client

\* A request that takes a step to a place where it holds no deck keeps the types.
LEMMA StepTypes ==
  ASSUME TypeInv, NEW r \in Requests, NEW to \in Request,
         to.pc \notin {"proof", "unlock"},
         req' = [req EXCEPT ![r] = to],
         UNCHANGED <<gameVars, cardVars, deckVars, chainVars, client, faults>>
  PROVE  TypeInv'
<1> USE DEF gameVars, cardVars, deckVars, chainVars
<1>1. req' \in [Requests -> Request]
  BY DEF TypeInv, TypeOK
<1>2. \A q \in Requests : req'[q] = req[q] \/ req'[q] = to
  BY DEF TypeInv, TypeOK
<1>. QED
  BY <1>1, <1>2 DEF TypeInv, TypeOK, DeckPlaced

LEMMA IdleRequest == Idle \in Request /\ Idle.pc = "idle"
BY DEF Idle, Request

LEMMA RegisterTypes ==
  ASSUME TypeInv, NEW r \in Requests,
         RegisterDeck(r) \/ RegisterCards(r) \/ RegisterCommit(r) \/ RegisterRefused(r)
  PROVE  TypeInv'
<1>0. TypeOK /\ DeckPlaced
  BY DEF TypeInv
<1>1. CASE RegisterDeck(r)
  <2>1. [req[r] EXCEPT !.pc = "cards"] \in Request /\ [req[r] EXCEPT !.pc = "cards"].pc = "cards"
    <3>1. req[r] \in [pc: {"deck", "cards", "verify"}, user: Users, t: Tournaments,
                      cards: SUBSET Cards, tx: TxIds]
      BY <1>0, <1>1 DEF RegisterDeck, TypeOK, Request, Idle
    <3>. QED
      BY <3>1 DEF Request
  <2>2. CASE ActiveDecks(req[r].t, req[r].user) # {}
    BY <1>1, <2>2, IdleRequest, StepTypes DEF RegisterDeck
  <2>3. CASE ~(ActiveDecks(req[r].t, req[r].user) # {})
    BY <1>1, <2>1, <2>3, StepTypes DEF RegisterDeck
  <2>. QED
    BY <2>2, <2>3
<1>2. CASE RegisterCards(r)
  <2>1. [req[r] EXCEPT !.pc = "verify"] \in Request /\ [req[r] EXCEPT !.pc = "verify"].pc = "verify"
    <3>1. req[r] \in [pc: {"deck", "cards", "verify"}, user: Users, t: Tournaments,
                      cards: SUBSET Cards, tx: TxIds]
      BY <1>0, <1>2 DEF RegisterCards, TypeOK, Request, Idle
    <3>. QED
      BY <3>1 DEF Request
  <2>2. CASE ValidCards(req[r].user, req[r].cards)
    BY <1>2, <2>1, <2>2, StepTypes DEF RegisterCards
  <2>3. CASE ~ValidCards(req[r].user, req[r].cards)
    BY <1>2, <2>3, IdleRequest, StepTypes DEF RegisterCards
  <2>. QED
    BY <2>2, <2>3
<1>3. CASE RegisterCommit(r)
  <2>1. /\ req[r].user \in Users /\ req[r].t \in Tournaments /\ req[r].tx \in TxIds
        /\ req[r].cards \in SUBSET Cards /\ nextDeckId \in DeckIds
    BY <1>0, <1>3, RequestType DEF RegisterCommit, Idle
  <2>2. decks' \in [DeckIds -> Deck \cup {None}] /\ nextDeckId' \in Nat \ {0}
    BY <1>0, <1>3, <2>1, IdAssumption DEF RegisterCommit, TypeOK, Deck
  <2>3. cardStatus' \in [Cards -> {"available", "locked", "expired"}]
    BY <1>0, <1>3 DEF RegisterCommit, TypeOK
  <2>4. req' \in [Requests -> Request]
    BY <1>0, <1>3, IdleRequest DEF RegisterCommit, TypeOK
  <2>5. client' \in [Users -> Client]
    BY <1>0, <1>3, AnsweredType DEF RegisterCommit
  <2>6. DeckPlaced'
    <3>1. ASSUME NEW q \in Requests, req'[q].pc \in {"proof", "unlock"}
          PROVE  decks'[req'[q].deck] # None
      <4>1. q # r /\ req'[q] = req[q]
        BY <1>0, <1>3, <3>1, IdleRequest DEF RegisterCommit, TypeOK
      <4>2. req[q].deck \in DeckIds /\ decks[req[q].deck] # None
        BY <1>0, <3>1, <4>1, RequestType DEF DeckPlaced
      <4>3. [t |-> req[r].t, user |-> req[r].user, cards |-> req[r].cards, tx |-> req[r].tx,
             active |-> TRUE] \in Deck
        BY <2>1 DEF Deck
      <4>. QED
        BY <1>0, <1>3, <4>1, <4>2, <4>3, NoneAssumption DEF RegisterCommit, TypeOK
    <3>. QED
      BY <3>1 DEF DeckPlaced
  <2>. QED
    BY <1>0, <1>3, <2>2, <2>3, <2>4, <2>5, <2>6
       DEF RegisterCommit, TypeInv, TypeOK, gameVars, chainVars
<1>4. CASE RegisterRefused(r)
  BY <1>4, IdleRequest, StepTypes DEF RegisterRefused
<1>. QED
  BY <1>1, <1>2, <1>3, <1>4

LEMMA UnregisterTypes ==
  ASSUME TypeInv, NEW r \in Requests,
         UnregisterFind(r) \/ UnregisterVerify(r) \/ UnregisterCommit(r)
  PROVE  TypeInv'
<1> USE DEF gameVars, cardVars, deckVars, chainVars
<1>0. TypeOK /\ DeckPlaced
  BY DEF TypeInv
<1>1. CASE UnregisterFind(r)
  <2>1. CASE req' = [req EXCEPT ![r] = Idle]
    BY <1>1, <2>1, IdleRequest, StepTypes DEF UnregisterFind
  <2>2. ASSUME NEW i \in ActiveDecks(req[r].t, req[r].user),
               req' = [req EXCEPT ![r] = [pc |-> "proof", user |-> req[r].user, t |-> req[r].t,
                                          tx |-> req[r].tx, deck |-> i]]
        PROVE  TypeInv'
    <3>1. /\ req[r].user \in Users /\ req[r].t \in Tournaments /\ req[r].tx \in TxIds
          /\ i \in DeckIds /\ decks[i] # None
      BY <1>0, <1>1, RequestType DEF UnregisterFind, Idle, ActiveDecks
    <3>2. req' \in [Requests -> Request]
      BY <1>0, <2>2, <3>1 DEF TypeOK, Request
    <3>3. \A q \in Requests : req'[q] = req[q] \/ req'[q].deck = i
      BY <1>0, <2>2 DEF TypeOK
    <3>. QED
      BY <1>0, <1>1, <3>1, <3>2, <3>3 DEF UnregisterFind, TypeInv, TypeOK, DeckPlaced
  <2>. QED
    BY <1>1, <2>1, <2>2 DEF UnregisterFind
<1>2. CASE UnregisterVerify(r)
  <2> DEFINE found == [pc |-> "unlock", user |-> req[r].user, t |-> req[r].t, tx |-> req[r].tx,
                       deck |-> req[r].deck,
                       locked |-> {c \in decks[req[r].deck].cards : cardStatus[c] = "locked"}]
  <2>1. /\ req[r].user \in Users /\ req[r].t \in Tournaments /\ req[r].tx \in TxIds
        /\ req[r].deck \in DeckIds
    BY <1>0, <1>2, RequestType DEF UnregisterVerify, Idle
  <2>2. decks[req[r].deck] \in Deck
    BY <1>0, <1>2, <2>1 DEF UnregisterVerify, TypeOK, DeckPlaced
  <2>3. decks[req[r].deck].cards \in SUBSET Cards /\ decks[req[r].deck] # None
    BY <2>2, NoneAssumption DEF Deck
  <2>4. found \in Request /\ found.deck = req[r].deck
    BY <2>1, <2>3 DEF Request
  <2>5. req' = [req EXCEPT ![r] = found] \/ req' = [req EXCEPT ![r] = Idle]
    BY <1>2 DEF UnregisterVerify
  <2> HIDE DEF found
  <2>6. CASE req' = [req EXCEPT ![r] = Idle]
    BY <1>2, <2>6, IdleRequest, StepTypes DEF UnregisterVerify
  <2>7. CASE req' = [req EXCEPT ![r] = found]
    <3>1. req' \in [Requests -> Request]
      BY <1>0, <2>4, <2>7 DEF TypeOK
    <3>2. \A q \in Requests : req'[q] = req[q] \/ req'[q].deck = req[r].deck
      BY <1>0, <2>4, <2>7 DEF TypeOK
    <3>. QED
      BY <1>0, <1>2, <2>3, <3>1, <3>2 DEF UnregisterVerify, TypeInv, TypeOK, DeckPlaced
  <2>. QED
    BY <2>5, <2>6, <2>7
<1>3. CASE UnregisterCommit(r)
  <2>1. req[r].deck \in DeckIds /\ decks[req[r].deck] \in Deck
    BY <1>0, <1>3, RequestType DEF UnregisterCommit, TypeOK, DeckPlaced
  <2>2. [decks[req[r].deck] EXCEPT !.active = FALSE] \in Deck
    BY <2>1 DEF Deck
  <2>3. decks' \in [DeckIds -> Deck \cup {None}]
    BY <1>0, <1>3, <2>1, <2>2 DEF UnregisterCommit, TypeOK
  <2>4. cardStatus' \in [Cards -> {"available", "locked", "expired"}]
    BY <1>0, <1>3 DEF UnregisterCommit, TypeOK
  <2>5. req' \in [Requests -> Request]
    BY <1>0, <1>3, IdleRequest DEF UnregisterCommit, TypeOK
  <2>6. client' \in [Users -> Client]
    BY <1>0, <1>3, AnsweredType DEF UnregisterCommit
  <2>7. DeckPlaced'
    <3>1. ASSUME NEW q \in Requests, req'[q].pc \in {"proof", "unlock"}
          PROVE  decks'[req'[q].deck] # None
      <4>1. req'[q] = req[q]
        BY <1>0, <1>3, <3>1, IdleRequest DEF UnregisterCommit, TypeOK
      <4>2. req[q].deck \in DeckIds /\ decks[req[q].deck] # None
        BY <1>0, <3>1, <4>1, RequestType DEF DeckPlaced
      <4>. QED
        BY <1>0, <1>3, <2>1, <2>2, <4>1, <4>2, NoneAssumption DEF UnregisterCommit, TypeOK
    <3>. QED
      BY <3>1 DEF DeckPlaced
  <2>. QED
    BY <1>0, <1>3, <2>3, <2>4, <2>5, <2>6, <2>7 DEF UnregisterCommit, TypeInv, TypeOK
<1>. QED
  BY <1>1, <1>2, <1>3

LEMMA WorldTypes ==
  ASSUME TypeInv,
         \/ \E r \in Requests : RequestFails(r)
         \/ \E t \in Tournaments : StartTournament(t) \/ FinishTournament(t)
         \/ \E c \in Cards : Lapse(c)
         \/ CleanupCards
  PROVE  TypeInv'
<1> USE DEF gameVars, cardVars, deckVars, chainVars
<1>0. TypeOK /\ DeckPlaced
  BY DEF TypeInv
<1>1. ASSUME NEW r \in Requests, RequestFails(r) PROVE TypeInv'
  <2>1. req' \in [Requests -> Request]
    BY <1>0, <1>1, IdleRequest DEF RequestFails, TypeOK
  <2>2. \A q \in Requests : req'[q] = req[q] \/ req'[q] = Idle
    BY <1>0, <1>1 DEF RequestFails, TypeOK
  <2>3. faults' \in 0 .. MaxFaults
    BY <1>0, <1>1, NumberAssumption DEF RequestFails, TypeOK
  <2>. QED
    BY <1>0, <1>1, <2>1, <2>2, <2>3, IdleRequest DEF RequestFails, TypeInv, TypeOK, DeckPlaced
<1>2. ASSUME NEW t \in Tournaments, StartTournament(t) PROVE TypeInv'
  BY <1>0, <1>2 DEF StartTournament, TypeInv, TypeOK, DeckPlaced
<1>3. ASSUME NEW t \in Tournaments, FinishTournament(t) PROVE TypeInv'
  <2>1. weight' \in [Tokens -> Nat]
    BY <1>3, WeightAssumption DEF FinishTournament
  <2>. QED
    BY <1>0, <1>3, <2>1 DEF FinishTournament, TypeInv, TypeOK, DeckPlaced
<1>4. ASSUME NEW c \in Cards, Lapse(c) PROVE TypeInv'
  BY <1>0, <1>4 DEF Lapse, TypeInv, TypeOK, DeckPlaced
<1>5. CASE CleanupCards
  <2>1. /\ isActive' \in [Cards -> BOOLEAN]
        /\ cardStatus' \in [Cards -> {"available", "locked", "expired"}] /\ cleanup' \in BOOLEAN
    BY <1>0, <1>5 DEF CleanupCards, TypeOK
  <2>. QED
    BY <1>0, <1>5, <2>1 DEF CleanupCards, TypeInv, TypeOK, DeckPlaced
<1>. QED
  BY <1>1, <1>2, <1>3, <1>4, <1>5

LEMMA TypeStep == TypeInv /\ [Next]_vars => TypeInv'
<1> SUFFICES ASSUME TypeInv, [Next]_vars PROVE TypeInv'
  OBVIOUS
<1>1. ASSUME NEW u \in Users, Act(u) \/ Send(u) PROVE TypeInv'
  BY <1>1, ClientTypes
<1>2. ASSUME NEW r \in Requests, Serve(r) PROVE TypeInv'
  BY <1>2, RegisterTypes, UnregisterTypes DEF Serve
<1>3. CASE UNCHANGED vars
  BY <1>3 DEF TypeInv, TypeOK, DeckPlaced, vars, gameVars, cardVars, deckVars, chainVars
<1>. QED
  BY <1>1, <1>2, <1>3, WorldTypes DEF Next

\* Tables, contract, front ends and requests keep their shapes, overlapping or not.
THEOREM TypeCorrect == Spec => []TypeOK
<1>1. Init => TypeInv
  BY InitTypes
<1>2. TypeInv /\ [Next]_vars => TypeInv'
  BY TypeStep
<1>3. TypeInv => TypeOK
  BY DEF TypeInv
<1>. QED
  BY <1>1, <1>2, <1>3, PTL DEF Spec

-----------------------------------------------------------------------------
(* The inductive invariant of DecksAndLocks.  What a request has looked at is *)
(* still so when it commits, for nobody but its player could have changed it, *)
(* and he has no other request.                                              *)

OneRequest ==
  \A r, q \in Requests :
    req[r] # Idle /\ req[q] # Idle /\ req[r].user = req[q].user => r = q

FreshIds == \A i \in DeckIds : i >= nextDeckId => decks[i] = None

\* The contract takes one deck of a wallet at a time: what a successful registerDeck
\* put there is there until an unregisterDeck.
History ==
  \A x \in TxIds :
    /\ x >= nextTx => txs[x] = None
    /\ txs[x] # None /\ txs[x].kind = "registerDeck" /\ txs[x].ok =>
         registrations[txs[x].t][txs[x].user] = txs[x].hash \/ Withdrawn(x)

\* What its checks have found.
NoDeckFound ==
  \A r \in Requests : req[r].pc \in {"cards", "verify"} => ActiveDecks(req[r].t, req[r].user) = {}
CardsFree ==
  \A r \in Requests : req[r].pc = "verify" =>
    \A c \in req[r].cards : Owner[c] = req[r].user /\ HeldBy(c) = {}
DeckFound ==
  \A r \in Requests : req[r].pc \in {"proof", "unlock"} =>
    ActiveDecks(req[r].t, req[r].user) = {req[r].deck}
LocksRead ==
  \A r \in Requests : req[r].pc = "unlock" =>
    /\ req[r].locked \subseteq decks[req[r].deck].cards
    /\ \A c \in decks[req[r].deck].cards : isActive[c] => c \in req[r].locked

DecksOwned == \A i \in DeckIds : DeckActive(i) => \A c \in decks[i].cards : Owner[c] = decks[i].user

DecksVerified ==
  \A i \in DeckIds : DeckActive(i) =>
    VerifiedRegister(decks[i].tx, decks[i].user, decks[i].t, decks[i].cards)

LocksMatch ==
  \A c \in Cards : /\ isActive[c] => (cardStatus[c] = "locked" <=> HeldBy(c) # {})
                   /\ \A i, j \in HeldBy(c) : i = j

Memory == NoDeckFound /\ CardsFree /\ DeckFound /\ LocksRead
Tables == FreshIds /\ DecksOwned /\ LocksMatch /\ DecksVerified
IInv == TypeInv /\ OneRequest /\ History /\ Memory /\ Tables

LEMMA InitInv == Init => IInv
<1> SUFFICES ASSUME Init PROVE IInv
  OBVIOUS
<1>1. TypeInv
  BY InitTypes
<1>2. (\A i \in DeckIds : ~DeckActive(i)) /\ (\A c \in Cards : HeldBy(c) = {})
  BY DEF Init, DeckActive, HeldBy
<1>3. OneRequest /\ History
  BY DEF Init, Idle, OneRequest, History
<1>4. Memory
  BY DEF Init, Idle, Memory, NoDeckFound, CardsFree, DeckFound, LocksRead
<1>5. Tables
  BY <1>2 DEF Init, Tables, FreshIds, DecksOwned, LocksMatch, DecksVerified
<1>. QED
  BY <1>1, <1>3, <1>4, <1>5 DEF IInv

\* The invariant has what the run checks.
LEMMA InvSafe == IInv => DecksAndLocks
<1> SUFFICES ASSUME IInv PROVE DecksAndLocks
  OBVIOUS
<1>1. ASSUME NEW c \in Cards PROVE Cardinality(HeldBy(c)) <= 1
  <2>1. CASE HeldBy(c) = {}
    BY <2>1, FS_EmptySet
  <2>2. CASE HeldBy(c) # {}
    <3>1. PICK i \in HeldBy(c) : TRUE
      BY <2>2
    <3>2. HeldBy(c) = {i}
      BY <3>1 DEF IInv, Tables, LocksMatch
    <3>. QED
      BY <3>2, FS_Singleton
  <2>. QED
    BY <2>1, <2>2
<1>2. LockedIffDecked
  BY <1>1 DEF IInv, Tables, LocksMatch, LockedIffDecked
<1>3. ChainAgrees
  <2>1. ASSUME NEW i \in DeckIds, DeckActive(i)
        PROVE  /\ VerifiedRegister(decks[i].tx, decks[i].user, decks[i].t, decks[i].cards)
               /\ \/ registrations[decks[i].t][decks[i].user]
                       = generate_deck_hash(decks[i].t, decks[i].user, decks[i].cards)
                  \/ Withdrawn(decks[i].tx)
    <3>1. VerifiedRegister(decks[i].tx, decks[i].user, decks[i].t, decks[i].cards)
      BY <2>1 DEF IInv, Tables, DecksVerified
    <3>2. decks[i].tx \in TxIds
      BY <2>1 DEF DeckActive, IInv, TypeInv, TypeOK, Deck
    <3>3. PICK x \in TxIds : x = decks[i].tx
      BY <3>2
    <3>4. /\ txs[x] # None /\ txs[x].kind = "registerDeck" /\ txs[x].ok
          /\ txs[x].t = decks[i].t /\ txs[x].user = decks[i].user
          /\ txs[x].hash = generate_deck_hash(decks[i].t, decks[i].user, decks[i].cards)
      BY <3>1, <3>3 DEF VerifiedRegister
    <3>. QED
      BY <3>1, <3>3, <3>4 DEF IInv, History
  <2>. QED
    BY <2>1 DEF ChainAgrees
<1>. QED
  BY <1>2, <1>3 DEF IInv, TypeInv, DecksAndLocks

\* What is said of decks stays true while the decks stay.
LEMMA SameDecks ==
  ASSUME decks' = decks
  PROVE  /\ \A c \in Cards : HeldBy(c)' = HeldBy(c)
         /\ \A t \in Tournaments, u \in Users : ActiveDecks(t, u)' = ActiveDecks(t, u)
         /\ \A i \in DeckIds : DeckActive(i)' = DeckActive(i)
BY DEF HeldBy, ActiveDecks, DeckActive

\* What is said of transactions stays true while chain and contract stay.
LEMMA SameChain ==
  ASSUME UNCHANGED chainVars, History
  PROVE  History'
BY DEF chainVars, History, Withdrawn, VerifiedUnregister

\* A transaction that is mined stays what it is.
LEMMA MinedStays ==
  ASSUME TypeOK, History, DecksVerified, UNCHANGED decks, nextTx \in TxIds,
         \A x \in TxIds : x # nextTx => txs'[x] = txs[x]
  PROVE  DecksVerified'
<1>1. ASSUME NEW i \in DeckIds, DeckActive(i)
      PROVE  VerifiedRegister(decks[i].tx, decks[i].user, decks[i].t, decks[i].cards)'
  <2>1. VerifiedRegister(decks[i].tx, decks[i].user, decks[i].t, decks[i].cards)
    BY <1>1 DEF DecksVerified
  <2>2. PICK x \in TxIds : x = decks[i].tx
    BY <1>1 DEF DeckActive, TypeOK, Deck
  <2>3. x # nextTx
    BY <2>1, <2>2, IdAssumption DEF VerifiedRegister, History
  <2>. QED
    BY <2>1, <2>2, <2>3 DEF VerifiedRegister, generate_deck_hash
<1>. QED
  BY <1>1 DEF DecksVerified, DeckActive

\* Whoever may act has no request under way.
LEMMA NotServed ==
  ASSUME ~Overlap, NEW u \in Users, MayAct(u), NEW r \in Requests, req[r] # Idle
  PROVE  req[r].user # u
BY DEF MayAct, Served

-----------------------------------------------------------------------------
(* The front end and the contract *)

LEMMA ActKeeps ==
  ASSUME ~Overlap, IInv, NEW u \in Users, Act(u)
  PROVE  IInv'
<1> USE DEF gameVars, cardVars, deckVars, chainVars
<1>0. TypeOK /\ TypeInv'
  BY ClientTypes DEF IInv, TypeInv
<1>1. UNCHANGED <<req, decks, nextDeckId, cardStatus, isActive>> /\ MayAct(u)
  BY DEF Act, Preview, registerDeck, unregisterDeck, TakeUp, GiveUp
<1>3. OneRequest'
  BY <1>1 DEF IInv, OneRequest
<1>4. Memory'
  <2>1. NoDeckFound' /\ DeckFound'
    BY <1>1, SameDecks DEF IInv, Memory, NoDeckFound, DeckFound, ActiveDecks
  <2>2. CardsFree' /\ LocksRead'
    BY <1>1 DEF IInv, Memory, CardsFree, LocksRead, HeldBy, DeckActive
  <2>. QED
    BY <2>1, <2>2 DEF Memory
<1>5. FreshIds' /\ DecksOwned' /\ LocksMatch'
  BY <1>1 DEF IInv, Tables, FreshIds, DecksOwned, LocksMatch, HeldBy, DeckActive
<1>6. History' /\ DecksVerified'
  <2>1. CASE UNCHANGED chainVars
    <3>1. DecksVerified'
      BY <1>1, <2>1 DEF IInv, Tables, DecksVerified, DeckActive, VerifiedRegister,
                        generate_deck_hash
    <3>. QED
      BY <2>1, <3>1, SameChain DEF IInv
  <2>2. CASE registerDeck(u)
    <3> DEFINE t == client[u].t
               hash == generate_deck_hash(t, u, client[u].cards)
    <3>1. t \in Tournaments /\ nextTx \in TxIds /\ nextTx \in Nat /\ nextTx' = nextTx + 1
      BY <1>0, <2>2, ClientType, IdAssumption DEF registerDeck, Idle
    <3>2. /\ \A x \in TxIds : x # nextTx => txs'[x] = txs[x]
          /\ txs'[nextTx] = [kind |-> "registerDeck", user |-> u, t |-> t, hash |-> hash,
                             ok |-> registrations[t][u] = None]
      BY <1>0, <2>2, <3>1 DEF registerDeck, TypeOK
    <3>3. registrations' = IF registrations[t][u] = None
                           THEN [registrations EXCEPT ![t][u] = hash] ELSE registrations
      BY <2>2 DEF registerDeck
    <3>4. /\ registrations[t][u] = None => registrations'[t][u] = hash
          /\ registrations[t][u] # None => registrations' = registrations
          /\ \A s \in Tournaments, v \in Users :
               s # t \/ v # u => registrations'[s][v] = registrations[s][v]
      BY <1>0, <3>1, <3>3 DEF TypeOK
    <3> HIDE DEF t, hash
    <3>5. ASSUME NEW x \in TxIds, x # nextTx, txs[x] # None, txs[x].kind = "registerDeck",
                 txs[x].ok
          PROVE  registrations'[txs[x].t][txs[x].user] = txs[x].hash \/ Withdrawn(x)'
      <4>1. registrations[txs[x].t][txs[x].user] = txs[x].hash \/ Withdrawn(x)
        BY <3>5 DEF IInv, History
      <4>2. txs[x].t \in Tournaments /\ txs[x].user \in Users /\ txs[x].hash # None
        BY <1>0, <3>5, NoneAssumption DEF TypeOK, Tx
      <4>3. ASSUME Withdrawn(x) PROVE Withdrawn(x)'
        <5>1. PICK y \in TxIds : x < y /\ VerifiedUnregister(y, txs[x].user, txs[x].t)
          BY <4>3 DEF Withdrawn
        <5>2. y # nextTx
          BY <3>1, <5>1 DEF VerifiedUnregister, IInv, History
        <5>. QED
          BY <3>2, <3>5, <5>1, <5>2 DEF Withdrawn, VerifiedUnregister
      <4>. QED
        BY <3>4, <4>1, <4>2, <4>3
    <3>6. ASSUME NEW x \in TxIds, x >= nextTx' PROVE txs'[x] = None
      BY <3>1, <3>2, <3>6, IdAssumption DEF IInv, History
    <3>7. txs'[nextTx].ok => registrations'[txs'[nextTx].t][txs'[nextTx].user] = txs'[nextTx].hash
      <4>1. /\ txs'[nextTx].t = t /\ txs'[nextTx].user = u /\ txs'[nextTx].hash = hash
            /\ txs'[nextTx].ok = (registrations[t][u] = None)
        BY <3>2
      <4>. QED
        BY <3>4, <4>1
    <3>8. History'
      BY <3>2, <3>5, <3>6, <3>7 DEF History
    <3>9. DecksVerified'
      BY <1>0, <1>1, <3>1, <3>2, MinedStays DEF IInv, Tables
    <3>. QED
      BY <3>8, <3>9
  <2>3. ASSUME NEW t \in Tournaments, unregisterDeck(u, t) PROVE History' /\ DecksVerified'
    <3>1. nextTx \in TxIds /\ nextTx \in Nat /\ nextTx' = nextTx + 1
      BY <2>3, IdAssumption DEF unregisterDeck
    <3>2. /\ \A x \in TxIds : x # nextTx => txs'[x] = txs[x]
          /\ txs'[nextTx] = [kind |-> "unregisterDeck", user |-> u, t |-> t, hash |-> None,
                             ok |-> registrations[t][u] # None]
      BY <1>0, <2>3, <3>1 DEF unregisterDeck, TypeOK
    <3>3. \A s \in Tournaments, v \in Users :
            s # t \/ v # u => registrations'[s][v] = registrations[s][v]
      BY <1>0, <2>3 DEF unregisterDeck, TypeOK
    <3>4. txs'[nextTx] # None /\ txs'[nextTx].kind = "unregisterDeck"
      <4>1. txs'[nextTx] \in Tx
        BY <3>2 DEF Tx
      <4>. QED
        BY <3>2, <4>1, NoneAssumption
    <3>5. ASSUME NEW x \in TxIds, x # nextTx, txs[x] # None, txs[x].kind = "registerDeck",
                 txs[x].ok
          PROVE  registrations'[txs[x].t][txs[x].user] = txs[x].hash \/ Withdrawn(x)'
      <4>1. registrations[txs[x].t][txs[x].user] = txs[x].hash \/ Withdrawn(x)
        BY <3>5 DEF IInv, History
      <4>2. txs[x].t \in Tournaments /\ txs[x].user \in Users /\ txs[x].hash # None
        BY <1>0, <3>5, NoneAssumption DEF TypeOK, Tx
      <4>3. x < nextTx
        BY <3>1, <3>5, IdAssumption DEF IInv, History
      <4>4. ASSUME Withdrawn(x) PROVE Withdrawn(x)'
        <5>1. PICK y \in TxIds : x < y /\ VerifiedUnregister(y, txs[x].user, txs[x].t)
          BY <4>4 DEF Withdrawn
        <5>2. y # nextTx
          BY <3>1, <5>1 DEF VerifiedUnregister, IInv, History
        <5>. QED
          BY <3>2, <3>5, <5>1, <5>2 DEF Withdrawn, VerifiedUnregister
      <4>5. CASE registrations[txs[x].t][txs[x].user] = txs[x].hash /\ txs[x].t = t /\ txs[x].user = u
        <5>1. registrations[t][u] # None
          BY <4>2, <4>5
        <5>2. txs'[nextTx] = [kind |-> "unregisterDeck", user |-> u, t |-> t, ok |-> TRUE,
                              hash |-> None]
          BY <3>2, <5>1
        <5>3. /\ txs'[nextTx] # None /\ txs'[x] = txs[x]
              /\ txs'[nextTx] = [kind |-> "unregisterDeck", user |-> txs'[x].user,
                                 t |-> txs'[x].t, ok |-> TRUE, hash |-> None]
          BY <3>2, <3>4, <3>5, <4>5, <5>2
        <5>. QED
          BY <3>1, <4>3, <5>3 DEF Withdrawn, VerifiedUnregister
      <4>. QED
        BY <3>3, <4>1, <4>2, <4>4, <4>5
    <3>6. ASSUME NEW x \in TxIds, x >= nextTx' PROVE txs'[x] = None
      BY <3>1, <3>2, <3>6, IdAssumption DEF IInv, History
    <3>7. History'
      BY <3>2, <3>4, <3>5, <3>6 DEF History
    <3>8. DecksVerified'
      BY <1>0, <1>1, <3>1, <3>2, MinedStays DEF IInv, Tables
    <3>. QED
      BY <3>7, <3>8
  <2>. QED
    BY <2>1, <2>2, <2>3 DEF Act, Preview, TakeUp, GiveUp
<1>. QED
  BY <1>0, <1>3, <1>4, <1>5, <1>6 DEF IInv, Tables

-----------------------------------------------------------------------------
(* Requests *)

\* A request that only remembers something keeps the invariant when what it
\* remembers is so.
LEMMA MoveKeeps ==
  ASSUME IInv, TypeInv', NEW r \in Requests, NEW to,
         req' = [req EXCEPT ![r] = to],
         UNCHANGED <<decks, nextDeckId, cardStatus, isActive, chainVars>>,
         to # Idle => \A q \in Requests : q # r /\ req[q] # Idle => req[q].user # to.user,
         to.pc \in {"cards", "verify"} => ActiveDecks(to.t, to.user) = {},
         to.pc = "verify" => \A c \in to.cards : Owner[c] = to.user /\ HeldBy(c) = {},
         to.pc \in {"proof", "unlock"} => ActiveDecks(to.t, to.user) = {to.deck},
         to.pc = "unlock" => /\ to.locked \subseteq decks[to.deck].cards
                             /\ \A c \in decks[to.deck].cards : isActive[c] => c \in to.locked
  PROVE  IInv'
<1> USE DEF chainVars
<1>1. req'[r] = to /\ \A q \in Requests : q # r => req'[q] = req[q]
  BY DEF IInv, TypeInv, TypeOK
<1>2. OneRequest'
  BY <1>1 DEF IInv, OneRequest
<1>3. History'
  BY SameChain DEF IInv
<1>4. Tables'
  <2>1. FreshIds' /\ DecksOwned'
    BY DEF IInv, Tables, FreshIds, DecksOwned, DeckActive
  <2>2. LocksMatch'
    BY DEF IInv, Tables, LocksMatch, HeldBy, DeckActive
  <2>3. DecksVerified'
    BY DEF IInv, Tables, DecksVerified, DeckActive, VerifiedRegister, generate_deck_hash
  <2>. QED
    BY <2>1, <2>2, <2>3 DEF Tables
<1>5. Memory'
  <2>2. NoDeckFound' /\ DeckFound'
    BY <1>1 DEF IInv, Memory, NoDeckFound, DeckFound, ActiveDecks
  <2>3. CardsFree'
    BY <1>1 DEF IInv, Memory, CardsFree, HeldBy, DeckActive
  <2>4. LocksRead'
    BY <1>1 DEF IInv, Memory, LocksRead
  <2>. QED
    BY <2>2, <2>3, <2>4 DEF Memory
<1>. QED
  BY <1>2, <1>3, <1>4, <1>5 DEF IInv

LEMMA SendKeeps ==
  ASSUME ~Overlap, IInv, NEW u \in Users, Send(u)
  PROVE  IInv'
<1> USE DEF gameVars, cardVars, deckVars, chainVars
<1>0. TypeOK /\ TypeInv'
  BY ClientTypes DEF IInv, TypeInv
<1>1. ASSUME NEW r \in Requests, RegisterBegin(r, u) PROVE IInv'
  <2> DEFINE to == [pc |-> "deck", user |-> u, t |-> client[u].t, cards |-> client[u].cards,
                    tx |-> client[u].tx]
  <2>1. to.pc = "deck" /\ to.user = u
    OBVIOUS
  <2>2. req' = [req EXCEPT ![r] = to] /\ MayAct(u)
    BY <1>1 DEF RegisterBegin
  <2>3. UNCHANGED <<decks, nextDeckId, cardStatus, isActive, chainVars>>
    BY <1>1 DEF RegisterBegin
  <2> HIDE DEF to
  <2>. QED
    BY <1>0, <2>1, <2>2, <2>3, NotServed, MoveKeeps
<1>2. ASSUME NEW r \in Requests, UnregisterBegin(r, u) PROVE IInv'
  <2> DEFINE to == [pc |-> "find", user |-> u, t |-> client[u].t, tx |-> client[u].tx]
  <2>1. to.pc = "find" /\ to.user = u
    OBVIOUS
  <2>2. req' = [req EXCEPT ![r] = to] /\ MayAct(u)
    BY <1>2 DEF UnregisterBegin
  <2>3. UNCHANGED <<decks, nextDeckId, cardStatus, isActive, chainVars>>
    BY <1>2 DEF UnregisterBegin
  <2> HIDE DEF to
  <2>. QED
    BY <1>0, <2>1, <2>2, <2>3, NotServed, MoveKeeps
<1>. QED
  BY <1>1, <1>2 DEF Send

\* A request that ends without a commit leaves everything as it was.
LEMMA EndKeeps ==
  ASSUME IInv, TypeInv', NEW r \in Requests, req' = [req EXCEPT ![r] = Idle],
         UNCHANGED <<decks, nextDeckId, cardStatus, isActive, chainVars>>
  PROVE  IInv'
BY IdleRequest, MoveKeeps

\* The commit of a registration: the deck is new, its cards were free.
LEMMA RegisterCommitKeeps ==
  ASSUME IInv, NEW r \in Requests, RegisterCommit(r)
  PROVE  IInv'
<1> USE DEF gameVars, cardVars, deckVars, chainVars
<1>n. PICK n \in DeckIds : n = nextDeckId
  BY DEF RegisterCommit
<1> DEFINE u == req[r].user
           t == req[r].t
           new == [t |-> t, user |-> u, cards |-> req[r].cards, tx |-> req[r].tx, active |-> TRUE]
<1>0. TypeOK /\ TypeInv'
  BY RegisterTypes DEF IInv, TypeInv
<1>1. /\ u \in Users /\ t \in Tournaments /\ req[r].cards \in SUBSET Cards
      /\ req[r].tx \in TxIds /\ n \in DeckIds /\ n \in Nat /\ req[r].pc = "verify"
  BY <1>0, <1>n, RequestType, IdAssumption DEF RegisterCommit, Idle
<1>2. new \in Deck /\ new # None
  <2>1. new \in Deck
    BY <1>1 DEF Deck
  <2>. QED
    BY <2>1, NoneAssumption
<1>3. /\ decks[n] = None /\ decks'[n] = new /\ \A i \in DeckIds : i # n => decks'[i] = decks[i]
      /\ nextDeckId' = n + 1
  BY <1>0, <1>1, <1>n DEF RegisterCommit, TypeOK, IInv, Tables, FreshIds
<1>4. UNCHANGED <<isActive, registrations, txs, nextTx>>
  BY DEF RegisterCommit
<1>5. /\ req'[r] = Idle
      /\ \A q \in Requests : q # r => req'[q] = req[q] /\ (req[q] # Idle => req[q].user # u)
  BY <1>0, <1>1, IdleRequest DEF RegisterCommit, TypeOK, IInv, OneRequest
<1> HIDE DEF new
<1>7. /\ new.t = t /\ new.user = u /\ new.cards = req[r].cards /\ new.active = TRUE
  BY DEF new
<1>8. \A c \in Cards : HeldBy(c)' = IF c \in req[r].cards THEN {n} ELSE HeldBy(c)
  <2>1. \A i \in DeckIds : i # n => DeckActive(i)' = DeckActive(i)
    BY <1>3 DEF DeckActive
  <2>2. DeckActive(n)' /\ ~DeckActive(n)
    BY <1>2, <1>3, <1>7 DEF DeckActive
  <2>3. \A c \in req[r].cards : HeldBy(c) = {}
    BY <1>1 DEF IInv, Memory, CardsFree
  <2>4. ASSUME NEW c \in Cards, NEW i \in DeckIds, i # n
        PROVE  i \in HeldBy(c)' <=> i \in HeldBy(c)
    BY <1>3, <2>1, <2>4 DEF HeldBy
  <2>5. ASSUME NEW c \in Cards
        PROVE  n \notin HeldBy(c) /\ (n \in HeldBy(c)' <=> c \in req[r].cards)
    BY <1>1, <1>3, <1>7, <2>2 DEF HeldBy
  <2>6. \A c \in Cards : HeldBy(c) \subseteq DeckIds /\ HeldBy(c)' \subseteq DeckIds
    BY DEF HeldBy
  <2>7. ASSUME NEW c \in Cards, c \in req[r].cards PROVE HeldBy(c)' = {n}
    BY <1>1, <2>3, <2>4, <2>5, <2>6, <2>7
  <2>8. ASSUME NEW c \in Cards, c \notin req[r].cards PROVE HeldBy(c)' = HeldBy(c)
    <3>1. n \notin HeldBy(c) /\ n \notin HeldBy(c)'
      BY <2>5, <2>8
    <3>2. \A i \in DeckIds : i \in HeldBy(c)' <=> i \in HeldBy(c)
      BY <2>4, <2>8, <3>1
    <3>. QED
      BY <2>6, <2>8, <3>2
  <2>. QED
    BY <2>7, <2>8
<1>9. \A s \in Tournaments, v \in Users : v # u => ActiveDecks(s, v)' = ActiveDecks(s, v)
  BY <1>3, <1>7 DEF ActiveDecks
<1>10. \A c \in req[r].cards : Owner[c] = u
  BY <1>1 DEF IInv, Memory, CardsFree
<1>11. OneRequest'
  BY <1>5 DEF IInv, OneRequest
<1>12. History'
  BY <1>4, SameChain DEF IInv, chainVars
<1>14. Memory'
  <2>1. ASSUME NEW q \in Requests, req'[q].pc # "idle"
        PROVE  /\ q # r /\ req'[q] = req[q] /\ req[q].user \in Users /\ req[q].user # u
               /\ req[q].t \in Tournaments
    BY <1>0, <1>5, <2>1, RequestType, IdleRequest
  <2>3. NoDeckFound' /\ DeckFound'
    <3>1. ASSUME NEW q \in Requests, req'[q].pc # "idle"
          PROVE  ActiveDecks(req[q].t, req[q].user)' = ActiveDecks(req'[q].t, req'[q].user)
      BY <1>3, <1>7, <2>1, <3>1 DEF ActiveDecks
    <3>. QED
      BY <2>1, <3>1 DEF IInv, Memory, NoDeckFound, DeckFound
  <2>4. CardsFree'
    <3>1. ASSUME NEW q \in Requests, req'[q].pc = "verify", NEW c \in req[q].cards
          PROVE  Owner[c] = req[q].user /\ HeldBy(c)' = {}
      <4>1. req'[q] = req[q] /\ req[q].user # u /\ req[q].cards \in SUBSET Cards
        BY <1>0, <2>1, <3>1, RequestType
      <4>2. Owner[c] = req[q].user /\ HeldBy(c) = {}
        BY <3>1, <4>1 DEF IInv, Memory, CardsFree
      <4>. QED
        BY <1>8, <1>10, <4>1, <4>2
    <3>. QED
      BY <2>1, <3>1 DEF CardsFree
  <2>5. LocksRead'
    <3>1. ASSUME NEW q \in Requests, req'[q].pc = "unlock"
          PROVE  req'[q] = req[q] /\ decks'[req[q].deck] = decks[req[q].deck]
      BY <1>0, <1>3, <2>1, <3>1, RequestType DEF IInv, TypeInv, DeckPlaced
    <3>. QED
      BY <1>4, <3>1 DEF IInv, Memory, LocksRead
  <2>. QED
    BY <2>3, <2>4, <2>5 DEF Memory
<1>15. Tables'
  <2>1. FreshIds'
    <3>0. n \in Nat /\ DeckIds \subseteq Nat
      BY IdAssumption
    <3>1. ASSUME NEW i \in DeckIds, i >= n + 1 PROVE i # n /\ i >= n
      BY <3>0, <3>1
    <3>. QED
      BY <1>3, <1>n, <3>1 DEF IInv, Tables, FreshIds
  <2>2. DecksOwned'
    BY <1>3, <1>7, <1>10 DEF IInv, Tables, DecksOwned, DeckActive
  <2>3. LocksMatch'
    <3>1. \A c \in Cards : cardStatus'[c] = IF c \in req[r].cards THEN "locked" ELSE cardStatus[c]
      BY <1>0 DEF RegisterCommit
    <3>. QED
      BY <1>4, <1>8, <3>1 DEF IInv, Tables, LocksMatch
  <2>4. DecksVerified'
    <3>1. VerifiedRegister(req[r].tx, u, t, req[r].cards)
      BY DEF RegisterCommit
    <3>2. decks'[n].tx = req[r].tx
      BY <1>3 DEF new
    <3>3. VerifiedRegister(decks[n].tx, decks[n].user, decks[n].t, decks[n].cards)'
      BY <1>3, <1>4, <1>7, <3>1, <3>2 DEF VerifiedRegister, generate_deck_hash
    <3>4. ASSUME NEW i \in DeckIds, i # n, DeckActive(i)'
          PROVE  VerifiedRegister(decks[i].tx, decks[i].user, decks[i].t, decks[i].cards)'
      BY <1>3, <1>4, <3>4 DEF IInv, Tables, DecksVerified, DeckActive, VerifiedRegister,
                              generate_deck_hash
    <3>. QED
      BY <3>3, <3>4 DEF DecksVerified
  <2>. QED
    BY <2>1, <2>2, <2>3, <2>4 DEF Tables
<1>. QED
  BY <1>0, <1>11, <1>12, <1>14, <1>15 DEF IInv

LEMMA RegisterKeeps ==
  ASSUME IInv, NEW r \in Requests,
         RegisterDeck(r) \/ RegisterCards(r) \/ RegisterCommit(r) \/ RegisterRefused(r)
  PROVE  IInv'
<1> USE DEF cardVars, deckVars
<1>0. TypeOK /\ TypeInv'
  BY RegisterTypes DEF IInv, TypeInv
<1>1. req[r] # Idle => \A q \in Requests : q # r /\ req[q] # Idle => req[q].user # req[r].user
  BY DEF IInv, OneRequest
<1>2. CASE RegisterDeck(r)
  <2> DEFINE to == [req[r] EXCEPT !.pc = "cards"]
  <2>1. req[r] \in [pc: {"deck", "cards", "verify"}, user: Users, t: Tournaments,
                    cards: SUBSET Cards, tx: TxIds]
    BY <1>0, <1>2 DEF RegisterDeck, TypeOK, Request, Idle
  <2>2. /\ to.pc = "cards" /\ to.user = req[r].user /\ to.t = req[r].t
        /\ to.cards = req[r].cards /\ to.tx = req[r].tx /\ req[r] # Idle
    BY <2>1 DEF Idle
  <2>4. \/ req' = [req EXCEPT ![r] = Idle]
        \/ req' = [req EXCEPT ![r] = to] /\ ActiveDecks(req[r].t, req[r].user) = {}
    BY <1>2 DEF RegisterDeck
  <2>5. UNCHANGED <<decks, nextDeckId, cardStatus, isActive, chainVars>>
    BY <1>2 DEF RegisterDeck
  <2> HIDE DEF to
  <2>. QED
    BY <1>0, <1>1, <2>2, <2>4, <2>5, EndKeeps, MoveKeeps
<1>3. CASE RegisterCards(r)
  <2> DEFINE to == [req[r] EXCEPT !.pc = "verify"]
  <2>1. req[r] \in [pc: {"deck", "cards", "verify"}, user: Users, t: Tournaments,
                    cards: SUBSET Cards, tx: TxIds]
    BY <1>0, <1>3 DEF RegisterCards, TypeOK, Request, Idle
  <2>2. /\ to.pc = "verify" /\ to.user = req[r].user /\ to.t = req[r].t
        /\ to.cards = req[r].cards /\ to.tx = req[r].tx /\ req[r] # Idle
    BY <2>1 DEF Idle
  <2>3. ActiveDecks(req[r].t, req[r].user) = {}
    BY <1>3 DEF RegisterCards, IInv, Memory, NoDeckFound
  <2>4. ASSUME ValidCards(req[r].user, req[r].cards), NEW c \in req[r].cards
        PROVE  Owner[c] = req[r].user /\ HeldBy(c) = {}
    BY <2>1, <2>4 DEF ValidCards, IInv, Tables, LocksMatch
  <2>5. \/ req' = [req EXCEPT ![r] = Idle]
        \/ req' = [req EXCEPT ![r] = to] /\ ValidCards(req[r].user, req[r].cards)
    BY <1>3 DEF RegisterCards
  <2>6. UNCHANGED <<decks, nextDeckId, cardStatus, isActive, chainVars>>
    BY <1>3 DEF RegisterCards
  <2> HIDE DEF to
  <2>. QED
    BY <1>0, <1>1, <2>2, <2>3, <2>4, <2>5, <2>6, EndKeeps, MoveKeeps
<1>4. CASE RegisterCommit(r)
  BY <1>4, RegisterCommitKeeps
<1>5. CASE RegisterRefused(r)
  BY <1>0, <1>5, EndKeeps DEF RegisterRefused
<1>. QED
  BY <1>2, <1>3, <1>4, <1>5

\* The commit of a withdrawal: the deck found is the only one, and the cards read
\* as locked are all it holds that are still in play.
LEMMA UnregisterCommitKeeps ==
  ASSUME IInv, NEW r \in Requests, UnregisterCommit(r)
  PROVE  IInv'
<1> USE DEF gameVars, cardVars, deckVars, chainVars
<1>d. PICK d \in DeckIds : d = req[r].deck
  BY RequestType DEF UnregisterCommit, IInv, TypeInv
<1> DEFINE u == req[r].user
           t == req[r].t
<1>0. TypeOK /\ TypeInv'
  BY UnregisterTypes DEF IInv, TypeInv
<1>1. u \in Users /\ t \in Tournaments /\ req[r].pc = "unlock" /\ req[r] # Idle
  BY <1>0, RequestType DEF UnregisterCommit, Idle
<1>2. /\ ActiveDecks(t, u) = {d}
      /\ DeckActive(d) /\ decks[d] \in Deck /\ decks[d].t = t /\ decks[d].user = u
  <2>1. ActiveDecks(t, u) = {d}
    BY <1>1, <1>d DEF IInv, Memory, DeckFound
  <2>2. d \in ActiveDecks(t, u)
    BY <2>1
  <2>. QED
    BY <1>0, <2>1, <2>2 DEF ActiveDecks, DeckActive, TypeOK
<1>3. /\ \A i \in DeckIds : i # d => decks'[i] = decks[i] /\ DeckActive(i)' = DeckActive(i)
      /\ decks'[d].cards = decks[d].cards /\ ~DeckActive(d)' /\ decks[d] # None
  <2>1. decks' = [decks EXCEPT ![d].active = FALSE]
    BY <1>d DEF UnregisterCommit
  <2>2. decks'[d].active = FALSE /\ decks'[d].cards = decks[d].cards
    BY <1>0, <1>2, <2>1 DEF TypeOK, Deck
  <2>3. \A i \in DeckIds : i # d => decks'[i] = decks[i]
    BY <1>0, <2>1 DEF TypeOK
  <2>. QED
    BY <1>2, <2>2, <2>3 DEF DeckActive
<1>4. UNCHANGED <<isActive, nextDeckId, registrations, txs, nextTx>>
  BY DEF UnregisterCommit
<1>5. /\ req'[r] = Idle
      /\ \A q \in Requests : q # r => req'[q] = req[q] /\ (req[q] # Idle => req[q].user # u)
  BY <1>0, <1>1, IdleRequest DEF UnregisterCommit, TypeOK, IInv, OneRequest
<1>7. \A c \in Cards : HeldBy(c)' = HeldBy(c) \ {d}
  <2>1. ASSUME NEW c \in Cards, NEW i \in DeckIds
        PROVE  i \in HeldBy(c)' <=> (i \in HeldBy(c) /\ i # d)
    BY <1>3, <2>1 DEF HeldBy
  <2>2. \A c \in Cards : HeldBy(c) \subseteq DeckIds /\ HeldBy(c)' \subseteq DeckIds
    BY DEF HeldBy
  <2>. QED
    BY <2>1, <2>2
<1>8. /\ \A s \in Tournaments, v \in Users : ActiveDecks(s, v)' \subseteq ActiveDecks(s, v)
      /\ \A s \in Tournaments, v \in Users : v # u => ActiveDecks(s, v)' = ActiveDecks(s, v)
  <2>1. ASSUME NEW s \in Tournaments, NEW v \in Users, NEW i \in DeckIds
        PROVE  i \in ActiveDecks(s, v)' <=> (i \in ActiveDecks(s, v) /\ i # d)
    BY <1>3, <2>1 DEF ActiveDecks, DeckActive
  <2>2. \A s \in Tournaments, v \in Users : v # u => d \notin ActiveDecks(s, v)
    BY <1>2 DEF ActiveDecks
  <2>3. \A s \in Tournaments, v \in Users :
          ActiveDecks(s, v) \subseteq DeckIds /\ ActiveDecks(s, v)' \subseteq DeckIds
    BY DEF ActiveDecks
  <2>. QED
    BY <2>1, <2>2, <2>3
<1>9. OneRequest'
  BY <1>5 DEF IInv, OneRequest
<1>10. History'
  BY <1>4, SameChain DEF IInv, chainVars
<1>12. Memory'
  <2>1. ASSUME NEW q \in Requests, req'[q].pc # "idle"
        PROVE  /\ q # r /\ req'[q] = req[q] /\ req[q].user \in Users /\ req[q].user # u
               /\ req[q].t \in Tournaments
    BY <1>0, <1>5, <2>1, RequestType, IdleRequest
  <2>3. NoDeckFound' /\ DeckFound'
    <3>1. ASSUME NEW q \in Requests, req'[q].pc # "idle"
          PROVE  ActiveDecks(req[q].t, req[q].user)' = ActiveDecks(req'[q].t, req'[q].user)
      BY <1>8, <2>1, <3>1 DEF ActiveDecks
    <3>. QED
      BY <2>1, <3>1 DEF IInv, Memory, NoDeckFound, DeckFound
  <2>4. CardsFree'
    <3>1. ASSUME NEW q \in Requests, req'[q].pc = "verify", NEW c \in req[q].cards
          PROVE  Owner[c] = req[q].user /\ HeldBy(c)' = {}
      <4>1. req'[q] = req[q] /\ req[q].cards \in SUBSET Cards
        BY <1>0, <2>1, <3>1, RequestType
      <4>2. Owner[c] = req[q].user /\ HeldBy(c) = {}
        BY <3>1, <4>1 DEF IInv, Memory, CardsFree
      <4>. QED
        BY <1>7, <4>1, <4>2
    <3>. QED
      BY <2>1, <3>1 DEF CardsFree
  <2>5. LocksRead'
    <3>1. ASSUME NEW q \in Requests, req'[q].pc = "unlock"
          PROVE  req'[q] = req[q] /\ decks'[req[q].deck] = decks[req[q].deck]
      <4>1. req'[q] = req[q] /\ req[q].user # u /\ req[q].deck \in DeckIds
        BY <1>0, <2>1, <3>1, RequestType
      <4>2. req[q].deck \in ActiveDecks(req[q].t, req[q].user)
        BY <3>1, <4>1 DEF IInv, Memory, DeckFound
      <4>3. req[q].deck # d
        BY <1>2, <4>1, <4>2 DEF ActiveDecks
      <4>. QED
        BY <1>3, <4>1, <4>3
    <3>. QED
      BY <1>4, <3>1 DEF IInv, Memory, LocksRead
  <2>. QED
    BY <2>3, <2>4, <2>5 DEF Memory
<1>13. Tables'
  <2>1. FreshIds'
    BY <1>3, <1>4 DEF IInv, Tables, FreshIds
  <2>2. DecksOwned'
    BY <1>3 DEF IInv, Tables, DecksOwned
  <2>3. LocksMatch'
    <3>1. /\ req[r].locked \subseteq decks[d].cards
          /\ \A c \in decks[d].cards : isActive[c] => c \in req[r].locked
      BY <1>1, <1>d DEF IInv, Memory, LocksRead
    <3>2. \A c \in Cards : cardStatus'[c] = IF c \in req[r].locked THEN "available" ELSE cardStatus[c]
      BY DEF UnregisterCommit
    <3>3. ASSUME NEW c \in Cards
          PROVE  /\ isActive'[c] => (cardStatus'[c] = "locked" <=> HeldBy(c)' # {})
                 /\ \A i, j \in HeldBy(c)' : i = j
      <4>1. /\ isActive[c] => (cardStatus[c] = "locked" <=> HeldBy(c) # {})
            /\ \A i, j \in HeldBy(c) : i = j
        BY DEF IInv, Tables, LocksMatch
      <4>2. d \in HeldBy(c) <=> c \in decks[d].cards
        BY <1>2 DEF HeldBy
      <4>3. CASE c \in decks[d].cards
        <5>1. HeldBy(c)' = {}
          BY <1>7, <4>1, <4>2, <4>3
        <5>. QED
          BY <1>4, <3>1, <3>2, <4>3, <5>1
      <4>4. CASE c \notin decks[d].cards
        <5>1. HeldBy(c)' = HeldBy(c)
          BY <1>7, <4>2, <4>4
        <5>. QED
          BY <1>4, <3>1, <3>2, <4>1, <4>4, <5>1
      <4>. QED
        BY <4>3, <4>4
    <3>. QED
      BY <3>3 DEF LocksMatch
  <2>4. DecksVerified'
    BY <1>3, <1>4 DEF IInv, Tables, DecksVerified, VerifiedRegister, generate_deck_hash
  <2>. QED
    BY <2>1, <2>2, <2>3, <2>4 DEF Tables
<1>. QED
  BY <1>0, <1>9, <1>10, <1>12, <1>13 DEF IInv

LEMMA UnregisterKeeps ==
  ASSUME IInv, NEW r \in Requests,
         UnregisterFind(r) \/ UnregisterVerify(r) \/ UnregisterCommit(r)
  PROVE  IInv'
<1> USE DEF cardVars, deckVars
<1>0. TypeOK /\ DeckPlaced /\ TypeInv'
  BY UnregisterTypes DEF IInv, TypeInv
<1>1. req[r] # Idle => \A q \in Requests : q # r /\ req[q] # Idle => req[q].user # req[r].user
  BY DEF IInv, OneRequest
<1>2. CASE UnregisterFind(r)
  <2>1. UNCHANGED <<decks, nextDeckId, cardStatus, isActive, chainVars>>
    BY <1>2 DEF UnregisterFind
  <2>2. req[r] # Idle
    BY <1>0, <1>2, RequestType DEF UnregisterFind, Idle
  <2>3. CASE req' = [req EXCEPT ![r] = Idle]
    BY <1>0, <2>1, <2>3, EndKeeps
  <2>4. ASSUME NEW i, ActiveDecks(req[r].t, req[r].user) = {i},
               req' = [req EXCEPT ![r] = [pc |-> "proof", user |-> req[r].user, t |-> req[r].t,
                                          tx |-> req[r].tx, deck |-> i]]
        PROVE  IInv'
    <3> DEFINE to == [pc |-> "proof", user |-> req[r].user, t |-> req[r].t,
                      tx |-> req[r].tx, deck |-> i]
    <3>1. /\ to.pc = "proof" /\ to.user = req[r].user
          /\ ActiveDecks(to.t, to.user) = {to.deck}
      BY <2>4
    <3>2. req' = [req EXCEPT ![r] = to]
      BY <2>4
    <3> HIDE DEF to
    <3>. QED
      BY <1>0, <1>1, <2>1, <2>2, <2>4, <3>1, <3>2, MoveKeeps
  <2>. QED
    BY <1>2, <2>3, <2>4 DEF UnregisterFind
<1>3. CASE UnregisterVerify(r)
  <2> DEFINE to == [pc |-> "unlock", user |-> req[r].user, t |-> req[r].t, tx |-> req[r].tx,
                    deck |-> req[r].deck,
                    locked |-> {c \in decks[req[r].deck].cards : cardStatus[c] = "locked"}]
  <2>1. UNCHANGED <<decks, nextDeckId, cardStatus, isActive, chainVars>>
    BY <1>3 DEF UnregisterVerify
  <2>2. /\ req[r] # Idle /\ req[r].deck \in DeckIds
        /\ ActiveDecks(req[r].t, req[r].user) = {req[r].deck}
    BY <1>0, <1>3, RequestType DEF UnregisterVerify, Idle, IInv, Memory, DeckFound
  <2>3. DeckActive(req[r].deck) /\ decks[req[r].deck] \in Deck
    <3>1. req[r].deck \in ActiveDecks(req[r].t, req[r].user)
      BY <2>2
    <3>. QED
      BY <1>0, <2>2, <3>1 DEF ActiveDecks, DeckActive, TypeOK
  <2>4. /\ to.pc = "unlock" /\ to.user = req[r].user /\ to.t = req[r].t /\ to.deck = req[r].deck
        /\ to.locked = {c \in decks[req[r].deck].cards : cardStatus[c] = "locked"}
    OBVIOUS
  <2>5. req' = [req EXCEPT ![r] = to] \/ req' = [req EXCEPT ![r] = Idle]
    BY <1>3 DEF UnregisterVerify
  <2> HIDE DEF to
  <2>6. /\ to.locked \subseteq decks[to.deck].cards
        /\ \A c \in decks[to.deck].cards : isActive[c] => c \in to.locked
    <3>1. ASSUME NEW c \in decks[req[r].deck].cards, isActive[c]
          PROVE  cardStatus[c] = "locked"
      <4>1. c \in Cards
        BY <2>3 DEF Deck
      <4>2. req[r].deck \in HeldBy(c)
        BY <2>2, <2>3 DEF HeldBy
      <4>. QED
        BY <3>1, <4>1, <4>2 DEF IInv, Tables, LocksMatch
    <3>. QED
      BY <2>4, <3>1
  <2>. QED
    BY <1>0, <1>1, <2>1, <2>2, <2>4, <2>5, <2>6, EndKeeps, MoveKeeps
<1>4. CASE UnregisterCommit(r)
  BY <1>4, UnregisterCommitKeeps
<1>. QED
  BY <1>2, <1>3, <1>4

-----------------------------------------------------------------------------
(* Failures and the life of tournaments *)

LEMMA WorldKeeps ==
  ASSUME IInv,
         \/ \E r \in Requests : RequestFails(r)
         \/ \E t \in Tournaments : StartTournament(t) \/ FinishTournament(t)
         \/ \E c \in Cards : Lapse(c)
         \/ CleanupCards
  PROVE  IInv'
<1> USE DEF gameVars, cardVars, deckVars, chainVars
<1>0. TypeOK /\ TypeInv'
  BY WorldTypes DEF IInv, TypeInv
<1>1. ASSUME NEW r \in Requests, RequestFails(r) PROVE IInv'
  BY <1>0, <1>1, EndKeeps DEF RequestFails
<1>2. ASSUME UNCHANGED <<decks, nextDeckId, registrations, txs, nextTx, req>>
      PROVE  /\ OneRequest' /\ History' /\ FreshIds' /\ DecksOwned' /\ DecksVerified'
             /\ NoDeckFound' /\ DeckFound' /\ CardsFree'
  <2>1. OneRequest' /\ History'
    BY <1>2, SameChain DEF IInv, OneRequest
  <2>2. FreshIds' /\ DecksOwned' /\ DecksVerified'
    BY <1>2 DEF IInv, Tables, FreshIds, DecksOwned, DecksVerified, DeckActive, VerifiedRegister,
                generate_deck_hash
  <2>3. NoDeckFound' /\ DeckFound'
    BY <1>2 DEF IInv, Memory, NoDeckFound, DeckFound, ActiveDecks
  <2>4. CardsFree'
    BY <1>2 DEF IInv, Memory, CardsFree, HeldBy, DeckActive
  <2>. QED
    BY <2>1, <2>2, <2>3, <2>4
<1>3. ASSUME UNCHANGED <<decks, nextDeckId, registrations, txs, nextTx, req>>,
             UNCHANGED <<cardStatus, isActive>>
      PROVE  IInv'
  <2>1. LocksMatch'
    BY <1>3 DEF IInv, Tables, LocksMatch, HeldBy, DeckActive
  <2>2. LocksRead'
    BY <1>3 DEF IInv, Memory, LocksRead
  <2>. QED
    BY <1>0, <1>2, <1>3, <2>1, <2>2 DEF IInv, Memory, Tables
<1>4. ASSUME NEW t \in Tournaments, StartTournament(t) \/ FinishTournament(t) PROVE IInv'
  BY <1>3, <1>4 DEF StartTournament, FinishTournament
<1>5. ASSUME NEW c \in Cards, Lapse(c) PROVE IInv'
  BY <1>3, <1>5 DEF Lapse
<1>6. CASE CleanupCards
  <2>1. UNCHANGED <<decks, nextDeckId, registrations, txs, nextTx, req>>
    BY <1>6 DEF CleanupCards
  <2>2. \A c \in Cards : /\ isActive'[c] => isActive[c]
                         /\ isActive'[c] => cardStatus'[c] = cardStatus[c]
    BY <1>6 DEF CleanupCards
  <2>3. LocksMatch'
    BY <2>1, <2>2 DEF IInv, Tables, LocksMatch, HeldBy, DeckActive
  <2>4. LocksRead'
    <3>1. ASSUME NEW r \in Requests, req[r].pc = "unlock" PROVE decks[req[r].deck].cards \subseteq Cards
      BY <1>0, <3>1, RequestType, NoneAssumption DEF TypeOK, IInv, TypeInv, DeckPlaced, Deck
    <3>. QED
      BY <2>1, <2>2, <3>1 DEF IInv, Memory, LocksRead
  <2>. QED
    BY <1>0, <1>2, <2>1, <2>3, <2>4 DEF IInv, Memory, Tables
<1>. QED
  BY <1>1, <1>4, <1>5, <1>6

LEMMA InvStep ==
  ASSUME ~Overlap, IInv, [Next]_vars
  PROVE  IInv'
<1>1. ASSUME NEW u \in Users, Act(u) \/ Send(u) PROVE IInv'
  BY <1>1, ActKeeps, SendKeeps
<1>2. ASSUME NEW r \in Requests, Serve(r) PROVE IInv'
  BY <1>2, RegisterKeeps, UnregisterKeeps DEF Serve
<1>3. CASE UNCHANGED vars
  <2>1. TypeInv'
    BY <1>3, TypeStep DEF IInv
  <2>2. OneRequest' /\ History'
    BY <1>3, SameChain DEF vars, IInv, OneRequest
  <2>3. Memory'
    BY <1>3 DEF vars, deckVars, cardVars, IInv, Memory, NoDeckFound, DeckFound,
                CardsFree, LocksRead, ActiveDecks, HeldBy, DeckActive
  <2>4. Tables'
    <3>1. FreshIds' /\ DecksOwned'
      BY <1>3 DEF vars, deckVars, IInv, Tables, FreshIds, DecksOwned, DeckActive
    <3>2. LocksMatch'
      BY <1>3 DEF vars, deckVars, cardVars, IInv, Tables, LocksMatch, HeldBy, DeckActive
    <3>3. DecksVerified'
      BY <1>3 DEF vars, deckVars, chainVars, IInv, Tables, DecksVerified, DeckActive,
                  VerifiedRegister, generate_deck_hash
    <3>. QED
      BY <3>1, <3>2, <3>3 DEF Tables
  <2>. QED
    BY <2>1, <2>2, <2>3, <2>4 DEF IInv
<1>. QED
  BY <1>1, <1>2, <1>3, WorldKeeps DEF Next

\* Decks, locks and the contract agree, whatever fails or is lost, as long as the
\* requests of one player do not overlap.
THEOREM DecksAndLocksAgree ==
  ASSUME ~Overlap
  PROVE  Spec => []DecksAndLocks
<1>1. Init => IInv
  BY InitInv
<1>2. IInv /\ [Next]_vars => IInv'
  BY InvStep
<1>3. IInv => DecksAndLocks
  BY InvSafe
<1>. QED
  BY <1>1, <1>2, <1>3, PTL DEF Spec

-----------------------------------------------------------------------------
(* The refinement: a registration is an entry with cards that are free, a    *)
(* withdrawal takes back the cards of the only deck, the rest is stuttering. *)

LEMMA InitRefines == Init => Custody!Init
BY DEF Init, Custody!Init, entryOf, ActiveDecks

\* What a user takes part with depends on his active decks only.
LEMMA SameEntries ==
  ASSUME decks' = decks
  PROVE  entryOf' = entryOf
BY DEF entryOf, ActiveDecks

\* The cards of a user's active decks.
CardsIn(t, u) == UNION {decks[i].cards : i \in ActiveDecks(t, u)}

LEMMA EntryShape ==
  /\ entryOf = [t \in Tournaments |-> [u \in Users |-> entryOf[t][u]]]
  /\ \A t \in Tournaments, u \in Users :
       entryOf[t][u] = CardsIn(t, u)
BY DEF entryOf, CardsIn

LEMMA EntryShapeNext ==
  /\ entryOf' = [t \in Tournaments |-> [u \in Users |-> entryOf'[t][u]]]
  /\ \A t \in Tournaments, u \in Users :
       entryOf'[t][u] = CardsIn(t, u)'
BY DEF entryOf, CardsIn

\* Entries that differ in one place at most.
LEMMA OneEntry ==
  ASSUME NEW f, NEW g, NEW t \in Tournaments, NEW u \in Users, NEW cards,
         f = [s \in Tournaments |-> [v \in Users |-> f[s][v]]],
         g = [s \in Tournaments |-> [v \in Users |-> g[s][v]]],
         \A s \in Tournaments, v \in Users :
           g[s][v] = IF s = t /\ v = u THEN cards ELSE f[s][v]
  PROVE  g = [f EXCEPT ![t][u] = cards] /\ (cards = f[t][u] => g = f)
<1>1. ASSUME NEW s \in Tournaments PROVE g[s] = [f EXCEPT ![t][u] = cards][s]
  <2>1. /\ f[s] = [v \in Users |-> f[s][v]] /\ g[s] = [v \in Users |-> g[s][v]]
    OBVIOUS
  <2>2. CASE s = t
    <3>1. g[s] = [f[s] EXCEPT ![u] = cards]
      BY <2>1, <2>2
    <3>. QED
      BY <2>2, <3>1
  <2>3. CASE s # t
    BY <2>1, <2>3
  <2>. QED
    BY <2>2, <2>3
<1>2. g = [f EXCEPT ![t][u] = cards]
  BY <1>1
<1>3. ASSUME cards = f[t][u] PROVE g = f
  <2>1. ASSUME NEW s \in Tournaments PROVE g[s] = f[s]
    <3>1. \A v \in Users : g[s][v] = f[s][v]
      BY <1>3
    <3>2. f[s] = [v \in Users |-> f[s][v]] /\ g[s] = [v \in Users |-> g[s][v]]
      OBVIOUS
    <3>. QED
      BY <3>1, <3>2
  <2>. QED
    BY <2>1
<1>. QED
  BY <1>2, <1>3

LEMMA CommitEnters ==
  ASSUME IInv, NEW r \in Requests, RegisterCommit(r)
  PROVE  Custody!Next \/ UNCHANGED entryOf
<1>n. PICK n \in DeckIds : n = nextDeckId
  BY DEF RegisterCommit
<1> DEFINE u == req[r].user
           t == req[r].t
           cards == req[r].cards
<1>0. TypeOK
  BY DEF IInv, TypeInv
<1>1. u \in Users /\ t \in Tournaments /\ cards \in SUBSET Cards /\ req[r].pc = "verify"
  BY <1>0, RequestType DEF RegisterCommit, Idle
<1>2. ActiveDecks(t, u) = {} /\ \A c \in cards : Owner[c] = u /\ HeldBy(c) = {}
  BY <1>1 DEF IInv, Memory, NoDeckFound, CardsFree
<1>3. /\ decks[n] = None /\ \A i \in DeckIds : i # n => decks'[i] = decks[i]
      /\ decks'[n] = [t |-> t, user |-> u, cards |-> cards, tx |-> req[r].tx, active |-> TRUE]
      /\ decks'[n] \in Deck
  <2>1. req[r].tx \in TxIds /\ n >= nextDeckId
    BY <1>0, <1>1, <1>n, RequestType, IdAssumption DEF Idle
  <2>. QED
    BY <1>0, <1>1, <1>n, <2>1 DEF RegisterCommit, TypeOK, IInv, Tables, FreshIds, Deck
<1>4. decks'[n] # None /\ decks'[n].t = t /\ decks'[n].user = u /\ decks'[n].cards = cards
      /\ decks'[n].active = TRUE
  <2>1. decks'[n] # None
    BY <1>3, NoneAssumption
  <2>. QED
    BY <1>3, <2>1
<1> HIDE DEF u, t, cards
<1>5. ASSUME NEW s \in Tournaments, NEW v \in Users
      PROVE  CardsIn(s, v)' = IF s = t /\ v = u THEN cards ELSE CardsIn(s, v)
  <2>1. ASSUME NEW i \in DeckIds, i # n
        PROVE  i \in ActiveDecks(s, v)' <=> i \in ActiveDecks(s, v)
    BY <1>3, <2>1 DEF ActiveDecks
  <2>2. n \notin ActiveDecks(s, v) /\ (n \in ActiveDecks(s, v)' <=> s = t /\ v = u)
    BY <1>3, <1>4 DEF ActiveDecks
  <2>3. ActiveDecks(s, v) \subseteq DeckIds /\ ActiveDecks(s, v)' \subseteq DeckIds
    BY DEF ActiveDecks
  <2>4. CASE s = t /\ v = u
    <3>1. ActiveDecks(s, v)' = {n}
      BY <1>2, <2>1, <2>2, <2>3, <2>4
    <3>. QED
      BY <1>4, <2>4, <3>1 DEF CardsIn
  <2>5. CASE ~(s = t /\ v = u)
    <3>1. \A i \in DeckIds : i \in ActiveDecks(s, v)' <=> i \in ActiveDecks(s, v)
      BY <2>1, <2>2, <2>5
    <3>2. ActiveDecks(s, v)' = ActiveDecks(s, v) /\ \A i \in ActiveDecks(s, v) : decks'[i] = decks[i]
      BY <1>3, <2>2, <2>3, <3>1
    <3>. QED
      BY <2>5, <3>2 DEF CardsIn
  <2>. QED
    BY <2>4, <2>5
<1>6. /\ entryOf' = [entryOf EXCEPT ![t][u] = cards] /\ entryOf[t][u] = {}
      /\ cards = {} => entryOf' = entryOf
  <2>1. \A s \in Tournaments, v \in Users :
          entryOf'[s][v] = IF s = t /\ v = u THEN cards ELSE entryOf[s][v]
    BY <1>5, EntryShape, EntryShapeNext
  <2>2. entryOf[t][u] = {}
    <3>1. CardsIn(t, u) = {}
      BY <1>2 DEF CardsIn
    <3>. QED
      BY <1>1, <3>1, EntryShape
  <2>3. entryOf' = [entryOf EXCEPT ![t][u] = cards] /\ (cards = entryOf[t][u] => entryOf' = entryOf)
    BY <1>1, <2>1, EntryShape, EntryShapeNext, OneEntry
  <2>. QED
    BY <2>2, <2>3
<1>7. \A c \in cards : Owner[c] = u /\ Custody!Free(c)
  <2>1. ASSUME NEW c \in cards, NEW s \in Tournaments, NEW v \in Users PROVE c \notin entryOf[s][v]
    <3>1. \A i \in ActiveDecks(s, v) : c \notin decks[i].cards
      BY <1>2 DEF HeldBy, DeckActive, ActiveDecks
    <3>. QED
      BY <3>1, EntryShape DEF CardsIn
  <2>. QED
    BY <1>2, <2>1 DEF Custody!Free
<1>8. CASE cards = {}
  BY <1>6, <1>8
<1>9. CASE cards # {}
  <2>1. cards \in (SUBSET {c \in Cards : Owner[c] = u /\ Custody!Free(c)}) \ {{}}
    <3>1. cards \subseteq Cards /\ cards # {}
      BY <1>1, <1>9
    <3>2. \A c \in cards : c \in {d \in Cards : Owner[d] = u /\ Custody!Free(d)}
      BY <1>7, <3>1, Zenon
    <3>3. cards \in SUBSET {d \in Cards : Owner[d] = u /\ Custody!Free(d)}
      BY <3>2, Zenon
    <3>4. cards \notin {{}}
      BY <3>1
    <3>. QED
      BY <3>3, <3>4, Zenon
  <2>2. Custody!Give(t, u, cards)
    BY <1>6 DEF Custody!Give
  <2>3. Custody!Enter(t, u)
    BY <1>6, <2>1, <2>2 DEF Custody!Enter
  <2>. QED
    BY <1>1, <2>3 DEF Custody!Next
<1>. QED
  BY <1>8, <1>9

LEMMA CommitWithdraws ==
  ASSUME IInv, NEW r \in Requests, UnregisterCommit(r)
  PROVE  Custody!Next \/ UNCHANGED entryOf
<1>0. TypeOK
  BY DEF IInv, TypeInv
<1>d. PICK d \in DeckIds : d = req[r].deck
  BY <1>0, RequestType DEF UnregisterCommit
<1> DEFINE u == req[r].user
           t == req[r].t
<1>1. u \in Users /\ t \in Tournaments /\ ActiveDecks(t, u) = {d}
  BY <1>0, <1>d, RequestType DEF UnregisterCommit, Idle, IInv, Memory, DeckFound
<1>2. decks[d] # None /\ decks[d] \in Deck /\ decks[d].t = t /\ decks[d].user = u
  BY <1>0, <1>1 DEF ActiveDecks, TypeOK
<1>3. /\ \A i \in DeckIds : i # d => decks'[i] = decks[i]
      /\ decks'[d].active = FALSE
  BY <1>0, <1>d, <1>2 DEF UnregisterCommit, TypeOK, Deck
<1> HIDE DEF u, t
<1>e. PICK none : none = {}
  OBVIOUS
<1>4. ASSUME NEW s \in Tournaments, NEW v \in Users
      PROVE  CardsIn(s, v)' = IF s = t /\ v = u THEN none ELSE CardsIn(s, v)
  <2>1. ASSUME NEW i \in DeckIds, i # d
        PROVE  i \in ActiveDecks(s, v)' <=> i \in ActiveDecks(s, v)
    BY <1>3, <2>1 DEF ActiveDecks
  <2>2. d \notin ActiveDecks(s, v)' /\ (d \in ActiveDecks(s, v) => s = t /\ v = u)
    BY <1>2, <1>3 DEF ActiveDecks
  <2>3. ActiveDecks(s, v) \subseteq DeckIds /\ ActiveDecks(s, v)' \subseteq DeckIds
    BY DEF ActiveDecks
  <2>4. CASE s = t /\ v = u
    <3>1. ActiveDecks(s, v)' = {}
      BY <1>1, <2>1, <2>2, <2>3, <2>4
    <3>. QED
      BY <1>e, <2>4, <3>1 DEF CardsIn
  <2>5. CASE ~(s = t /\ v = u)
    <3>1. \A i \in DeckIds : i \in ActiveDecks(s, v)' <=> i \in ActiveDecks(s, v)
      BY <2>1, <2>2, <2>5
    <3>2. ActiveDecks(s, v)' = ActiveDecks(s, v) /\ \A i \in ActiveDecks(s, v) : decks'[i] = decks[i]
      BY <1>3, <2>2, <2>3, <3>1
    <3>. QED
      BY <2>5, <3>2 DEF CardsIn
  <2>. QED
    BY <2>4, <2>5
<1>5. /\ entryOf' = [entryOf EXCEPT ![t][u] = none]
      /\ none = entryOf[t][u] => entryOf' = entryOf
  <2>1. \A s \in Tournaments, v \in Users :
          entryOf'[s][v] = IF s = t /\ v = u THEN none ELSE entryOf[s][v]
    BY <1>4, EntryShape, EntryShapeNext
  <2>. QED
    BY <1>1, <2>1, EntryShape, EntryShapeNext, OneEntry
<1>6. CASE entryOf[t][u] = {}
  BY <1>5, <1>6, <1>e
<1>7. CASE entryOf[t][u] # {}
  BY <1>1, <1>5, <1>7, <1>e DEF Custody!Next, Custody!Withdraw, Custody!Give
<1>. QED
  BY <1>6, <1>7

LEMMA StepRefines ==
  ASSUME IInv, [Next]_vars
  PROVE  [Custody!Next]_entryOf
<1> USE DEF deckVars
<1>1. ASSUME NEW u \in Users, Act(u) \/ Send(u) PROVE decks' = decks
  BY <1>1 DEF Act, Send, Preview, registerDeck, unregisterDeck, TakeUp, GiveUp, RegisterBegin,
              UnregisterBegin
<1>2. ASSUME NEW r \in Requests, Serve(r) \/ RequestFails(r)
      PROVE  decks' = decks \/ RegisterCommit(r) \/ UnregisterCommit(r)
  BY <1>2 DEF Serve, RegisterDeck, RegisterCards, RegisterRefused, UnregisterFind,
              UnregisterVerify, RequestFails
<1>3. ASSUME \/ \E t \in Tournaments : StartTournament(t) \/ FinishTournament(t)
             \/ \E c \in Cards : Lapse(c)
             \/ CleanupCards
      PROVE  decks' = decks
  BY <1>3 DEF StartTournament, FinishTournament, Lapse, CleanupCards
<1>4. UNCHANGED vars => decks' = decks
  BY DEF vars
<1>5. decks' = decks \/ \E r \in Requests : RegisterCommit(r) \/ UnregisterCommit(r)
  BY <1>1, <1>2, <1>3, <1>4 DEF Next
<1>. QED
  BY <1>5, SameEntries, CommitEnters, CommitWithdraws

\* Requests, front ends and contract together hand cards over to one deck at a time
\* and back, as DeckCustody promises, when the requests of one player do not overlap.
THEOREM Refinement ==
  ASSUME ~Overlap
  PROVE  Spec => ImplementsCustody
<1>1. Init => IInv /\ Custody!Init
  BY InitInv, InitRefines
<1>2. IInv /\ [Next]_vars => IInv' /\ [Custody!Next]_entryOf
  BY InvStep, StepRefines
<1>. QED
  BY <1>1, <1>2, PTL DEF Spec, ImplementsCustody, Custody!Spec

==============================================================================
