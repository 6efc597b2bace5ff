------------------------ MODULE TournamentRegistration ------------------------
(***************************************************************************)
(* Entering a tournament and leaving it.  The client previews a deck,      *)
(* commits to it in the TournamentRegistry contract and shows the          *)
(* transaction to the backend, which checks deck and transaction, stores   *)
(* the deck and locks its cards.  Between its first check and its commit a *)
(* request waits for the database and for the chain, and reads nothing     *)
(* again.  The life of tournaments is the environment: it closes the       *)
(* registration, changes the weights of tokens and expires cards.          *)
(***************************************************************************)
EXTENDS Integers, FiniteSets, FiniteSetsExt

CONSTANTS
  Users, Tournaments,
  Cards, Owner, TokenOf,   \* user_cards rows: whose they are, of which token
  Expiring,                \* the cards with an expires_at
  Weights,                 \* weights of the tokens that may be in force
  weight_limit, DeckSize,  \* the code's decks have 5 cards
  Requests,                \* tasks serving register / unregister
  Overlap,                 \* whether a client acts while a request of his is served
  DeckIds, TxIds,          \* values of the deck sequence, transaction hashes (bounds)
  MaxFaults,               \* bound on failed requests
  None

Tokens == {TokenOf[c] : c \in Cards}
\* What the SHA-256 of a deck tells apart: tournament, user and set of cards.
Hash == [t: Tournaments, user: Users, cards: SUBSET Cards]
Deck == [t: Tournaments, user: Users, cards: SUBSET Cards, tx: TxIds, active: BOOLEAN]
Tx   == [kind: {"registerDeck"}, user: Users, t: Tournaments, hash: Hash, ok: BOOLEAN]
        \cup [kind: {"unregisterDeck"}, user: Users, t: Tournaments, hash: {None}, ok: BOOLEAN]

ASSUME CardAssumption    == /\ Owner \in [Cards -> Users]
                            /\ Expiring \subseteq Cards /\ IsFiniteSet(Cards)
ASSUME WeightAssumption  == Weights \subseteq [Tokens -> Nat] /\ weight_limit \in Nat
ASSUME IdAssumption      == DeckIds \subseteq Nat \ {0} /\ TxIds \subseteq Nat \ {0}
ASSUME NumberAssumption  == DeckSize \in Nat /\ MaxFaults \in Nat /\ Overlap \in BOOLEAN
ASSUME NoneAssumption    == None \notin Hash /\ None \notin Deck /\ None \notin Tx

VARIABLES
  tstatus, weight,                    \* tournaments.status, tokens.weight
  cardStatus, isActive, lapsed,       \* user_cards; the cards past expires_at
  decks, nextDeckId,                  \* tournament_decks and its sequence
  registrations, txs, nextTx,         \* the contract and the mined transactions
  client, req,                        \* the wallet's front end, the requests
  cleanup, faults                     \* a finish still has cards to expire

gameVars  == <<tstatus, weight, cleanup>>
cardVars  == <<cardStatus, isActive, lapsed>>
deckVars  == <<decks, nextDeckId>>
chainVars == <<registrations, txs, nextTx>>
vars == <<gameVars, cardVars, deckVars, chainVars, client, req, faults>>

Idle == [pc |-> "idle"]
Client ==
  {Idle} \cup [pc: {"previewed"}, t: Tournaments, cards: SUBSET Cards]
         \cup [pc: {"mined"}, t: Tournaments, cards: SUBSET Cards, tx: TxIds]
         \cup [pc: {"left"}, t: Tournaments, tx: TxIds]
Request ==
  {Idle} \cup [pc: {"deck", "cards", "verify"}, user: Users, t: Tournaments,
               cards: SUBSET Cards, tx: TxIds]
         \cup [pc: {"find"}, user: Users, t: Tournaments, tx: TxIds]
         \cup [pc: {"proof"}, user: Users, t: Tournaments, tx: TxIds, deck: DeckIds]
         \cup [pc: {"unlock"}, user: Users, t: Tournaments, tx: TxIds, deck: DeckIds,
               locked: SUBSET Cards]

Init ==
  /\ tstatus = [t \in Tournaments |-> "registration"] /\ weight \in Weights
  /\ cardStatus = [c \in Cards |-> "available"]
  /\ isActive = [c \in Cards |-> TRUE] /\ lapsed = {}
  /\ decks = [i \in DeckIds |-> None] /\ nextDeckId = 1
  /\ registrations = [t \in Tournaments |-> [u \in Users |-> None]]
  /\ txs = [x \in TxIds |-> None] /\ nextTx = 1
  /\ client = [u \in Users |-> Idle] /\ req = [r \in Requests |-> Idle]
  /\ cleanup = FALSE /\ faults = 0

-----------------------------------------------------------------------------
(* What the requests check *)

generate_deck_hash(t, u, cards) == [t |-> t, user |-> u, cards |-> cards]

TotalWeight(cards) == MapThenSumSet(LAMBDA c : weight[TokenOf[c]], cards)

ActiveDecks(t, u) ==
  {i \in DeckIds : /\ decks[i] # None /\ decks[i].active
                   /\ decks[i].t = t /\ decks[i].user = u}

\* Size, ownership, distinct tokens, each card usable, and the weight limit.
ValidCards(u, cards) ==
  /\ Cardinality(cards) = DeckSize
  /\ \A c \in cards : Owner[c] = u
  /\ \A c, d \in cards : TokenOf[c] = TokenOf[d] => c = d
  /\ \A c \in cards : c \notin lapsed /\ cardStatus[c] = "available" /\ isActive[c]
  /\ TotalWeight(cards) <= weight_limit

\* verify_register_transaction: mined, successful, by this wallet, of this deck.
VerifiedRegister(x, u, t, cards) ==
  txs[x] # None /\ txs[x] = [kind |-> "registerDeck", user |-> u, t |-> t, ok |-> TRUE,
                             hash |-> generate_deck_hash(t, u, cards)]

\* verify_unregister_transaction: the same of unregisterDeck, which has no hash.
VerifiedUnregister(x, u, t) ==
  txs[x] # None /\ txs[x] = [kind |-> "unregisterDeck", user |-> u, t |-> t, ok |-> TRUE,
                             hash |-> None]

-----------------------------------------------------------------------------
(* The client and the contract *)

Served(u) == \E r \in Requests : req[r] # Idle /\ req[r].user = u
MayAct(u) == Overlap \/ ~Served(u)

\* POST validate-deck: the same checks, nothing is written, a hash comes back.
Preview(u, t, cards) ==
  /\ client[u] = Idle /\ MayAct(u)
  /\ tstatus[t] = "registration" /\ ActiveDecks(t, u) = {} /\ ValidCards(u, cards)
  /\ client' = [client EXCEPT ![u] = [pc |-> "previewed", t |-> t, cards |-> cards]]
  /\ UNCHANGED <<gameVars, cardVars, deckVars, chainVars, req, faults>>

\* The contract keeps one hash per tournament and wallet; a second one reverts.
registerDeck(u) ==
  /\ client[u].pc = "previewed" /\ MayAct(u) /\ nextTx \in TxIds
  /\ LET t == client[u].t
         hash == generate_deck_hash(t, u, client[u].cards)
         ok == registrations[t][u] = None IN
     /\ registrations' = IF ok THEN [registrations EXCEPT ![t][u] = hash] ELSE registrations
     /\ txs' = [txs EXCEPT ![nextTx] = [kind |-> "registerDeck", user |-> u, t |-> t,
                                        hash |-> hash, ok |-> ok]]
     /\ nextTx' = nextTx + 1
     /\ client' = [client EXCEPT ![u] = [pc |-> "mined", t |-> t,
                                         cards |-> client[u].cards, tx |-> nextTx]]
  /\ UNCHANGED <<gameVars, cardVars, deckVars, req, faults>>

unregisterDeck(u, t) ==
  /\ client[u] = Idle /\ MayAct(u) /\ nextTx \in TxIds
  /\ LET ok == registrations[t][u] # None IN
     /\ registrations' = [registrations EXCEPT ![t][u] = None]
     /\ txs' = [txs EXCEPT ![nextTx] = [kind |-> "unregisterDeck", user |-> u, t |-> t,
                                        hash |-> None, ok |-> ok]]
     /\ nextTx' = nextTx + 1
     /\ client' = [client EXCEPT ![u] = [pc |-> "left", t |-> t, tx |-> nextTx]]
  /\ UNCHANGED <<gameVars, cardVars, deckVars, req, faults>>

\* The front end may show again any transaction of the wallet: the backend asks whether
\* it was mined, not whether it is the last one or has been withdrawn since.
TakeUp(u, x) ==
  /\ client[u] = Idle /\ MayAct(u)
  /\ txs[x] # None /\ txs[x].user = u
  /\ client' = [client EXCEPT ![u] =
       IF txs[x].kind = "registerDeck"
       THEN [pc |-> "mined", t |-> txs[x].t, cards |-> txs[x].hash.cards, tx |-> x]
       ELSE [pc |-> "left", t |-> txs[x].t, tx |-> x]]
  /\ UNCHANGED <<gameVars, cardVars, deckVars, chainVars, req, faults>>

\* The user closes the page, whatever he was about to do.
GiveUp(u) ==
  /\ client[u] # Idle /\ MayAct(u)
  /\ client' = [client EXCEPT ![u] = Idle]
  /\ UNCHANGED <<gameVars, cardVars, deckVars, chainVars, req, faults>>

-----------------------------------------------------------------------------
(* POST register *)

\* The status of the tournament is read first, and only here.
RegisterBegin(r, u) ==
  /\ req[r] = Idle /\ client[u].pc = "mined" /\ MayAct(u)
  /\ tstatus[client[u].t] = "registration"
  /\ req' = [req EXCEPT ![r] = [pc |-> "deck", user |-> u, t |-> client[u].t,
                                cards |-> client[u].cards, tx |-> client[u].tx]]
  /\ UNCHANGED <<gameVars, cardVars, deckVars, chainVars, client, faults>>

\* Mutant: a deck the user has withdrawn counts as a registration.
RegisterDeckEver(r) ==
  /\ req[r].pc = "deck"
  /\ req' = [req EXCEPT ![r] =
       IF \E i \in DeckIds : decks[i] # None /\ decks[i].t = req[r].t /\ decks[i].user = req[r].user
       THEN Idle ELSE [req[r] EXCEPT !.pc = "cards"]]
  /\ UNCHANGED <<gameVars, cardVars, deckVars, chainVars, client, faults>>

\* Then whether the user is registered (several rows: scalar_one_or_none raises).
RegisterDeck(r) ==
  /\ req[r].pc = "deck"
  /\ req' = [req EXCEPT ![r] = IF ActiveDecks(req[r].t, req[r].user) # {} THEN Idle
                               ELSE [req[r] EXCEPT !.pc = "cards"]]
  /\ UNCHANGED <<gameVars, cardVars, deckVars, chainVars, client, faults>>

\* Then his cards.
RegisterCards(r) ==
  /\ req[r].pc = "cards"
  /\ req' = [req EXCEPT ![r] = IF ValidCards(req[r].user, req[r].cards)
                               THEN [req[r] EXCEPT !.pc = "verify"] ELSE Idle]
  /\ UNCHANGED <<gameVars, cardVars, deckVars, chainVars, client, faults>>

\* The answer reaches the client, who is done, or is lost on the way.
Answered(r) ==
  \/ client' = [client EXCEPT ![req[r].user] = IF @.pc \in {"mined", "left"} /\ @.tx = req[r].tx
                                               THEN Idle ELSE @]
  \/ UNCHANGED client

\* Mutant: the cards stay available.
RegisterCommitUnlocked(r) ==
  /\ req[r].pc = "verify" /\ nextDeckId \in DeckIds
  /\ VerifiedRegister(req[r].tx, req[r].user, req[r].t, req[r].cards)
  /\ decks' = [decks EXCEPT ![nextDeckId] =
       [t |-> req[r].t, user |-> req[r].user, cards |-> req[r].cards, tx |-> req[r].tx,
        active |-> TRUE]]
  /\ nextDeckId' = nextDeckId + 1 /\ Answered(r)
  /\ req' = [req EXCEPT ![r] = Idle]
  /\ UNCHANGED <<gameVars, cardVars, chainVars, faults>>

\* Once the transaction is verified, the deck is stored and its cards are locked, in
\* one commit and without another look at the tournament, the deck or the cards.
RegisterCommit(r) ==
  /\ req[r].pc = "verify" /\ nextDeckId \in DeckIds
  /\ VerifiedRegister(req[r].tx, req[r].user, req[r].t, req[r].cards)
  /\ decks' = [decks EXCEPT ![nextDeckId] =
       [t |-> req[r].t, user |-> req[r].user, cards |-> req[r].cards, tx |-> req[r].tx,
        active |-> TRUE]]
  /\ nextDeckId' = nextDeckId + 1
  /\ cardStatus' = [c \in Cards |-> IF c \in req[r].cards THEN "locked" ELSE cardStatus[c]]
  /\ Answered(r)
  /\ req' = [req EXCEPT ![r] = Idle]
  /\ UNCHANGED <<gameVars, isActive, lapsed, chainVars, faults>>

\* A transaction that does not verify ends the request.
RegisterRefused(r) ==
  /\ req[r].pc = "verify"
  /\ ~VerifiedRegister(req[r].tx, req[r].user, req[r].t, req[r].cards)
  /\ req' = [req EXCEPT ![r] = Idle]
  /\ UNCHANGED <<gameVars, cardVars, deckVars, chainVars, client, faults>>

-----------------------------------------------------------------------------
(* DELETE unregister *)

UnregisterBegin(r, u) ==
  /\ req[r] = Idle /\ client[u].pc = "left" /\ MayAct(u)
  /\ tstatus[client[u].t] = "registration"
  /\ req' = [req EXCEPT ![r] = [pc |-> "find", user |-> u, t |-> client[u].t,
                                tx |-> client[u].tx]]
  /\ UNCHANGED <<gameVars, cardVars, deckVars, chainVars, client, faults>>

\* The active deck; none is an answer, several an exception.
UnregisterFind(r) ==
  /\ req[r].pc = "find"
  /\ LET found == ActiveDecks(req[r].t, req[r].user) IN
     \/ /\ Cardinality(found) # 1
        /\ req' = [req EXCEPT ![r] = Idle]
     \/ \E i \in found :
          /\ found = {i}
          /\ req' = [req EXCEPT ![r] = [pc |-> "proof", user |-> req[r].user, t |-> req[r].t,
                                        tx |-> req[r].tx, deck |-> i]]
  /\ UNCHANGED <<gameVars, cardVars, deckVars, chainVars, client, faults>>

\* The transaction is verified, then the cards of the deck are read.
UnregisterVerify(r) ==
  /\ req[r].pc = "proof"
  /\ req' = [req EXCEPT ![r] =
       IF VerifiedUnregister(req[r].tx, req[r].user, req[r].t)
       THEN [pc |-> "unlock", user |-> req[r].user, t |-> req[r].t, tx |-> req[r].tx,
             deck |-> req[r].deck,
             locked |-> {c \in decks[req[r].deck].cards : cardStatus[c] = "locked"}]
       ELSE Idle]
  /\ UNCHANGED <<gameVars, cardVars, deckVars, chainVars, client, faults>>

\* Mutant: the deck is left active.
UnregisterCommitDeckLeft(r) ==
  /\ req[r].pc = "unlock"
  /\ cardStatus' = [c \in Cards |-> IF c \in req[r].locked THEN "available" ELSE cardStatus[c]]
  /\ Answered(r)
  /\ req' = [req EXCEPT ![r] = Idle]
  /\ UNCHANGED <<gameVars, isActive, lapsed, deckVars, chainVars, faults>>

\* Cards found locked are unlocked and the deck is deactivated, in one commit.
UnregisterCommit(r) ==
  /\ req[r].pc = "unlock"
  /\ cardStatus' = [c \in Cards |-> IF c \in req[r].locked THEN "available" ELSE cardStatus[c]]
  /\ decks' = [decks EXCEPT ![req[r].deck].active = FALSE]
  /\ Answered(r)
  /\ req' = [req EXCEPT ![r] = Idle]
  /\ UNCHANGED <<gameVars, isActive, lapsed, nextDeckId, chainVars, faults>>

\* The node does not answer, the transaction is not found yet, the database fails or
\* the process ends: nothing of the request is committed.
RequestFails(r) ==
  /\ req[r] # Idle /\ faults < MaxFaults
  /\ req' = [req EXCEPT ![r] = Idle]
  /\ faults' = faults + 1
  /\ UNCHANGED <<gameVars, cardVars, deckVars, chainVars, client>>

-----------------------------------------------------------------------------
(* The life of tournaments, as far as registration sees it *)

StartTournament(t) ==
  /\ tstatus[t] = "registration"
  /\ tstatus' = [tstatus EXCEPT ![t] = "ongoing"]
  /\ UNCHANGED <<weight, cleanup, cardVars, deckVars, chainVars, client, req, faults>>

\* A finish gives the tokens other weights and leaves decks and locks as they are.
FinishTournament(t) ==
  /\ tstatus[t] = "ongoing"
  /\ tstatus' = [tstatus EXCEPT ![t] = "finished"]
  /\ weight' \in Weights
  /\ cleanup' = TRUE
  /\ UNCHANGED <<cardVars, deckVars, chainVars, client, req, faults>>

Lapse(c) ==
  /\ c \in Expiring \ lapsed
  /\ lapsed' = lapsed \cup {c}
  /\ UNCHANGED <<gameVars, cardStatus, isActive, deckVars, chainVars, client, req, faults>>

\* After a finish every card that is past its date is taken out, locked or not.
CleanupCards ==
  LET gone == {c \in lapsed : isActive[c]} IN
  /\ cleanup /\ cleanup' = FALSE
  /\ isActive' = [c \in Cards |-> isActive[c] /\ c \notin gone]
  /\ cardStatus' = [c \in Cards |-> IF c \in gone THEN "expired" ELSE cardStatus[c]]
  /\ UNCHANGED <<tstatus, weight, lapsed, deckVars, chainVars, client, req, faults>>

Act(u) ==
  \/ \E t \in Tournaments, cards \in SUBSET Cards : Preview(u, t, cards)
  \/ registerDeck(u)
  \/ \E t \in Tournaments : unregisterDeck(u, t)
  \/ \E x \in TxIds : TakeUp(u, x)
  \/ GiveUp(u)

Serve(r) ==
  \/ RegisterDeck(r) \/ RegisterCards(r) \/ RegisterCommit(r) \/ RegisterRefused(r)
  \/ UnregisterFind(r) \/ UnregisterVerify(r) \/ UnregisterCommit(r)

Send(u) == \E r \in Requests : RegisterBegin(r, u) \/ UnregisterBegin(r, u)

Next ==
  \/ \E u \in Users : Act(u) \/ Send(u)
  \/ \E r \in Requests : Serve(r) \/ RequestFails(r)
  \/ \E t \in Tournaments : StartTournament(t) \/ FinishTournament(t)
  \/ \E c \in Cards : Lapse(c)
  \/ CleanupCards

Spec == Init /\ [][Next]_vars

\* A request under way is served, and a front end with a mined transaction sends it
\* until it has an answer or its user gives up, as the error message asks it to.
Fairness ==
  /\ \A r \in Requests : WF_vars(Serve(r))
  /\ \A u \in Users : WF_vars(Send(u))
FairSpec == Spec /\ Fairness

-----------------------------------------------------------------------------
(* Properties *)

TypeOK ==
  /\ tstatus \in [Tournaments -> {"registration", "ongoing", "finished"}]
  /\ weight \in [Tokens -> Nat] /\ cleanup \in BOOLEAN
  /\ cardStatus \in [Cards -> {"available", "locked", "expired"}]
  /\ isActive \in [Cards -> BOOLEAN] /\ lapsed \subseteq Cards
  /\ decks \in [DeckIds -> Deck \cup {None}] /\ nextDeckId \in Nat \ {0}
  /\ registrations \in [Tournaments -> [Users -> Hash \cup {None}]]
  /\ txs \in [TxIds -> Tx \cup {None}] /\ nextTx \in Nat \ {0}
  /\ client \in [Users -> Client] /\ req \in [Requests -> Request]
  /\ faults \in 0 .. MaxFaults

DeckActive(i) == decks[i] # None /\ decks[i].active
HeldBy(c) == {i \in DeckIds : DeckActive(i) /\ c \in decks[i].cards}

\* A card in play is locked exactly while an active deck holds it, and no two decks
\* hold it: one commit stores a deck and locks its cards, another takes both back.
\* (For requests of a user that do not overlap.)
LockedIffDecked ==
  \A c \in Cards : /\ isActive[c] => (cardStatus[c] = "locked" <=> HeldBy(c) # {})
                   /\ Cardinality(HeldBy(c)) <= 1

\* The wallet has taken back on the chain what transaction x registered there.
Withdrawn(x) == \E y \in TxIds : x < y /\ VerifiedUnregister(y, txs[x].user, txs[x].t)

\* A deck the backend counts is one its player committed to on the chain, with these
\* cards in this tournament, and the contract still holds it unless he has withdrawn
\* it there since: a failed, lost, repeated or late request, or one that shows an old
\* transaction, brings no other deck into the table.
ChainAgrees ==
  \A i \in DeckIds :
    DeckActive(i) =>
      LET d == decks[i] IN
      /\ VerifiedRegister(d.tx, d.user, d.t, d.cards)
      /\ \/ registrations[d.t][d.user] = generate_deck_hash(d.t, d.user, d.cards)
         \/ Withdrawn(d.tx)

\* The tables of the backend agree with each other and with the contract.
DecksAndLocks == TypeOK /\ LockedIffDecked /\ ChainAgrees

\* The backend cannot lose a registration: a front end that shows the transaction of
\* a deck the contract took gets it recorded, unless its user gives up, the
\* registration closes, or the cards no longer satisfy what they satisfied at the preview.
MinedIsRegistered ==
  \A u \in Users :
    client[u].pc = "mined" /\ txs[client[u].tx].ok ~>
      \/ client[u].pc # "mined"
      \/ tstatus[client[u].t] # "registration"
      \/ ActiveDecks(client[u].t, u) # {}
      \/ ~ValidCards(u, client[u].cards)
      \/ nextDeckId \notin DeckIds       \* bound: no row is left

\* What the check of the status is for: once registration has closed the decks of a
\* tournament stay as they are.
DecksFixed ==
  [][\A t \in Tournaments, u \in Users :
       tstatus[t] # "registration" => ActiveDecks(t, u)' = ActiveDecks(t, u)]_vars

-----------------------------------------------------------------------------
(* What registration promises: cards are handed over to a deck and back *)

entryOf == [t \in Tournaments |-> [u \in Users |->
              UNION {decks[i].cards : i \in ActiveDecks(t, u)}]]
Custody == INSTANCE DeckCustody WITH entries <- entryOf
ImplementsCustody == Custody!Spec
==============================================================================
