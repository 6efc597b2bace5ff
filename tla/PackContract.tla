----------------------------- MODULE PackContract -----------------------------
(***************************************************************************)
(* HodleaguePacks.sol: packs as tokens of a contract.  A pack is minted,   *)
(* bought or claimed with a signature of the backend; opening it burns it  *)
(* for a commit, and a second signature turns the commit into cards.       *)
(*                                                                         *)
(* A call does all it does or, when a require fails, nothing, so a call    *)
(* that reverts is no step.  A wallet with code is called back for each    *)
(* token it is sent, and may make calls of its own: for a reveal that is   *)
(* before its last writes, so a reveal is taken call by call.  (The others *)
(* have written what they write by then.)  The chain is in the states in   *)
(* which no call is under way.                                             *)
(*                                                                         *)
(* A signature is the message it covers, known to everyone once the        *)
(* backend has signed it; a draw is how many cards it has and which of the *)
(* seeds it came from.  Wallets accept what they are sent.                 *)
(***************************************************************************)
EXTENDS Integers, Sequences, SequencesExt, FiniteSets, FiniteSetsExt

CONSTANTS
  Users, Types,
  Claims,             \* ids of claims
  CommitIds, CardIds, \* bounds: commits made, numbers of cards minted
  Amounts, Prices,    \* amounts of packs and prices in use (bounds)
  Seeds,              \* [size, seed]: what the backend may draw for a commit
  MaxIssued,          \* bound: packs issued of a type
  MaxAdminCalls,      \* bound: times the administrator acts
  MaxMoves,           \* bound: cards that are burned or sent on
  NoOne

ASSUME ContractAssumption ==
  /\ IsFiniteSet(Users)          \* addresses have 160 bits
  /\ CommitIds \subseteq Nat /\ CardIds \subseteq Nat
  /\ Amounts \subseteq 1 .. 50 /\ Prices \subseteq Nat
  /\ \A d \in Seeds : d.size \in Nat
  /\ MaxIssued \in Nat /\ MaxAdminCalls \in Nat /\ MaxMoves \in Nat
  /\ NoOne \notin Users \cup [user : Users, type : Types]

VARIABLES
  coded,                \* the users whose wallets have code
  calls,                \* reveals under way, the innermost last
  balance,              \* packs of a user by type
  packPrices,           \* 0: not for sale
  usedClaimIds, usedRevealHashes,
  commits, nextCommitId,
  owner, nextCardTokenId, \* HodleagueCards, and the number the next card gets
  funds,                \* AVAX held by the contract
  signed,               \* messages the backend has signed
  adminCalls,
  ledger               \* what happened, for the properties

holdVars == <<balance, usedClaimIds>>
openVars == <<commits, nextCommitId, usedRevealHashes, owner, nextCardTokenId>>
moneyVars == <<packPrices, funds, adminCalls>>
contractVars == <<coded, calls, holdVars, openVars, moneyVars, signed, ledger>>

ClaimMessage  == [user : Users, claim : Claims, type : Types, amount : Amounts]
Commit        == [user : Users, type : Types]
RevealMessage == [user : Users, commit : CommitIds, draw : Seeds]

ContractInit ==
  /\ coded \in SUBSET Users /\ calls = <<>>
  /\ balance = [u \in Users |-> [p \in Types |-> 0]]
  /\ packPrices = [p \in Types |-> 0]
  /\ usedClaimIds = {} /\ usedRevealHashes = {}
  /\ commits = [c \in CommitIds |-> NoOne] /\ nextCommitId = 0
  /\ owner = [k \in CardIds |-> NoOne] /\ nextCardTokenId = 0
  /\ funds = 0 /\ signed = {} /\ adminCalls = 0
  /\ ledger = [issued |-> [p \in Types |-> 0], revealed |-> {}, spent |-> 0, withdrawn |-> 0,
                claimed |-> {}, burned |-> {}, moved |-> {},
                committed |-> [c \in CommitIds |-> NoOne]]

Idle == calls = <<>>

\* A user may call: in a transaction, or with code from a callback of the innermost
\* reveal, which has just minted a card to a wallet with code.
MayCall(u) ==
  ~Idle => u \in coded /\ Last(calls).minted > 0 /\ Last(calls).message.user \in coded

-----------------------------------------------------------------------------
(* Acquiring packs *)

Mint(u, p, n) ==
  /\ ledger.issued[p] + n <= MaxIssued
  /\ balance' = [balance EXCEPT ![u][p] = @ + n]

Issued(p, n) == [ledger EXCEPT !.issued[p] = @ + n]

mint(u, p, n) ==
  /\ Idle /\ Mint(u, p, n) /\ ledger' = Issued(p, n)
  /\ UNCHANGED <<coded, calls, usedClaimIds, openVars, moneyVars, signed>>

\* (Wrong: the excess is not sent back.)
buyPackKept(u, p, n, value) ==
  /\ MayCall(u) /\ packPrices[p] > 0 /\ value >= packPrices[p] * n
  /\ Mint(u, p, n)
  /\ funds' = funds + value
  /\ ledger' = [Issued(p, n) EXCEPT !.spent = @ + packPrices[p] * n]
  /\ UNCHANGED <<coded, calls, usedClaimIds, openVars, packPrices, adminCalls, signed>>

\* What is paid beyond the price is sent back in the same transaction.
buyPack(u, p, n, value) ==
  LET total == packPrices[p] * n
      refund == value - total
  IN /\ MayCall(u) /\ packPrices[p] > 0 /\ value >= total
     /\ Mint(u, p, n)
     /\ funds' = funds + value - refund
     /\ ledger' = [Issued(p, n) EXCEPT !.spent = @ + total]
     /\ UNCHANGED <<coded, calls, usedClaimIds, openVars, packPrices, adminCalls, signed>>

claimPack(u, m) ==
  /\ MayCall(u) /\ m \in signed \cap ClaimMessage /\ m.user = u
  /\ m.claim \notin usedClaimIds
  /\ usedClaimIds' = usedClaimIds \cup {m.claim}
  /\ Mint(u, m.type, m.amount)
  /\ ledger' = [Issued(m.type, m.amount) EXCEPT !.claimed = @ \cup {m}]
  /\ UNCHANGED <<coded, calls, openVars, moneyVars, signed>>

-----------------------------------------------------------------------------
(* Opening them *)

commitOpen(u, p) ==
  LET c == nextCommitId + 1
      commit == [user |-> u, type |-> p]
  IN /\ MayCall(u) /\ balance[u][p] >= 1 /\ c \in CommitIds
     /\ balance' = [balance EXCEPT ![u][p] = @ - 1]
     /\ nextCommitId' = c
     /\ commits' = [commits EXCEPT ![c] = commit]
     /\ ledger' = [ledger EXCEPT !.committed[c] = commit]
     /\ UNCHANGED <<coded, calls, usedClaimIds, usedRevealHashes, owner, nextCardTokenId, moneyVars, signed>>

\* The part the two reveals share, up to the loop.
Reveal(m) ==
  /\ m \in signed \cap RevealMessage
  /\ commits[m.commit] # NoOne /\ m.user = commits[m.commit].user
  /\ m \notin usedRevealHashes
  /\ usedRevealHashes' = usedRevealHashes \cup {m}
  /\ calls' = Append(calls, [message |-> m, start |-> nextCardTokenId, minted |-> 0])
  /\ UNCHANGED <<coded, holdVars, commits, nextCommitId, owner, nextCardTokenId, moneyVars, signed, ledger>>

revealOpen(u, m) == MayCall(u) /\ m.user = u /\ Reveal(m)

\* The signer reveals for a user who went away.
relayerRevealOpen(m) == Idle /\ Reveal(m)

\* The loop: the next card goes to the user of the commit, who is called back.
MintCard ==
  LET call == Last(calls)
      k    == call.start + call.minted
  IN /\ ~Idle /\ call.minted < call.message.draw.size
     /\ k \in CardIds /\ owner[k] = NoOne
     /\ owner' = [owner EXCEPT ![k] = call.message.user]
     /\ calls' = [calls EXCEPT ![Len(calls)].minted = @ + 1]
     /\ UNCHANGED <<coded, holdVars, commits, nextCommitId, usedRevealHashes, nextCardTokenId, moneyVars,
                    signed, ledger>>

\* The numbers the cards of a draw get.
Numbers(start, draw) == start .. start + draw.size - 1

Outcome(call) == [message |-> call.message, cards |-> Numbers(call.start, call.message.draw)]

\* (Wrong: the next number is not stored.)
RevealSameNumbers ==
  LET call == Last(calls) IN
  /\ ~Idle /\ call.minted = call.message.draw.size
  /\ nextCardTokenId' = nextCardTokenId
  /\ commits' = [commits EXCEPT ![call.message.commit] = NoOne]
  /\ ledger' = [ledger EXCEPT !.revealed = @ \cup {Outcome(call)}]
  /\ calls' = Front(calls)
  /\ UNCHANGED <<coded, holdVars, nextCommitId, usedRevealHashes, owner, moneyVars, signed>>

\* After the loop.
RevealEnds ==
  LET call == Last(calls) IN
  /\ ~Idle /\ call.minted = call.message.draw.size
  /\ nextCardTokenId' = call.start + call.message.draw.size
  /\ commits' = [commits EXCEPT ![call.message.commit] = NoOne]
  /\ ledger' = [ledger EXCEPT !.revealed = @ \cup {Outcome(call)}]
  /\ calls' = Front(calls)
  /\ UNCHANGED <<coded, holdVars, nextCommitId, usedRevealHashes, owner, moneyVars, signed>>

\* A call about a card: its owner's, or that of a contract with a role or an approval.
MayMove ==
  /\ \E u \in Users : MayCall(u)
  /\ Cardinality(ledger.burned) + Cardinality(ledger.moved) < MaxMoves

\* HodleagueCards: a card is burned by its owner or with BURNER_ROLE.
burn(k) ==
  /\ MayMove /\ owner[k] # NoOne /\ owner' = [owner EXCEPT ![k] = NoOne]
  /\ ledger' = [ledger EXCEPT !.burned = @ \cup {k}]
  /\ UNCHANGED <<coded, calls, holdVars, commits, nextCommitId, usedRevealHashes, nextCardTokenId, moneyVars,
                 signed>>

\* Unlike a pack, a card can be sent to another wallet.
transferFrom(v, k) ==
  /\ MayMove /\ owner[k] # NoOne /\ owner' = [owner EXCEPT ![k] = v]
  /\ ledger' = [ledger EXCEPT !.moved = @ \cup {k}]
  /\ UNCHANGED <<coded, calls, holdVars, commits, nextCommitId, usedRevealHashes, nextCardTokenId, moneyVars,
                 signed>>

-----------------------------------------------------------------------------
(* The administrator and the backend *)

setPackPrice(p, price) ==
  /\ Idle /\ adminCalls < MaxAdminCalls /\ adminCalls' = adminCalls + 1
  /\ packPrices' = [packPrices EXCEPT ![p] = price]
  /\ UNCHANGED <<coded, calls, holdVars, openVars, funds, signed, ledger>>

withdraw ==
  /\ Idle /\ adminCalls < MaxAdminCalls /\ adminCalls' = adminCalls + 1
  /\ funds' = 0
  /\ ledger' = [ledger EXCEPT !.withdrawn = @ + funds]
  /\ UNCHANGED <<coded, calls, holdVars, openVars, packPrices, signed>>

\* The backend may sign two draws for one commit and one claim for two amounts:
\* the contract is what keeps them apart.
SignClaim(m) ==
  /\ Idle /\ signed' = signed \cup {m}
  /\ UNCHANGED <<coded, calls, holdVars, openVars, moneyVars, ledger>>
SignReveal(c, draw) ==
  /\ Idle /\ commits[c] # NoOne
  /\ signed' = signed \cup {[user |-> commits[c].user, commit |-> c, draw |-> draw]}
  /\ UNCHANGED <<coded, calls, holdVars, openVars, moneyVars, ledger>>

ContractNext ==
  \/ \E u \in Users, p \in Types, n \in Amounts : mint(u, p, n)
  \/ \E u \in Users, p \in Types, n \in Amounts, more \in {0, 1} :
       buyPack(u, p, n, packPrices[p] * n + more)
  \/ \E u \in Users, p \in Types : commitOpen(u, p)
  \/ \E u \in Users, m \in signed : claimPack(u, m) \/ revealOpen(u, m)
  \/ \E m \in signed : relayerRevealOpen(m)
  \/ MintCard \/ RevealEnds
  \/ \E k \in CardIds : burn(k)
  \/ \E v \in Users, k \in CardIds : transferFrom(v, k)
  \/ \E p \in Types, price \in Prices : setPackPrice(p, price)
  \/ withdraw
  \/ \E m \in ClaimMessage : SignClaim(m)
  \/ \E c \in CommitIds, draw \in Seeds : SignReveal(c, draw)

ContractSpec == ContractInit /\ [][ContractNext]_contractVars

-----------------------------------------------------------------------------
(* Properties *)

Revealed == ledger.revealed
Pending(p) == {c \in CommitIds : commits[c] # NoOne /\ commits[c].type = p}
Opened(p) == {c \in CommitIds : /\ \E r \in Revealed : r.message.commit = c
                                /\ ledger.committed[c].type = p}

Call == [message : RevealMessage, start : Nat, minted : Nat]

ContractTypeOK ==
  /\ coded \subseteq Users /\ calls \in Seq(Call)
  /\ balance \in [Users -> [Types -> Nat]] /\ packPrices \in [Types -> Prices \cup {0}]
  /\ usedClaimIds \subseteq Claims /\ usedRevealHashes \subseteq RevealMessage
  /\ commits \in [CommitIds -> Commit \cup {NoOne}]
  /\ nextCommitId \in CommitIds \cup {0}
  /\ owner \in [CardIds -> Users \cup {NoOne}] /\ nextCardTokenId \in Nat
  /\ funds \in Nat /\ signed \subseteq ClaimMessage \cup RevealMessage
  /\ adminCalls \in 0 .. MaxAdminCalls

\* mint, buyPack, claimPack, commitOpen: a pack that was issued is in a wallet,
\* burned for a commit that waits, or of a commit that was revealed (by one call
\* or more); none is lost or doubled.
PacksAccounted ==
  \A p \in Types :
    ledger.issued[p] = MapThenSumSet(LAMBDA u : balance[u][p], Users)
                       + Cardinality(Pending(p)) + Cardinality(Opened(p))

\* revealOpen and relayerRevealOpen, in any order and within each other: a commit
\* waits or was revealed to the user who made it, a signed draw is used once,
\* and a second draw of one commit only in callbacks to a wallet with code.
CommitSettledOnce ==
  /\ \A c \in 1 .. nextCommitId : commits[c] = NoOne <=> \E r \in Revealed : r.message.commit = c
  /\ \A r \in Revealed : r.message.user = ledger.committed[r.message.commit].user
  /\ \A r, q \in Revealed : r.message.commit = q.message.commit /\ r # q =>
       r.message # q.message /\ r.message.user \in coded

\* _nextCardTokenId: a card is of one reveal, and belongs to the user who
\* committed until it is sent to another wallet or burned.
CardsOfTheCommit ==
  \A k \in CardIds :
    LET from == {r \in Revealed : k \in r.cards}
    IN /\ owner[k] # NoOne => \E r \in from : /\ from = {r}
                                              /\ owner[k] = r.message.user \/ k \in ledger.moved
       /\ from # {} => owner[k] # NoOne \/ k \in ledger.burned

\* A pending commit for which the backend has signed a draw can be revealed:
\* neither the numbers of the cards nor an earlier signature is in the way.
SignedIsRevealable ==
  \A m \in signed \cap RevealMessage :
    commits[m.commit] # NoOne =>
      /\ m.user = commits[m.commit].user /\ m \notin usedRevealHashes
      /\ \A k \in Numbers(nextCardTokenId, m.draw) \cap CardIds :
           owner[k] = NoOne /\ k \notin ledger.burned

\* buyPack and withdraw: the contract holds what packs cost when they were
\* bought, but for what was withdrawn, whatever the price did since.
FundsAreSales == funds + ledger.withdrawn = ledger.spent

\* claimPack: a claim is paid once, whatever was signed for it.
ClaimPaidOnce ==
  \A m, n \in ledger.claimed : m.claim = n.claim => m = n

\* Packs and money: every pack and every claim is accounted for, and the funds.
ContractAccounts == ContractTypeOK /\ PacksAccounted /\ FundsAreSales /\ ClaimPaidOnce

\* Commits and cards, between the transactions: a commit is settled, once but for
\* wallets with code; and as long as no wallet has code, with cards of its own,
\* and the backend's answer to it can always be used.
CommitsKept ==
  Idle => /\ CommitSettledOnce
          /\ coded = {} => CardsOfTheCommit /\ SignedIsRevealable
==============================================================================
