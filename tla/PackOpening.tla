----------------------------- MODULE PackOpening -----------------------------
(***************************************************************************)
(* Opening a pack: the prepare-open and confirm requests of the backend,   *)
(* the job that polls PackOpened events, and the HodleagueCards contract.  *)
(*                                                                         *)
(* Every request and the job run as tasks of one event loop over one       *)
(* database.  A task gives way at each await, so a task's step below is    *)
(* what it does from one await to the next, and what it wrote is seen by    *)
(* the others from its commit on (READ COMMITTED, no row locks, no unique   *)
(* constraint on pack_openings.pack_id or user_cards.nft_token_id).        *)
(***************************************************************************)
EXTENDS Integers, Sequences, FiniteSets

CONSTANTS
  Users, Packs, PackOwner,  \* user_packs rows: who owns which pack
  Draws,                    \* a server seed and the card_ids drawn with it
  OpeningIds,               \* values of the pack_openings id sequence (bound)
  Contracts,                \* addresses HodleagueCards is deployed at
  Preparers, Confirmers,    \* tasks serving prepare-open / confirm requests
  Poller,                   \* the task of the pack_opened_listener job
  PACK_OPENED_POLL_BLOCKS,  \* how many blocks back the job looks
  BlocksPerPoll,            \* blocks mined between two polls of a live server
  MaxBlock, MaxCrashes, MaxFaults,  \* bounds of the model
  None                      \* what scalar_one_or_none returns for no row

Opening == [user: Users, pack: Packs, draw: Draws,
            status: {"prepared", "completed"}, signature: Contracts]

ASSUME OwnerAssumption   == PackOwner \in [Packs -> Users]
ASSUME IdAssumption      == OpeningIds \subseteq Nat \ {0}
ASSUME TaskAssumption    == Poller \notin Confirmers
ASSUME NoneAssumption    == None \notin Opening
ASSUME NumberAssumption  ==
  /\ PACK_OPENED_POLL_BLOCKS \in Nat /\ BlocksPerPoll \in Nat
  /\ MaxBlock \in Nat /\ MaxCrashes \in Nat /\ MaxFaults \in Nat

VARIABLES
  isOpened, openings, nextOpeningId, userCards,  \* the database
  signatures,                   \* mint payloads returned to clients
  block, used, events,          \* the chain: height, contract storage, logs
  up, cardsAddress, lastPoll,   \* the server process and its configuration
  prep, appl, queue,            \* its tasks, and the logs the job is applying
  crashes, faults               \* how many failures there were (bounded)

dbVars     == <<isOpened, openings, nextOpeningId, userCards>>
chainVars  == <<block, used, events>>
serverVars == <<up, cardsAddress, lastPoll>>
taskVars   == <<prep, appl, queue>>
countVars  == <<crashes, faults>>
vars == <<dbVars, signatures, chainVars, serverVars, taskVars, countVars>>

Appliers == Confirmers \cup {Poller}

Signature == [user: Users, opening: OpeningIds, draw: Draws, contract: Contracts]
Event == [user: Users, opening: OpeningIds, draw: Draws, contract: Contracts,
          block: Nat]
\* The user_cards rows one opening inserts: one per card of its draw.
CardBatch == [user: Users, opening: OpeningIds, draw: Draws, contract: Contracts]

Idle == [pc |-> "idle"]
PrepareTask ==
  {Idle} \cup [pc: {"read", "draw"}, pack: Packs]
         \cup [pc: {"insert"}, pack: Packs, id: OpeningIds, draw: Draws]
         \cup [pc: {"resign"}, id: OpeningIds]
ApplyTask ==
  {Idle} \cup [pc: {"receipt"}, id: OpeningIds]
         \cup [pc: {"apply", "write"}, event: Event]

Init ==
  /\ isOpened = [k \in Packs |-> FALSE]
  /\ openings = [i \in OpeningIds |-> None]
  /\ nextOpeningId = 1
  /\ userCards = <<>>
  /\ signatures = {}
  /\ block = 0 /\ used = {} /\ events = {}
  /\ up = TRUE /\ cardsAddress \in Contracts /\ lastPoll = 0
  /\ prep = [p \in Preparers |-> Idle]
  /\ appl = [a \in Appliers |-> Idle]
  /\ queue = {}
  /\ crashes = 0 /\ faults = 0

-----------------------------------------------------------------------------
(* prepare-open *)

OpeningsOf(k) == {i \in OpeningIds : openings[i] # None /\ openings[i].pack = k}

\* The pack is read first: it must be the caller's and not opened.
PrepareBegin(p, u, k) ==
  /\ up /\ prep[p] = Idle
  /\ PackOwner[k] = u /\ ~isOpened[k]
  /\ prep' = [prep EXCEPT ![p] = [pc |-> "read", pack |-> k]]
  /\ UNCHANGED <<dbVars, signatures, chainVars, serverVars, appl, queue, countVars>>

\* Mutant: the pack's opening is not looked up.
PrepareReadBlind(p) ==
  /\ prep[p].pc = "read"
  /\ prep' = [prep EXCEPT ![p] = [pc |-> "draw", pack |-> prep[p].pack]]
  /\ UNCHANGED <<dbVars, signatures, chainVars, serverVars, appl, queue, countVars>>

\* Then its opening: re-sign the one there is, make one if there is none, and
\* fail if there are several (scalar_one_or_none).
PrepareRead(p) ==
  /\ prep[p].pc = "read"
  /\ LET found == OpeningsOf(prep[p].pack) IN
     \/ /\ found = {}
        /\ prep' = [prep EXCEPT ![p] = [pc |-> "draw", pack |-> prep[p].pack]]
     \/ \E i \in found :
          /\ found = {i}
          /\ prep' = [prep EXCEPT ![p] = [pc |-> "resign", id |-> i]]
     \/ /\ \E i, j \in found : i # j
        /\ prep' = [prep EXCEPT ![p] = Idle]
  /\ UNCHANGED <<dbVars, signatures, chainVars, serverVars, appl, queue, countVars>>

\* Draw the cards and flush the new row, which takes the next id of the sequence.
PrepareDraw(p, d) ==
  /\ prep[p].pc = "draw"
  /\ nextOpeningId \in OpeningIds
  /\ nextOpeningId' = nextOpeningId + 1
  /\ prep' = [prep EXCEPT ![p] = [pc |-> "insert", pack |-> prep[p].pack,
                                  id |-> nextOpeningId, draw |-> d]]
  /\ UNCHANGED <<isOpened, openings, userCards, signatures, chainVars, serverVars,
                 appl, queue, countVars>>

Sign(u, i, d) == [user |-> u, opening |-> i, draw |-> d, contract |-> cardsAddress]

\* The commit of a new opening, answered with the signed mint payload.
PrepareInsert(p) ==
  /\ prep[p].pc = "insert"
  /\ LET u == PackOwner[prep[p].pack] IN
     /\ openings' = [openings EXCEPT ![prep[p].id] =
          [user |-> u, pack |-> prep[p].pack, draw |-> prep[p].draw,
           status |-> "prepared", signature |-> cardsAddress]]
     /\ signatures' = signatures \cup {Sign(u, prep[p].id, prep[p].draw)}
  /\ prep' = [prep EXCEPT ![p] = Idle]
  /\ UNCHANGED <<isOpened, nextOpeningId, userCards, chainVars, serverVars,
                 appl, queue, countVars>>

\* Mutant: preparing again draws again.
PrepareResignRedraws(p) ==
  /\ prep[p].pc = "resign"
  /\ \E d \in Draws :
       signatures' = signatures \cup
         {Sign(PackOwner[openings[prep[p].id].pack], prep[p].id, d)}
  /\ prep' = [prep EXCEPT ![p] = Idle]
  /\ UNCHANGED <<dbVars, chainVars, serverVars, appl, queue, countVars>>

\* Mutant: preparing again writes the whole row back as prepared.
PrepareResignResets(p) ==
  /\ prep[p].pc = "resign"
  /\ openings' = [openings EXCEPT ![prep[p].id].status = "prepared",
                                  ![prep[p].id].signature = cardsAddress]
  /\ signatures' = signatures \cup
       {Sign(PackOwner[openings[prep[p].id].pack], prep[p].id, openings[prep[p].id].draw)}
  /\ prep' = [prep EXCEPT ![p] = Idle]
  /\ UNCHANGED <<isOpened, nextOpeningId, userCards, chainVars, serverVars,
                 appl, queue, countVars>>

\* The commit of a re-signed opening: only its signature column changes.
PrepareResign(p) ==
  /\ prep[p].pc = "resign"
  /\ LET row == openings[prep[p].id] IN
     /\ openings' = [openings EXCEPT ![prep[p].id] =
                       [row EXCEPT !.signature = cardsAddress]]
     /\ signatures' = signatures \cup {Sign(PackOwner[row.pack], prep[p].id, row.draw)}
  /\ prep' = [prep EXCEPT ![p] = Idle]
  /\ UNCHANGED <<isOpened, nextOpeningId, userCards, chainVars, serverVars,
                 appl, queue, countVars>>

\* An inactive pack type, an empty draw or a database error rolls back.
PrepareFails(p) ==
  /\ prep[p].pc \in {"draw", "insert", "resign"}
  /\ prep' = [prep EXCEPT ![p] = Idle]
  /\ UNCHANGED <<dbVars, signatures, chainVars, serverVars, appl, queue, countVars>>

-----------------------------------------------------------------------------
(* the chain *)

NewBlock ==
  /\ block < MaxBlock
  /\ up => block < lastPoll + BlocksPerPoll
  /\ block' = block + 1
  /\ UNCHANGED <<dbVars, signatures, used, events, serverVars, taskVars, countVars>>

\* HodleagueCards.mintWithSignature: an opening is minted once per contract.
MintWithSignature(s) ==
  /\ <<s.contract, s.opening>> \notin used
  /\ used' = used \cup {<<s.contract, s.opening>>}
  /\ events' = events \cup {[user |-> s.user, opening |-> s.opening, draw |-> s.draw,
                             contract |-> s.contract, block |-> block]}
  /\ UNCHANGED <<dbVars, signatures, block, serverVars, taskVars, countVars>>

-----------------------------------------------------------------------------
(* confirm, and the polling job *)

\* The request's opening is the caller's and still prepared.
ConfirmBegin(a, i) ==
  /\ up /\ appl[a] = Idle
  /\ openings[i] # None /\ openings[i].status = "prepared"
  /\ appl' = [appl EXCEPT ![a] = [pc |-> "receipt", id |-> i]]
  /\ UNCHANGED <<dbVars, signatures, chainVars, serverVars, prep, queue, countVars>>

\* Mutant: the emitting contract is not compared with the configured one.
SeenAnywhere == events

Seen == {e \in events : e.contract = cardsAddress}

\* Mutant: the client is believed without a receipt.
ConfirmUnseen(a) ==
  /\ appl[a].pc = "receipt"
  /\ LET row == openings[appl[a].id] IN
     appl' = [appl EXCEPT ![a] = [pc |-> "apply", event |->
       [user |-> row.user, opening |-> appl[a].id, draw |-> row.draw,
        contract |-> cardsAddress, block |-> block]]]
  /\ UNCHANGED <<dbVars, signatures, chainVars, serverVars, prep, queue, countVars>>

\* The receipt of the transaction the client named, fetched in a thread.
ConfirmReceipt(a) ==
  /\ appl[a].pc = "receipt"
  /\ \/ \E e \in Seen :
          /\ e.opening = appl[a].id /\ e.user = openings[e.opening].user
          /\ appl' = [appl EXCEPT ![a] = [pc |-> "apply", event |-> e]]
     \/ appl' = [appl EXCEPT ![a] = Idle]
  /\ UNCHANGED <<dbVars, signatures, chainVars, serverVars, prep, queue, countVars>>

\* Mutant: the window is one block short.
PollFetchShort ==
  /\ up /\ appl[Poller] = Idle /\ queue = {}
  /\ queue' = {e \in Seen : e.block > block - PACK_OPENED_POLL_BLOCKS}
  /\ lastPoll' = block
  /\ UNCHANGED <<dbVars, signatures, chainVars, up, cardsAddress, prep, appl, countVars>>

\* One run of the job fetches the logs of the last blocks.
PollFetch ==
  /\ up /\ appl[Poller] = Idle /\ queue = {}
  /\ queue' = {e \in Seen : e.block >= block - PACK_OPENED_POLL_BLOCKS}
  /\ lastPoll' = block
  /\ UNCHANGED <<dbVars, signatures, chainVars, up, cardsAddress, prep, appl, countVars>>

\* A failing get_logs is logged and the run ends with nothing applied.
PollFails ==
  /\ up /\ appl[Poller] = Idle /\ queue = {} /\ faults < MaxFaults
  /\ lastPoll' = block
  /\ faults' = faults + 1
  /\ UNCHANGED <<dbVars, signatures, chainVars, up, cardsAddress, taskVars, crashes>>

PollNext(e) ==
  /\ appl[Poller] = Idle /\ e \in queue
  /\ queue' = queue \ {e}
  /\ appl' = [appl EXCEPT ![Poller] = [pc |-> "apply", event |-> e]]
  /\ UNCHANGED <<dbVars, signatures, chainVars, serverVars, prep, countVars>>

\* Mutant: an opening is applied whatever its status.
ApplicableAgain(e) ==
  /\ openings[e.opening] # None
  /\ openings[e.opening].user = e.user
  /\ openings[e.opening].draw = e.draw

\* The opening the event names, if it is that user's, prepared, with those cards.
Applicable(e) ==
  /\ openings[e.opening] # None
  /\ openings[e.opening].user = e.user
  /\ openings[e.opening].status = "prepared"
  /\ openings[e.opening].draw = e.draw

ApplyRead(a) ==
  /\ appl[a].pc = "apply"
  /\ appl' = [appl EXCEPT ![a] =
       IF Applicable(appl[a].event) THEN [pc |-> "write", event |-> appl[a].event]
                                    ELSE Idle]
  /\ UNCHANGED <<dbVars, signatures, chainVars, serverVars, prep, queue, countVars>>

\* Mutant: the pack is not marked opened.
ApplyWriteNoPack(a) ==
  /\ appl[a].pc = "write"
  /\ LET e == appl[a].event IN
     /\ userCards' = Append(userCards, [user |-> e.user, opening |-> e.opening,
                                        draw |-> e.draw, contract |-> cardsAddress])
     /\ openings' = [openings EXCEPT ![e.opening].status = "completed"]
  /\ appl' = [appl EXCEPT ![a] = Idle]
  /\ UNCHANGED <<isOpened, nextOpeningId, signatures, chainVars, serverVars, prep,
                 queue, countVars>>

\* The commit of the cards, the opening and the pack; the status is not read again.
ApplyWrite(a) ==
  /\ appl[a].pc = "write"
  /\ LET e == appl[a].event IN
     /\ userCards' = Append(userCards, [user |-> e.user, opening |-> e.opening,
                                        draw |-> e.draw, contract |-> cardsAddress])
     /\ openings' = [openings EXCEPT ![e.opening].status = "completed"]
     /\ isOpened' = [isOpened EXCEPT ![openings[e.opening].pack] = TRUE]
  /\ appl' = [appl EXCEPT ![a] = Idle]
  /\ UNCHANGED <<nextOpeningId, signatures, chainVars, serverVars, prep, queue, countVars>>

\* An error while applying rolls back; the job logs it and goes on.
ApplyFails(a) ==
  /\ appl[a].pc \in {"apply", "write"} /\ faults < MaxFaults
  /\ appl' = [appl EXCEPT ![a] = Idle]
  /\ faults' = faults + 1
  /\ UNCHANGED <<dbVars, signatures, chainVars, serverVars, prep, queue, crashes>>

-----------------------------------------------------------------------------
(* the server process *)

\* Tasks and their uncommitted writes are lost; the job keeps no cursor.
Crash ==
  /\ up /\ crashes < MaxCrashes
  /\ up' = FALSE /\ crashes' = crashes + 1
  /\ prep' = [p \in Preparers |-> Idle]
  /\ appl' = [a \in Appliers |-> Idle]
  /\ queue' = {}
  /\ UNCHANGED <<dbVars, signatures, chainVars, cardsAddress, lastPoll, faults>>

\* CARDS_CONTRACT_ADDRESS is read at start, so this is where a redeploy is seen.
Restart(c) ==
  /\ ~up
  /\ up' = TRUE /\ cardsAddress' = c /\ lastPoll' = block
  /\ UNCHANGED <<dbVars, signatures, chainVars, taskVars, countVars>>

-----------------------------------------------------------------------------
PrepareStep(p) ==
  \/ \E u \in Users, k \in Packs : PrepareBegin(p, u, k)
  \/ PrepareRead(p)
  \/ \E d \in Draws : PrepareDraw(p, d)
  \/ PrepareInsert(p)
  \/ PrepareResign(p)
  \/ PrepareFails(p)

ConfirmStep(a) == (\E i \in OpeningIds : ConfirmBegin(a, i)) \/ ConfirmReceipt(a)

ApplyStep(a) == ApplyRead(a) \/ ApplyWrite(a) \/ ApplyFails(a)

PollStep == PollFetch \/ PollFails \/ (\E e \in queue : PollNext(e))

ChainStep == NewBlock \/ (\E s \in signatures : MintWithSignature(s))

ServerStep == Crash \/ (\E c \in Contracts : Restart(c))

Next ==
  \/ \E p \in Preparers : PrepareStep(p)
  \/ \E a \in Confirmers : ConfirmStep(a)
  \/ \E a \in Appliers : ApplyStep(a)
  \/ PollStep
  \/ ChainStep
  \/ ServerStep

Spec == Init /\ [][Next]_vars

\* The scheduler keeps running the job and a run of it ends; a supervisor
\* restarts the server.  Users and blocks owe nothing.
Fairness ==
  /\ WF_vars(PollFetch)
  /\ WF_vars(\E e \in queue : PollNext(e))
  /\ WF_vars(ApplyRead(Poller))
  /\ WF_vars(ApplyWrite(Poller))
  /\ WF_vars(\E c \in Contracts : Restart(c))

FairSpec == Spec /\ Fairness
-----------------------------------------------------------------------------
TypeOK ==
  /\ isOpened \in [Packs -> BOOLEAN]
  /\ openings \in [OpeningIds -> Opening \cup {None}]
  /\ nextOpeningId \in Nat
  /\ userCards \in Seq(CardBatch)
  /\ signatures \in SUBSET Signature
  /\ block \in Nat /\ used \in SUBSET (Contracts \X OpeningIds)
  /\ events \in SUBSET Event
  /\ up \in BOOLEAN /\ cardsAddress \in Contracts /\ lastPoll \in Nat
  /\ prep \in [Preparers -> PrepareTask]
  /\ appl \in [Appliers -> ApplyTask]
  /\ queue \in SUBSET events
  /\ crashes \in Nat /\ faults \in Nat

\* Every payload the backend ever signed for an opening binds the user and the
\* cards the opening was stored with: preparing again is never a reroll.
SignedAsStored ==
  \A s \in signatures :
    /\ openings[s.opening] # None
    /\ openings[s.opening].user = s.user
    /\ openings[s.opening].draw = s.draw

\* Cards in the database are backed by a mint the configured contract logged for
\* the same user and the same draw, whoever recorded them and after whatever restart.
CardsBackedByMint ==
  \A n \in DOMAIN userCards :
    \E e \in events :
      /\ e.opening = userCards[n].opening /\ e.contract = userCards[n].contract
      /\ e.user = userCards[n].user /\ e.draw = userCards[n].draw

\* An opening is completed exactly when its cards are in the database.
CompletedIffRecorded ==
  \A i \in OpeningIds :
    openings[i] # None =>
      (openings[i].status = "completed"
         <=> \E n \in DOMAIN userCards : userCards[n].opening = i)

\* A pack counts as opened exactly when one of its openings is completed.
OpenedIffCompleted ==
  \A k \in Packs :
    isOpened[k] <=> \E i \in OpeningsOf(k) : openings[i].status = "completed"

\* The three tables tell one story: the cards, the opening and the pack change
\* together, or not at all, whoever recorded the mint.
RecordsAgree == CompletedIffRecorded /\ OpenedIffCompleted

\* No reroll across openings: a pack has at most one opening.
OneOpeningPerPack ==
  \A i, j \in OpeningIds :
    (openings[i] # None /\ openings[j] # None /\ openings[i].pack = openings[j].pack)
      => i = j

\* A minted token is one row of user_cards, not two.
OneRowPerToken ==
  \A m, n \in DOMAIN userCards :
    userCards[m].opening = userCards[n].opening => m = n

\* What was stored for an opening never changes, a completed opening stays
\* completed and recorded cards stay recorded, through re-signing and restarts.
HistoryKept ==
  [][/\ \A i \in OpeningIds : openings[i] # None =>
          /\ openings'[i] # None
          /\ openings'[i].user = openings[i].user
          /\ openings'[i].pack = openings[i].pack
          /\ openings'[i].draw = openings[i].draw
          /\ openings[i].status = "completed" => openings'[i].status = "completed"
     /\ \A n \in DOMAIN userCards : userCards'[n] = userCards[n]]_vars

\* Minted cards reach the database even if no client ever confirms the mint.
Completed(i) == openings[i] # None /\ openings[i].status = "completed"
MintedIsRecorded ==
  \A i \in OpeningIds : (\E e \in events : e.opening = i) ~> Completed(i)

-----------------------------------------------------------------------------
(* The openings implement the abstract life cycle. *)

stageOf == [i \in OpeningIds |->
  IF openings[i] = None THEN "absent"
  ELSE IF openings[i].status = "completed" THEN "recorded"
  ELSE IF \E e \in events : e.opening = i THEN "minted"
  ELSE "offered"]

offerOf == [i \in OpeningIds |->
  IF openings[i] = None THEN {}
  ELSE {[user |-> openings[i].user, pack |-> openings[i].pack, draw |-> openings[i].draw]}]

Abstract == INSTANCE PackLifecycle
  WITH Ids <- OpeningIds, Offers <- [user: Users, pack: Packs, draw: Draws],
       stage <- stageOf, offer <- offerOf

\* No step skips or undoes a stage of an opening, or changes what it offered.
ImplementsLifecycle == Abstract!AbstractSpec
==============================================================================
