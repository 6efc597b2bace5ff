-------------------------- MODULE PackOpeningProofs --------------------------
(***************************************************************************)
(* What holds of PackOpening for every number of users, packs, tasks,      *)
(* contracts and blocks: the inductive invariant and its consequences.     *)
(***************************************************************************)
EXTENDS PackOpening, TLAPS

-----------------------------------------------------------------------------
(* The inductive invariant. *)

\* An event on a contract was signed for that contract by the backend.
EventsSigned ==
  \A e \in events : \E s \in signatures :
    /\ s.user = e.user /\ s.opening = e.opening
    /\ s.draw = e.draw /\ s.contract = e.contract

\* An opening belongs to the owner of its pack, so whoever may prepare it again
\* is the user it was stored for.
RowsOwned ==
  \A i \in OpeningIds : openings[i] # None => openings[i].user = PackOwner[openings[i].pack]

\* Ids handed out by the sequence are used once.
RowIds == \A i \in OpeningIds : openings[i] # None => i < nextOpeningId
NewIds == \A p \in Preparers : prep[p].pc = "insert" =>
            prep[p].id < nextOpeningId /\ openings[prep[p].id] = None
OwnIds == \A p, q \in Preparers :
            (prep[p].pc = "insert" /\ prep[q].pc = "insert" /\ prep[p].id = prep[q].id)
              => p = q
FreshIds == RowIds /\ NewIds /\ OwnIds

\* A task that found a row still finds it.
TaskRows ==
  /\ \A p \in Preparers : prep[p].pc = "resign" => openings[prep[p].id] # None
  /\ \A a \in Appliers : appl[a].pc = "receipt" => openings[appl[a].id] # None

\* What is being applied was logged by the configured contract.
TaskEvents ==
  /\ \A a \in Appliers : appl[a].pc \in {"apply", "write"} =>
       appl[a].event \in events /\ appl[a].event.contract = cardsAddress
  /\ \A e \in queue : e.contract = cardsAddress

\* A server that is down has no tasks, so none outlives a change of address.
DownIdle ==
  ~up => /\ prep = [p \in Preparers |-> Idle]
         /\ appl = [a \in Appliers |-> Idle]
         /\ queue = {}

Links == /\ SignedAsStored /\ EventsSigned /\ RowsOwned /\ FreshIds
         /\ TaskRows /\ TaskEvents /\ DownIdle

Records == CardsBackedByMint /\ CompletedIffRecorded /\ OpenedIffCompleted

IInv == TypeOK /\ Links /\ Records

-----------------------------------------------------------------------------
(* Type correctness.  The rows a task writes to exist by TaskRows and       *)
(* TaskEvents, so the invariant is needed for more than the types.          *)

LEMMA InitInv == Init => IInv
<1> SUFFICES ASSUME Init PROVE IInv
  OBVIOUS
<1> USE DEF Init, Idle
<1>1. TypeOK
  BY OwnerAssumption DEF TypeOK, PrepareTask, ApplyTask
<1>2. Links
  BY DEF Links, SignedAsStored, EventsSigned, RowsOwned, FreshIds, RowIds, NewIds, OwnIds,
         TaskRows, TaskEvents, DownIdle
<1>3. Records
  BY DEF Records, CardsBackedByMint, CompletedIffRecorded, OpenedIffCompleted, OpeningsOf
<1>. QED
  BY <1>1, <1>2, <1>3 DEF IInv

\* The row an event being applied refers to exists and is what was signed.
LEMMA EventRow ==
  ASSUME IInv, NEW e \in events
  PROVE  /\ openings[e.opening] \in Opening
         /\ openings[e.opening].user = e.user
         /\ openings[e.opening].draw = e.draw
         /\ e.opening \in OpeningIds
<1>1. e.opening \in OpeningIds
  BY DEF IInv, TypeOK, Event
<1>2. PICK s \in signatures : s.user = e.user /\ s.opening = e.opening /\ s.draw = e.draw
  BY DEF IInv, Links, EventsSigned
<1>3. openings[e.opening] # None /\ openings[e.opening].user = e.user
      /\ openings[e.opening].draw = e.draw
  BY <1>2 DEF IInv, Links, SignedAsStored
<1>. QED
  BY <1>1, <1>3 DEF IInv, TypeOK

LEMMA TypeStep == IInv /\ [Next]_vars => TypeOK'
<1> SUFFICES ASSUME IInv, [Next]_vars PROVE TypeOK'
  OBVIOUS
<1> USE DEF dbVars, chainVars, serverVars, taskVars, countVars
<1>0. TypeOK
  BY DEF IInv
<1>1. ASSUME NEW p \in Preparers, PrepareStep(p) PROVE TypeOK'
  <2>1. ASSUME NEW u \in Users, NEW k \in Packs, PrepareBegin(p, u, k) PROVE TypeOK'
    BY <1>0, <2>1 DEF PrepareBegin, TypeOK, PrepareTask
  <2>2. CASE PrepareRead(p)
    <3>1. prep[p].pack \in Packs
      BY <1>0, <2>2 DEF PrepareRead, TypeOK, PrepareTask, Idle
    <3>. QED
      BY <1>0, <2>2, <3>1 DEF PrepareRead, TypeOK, PrepareTask, Idle, OpeningsOf
  <2>3. ASSUME NEW d \in Draws, PrepareDraw(p, d) PROVE TypeOK'
    <3>1. prep[p].pack \in Packs
      BY <1>0, <2>3 DEF PrepareDraw, TypeOK, PrepareTask, Idle
    <3>. QED
      BY <1>0, <2>3, <3>1 DEF PrepareDraw, TypeOK, PrepareTask
  <2>4. CASE PrepareInsert(p)
    <3>1. prep[p].pack \in Packs /\ prep[p].id \in OpeningIds /\ prep[p].draw \in Draws
      BY <1>0, <2>4 DEF PrepareInsert, TypeOK, PrepareTask, Idle
    <3>. QED
      BY <1>0, <2>4, <3>1, OwnerAssumption
         DEF PrepareInsert, Sign, TypeOK, PrepareTask, Opening, Signature
  <2>5. CASE PrepareResign(p)
    <3>1. prep[p].id \in OpeningIds
      BY <1>0, <2>5 DEF PrepareResign, TypeOK, PrepareTask, Idle
    <3>2. openings[prep[p].id] \in Opening
      BY <1>0, <2>5, <3>1 DEF PrepareResign, TypeOK, IInv, Links, TaskRows
    <3>. QED
      BY <1>0, <2>5, <3>1, <3>2, OwnerAssumption
         DEF PrepareResign, Sign, TypeOK, PrepareTask, Opening, Signature
  <2>6. CASE PrepareFails(p)
    BY <1>0, <2>6 DEF PrepareFails, TypeOK, PrepareTask
  <2>. QED
    BY <1>1, <2>1, <2>2, <2>3, <2>4, <2>5, <2>6 DEF PrepareStep
<1>2. ASSUME NEW a \in Confirmers, ConfirmStep(a) PROVE TypeOK'
  <2>1. ASSUME NEW i \in OpeningIds, ConfirmBegin(a, i) PROVE TypeOK'
    BY <1>0, <2>1 DEF ConfirmBegin, TypeOK, ApplyTask
  <2>2. CASE ConfirmReceipt(a)
    BY <1>0, <2>2 DEF ConfirmReceipt, TypeOK, ApplyTask, Seen
  <2>. QED
    BY <1>2, <2>1, <2>2 DEF ConfirmStep
<1>3. ASSUME NEW a \in Appliers, ApplyStep(a) PROVE TypeOK'
  <2>1. CASE ApplyRead(a)
    <3>1. appl[a].event \in Event
      BY <1>0, <2>1 DEF ApplyRead, TypeOK, ApplyTask, Idle
    <3>. QED
      BY <1>0, <2>1, <3>1 DEF ApplyRead, TypeOK, ApplyTask
  <2>2. CASE ApplyWrite(a)
    <3> DEFINE e == appl[a].event
    <3>1. e \in Event /\ e \in events
      BY <1>0, <2>2 DEF ApplyWrite, TypeOK, ApplyTask, Idle, IInv, Links, TaskEvents
    <3>2. openings[e.opening] \in Opening /\ e.opening \in OpeningIds
      BY <3>1, EventRow
    <3>3. userCards' \in Seq(CardBatch)
      BY <1>0, <2>2, <3>1 DEF ApplyWrite, TypeOK, CardBatch, Event
    <3>4. openings' \in [OpeningIds -> Opening \cup {None}]
      BY <1>0, <2>2, <3>2 DEF ApplyWrite, TypeOK, Opening
    <3>5. isOpened' \in [Packs -> BOOLEAN]
      BY <1>0, <2>2, <3>2 DEF ApplyWrite, TypeOK, Opening
    <3>. QED
      BY <1>0, <2>2, <3>3, <3>4, <3>5 DEF ApplyWrite, TypeOK, ApplyTask
  <2>3. CASE ApplyFails(a)
    BY <1>0, <2>3 DEF ApplyFails, TypeOK, ApplyTask
  <2>. QED
    BY <1>3, <2>1, <2>2, <2>3 DEF ApplyStep
<1>4. ASSUME PollStep PROVE TypeOK'
  <2>1. CASE PollFetch
    BY <1>0, <2>1 DEF PollFetch, TypeOK, Seen
  <2>2. CASE PollFails
    BY <1>0, <2>2 DEF PollFails, TypeOK
  <2>3. ASSUME NEW e \in queue, PollNext(e) PROVE TypeOK'
    BY <1>0, <2>3 DEF PollNext, TypeOK, ApplyTask
  <2>. QED
    BY <1>4, <2>1, <2>2, <2>3 DEF PollStep
<1>5. ASSUME ChainStep PROVE TypeOK'
  <2>1. CASE NewBlock
    BY <1>0, <2>1 DEF NewBlock, TypeOK
  <2>2. ASSUME NEW s \in signatures, MintWithSignature(s) PROVE TypeOK'
    BY <1>0, <2>2 DEF MintWithSignature, TypeOK, Signature, Event
  <2>. QED
    BY <1>5, <2>1, <2>2 DEF ChainStep
<1>6. ASSUME ServerStep PROVE TypeOK'
  <2>1. CASE Crash
    <3>1. prep' \in [Preparers -> PrepareTask] /\ appl' \in [Appliers -> ApplyTask]
      BY <2>1 DEF Crash, PrepareTask, ApplyTask
    <3>2. queue' = {} /\ up' = FALSE /\ crashes' \in Nat
      BY <1>0, <2>1 DEF Crash, TypeOK
    <3>. QED
      BY <1>0, <2>1, <3>1, <3>2 DEF Crash, TypeOK
  <2>2. ASSUME NEW c \in Contracts, Restart(c) PROVE TypeOK'
    BY <1>0, <2>2 DEF Restart, TypeOK
  <2>. QED
    BY <1>6, <2>1, <2>2 DEF ServerStep
<1>7. CASE UNCHANGED vars
  BY <1>0, <1>7 DEF TypeOK, vars
<1>. QED
  BY <1>1, <1>2, <1>3, <1>4, <1>5, <1>6, <1>7 DEF Next

-----------------------------------------------------------------------------
(* Which steps touch which part of the state. *)

Untouched == UNCHANGED <<isOpened, openings, userCards, signatures>>

\* The database and the signatures change only at the commits of the tasks.
LEMMA Commits ==
  ASSUME [Next]_vars
  PROVE  \/ \E p \in Preparers : PrepareInsert(p) \/ PrepareResign(p)
         \/ \E a \in Appliers : ApplyWrite(a)
         \/ Untouched
<1> USE DEF Untouched, dbVars, vars
<1>1. ASSUME NEW p \in Preparers, PrepareStep(p)
      PROVE PrepareInsert(p) \/ PrepareResign(p) \/ Untouched
  BY <1>1 DEF PrepareStep, PrepareBegin, PrepareRead, PrepareDraw, PrepareFails
<1>2. ASSUME NEW a \in Confirmers, ConfirmStep(a) PROVE Untouched
  BY <1>2 DEF ConfirmStep, ConfirmBegin, ConfirmReceipt
<1>3. ASSUME NEW a \in Appliers, ApplyStep(a) PROVE ApplyWrite(a) \/ Untouched
  BY <1>3 DEF ApplyStep, ApplyRead, ApplyFails
<1>4. ASSUME PollStep PROVE Untouched
  BY <1>4 DEF PollStep, PollFetch, PollFails, PollNext
<1>5. ASSUME ChainStep PROVE Untouched
  BY <1>5 DEF ChainStep, NewBlock, MintWithSignature
<1>6. ASSUME ServerStep PROVE Untouched
  BY <1>6 DEF ServerStep, Crash, Restart
<1>. QED
  BY <1>1, <1>2, <1>3, <1>4, <1>5, <1>6 DEF Next

\* Only a mint adds an event, and it adds one for a signature.
LEMMA Logs ==
  ASSUME [Next]_vars
  PROVE  \/ events' = events
         \/ \E s \in signatures :
              /\ MintWithSignature(s)
              /\ UNCHANGED <<signatures, openings, userCards>>
<1> USE DEF chainVars, dbVars, vars
<1>1. ASSUME NEW p \in Preparers, PrepareStep(p) PROVE events' = events
  BY <1>1 DEF PrepareStep, PrepareBegin, PrepareRead, PrepareDraw, PrepareInsert,
              PrepareResign, PrepareFails
<1>2. ASSUME NEW a \in Confirmers, ConfirmStep(a) PROVE events' = events
  BY <1>2 DEF ConfirmStep, ConfirmBegin, ConfirmReceipt
<1>3. ASSUME NEW a \in Appliers, ApplyStep(a) PROVE events' = events
  BY <1>3 DEF ApplyStep, ApplyRead, ApplyWrite, ApplyFails
<1>4. ASSUME PollStep PROVE events' = events
  BY <1>4 DEF PollStep, PollFetch, PollFails, PollNext
<1>5. ASSUME ChainStep
      PROVE  \/ events' = events
             \/ \E s \in signatures :
                  /\ MintWithSignature(s)
                  /\ UNCHANGED <<signatures, openings, userCards>>
  BY <1>5 DEF ChainStep, NewBlock, MintWithSignature
<1>6. ASSUME ServerStep PROVE events' = events
  BY <1>6 DEF ServerStep, Crash, Restart
<1>. QED
  BY <1>1, <1>2, <1>3, <1>4, <1>5, <1>6 DEF Next

LEMMA EventsGrow == [Next]_vars => events \subseteq events'
BY Logs DEF MintWithSignature

\* The commit of a prepare, an opening at a time.
LEMMA InsertRow ==
  ASSUME IInv, NEW p \in Preparers, PrepareInsert(p)
  PROVE  /\ prep[p].id \in OpeningIds /\ prep[p].pack \in Packs
         /\ openings[prep[p].id] = None
         /\ openings' = [openings EXCEPT ![prep[p].id] =
              [user |-> PackOwner[prep[p].pack], pack |-> prep[p].pack,
               draw |-> prep[p].draw, status |-> "prepared", signature |-> cardsAddress]]
         /\ openings'[prep[p].id] # None
         /\ openings'[prep[p].id].user = PackOwner[prep[p].pack]
         /\ openings'[prep[p].id].pack = prep[p].pack
         /\ openings'[prep[p].id].draw = prep[p].draw
         /\ openings'[prep[p].id].status = "prepared"
<1>1. prep[p].id \in OpeningIds /\ prep[p].pack \in Packs /\ prep[p].draw \in Draws
  BY DEF IInv, TypeOK, PrepareInsert, PrepareTask, Idle
<1>2. openings[prep[p].id] = None
  BY DEF IInv, Links, FreshIds, NewIds, PrepareInsert
<1>3. openings' = [openings EXCEPT ![prep[p].id] =
              [user |-> PackOwner[prep[p].pack], pack |-> prep[p].pack,
               draw |-> prep[p].draw, status |-> "prepared", signature |-> cardsAddress]]
  BY DEF PrepareInsert
<1>4. [user |-> PackOwner[prep[p].pack], pack |-> prep[p].pack, draw |-> prep[p].draw,
       status |-> "prepared", signature |-> cardsAddress] \in Opening
  BY <1>1, OwnerAssumption DEF IInv, TypeOK, Opening
<1>5. openings'[prep[p].id] =
        [user |-> PackOwner[prep[p].pack], pack |-> prep[p].pack,
         draw |-> prep[p].draw, status |-> "prepared", signature |-> cardsAddress]
  BY <1>1, <1>3 DEF IInv, TypeOK
<1>6. openings'[prep[p].id] # None
  BY <1>4, <1>5, NoneAssumption
<1>. QED
  BY <1>1, <1>2, <1>3, <1>5, <1>6

LEMMA ResignRow ==
  ASSUME IInv, NEW p \in Preparers, PrepareResign(p)
  PROVE  /\ prep[p].id \in OpeningIds
         /\ openings[prep[p].id] \in Opening
         /\ openings' = [openings EXCEPT ![prep[p].id] =
                            [openings[prep[p].id] EXCEPT !.signature = cardsAddress]]
         /\ openings'[prep[p].id] \in Opening
         /\ openings'[prep[p].id].status = openings[prep[p].id].status
         /\ openings'[prep[p].id].pack = openings[prep[p].id].pack
         /\ \A i \in OpeningIds : i # prep[p].id => openings'[i] = openings[i]
<1>1. prep[p].id \in OpeningIds
  BY DEF IInv, TypeOK, PrepareResign, PrepareTask, Idle
<1>2. openings[prep[p].id] \in Opening
  BY <1>1 DEF IInv, TypeOK, Links, TaskRows, PrepareResign
<1>3. openings' = [openings EXCEPT ![prep[p].id] =
                            [openings[prep[p].id] EXCEPT !.signature = cardsAddress]]
  BY DEF PrepareResign
<1>4. /\ openings'[prep[p].id] = [openings[prep[p].id] EXCEPT !.signature = cardsAddress]
      /\ \A i \in OpeningIds : i # prep[p].id => openings'[i] = openings[i]
  BY <1>1, <1>3 DEF IInv, TypeOK
<1>. QED
  BY <1>1, <1>2, <1>3, <1>4 DEF IInv, TypeOK, Opening

LEMMA WriteRow ==
  ASSUME IInv, NEW a \in Appliers, ApplyWrite(a)
  PROVE  LET e == appl[a].event IN
         /\ e \in events /\ e.contract = cardsAddress
         /\ e.opening \in OpeningIds /\ openings[e.opening] \in Opening
         /\ openings[e.opening].user = e.user /\ openings[e.opening].draw = e.draw
         /\ openings' = [openings EXCEPT ![e.opening].status = "completed"]
         /\ openings'[e.opening] \in Opening
         /\ openings'[e.opening].status = "completed"
         /\ openings'[e.opening].pack = openings[e.opening].pack
         /\ \A i \in OpeningIds : i # e.opening => openings'[i] = openings[i]
<1> DEFINE e == appl[a].event
<1>1. e \in events /\ e.contract = cardsAddress
  BY DEF IInv, Links, TaskEvents, ApplyWrite
<1>2. e.opening \in OpeningIds /\ openings[e.opening] \in Opening
      /\ openings[e.opening].user = e.user /\ openings[e.opening].draw = e.draw
  BY <1>1, EventRow
<1>3. openings' = [openings EXCEPT ![e.opening].status = "completed"]
  BY DEF ApplyWrite
<1>4. /\ openings'[e.opening] = [openings[e.opening] EXCEPT !.status = "completed"]
      /\ \A i \in OpeningIds : i # e.opening => openings'[i] = openings[i]
  BY <1>2, <1>3 DEF IInv, TypeOK
<1>5. /\ openings'[e.opening] \in Opening
      /\ openings'[e.opening].status = "completed"
      /\ openings'[e.opening].pack = openings[e.opening].pack
  BY <1>2, <1>4 DEF Opening
<1>. QED
  BY <1>1, <1>2, <1>3, <1>4, <1>5

-----------------------------------------------------------------------------
(* Nothing stored is ever lost or changed. *)

RowsKept ==
  \A i \in OpeningIds : openings[i] # None =>
    /\ openings'[i] # None
    /\ openings'[i].user = openings[i].user
    /\ openings'[i].pack = openings[i].pack
    /\ openings'[i].draw = openings[i].draw
    /\ openings[i].status = "completed" => openings'[i].status = "completed"

CardsKept == \A n \in DOMAIN userCards : userCards'[n] = userCards[n]

LEMMA KeepsRows == IInv /\ [Next]_vars => RowsKept /\ CardsKept
<1> SUFFICES ASSUME IInv, [Next]_vars PROVE RowsKept /\ CardsKept
  OBVIOUS
<1>0. openings \in [OpeningIds -> Opening \cup {None}] /\ userCards \in Seq(CardBatch)
  BY DEF IInv, TypeOK
<1>1. ASSUME NEW p \in Preparers, PrepareInsert(p) PROVE RowsKept /\ CardsKept
  <2>1. RowsKept
    BY <1>0, <1>1, InsertRow DEF RowsKept
  <2>. QED
    BY <1>1, <2>1 DEF CardsKept, PrepareInsert
<1>2. ASSUME NEW p \in Preparers, PrepareResign(p) PROVE RowsKept /\ CardsKept
  <2> DEFINE i0 == prep[p].id
  <2>0. /\ i0 \in OpeningIds /\ openings[i0] \in Opening
        /\ openings'[i0] = [openings[i0] EXCEPT !.signature = cardsAddress]
        /\ openings'[i0] # None
        /\ \A i \in OpeningIds : i # i0 => openings'[i] = openings[i]
    BY <1>0, <1>2, ResignRow, NoneAssumption
  <2>1. RowsKept
    BY <2>0 DEF RowsKept, Opening
  <2>. QED
    BY <1>2, <2>1 DEF CardsKept, PrepareResign
<1>3. ASSUME NEW a \in Appliers, ApplyWrite(a) PROVE RowsKept /\ CardsKept
  <2> DEFINE i0 == appl[a].event.opening
  <2>0. /\ i0 \in OpeningIds /\ openings[i0] \in Opening
        /\ openings'[i0] = [openings[i0] EXCEPT !.status = "completed"]
        /\ openings'[i0] # None
        /\ \A i \in OpeningIds : i # i0 => openings'[i] = openings[i]
    BY <1>0, <1>3, WriteRow, NoneAssumption
  <2>1. RowsKept
    BY <2>0 DEF RowsKept, Opening
  <2>. QED
    BY <1>0, <1>3, <2>1 DEF CardsKept, ApplyWrite
<1>4. CASE Untouched
  BY <1>4 DEF Untouched, RowsKept, CardsKept
<1>. QED
  BY <1>1, <1>2, <1>3, <1>4, Commits

-----------------------------------------------------------------------------
(* The links between the signatures, the events, the rows and the tasks. *)

LEMMA SignaturesGrow == [Next]_vars => signatures \subseteq signatures'
BY Commits DEF PrepareInsert, PrepareResign, ApplyWrite, Untouched

LEMMA SignedStep == IInv /\ [Next]_vars => SignedAsStored'
<1> SUFFICES ASSUME IInv, [Next]_vars PROVE SignedAsStored'
  OBVIOUS
<1>1. ASSUME NEW s \in signatures
      PROVE  /\ openings'[s.opening] # None
             /\ openings'[s.opening].user = s.user
             /\ openings'[s.opening].draw = s.draw
  BY KeepsRows DEF IInv, Links, SignedAsStored, RowsKept, TypeOK, Signature
<1>2. ASSUME NEW p \in Preparers, PrepareInsert(p) PROVE SignedAsStored'
  <2>0. openings \in [OpeningIds -> Opening \cup {None}]
    BY DEF IInv, TypeOK
  <2>1. signatures' = signatures \cup {Sign(PackOwner[prep[p].pack], prep[p].id, prep[p].draw)}
    BY <1>2 DEF PrepareInsert
  <2>2. /\ openings'[prep[p].id] # None
        /\ openings'[prep[p].id].user = PackOwner[prep[p].pack]
        /\ openings'[prep[p].id].draw = prep[p].draw
    BY <1>2, <2>0, InsertRow
  <2>. QED
    BY <1>1, <2>1, <2>2 DEF SignedAsStored, Sign
<1>3. ASSUME NEW p \in Preparers, PrepareResign(p) PROVE SignedAsStored'
  <2> DEFINE row == openings[prep[p].id]
  <2>1. signatures' = signatures \cup {Sign(PackOwner[row.pack], prep[p].id, row.draw)}
    BY <1>3 DEF PrepareResign
  <2>2. /\ openings'[prep[p].id] # None
        /\ openings'[prep[p].id].user = PackOwner[row.pack]
        /\ openings'[prep[p].id].draw = row.draw
    BY <1>3, ResignRow, KeepsRows, NoneAssumption DEF RowsKept, IInv, Links, RowsOwned
  <2>. QED
    BY <1>1, <2>1, <2>2 DEF SignedAsStored, Sign
<1>4. ASSUME signatures' = signatures PROVE SignedAsStored'
  BY <1>1, <1>4 DEF SignedAsStored
<1>. QED
  BY <1>2, <1>3, <1>4, Commits DEF ApplyWrite, Untouched

LEMMA RowsOwnedStep == IInv /\ [Next]_vars => RowsOwned'
<1> SUFFICES ASSUME IInv, [Next]_vars PROVE RowsOwned'
  OBVIOUS
<1>0. RowsOwned /\ RowsKept /\ openings \in [OpeningIds -> Opening \cup {None}]
  BY KeepsRows DEF IInv, Links, TypeOK
<1>1. ASSUME \A i \in OpeningIds : openings'[i] # None => openings[i] # None
      PROVE RowsOwned'
  BY <1>0, <1>1 DEF RowsOwned, RowsKept
<1>2. ASSUME NEW p \in Preparers, PrepareInsert(p) PROVE RowsOwned'
  BY <1>0, <1>2, InsertRow DEF RowsOwned
<1>3. ASSUME NEW p \in Preparers, PrepareResign(p) PROVE RowsOwned'
  BY <1>1, <1>3, ResignRow, NoneAssumption
<1>4. ASSUME NEW a \in Appliers, ApplyWrite(a) PROVE RowsOwned'
  BY <1>1, <1>4, WriteRow, NoneAssumption
<1>5. CASE Untouched
  BY <1>0, <1>5 DEF Untouched, RowsOwned
<1>. QED
  BY <1>2, <1>3, <1>4, <1>5, Commits

LEMMA EventsSignedStep == IInv /\ [Next]_vars => EventsSigned'
<1> SUFFICES ASSUME IInv, [Next]_vars PROVE EventsSigned'
  OBVIOUS
<1>1. EventsSigned /\ signatures \subseteq signatures'
  BY SignaturesGrow DEF IInv, Links
<1>2. CASE events' = events
  BY <1>1, <1>2 DEF EventsSigned
<1>3. ASSUME NEW s \in signatures, MintWithSignature(s) PROVE EventsSigned'
  BY <1>1, <1>3 DEF EventsSigned, MintWithSignature
<1>. QED
  BY <1>2, <1>3, Logs

\* Only a prepare uses the sequence, one task at a time.
LEMMA FreshStep == IInv /\ [Next]_vars => FreshIds'
<1> SUFFICES ASSUME IInv, [Next]_vars PROVE FreshIds'
  OBVIOUS
<1> USE DEF dbVars, chainVars, serverVars, taskVars, countVars, Idle
<1>0. /\ FreshIds
      /\ nextOpeningId \in Nat /\ \A i \in OpeningIds : i \in Nat
      /\ openings \in [OpeningIds -> Opening \cup {None}]
      /\ prep \in [Preparers -> PrepareTask]
  BY IdAssumption DEF IInv, Links, TypeOK
<1>1. ASSUME NEW p \in Preparers, PrepareStep(p) PROVE FreshIds'
  <2>1. ASSUME NEW u \in Users, NEW k \in Packs, PrepareBegin(p, u, k) PROVE FreshIds'
    BY <1>0, <2>1 DEF PrepareBegin, FreshIds, RowIds, NewIds, OwnIds
  <2>2. CASE PrepareRead(p)
    BY <1>0, <2>2 DEF PrepareRead, FreshIds, RowIds, NewIds, OwnIds
  <2>3. ASSUME NEW d \in Draws, PrepareDraw(p, d) PROVE FreshIds'
    <3>1. openings[nextOpeningId] = None
      BY <1>0, <2>3 DEF PrepareDraw, FreshIds, RowIds, NewIds, OwnIds
    <3>2. /\ prep'[p].pc = "insert" /\ prep'[p].id = nextOpeningId
          /\ \A q \in Preparers : q # p => prep'[q] = prep[q]
          /\ nextOpeningId' = nextOpeningId + 1 /\ openings' = openings
      BY <1>0, <2>3 DEF PrepareDraw
    <3>3. \A q \in Preparers : prep[q].pc = "insert" => prep[q].id \in OpeningIds
      BY <1>0 DEF PrepareTask
    <3>4. RowIds'
      BY <1>0, <3>2 DEF FreshIds, RowIds
    <3>5. NewIds'
      BY <1>0, <3>1, <3>2, <3>3 DEF FreshIds, NewIds
    <3>6. OwnIds'
      BY <1>0, <3>2, <3>3 DEF FreshIds, NewIds, OwnIds
    <3>. QED
      BY <3>4, <3>5, <3>6 DEF FreshIds, RowIds, NewIds, OwnIds
  <2>4. CASE PrepareInsert(p)
    <3> DEFINE i0 == prep[p].id
    <3>1. i0 < nextOpeningId
      BY <1>0, <2>4 DEF PrepareInsert, FreshIds, RowIds, NewIds, OwnIds
    <3>2. \A i \in OpeningIds : i # i0 => openings'[i] = openings[i]
      BY <1>0, <2>4 DEF PrepareInsert
    <3>3. \A q \in Preparers : prep'[q].pc = "insert" =>
            /\ q # p /\ prep'[q] = prep[q] /\ prep[q].id # i0 /\ prep[q].id \in OpeningIds
      BY <1>0, <2>4 DEF PrepareInsert, FreshIds, RowIds, NewIds, OwnIds, PrepareTask
    <3>. QED
      BY <1>0, <2>4, <3>1, <3>2, <3>3 DEF PrepareInsert, FreshIds, RowIds, NewIds, OwnIds
  <2>5. CASE PrepareResign(p)
    <3>1. openings[prep[p].id] # None
      BY <2>5 DEF PrepareResign, IInv, Links, TaskRows
    <3>. QED
      BY <1>0, <2>5, <3>1 DEF PrepareResign, FreshIds, RowIds, NewIds, OwnIds, PrepareTask
  <2>6. CASE PrepareFails(p)
    BY <1>0, <2>6 DEF PrepareFails, FreshIds, RowIds, NewIds, OwnIds
  <2>. QED
    BY <1>1, <2>1, <2>2, <2>3, <2>4, <2>5, <2>6 DEF PrepareStep
<1>2. ASSUME NEW a \in Appliers, ApplyWrite(a) PROVE FreshIds'
  <2> DEFINE i0 == appl[a].event.opening
  <2>1. \A i \in OpeningIds : i # i0 => openings'[i] = openings[i]
    BY <1>0, <1>2 DEF ApplyWrite
  <2>2. i0 \in OpeningIds /\ openings[i0] # None
    BY <1>2, WriteRow, NoneAssumption
  <2>3. UNCHANGED <<prep, nextOpeningId>>
    BY <1>2 DEF ApplyWrite
  <2>4. \A p \in Preparers : prep[p].pc = "insert" => prep[p].id \in OpeningIds \ {i0}
    BY <1>0, <2>2 DEF FreshIds, NewIds, PrepareTask
  <2>5. RowIds'
    BY <1>0, <2>1, <2>2, <2>3 DEF FreshIds, RowIds
  <2>6. NewIds' /\ OwnIds'
    BY <1>0, <2>1, <2>3, <2>4 DEF FreshIds, NewIds, OwnIds
  <2>. QED
    BY <2>5, <2>6 DEF FreshIds, RowIds, NewIds, OwnIds
<1>3. ASSUME UNCHANGED <<openings, nextOpeningId>>, UNCHANGED prep \/ Crash PROVE FreshIds'
  BY <1>0, <1>3 DEF FreshIds, RowIds, NewIds, OwnIds, Crash
<1>4. ASSUME NEW a \in Confirmers, ConfirmStep(a) PROVE FreshIds'
  BY <1>3, <1>4 DEF ConfirmStep, ConfirmBegin, ConfirmReceipt
<1>5. ASSUME NEW a \in Appliers, ApplyStep(a) PROVE FreshIds'
  BY <1>2, <1>3, <1>5 DEF ApplyStep, ApplyRead, ApplyFails
<1>6. ASSUME PollStep PROVE FreshIds'
  BY <1>3, <1>6 DEF PollStep, PollFetch, PollFails, PollNext
<1>7. ASSUME ChainStep PROVE FreshIds'
  BY <1>3, <1>7 DEF ChainStep, NewBlock, MintWithSignature
<1>8. ASSUME ServerStep PROVE FreshIds'
  BY <1>3, <1>8 DEF ServerStep, Crash, Restart
<1>9. CASE UNCHANGED vars
  BY <1>3, <1>9 DEF vars
<1>. QED
  BY <1>1, <1>4, <1>5, <1>6, <1>7, <1>8, <1>9 DEF Next

LEMMA TaskRowsStep == IInv /\ [Next]_vars => TaskRows'
<1> SUFFICES ASSUME IInv, [Next]_vars PROVE TaskRows'
  OBVIOUS
<1> USE DEF dbVars, chainVars, serverVars, taskVars, countVars, Idle
<1>0. /\ TaskRows
      /\ \A i \in OpeningIds : openings[i] # None => openings'[i] # None
      /\ prep \in [Preparers -> PrepareTask] /\ appl \in [Appliers -> ApplyTask]
  BY KeepsRows DEF IInv, Links, TypeOK, RowsKept
<1>1. ASSUME NEW p \in Preparers, prep[p].pc = "resign" PROVE openings'[prep[p].id] # None
  BY <1>0, <1>1 DEF TaskRows, PrepareTask
<1>2. ASSUME NEW a \in Appliers, appl[a].pc = "receipt" PROVE openings'[appl[a].id] # None
  BY <1>0, <1>2 DEF TaskRows, ApplyTask
<1>3. ASSUME \A p \in Preparers : prep'[p] = prep[p] \/ prep'[p].pc # "resign",
             \A a \in Appliers : appl'[a] = appl[a] \/ appl'[a].pc # "receipt"
      PROVE  TaskRows'
  BY <1>1, <1>2, <1>3 DEF TaskRows
<1>4. ASSUME NEW p \in Preparers, PrepareStep(p) PROVE TaskRows'
  <2>1. CASE PrepareRead(p)
    <3>1. \A a \in Appliers : appl'[a] = appl[a]
      BY <2>1 DEF PrepareRead
    <3>2. ASSUME NEW q \in Preparers, prep'[q].pc = "resign" PROVE openings'[prep'[q].id] # None
      <4>1. CASE q = p
        BY <1>0, <2>1, <3>2, <4>1 DEF PrepareRead, OpeningsOf
      <4>2. CASE q # p
        BY <1>0, <1>1, <2>1, <3>2, <4>2 DEF PrepareRead
      <4>. QED
        BY <4>1, <4>2
    <3>. QED
      BY <1>2, <3>1, <3>2 DEF TaskRows
  <2>2. CASE ~PrepareRead(p)
    <3>1. \A a \in Appliers : appl'[a] = appl[a]
      BY <1>4 DEF PrepareStep, PrepareBegin, PrepareRead, PrepareDraw, PrepareInsert,
                  PrepareResign, PrepareFails
    <3>2. \A q \in Preparers : prep'[q] = prep[q] \/ prep'[q].pc # "resign"
      BY <1>0, <1>4, <2>2 DEF PrepareStep, PrepareBegin, PrepareDraw, PrepareInsert,
                              PrepareResign, PrepareFails
    <3>. QED
      BY <1>3, <3>1, <3>2
  <2>. QED
    BY <2>1, <2>2
<1>5. ASSUME NEW a \in Confirmers, ConfirmStep(a) PROVE TaskRows'
  <2>1. ASSUME NEW i \in OpeningIds, ConfirmBegin(a, i) PROVE TaskRows'
    <3>1. openings'[i] # None
      BY <1>0, <2>1 DEF ConfirmBegin
    <3>2. \A b \in Appliers : appl'[b] = appl[b] \/ (appl'[b].pc = "receipt" /\ appl'[b].id = i)
      BY <1>0, <2>1 DEF ConfirmBegin
    <3>3. prep' = prep
      BY <2>1 DEF ConfirmBegin
    <3>. QED
      BY <1>1, <1>2, <3>1, <3>2, <3>3 DEF TaskRows
  <2>2. CASE ConfirmReceipt(a)
    BY <1>0, <1>3, <2>2 DEF ConfirmReceipt
  <2>. QED
    BY <1>5, <2>1, <2>2 DEF ConfirmStep
<1>6. ASSUME NEW a \in Appliers, ApplyStep(a) PROVE TaskRows'
  BY <1>0, <1>3, <1>6 DEF ApplyStep, ApplyRead, ApplyWrite, ApplyFails
<1>7. ASSUME PollStep PROVE TaskRows'
  BY <1>0, <1>3, <1>7 DEF PollStep, PollFetch, PollFails, PollNext
<1>8. ASSUME ChainStep PROVE TaskRows'
  BY <1>0, <1>3, <1>8 DEF ChainStep, NewBlock, MintWithSignature
<1>9. ASSUME ServerStep PROVE TaskRows'
  BY <1>0, <1>3, <1>9 DEF ServerStep, Crash, Restart
<1>10. CASE UNCHANGED vars
  BY <1>0, <1>3, <1>10 DEF vars
<1>. QED
  BY <1>4, <1>5, <1>6, <1>7, <1>8, <1>9, <1>10 DEF Next

\* A task that reaches a step of the request or of the job runs in a live server.
LEMMA DownStep == IInv /\ [Next]_vars => DownIdle'
<1> SUFFICES ASSUME IInv, [Next]_vars PROVE DownIdle'
  OBVIOUS
<1> USE DEF dbVars, chainVars, serverVars, taskVars, countVars
<1>0. /\ DownIdle
      /\ prep \in [Preparers -> PrepareTask] /\ appl \in [Appliers -> ApplyTask]
  BY DEF IInv, Links, TypeOK
<1>1. ASSUME NEW p \in Preparers, PrepareStep(p) PROVE up /\ up' = up
  BY <1>0, <1>1 DEF PrepareStep, PrepareBegin, PrepareRead, PrepareDraw, PrepareInsert,
                    PrepareResign, PrepareFails, DownIdle, Idle
<1>2. ASSUME NEW a \in Confirmers, ConfirmStep(a) PROVE up /\ up' = up
  BY <1>0, <1>2 DEF ConfirmStep, ConfirmBegin, ConfirmReceipt, DownIdle, Idle, Appliers
<1>3. ASSUME NEW a \in Appliers, ApplyStep(a) PROVE up /\ up' = up
  BY <1>0, <1>3 DEF ApplyStep, ApplyRead, ApplyWrite, ApplyFails, DownIdle, Idle
<1>4. ASSUME PollStep PROVE up /\ up' = up
  BY <1>0, <1>4 DEF PollStep, PollFetch, PollFails, PollNext, DownIdle
<1>5. ASSUME ChainStep PROVE DownIdle'
  BY <1>0, <1>5 DEF ChainStep, NewBlock, MintWithSignature, DownIdle
<1>6. ASSUME ServerStep PROVE DownIdle'
  BY <1>0, <1>6 DEF ServerStep, Crash, Restart, DownIdle
<1>7. CASE UNCHANGED vars
  BY <1>0, <1>7 DEF vars, DownIdle
<1>. QED
  BY <1>1, <1>2, <1>3, <1>4, <1>5, <1>6, <1>7 DEF Next, DownIdle

LEMMA TaskEventsStep == IInv /\ [Next]_vars => TaskEvents'
<1> SUFFICES ASSUME IInv, [Next]_vars PROVE TaskEvents'
  OBVIOUS
<1> USE DEF dbVars, chainVars, serverVars, taskVars, countVars, Idle
<1>0. /\ TaskEvents /\ DownIdle /\ events \subseteq events' /\ queue \subseteq events
      /\ appl \in [Appliers -> ApplyTask]
  BY EventsGrow DEF IInv, Links, TypeOK
<1>1. ASSUME cardsAddress' = cardsAddress, queue' \subseteq queue,
             \A a \in Appliers : appl'[a] = appl[a] \/ appl'[a].pc \notin {"apply", "write"}
                 \/ (appl'[a].event \in events /\ appl'[a].event.contract = cardsAddress)
      PROVE  TaskEvents'
  BY <1>0, <1>1 DEF TaskEvents
<1>2. ASSUME NEW p \in Preparers, PrepareStep(p) PROVE TaskEvents'
  BY <1>1, <1>2 DEF PrepareStep, PrepareBegin, PrepareRead, PrepareDraw, PrepareInsert,
                    PrepareResign, PrepareFails
<1>3. ASSUME NEW a \in Confirmers, ConfirmStep(a) PROVE TaskEvents'
  BY <1>0, <1>1, <1>3 DEF ConfirmStep, ConfirmBegin, ConfirmReceipt, Seen
<1>4. ASSUME NEW a \in Appliers, ApplyStep(a) PROVE TaskEvents'
  <2>1. CASE ApplyRead(a)
    <3>1. appl[a].event \in events /\ appl[a].event.contract = cardsAddress
      BY <1>0, <2>1 DEF ApplyRead, TaskEvents
    <3>. QED
      BY <1>0, <1>1, <2>1, <3>1 DEF ApplyRead
  <2>2. CASE ApplyWrite(a) \/ ApplyFails(a)
    BY <1>0, <1>1, <2>2 DEF ApplyWrite, ApplyFails
  <2>. QED
    BY <1>4, <2>1, <2>2 DEF ApplyStep
<1>5. ASSUME PollStep PROVE TaskEvents'
  <2>1. CASE PollFetch
    BY <1>0, <2>1 DEF PollFetch, TaskEvents, Seen
  <2>2. CASE PollFails
    BY <1>1, <2>2 DEF PollFails
  <2>3. ASSUME NEW e \in queue, PollNext(e) PROVE TaskEvents'
    <3>1. e \in events /\ e.contract = cardsAddress
      BY <1>0, <2>3 DEF TaskEvents
    <3>. QED
      BY <1>0, <1>1, <2>3, <3>1 DEF PollNext
  <2>. QED
    BY <1>5, <2>1, <2>2, <2>3 DEF PollStep
<1>6. ASSUME ChainStep PROVE TaskEvents'
  BY <1>1, <1>6 DEF ChainStep, NewBlock, MintWithSignature
<1>7. ASSUME ServerStep PROVE TaskEvents'
  <2>1. appl' = [a \in Appliers |-> Idle] /\ queue' = {}
    BY <1>0, <1>7 DEF ServerStep, Crash, Restart, DownIdle
  <2>. QED
    BY <2>1 DEF TaskEvents
<1>8. CASE UNCHANGED vars
  BY <1>1, <1>8 DEF vars
<1>. QED
  BY <1>2, <1>3, <1>4, <1>5, <1>6, <1>7, <1>8 DEF Next

-----------------------------------------------------------------------------
(* The records: what user_cards, pack_openings and user_packs say together.  *)

\* Recorded cards belong to an opening there is.
LEMMA RecordedRow ==
  ASSUME IInv, NEW n \in DOMAIN userCards
  PROVE  /\ userCards[n].opening \in OpeningIds
         /\ openings[userCards[n].opening] \in Opening
<1>1. PICK e \in events : e.opening = userCards[n].opening
  BY DEF IInv, Records, CardsBackedByMint
<1>. QED
  BY <1>1, EventRow

\* One commit appends one batch, of the event that was applied.
LEMMA WriteCards ==
  ASSUME IInv, NEW a \in Appliers, ApplyWrite(a)
  PROVE  LET e == appl[a].event IN
         /\ Len(userCards) \in Nat /\ Len(userCards') = Len(userCards) + 1
         /\ DOMAIN userCards = 1 .. Len(userCards)
         /\ DOMAIN userCards' = 1 .. Len(userCards) + 1
         /\ \A n \in DOMAIN userCards : userCards'[n] = userCards[n]
         /\ userCards'[Len(userCards) + 1].user = e.user
         /\ userCards'[Len(userCards) + 1].opening = e.opening
         /\ userCards'[Len(userCards) + 1].draw = e.draw
         /\ userCards'[Len(userCards) + 1].contract = cardsAddress
<1> DEFINE e == appl[a].event
           row == [user |-> e.user, opening |-> e.opening,
                   draw |-> e.draw, contract |-> cardsAddress]
<1>0. e \in Event /\ userCards \in Seq(CardBatch) /\ cardsAddress \in Contracts
  BY WriteRow DEF IInv, TypeOK
<1>1. userCards \in Seq(CardBatch) /\ row \in CardBatch
  BY <1>0 DEF Event, CardBatch
<1>2. userCards' = Append(userCards, row)
  BY DEF ApplyWrite
<1>3. Len(userCards) \in Nat /\ DOMAIN userCards = 1 .. Len(userCards)
  BY <1>1
<1>4. /\ Len(userCards') = Len(userCards) + 1
      /\ DOMAIN userCards' = 1 .. Len(userCards) + 1
      /\ \A n \in 1 .. Len(userCards) : userCards'[n] = userCards[n]
      /\ userCards'[Len(userCards) + 1] = row
  BY <1>1, <1>2
<1>. QED
  BY <1>3, <1>4

LEMMA BackedStep == IInv /\ [Next]_vars => CardsBackedByMint'
<1> SUFFICES ASSUME IInv, [Next]_vars PROVE CardsBackedByMint'
  OBVIOUS
<1>0. CardsBackedByMint /\ events \subseteq events'
  BY EventsGrow DEF IInv, Records
<1>1. ASSUME userCards' = userCards PROVE CardsBackedByMint'
  BY <1>0, <1>1 DEF CardsBackedByMint
<1>2. ASSUME NEW a \in Appliers, ApplyWrite(a) PROVE CardsBackedByMint'
  <2> DEFINE e == appl[a].event
  <2>1. e \in events' /\ e.contract = cardsAddress
    BY <1>0, <1>2, WriteRow
  <2>2. ASSUME NEW n \in DOMAIN userCards'
        PROVE \E x \in events' :
                /\ x.opening = userCards'[n].opening /\ x.contract = userCards'[n].contract
                /\ x.user = userCards'[n].user /\ x.draw = userCards'[n].draw
    <3>1. CASE n = Len(userCards) + 1
      BY <1>2, <2>1, <3>1, WriteCards
    <3>2. CASE n \in DOMAIN userCards
      <4>1. userCards'[n] = userCards[n]
        BY <1>2, <3>2, WriteCards
      <4>. QED
        BY <1>0, <3>2, <4>1 DEF CardsBackedByMint
    <3>3. n \in DOMAIN userCards \/ n = Len(userCards) + 1
      BY <1>2, WriteCards
    <3>. QED
      BY <3>1, <3>2, <3>3
  <2>. QED
    BY <2>2 DEF CardsBackedByMint
<1>. QED
  BY <1>1, <1>2, Commits DEF PrepareInsert, PrepareResign, Untouched

Recorded(i) == \E n \in DOMAIN userCards : userCards[n].opening = i

LEMMA CompletedStep == IInv /\ [Next]_vars => CompletedIffRecorded'
<1> SUFFICES ASSUME IInv, [Next]_vars PROVE CompletedIffRecorded'
  OBVIOUS
<1>0. /\ openings \in [OpeningIds -> Opening \cup {None}]
      /\ \A i \in OpeningIds : openings[i] # None =>
            (openings[i].status = "completed" <=> Recorded(i))
  BY DEF IInv, TypeOK, Records, CompletedIffRecorded, Recorded
<1>1. ASSUME NEW p \in Preparers, PrepareInsert(p) PROVE CompletedIffRecorded'
  <2> DEFINE i0 == prep[p].id
  <2>1. /\ i0 \in OpeningIds /\ openings[i0] = None
        /\ \A i \in OpeningIds : i # i0 => openings'[i] = openings[i]
        /\ openings'[i0].status = "prepared"
    BY <1>0, <1>1, InsertRow
  <2>2. userCards' = userCards
    BY <1>1 DEF PrepareInsert
  <2>3. ~Recorded(i0)
    BY <2>1, RecordedRow, NoneAssumption DEF Recorded
  <2>. QED
    BY <1>0, <2>1, <2>2, <2>3 DEF CompletedIffRecorded, Recorded
<1>2. ASSUME NEW p \in Preparers, PrepareResign(p) PROVE CompletedIffRecorded'
  <2>0. PICK i0 \in OpeningIds : i0 = prep[p].id
    BY <1>2, ResignRow
  <2>1. /\ openings[i0] \in Opening
        /\ \A i \in OpeningIds : i # i0 => openings'[i] = openings[i]
        /\ openings'[i0].status = openings[i0].status
    BY <1>2, <2>0, ResignRow
  <2>2. userCards' = userCards
    BY <1>2 DEF PrepareResign
  <2>. QED
    BY <1>0, <2>1, <2>2, NoneAssumption DEF CompletedIffRecorded, Recorded
<1>3. ASSUME NEW a \in Appliers, ApplyWrite(a) PROVE CompletedIffRecorded'
  <2>0. PICK i0 \in OpeningIds : i0 = appl[a].event.opening
    BY <1>3, WriteRow
  <2>1. /\ openings[i0] \in Opening
        /\ \A i \in OpeningIds : i # i0 => openings'[i] = openings[i]
        /\ openings'[i0].status = "completed"
    BY <1>3, <2>0, WriteRow
  <2>2. /\ DOMAIN userCards' = DOMAIN userCards \cup {Len(userCards) + 1}
        /\ \A n \in DOMAIN userCards : userCards'[n] = userCards[n]
        /\ userCards'[Len(userCards) + 1].opening = i0
    <3>1. /\ Len(userCards) \in Nat
          /\ DOMAIN userCards = 1 .. Len(userCards)
          /\ DOMAIN userCards' = 1 .. Len(userCards) + 1
          /\ \A n \in DOMAIN userCards : userCards'[n] = userCards[n]
          /\ userCards'[Len(userCards) + 1].opening = appl[a].event.opening
      BY <1>3, WriteCards
    <3>2. 1 .. Len(userCards) + 1 = (1 .. Len(userCards)) \cup {Len(userCards) + 1}
      BY <3>1
    <3>. QED
      BY <2>0, <3>1, <3>2
  <2>3. PICK m : m = Len(userCards) + 1
    OBVIOUS
  <2>4. \E n \in DOMAIN userCards' : userCards'[n].opening = i0
    BY <2>2, <2>3
  <2>5. ASSUME NEW i \in OpeningIds, i # i0
        PROVE (\E n \in DOMAIN userCards' : userCards'[n].opening = i) <=> Recorded(i)
    BY <2>2, <2>3, <2>5 DEF Recorded
  <2>. QED
    BY <1>0, <2>1, <2>4, <2>5, NoneAssumption DEF CompletedIffRecorded
<1>4. CASE Untouched
  BY <1>0, <1>4 DEF Untouched, CompletedIffRecorded, Recorded
<1>. QED
  BY <1>1, <1>2, <1>3, <1>4, Commits

LEMMA OpenedStep == IInv /\ [Next]_vars => OpenedIffCompleted'
<1> SUFFICES ASSUME IInv, [Next]_vars PROVE OpenedIffCompleted'
  OBVIOUS
<1> DEFINE Done(i, k) == /\ openings[i] # None /\ openings[i].pack = k
                         /\ openings[i].status = "completed"
<1>0. /\ openings \in [OpeningIds -> Opening \cup {None}] /\ isOpened \in [Packs -> BOOLEAN]
      /\ \A k \in Packs : isOpened[k] <=> \E i \in OpeningIds : Done(i, k)
  BY DEF IInv, TypeOK, Records, OpenedIffCompleted, OpeningsOf
<1>1. ASSUME isOpened' = isOpened,
             \A i \in OpeningIds, k \in Packs : Done(i, k)' <=> Done(i, k)
      PROVE OpenedIffCompleted'
  BY <1>0, <1>1 DEF OpenedIffCompleted, OpeningsOf
<1>2. ASSUME NEW p \in Preparers, PrepareInsert(p) PROVE OpenedIffCompleted'
  <2>1. \A i \in OpeningIds, k \in Packs : Done(i, k)' <=> Done(i, k)
    BY <1>0, <1>2, InsertRow
  <2>. QED
    BY <1>1, <1>2, <2>1 DEF PrepareInsert
<1>3. ASSUME NEW p \in Preparers, PrepareResign(p) PROVE OpenedIffCompleted'
  <2>0. /\ openings[prep[p].id] \in Opening /\ openings'[prep[p].id] \in Opening
        /\ \A i \in OpeningIds : i # prep[p].id => openings'[i] = openings[i]
        /\ openings'[prep[p].id].status = openings[prep[p].id].status
        /\ openings'[prep[p].id].pack = openings[prep[p].id].pack
    BY <1>3, ResignRow
  <2>1. \A i \in OpeningIds, k \in Packs : Done(i, k)' <=> Done(i, k)
    BY <2>0, NoneAssumption
  <2>. QED
    BY <1>1, <1>3, <2>1 DEF PrepareResign
<1>4. ASSUME NEW a \in Appliers, ApplyWrite(a) PROVE OpenedIffCompleted'
  <2>a. PICK i0 \in OpeningIds : i0 = appl[a].event.opening
    BY <1>4, WriteRow
  <2>b. PICK k0 \in Packs : k0 = openings[i0].pack
    BY <1>4, <2>a, WriteRow DEF Opening
  <2>0. /\ openings[i0] \in Opening /\ openings'[i0] \in Opening
        /\ \A i \in OpeningIds : i # i0 => openings'[i] = openings[i]
        /\ openings'[i0].status = "completed"
        /\ openings'[i0].pack = k0
    BY <1>4, <2>a, <2>b, WriteRow
  <2>1. Done(i0, k0)'
    BY <2>0, NoneAssumption
  <2>2. \A i \in OpeningIds, k \in Packs : k # k0 => (Done(i, k)' <=> Done(i, k))
    BY <2>0, <2>b, NoneAssumption
  <2>3. isOpened' = [isOpened EXCEPT ![k0] = TRUE]
    BY <1>4, <2>a, <2>b DEF ApplyWrite
  <2>4. \A k \in Packs : isOpened'[k] <=> \E i \in OpeningIds : Done(i, k)'
    BY <1>0, <2>0, <2>1, <2>2, <2>3
  <2>. QED
    BY <2>4 DEF OpenedIffCompleted, OpeningsOf
<1>5. CASE Untouched
  BY <1>1, <1>5 DEF Untouched
<1>. QED
  BY <1>2, <1>3, <1>4, <1>5, Commits

-----------------------------------------------------------------------------
(* The theorems. *)

LEMMA NextInv == IInv /\ [Next]_vars => IInv'
BY TypeStep, SignedStep, EventsSignedStep, RowsOwnedStep, FreshStep, TaskRowsStep, TaskEventsStep,
   DownStep, BackedStep, CompletedStep, OpenedStep
   DEF IInv, Links, Records

LEMMA Invariant == Spec => []IInv
BY InitInv, NextInv, PTL DEF Spec

\* The rows, the logs and the tasks always have the shapes the code gives them.
THEOREM TypeCorrect == Spec => []TypeOK
<1>1. IInv => TypeOK
  BY DEF IInv
<1>. QED
  BY <1>1, Invariant, PTL

\* prepare-open never signs two different draws for one opening.
THEOREM NoReroll == Spec => []SignedAsStored
<1>1. IInv => SignedAsStored
  BY DEF IInv, Links
<1>. QED
  BY <1>1, Invariant, PTL

\* user_cards only ever holds what the configured contract minted.
THEOREM Backed == Spec => []CardsBackedByMint
<1>1. IInv => CardsBackedByMint
  BY DEF IInv, Records
<1>. QED
  BY <1>1, Invariant, PTL

\* The three tables never disagree on whether a pack was opened.
THEOREM TablesAgree == Spec => []RecordsAgree
<1>1. IInv => RecordsAgree
  BY DEF IInv, Records, RecordsAgree
<1>. QED
  BY <1>1, Invariant, PTL

\* No step rewrites what was stored.
THEOREM KeepsHistory == Spec => HistoryKept
<1>1. IInv /\ [Next]_vars => [RowsKept /\ CardsKept]_vars
  BY KeepsRows
<1>. QED
  BY <1>1, Invariant, PTL DEF Spec, HistoryKept, RowsKept, CardsKept
-----------------------------------------------------------------------------
(* PackOpening implements PackLifecycle. *)

StageAt(i) == IF openings[i] = None THEN "absent"
              ELSE IF openings[i].status = "completed" THEN "recorded"
              ELSE IF \E e \in events : e.opening = i THEN "minted"
              ELSE "offered"

OfferAt(i) == IF openings[i] = None THEN {}
              ELSE {[user |-> openings[i].user, pack |-> openings[i].pack,
                     draw |-> openings[i].draw]}

\* A step that touches one opening moves the abstract state at that opening.
LEMMA OneMoves ==
  ASSUME NEW i0 \in OpeningIds,
         \A i \in OpeningIds : i # i0 => StageAt(i)' = StageAt(i) /\ OfferAt(i)' = OfferAt(i)
  PROVE  /\ stageOf' = [stageOf EXCEPT ![i0] = StageAt(i0)']
         /\ offerOf' = [offerOf EXCEPT ![i0] = OfferAt(i0)']
BY DEF stageOf, offerOf, StageAt, OfferAt

\* If it does not move there either, the abstract state stutters.
LEMMA NoneMoves ==
  ASSUME \A i \in OpeningIds : StageAt(i)' = StageAt(i) /\ OfferAt(i)' = OfferAt(i)
  PROVE  UNCHANGED <<stageOf, offerOf>>
BY DEF stageOf, offerOf, StageAt, OfferAt

LEMMA InsertOffers ==
  ASSUME IInv, NEW p \in Preparers, PrepareInsert(p)
  PROVE  Abstract!AbstractNext
<1>0. PICK i0 \in OpeningIds : i0 = prep[p].id
  BY InsertRow
<1>1. PICK o \in [user: Users, pack: Packs, draw: Draws] :
        /\ o = [user |-> PackOwner[prep[p].pack], pack |-> prep[p].pack, draw |-> prep[p].draw]
        /\ o.user = PackOwner[prep[p].pack] /\ o.pack = prep[p].pack /\ o.draw = prep[p].draw
  <2> DEFINE r == [user |-> PackOwner[prep[p].pack], pack |-> prep[p].pack, draw |-> prep[p].draw]
  <2>1. prep[p].pack \in Packs /\ prep[p].draw \in Draws
    BY DEF IInv, TypeOK, PrepareInsert, PrepareTask, Idle
  <2>2. PackOwner[prep[p].pack] \in Users
    BY <2>1, OwnerAssumption
  <2>3. r \in [user: Users, pack: Packs, draw: Draws]
    BY <2>1, <2>2
  <2>4. r.user = PackOwner[prep[p].pack] /\ r.pack = prep[p].pack /\ r.draw = prep[p].draw
    OBVIOUS
  <2>. QED
    BY <2>3, <2>4
<1>2. /\ openings[i0] = None /\ openings'[i0] # None
      /\ openings'[i0].status = "prepared"
      /\ openings'[i0].user = o.user /\ openings'[i0].pack = o.pack
      /\ openings'[i0].draw = o.draw
      /\ \A i \in OpeningIds : i # i0 => openings'[i] = openings[i]
  <2>1. openings \in [OpeningIds -> Opening \cup {None}]
    BY DEF IInv, TypeOK
  <2>. QED
    BY <1>0, <1>1, <2>1, InsertRow
<1>3. events' = events /\ ~\E e \in events : e.opening = i0
  BY <1>2, EventRow, NoneAssumption DEF PrepareInsert, chainVars
<1>4. /\ StageAt(i0) = "absent" /\ StageAt(i0)' = "offered"
      /\ OfferAt(i0)' = {[user |-> openings'[i0].user, pack |-> openings'[i0].pack,
                          draw |-> openings'[i0].draw]}
  BY <1>2, <1>3 DEF StageAt, OfferAt
<1>5. OfferAt(i0)' = {o}
  BY <1>1, <1>2, <1>4
<1>6. \A i \in OpeningIds : i # i0 => StageAt(i)' = StageAt(i) /\ OfferAt(i)' = OfferAt(i)
  BY <1>2, <1>3 DEF StageAt, OfferAt
<1>7. /\ stageOf' = [stageOf EXCEPT ![i0] = "offered"]
      /\ offerOf' = [offerOf EXCEPT ![i0] = {o}]
      /\ stageOf[i0] = "absent"
  BY <1>4, <1>5, <1>6, OneMoves DEF stageOf, StageAt
<1>. QED
  BY <1>7 DEF Abstract!AbstractNext, Abstract!Offer

LEMMA ResignStutters ==
  ASSUME IInv, NEW p \in Preparers, PrepareResign(p)
  PROVE  UNCHANGED <<stageOf, offerOf>>
<1>0. PICK i0 \in OpeningIds : i0 = prep[p].id
  BY ResignRow
<1>1. /\ openings[i0] \in Opening
      /\ openings'[i0] = [openings[i0] EXCEPT !.signature = cardsAddress]
      /\ \A i \in OpeningIds : i # i0 => openings'[i] = openings[i]
      /\ openings'[i0] # None /\ openings[i0] # None
  BY <1>0, ResignRow, NoneAssumption DEF IInv, TypeOK
<1>2. /\ openings'[i0].user = openings[i0].user /\ openings'[i0].pack = openings[i0].pack
      /\ openings'[i0].draw = openings[i0].draw
      /\ openings'[i0].status = openings[i0].status
  BY <1>1 DEF Opening
<1>3. events' = events
  BY DEF PrepareResign, chainVars
<1>4. StageAt(i0)' = StageAt(i0) /\ OfferAt(i0)' = OfferAt(i0)
  BY <1>1, <1>2, <1>3 DEF StageAt, OfferAt
<1>5. \A i \in OpeningIds : i # i0 => StageAt(i)' = StageAt(i) /\ OfferAt(i)' = OfferAt(i)
  BY <1>1, <1>3 DEF StageAt, OfferAt
<1>. QED
  BY <1>4, <1>5, NoneMoves

LEMMA MintMoves ==
  ASSUME IInv, NEW s \in signatures, MintWithSignature(s), UNCHANGED openings
  PROVE  Abstract!AbstractNext \/ UNCHANGED <<stageOf, offerOf>>
<1>0. PICK i0 \in OpeningIds : i0 = s.opening
  BY DEF IInv, TypeOK, Signature
<1>1. openings[i0] # None /\ openings' = openings
  BY <1>0 DEF IInv, Links, SignedAsStored
<1>2. \A i \in OpeningIds : (\E e \in events' : e.opening = i)
                            <=> (i = i0 \/ \E e \in events : e.opening = i)
  <2>1. PICK ev : ev.opening = i0 /\ events' = events \cup {ev}
    BY <1>0 DEF MintWithSignature
  <2>. QED
    BY <2>1
<1>3. \A i \in OpeningIds : i # i0 => StageAt(i)' = StageAt(i) /\ OfferAt(i)' = OfferAt(i)
  BY <1>1, <1>2 DEF StageAt, OfferAt
<1>4. OfferAt(i0)' = OfferAt(i0)
  BY <1>1 DEF OfferAt
<1>5. CASE StageAt(i0) = "offered"
  <2>1. StageAt(i0)' = "minted"
    BY <1>1, <1>2, <1>5 DEF StageAt
  <2>2. /\ stageOf' = [stageOf EXCEPT ![i0] = "minted"] /\ stageOf[i0] = "offered"
    BY <1>3, <1>5, <2>1, OneMoves DEF stageOf, StageAt
  <2>3. offerOf' = offerOf
    BY <1>1 DEF offerOf
  <2>. QED
    BY <2>2, <2>3 DEF Abstract!AbstractNext, Abstract!Mint
<1>6. CASE StageAt(i0) # "offered"
  <2>1. StageAt(i0)' = StageAt(i0)
    BY <1>1, <1>2, <1>6 DEF StageAt
  <2>. QED
    BY <1>3, <1>4, <2>1, NoneMoves
<1>. QED
  BY <1>5, <1>6

LEMMA WriteRecords ==
  ASSUME IInv, NEW a \in Appliers, ApplyWrite(a)
  PROVE  Abstract!AbstractNext \/ UNCHANGED <<stageOf, offerOf>>
<1>0. PICK i0 \in OpeningIds : i0 = appl[a].event.opening
  BY WriteRow
<1>1. /\ openings[i0] \in Opening /\ openings[i0] # None
      /\ openings'[i0] = [openings[i0] EXCEPT !.status = "completed"]
      /\ \A i \in OpeningIds : i # i0 => openings'[i] = openings[i]
      /\ openings'[i0] # None
  BY <1>0, WriteRow, NoneAssumption DEF IInv, TypeOK
<1>2. /\ openings'[i0].user = openings[i0].user /\ openings'[i0].pack = openings[i0].pack
      /\ openings'[i0].draw = openings[i0].draw
      /\ openings'[i0].status = "completed"
  BY <1>1 DEF Opening
<1>3. events' = events /\ \E e \in events : e.opening = i0
  BY <1>0, WriteRow DEF ApplyWrite, chainVars
<1>4. StageAt(i0)' = "recorded" /\ OfferAt(i0)' = OfferAt(i0)
  BY <1>1, <1>2 DEF StageAt, OfferAt
<1>5. \A i \in OpeningIds : i # i0 => StageAt(i)' = StageAt(i) /\ OfferAt(i)' = OfferAt(i)
  BY <1>1, <1>3 DEF StageAt, OfferAt
<1>6. StageAt(i0) \in {"minted", "recorded"}
  BY <1>1, <1>3 DEF StageAt
<1>7. CASE StageAt(i0) = "minted"
  <2>1. stageOf' = [stageOf EXCEPT ![i0] = "recorded"] /\ stageOf[i0] = "minted"
    BY <1>4, <1>5, <1>7, OneMoves DEF stageOf, StageAt
  <2>2. offerOf' = [offerOf EXCEPT ![i0] = offerOf[i0]]
    BY <1>4, <1>5, OneMoves DEF offerOf, OfferAt
  <2>3. offerOf' = offerOf
    BY <2>2 DEF offerOf
  <2>. QED
    BY <2>1, <2>3 DEF Abstract!AbstractNext, Abstract!Record
<1>8. CASE StageAt(i0) = "recorded"
  BY <1>4, <1>5, <1>8, NoneMoves
<1>. QED
  BY <1>6, <1>7, <1>8

LEMMA UntouchedStutters ==
  ASSUME UNCHANGED <<openings, events>>
  PROVE  UNCHANGED <<stageOf, offerOf>>
BY DEF stageOf, offerOf

LEMMA AbstractStep ==
  IInv /\ [Next]_vars => [Abstract!AbstractNext]_<<stageOf, offerOf>>
<1> SUFFICES ASSUME IInv, [Next]_vars
             PROVE  Abstract!AbstractNext \/ UNCHANGED <<stageOf, offerOf>>
  OBVIOUS
<1>1. CASE events' = events
  BY <1>1, Commits, InsertOffers, ResignStutters, WriteRecords, UntouchedStutters DEF Untouched
<1>2. ASSUME NEW s \in signatures, MintWithSignature(s),
             UNCHANGED <<signatures, openings, userCards>>
      PROVE  Abstract!AbstractNext \/ UNCHANGED <<stageOf, offerOf>>
  BY <1>2, MintMoves
<1>. QED
  BY <1>1, <1>2, Logs

\* Every execution of the handlers, the job and the contract, with crashes and
\* redeploys, is an execution of the abstract life cycle.
THEOREM Implements == Spec => ImplementsLifecycle
<1>1. Init => Abstract!AbstractInit
  BY DEF Init, Abstract!AbstractInit, stageOf, offerOf
<1>2. IInv /\ [Next]_vars => [Abstract!AbstractNext]_(Abstract!abstractVars)
  BY AbstractStep DEF Abstract!abstractVars
<1>. QED
  BY <1>1, <1>2, Invariant, PTL DEF Spec, ImplementsLifecycle, Abstract!AbstractSpec
-----------------------------------------------------------------------------
(* With one task serving prepare-open there is one opening per pack, and     *)
(* with no task serving confirm a mint is recorded once.  Neither follows    *)
(* from the database: both need that no other task acts between a read and   *)
(* the commit that relies on it.                                             *)

\* The pack a task draws for still has no opening.
PackStillNew ==
  \A p \in Preparers : prep[p].pc \in {"draw", "insert"} =>
    \A i \in OpeningIds : openings[i] # None => openings[i].pack # prep[p].pack

OneTaskInv == OneOpeningPerPack /\ PackStillNew

LEMMA OneTaskStep ==
  ASSUME \A p, q \in Preparers : p = q
  PROVE  IInv /\ OneTaskInv /\ [Next]_vars => OneTaskInv'
<1> SUFFICES ASSUME IInv, OneTaskInv, [Next]_vars PROVE OneTaskInv'
  OBVIOUS
<1> USE DEF dbVars, chainVars, serverVars, taskVars, countVars, Idle
<1>0. /\ openings \in [OpeningIds -> Opening \cup {None}]
      /\ prep \in [Preparers -> PrepareTask] /\ RowsKept
      /\ OneOpeningPerPack /\ PackStillNew
  BY KeepsRows DEF IInv, TypeOK, OneTaskInv
<1>1. ASSUME \A i \in OpeningIds : openings'[i] # None => openings[i] # None,
             \A p \in Preparers : prep'[p] = prep[p] \/ prep'[p].pc \notin {"draw", "insert"}
                \/ (/\ prep[p].pc = "draw" /\ prep'[p].pack = prep[p].pack)
      PROVE  OneTaskInv'
  <2>1. OneOpeningPerPack'
    BY <1>0, <1>1 DEF OneOpeningPerPack, RowsKept
  <2>2. PackStillNew'
    BY <1>0, <1>1 DEF PackStillNew, RowsKept
  <2>. QED
    BY <2>1, <2>2 DEF OneTaskInv
<1>2. ASSUME NEW p \in Preparers, PrepareStep(p) PROVE OneTaskInv'
  <2>1. ASSUME NEW u \in Users, NEW k \in Packs, PrepareBegin(p, u, k) PROVE OneTaskInv'
    BY <1>0, <1>1, <2>1 DEF PrepareBegin
  <2>2. CASE PrepareRead(p)
    <3>1. openings' = openings /\ \A q \in Preparers : q = p
      BY <2>2 DEF PrepareRead
    <3>2. CASE prep' = [prep EXCEPT ![p] = [pc |-> "draw", pack |-> prep[p].pack]]
               /\ OpeningsOf(prep[p].pack) = {}
      <4>1. prep'[p].pack = prep[p].pack
        BY <1>0, <3>2
      <4>2. PackStillNew'
        BY <3>1, <3>2, <4>1 DEF PackStillNew, OpeningsOf
      <4>3. OneOpeningPerPack'
        BY <1>0, <3>1 DEF OneOpeningPerPack
      <4>. QED
        BY <4>2, <4>3 DEF OneTaskInv
    <3>3. CASE prep'[p].pc \notin {"draw", "insert"}
      BY <1>1, <3>1, <3>3
    <3>. QED
      BY <1>0, <2>2, <3>2, <3>3 DEF PrepareRead
  <2>3. ASSUME NEW d \in Draws, PrepareDraw(p, d) PROVE OneTaskInv'
    <3>1. /\ openings' = openings /\ prep[p].pc = "draw"
          /\ prep'[p].pack = prep[p].pack
          /\ \A q \in Preparers : q # p => prep'[q] = prep[q]
      BY <1>0, <2>3 DEF PrepareDraw
    <3>. QED
      BY <1>1, <3>1
  <2>4. CASE PrepareInsert(p)
    <3>1. PICK i0 \in OpeningIds : i0 = prep[p].id
      BY <2>4, InsertRow
    <3>2. PICK k0 \in Packs : k0 = prep[p].pack
      BY <2>4, InsertRow
    <3>3. /\ openings'[i0].pack = k0
          /\ \A i \in OpeningIds : i # i0 => openings'[i] = openings[i]
      BY <1>0, <2>4, <3>1, <3>2, InsertRow
    <3>4. \A i \in OpeningIds : openings[i] # None => openings[i].pack # k0
      BY <1>0, <2>4, <3>2 DEF PackStillNew, PrepareInsert
    <3>5. OneOpeningPerPack'
      BY <1>0, <3>3, <3>4 DEF OneOpeningPerPack
    <3>6. \A q \in Preparers : prep'[q].pc = "idle"
      BY <1>0, <2>4 DEF PrepareInsert
    <3>. QED
      BY <3>5, <3>6 DEF OneTaskInv, PackStillNew
  <2>5. CASE PrepareResign(p)
    <3>1. \A q \in Preparers : prep'[q].pc = "idle"
      BY <1>0, <2>5 DEF PrepareResign
    <3>2. \A i \in OpeningIds : openings'[i] # None => openings[i] # None
      BY <2>5, ResignRow, NoneAssumption
    <3>. QED
      BY <1>1, <3>1, <3>2
  <2>6. CASE PrepareFails(p)
    BY <1>0, <1>1, <2>6 DEF PrepareFails
  <2>. QED
    BY <1>2, <2>1, <2>2, <2>3, <2>4, <2>5, <2>6 DEF PrepareStep
<1>3. ASSUME NEW a \in Appliers, ApplyWrite(a) PROVE OneTaskInv'
  <2>1. prep' = prep
    BY <1>3 DEF ApplyWrite
  <2>2. \A i \in OpeningIds : openings'[i] # None => openings[i] # None
    BY <1>3, WriteRow, NoneAssumption
  <2>. QED
    BY <1>1, <2>1, <2>2
<1>4. ASSUME UNCHANGED openings, UNCHANGED prep \/ Crash PROVE OneTaskInv'
  BY <1>0, <1>1, <1>4 DEF Crash
<1>5. ASSUME NEW a \in Confirmers, ConfirmStep(a) PROVE OneTaskInv'
  BY <1>4, <1>5 DEF ConfirmStep, ConfirmBegin, ConfirmReceipt
<1>6. ASSUME NEW a \in Appliers, ApplyStep(a) PROVE OneTaskInv'
  BY <1>3, <1>4, <1>6 DEF ApplyStep, ApplyRead, ApplyFails
<1>7. ASSUME PollStep PROVE OneTaskInv'
  BY <1>4, <1>7 DEF PollStep, PollFetch, PollFails, PollNext
<1>8. ASSUME ChainStep PROVE OneTaskInv'
  BY <1>4, <1>8 DEF ChainStep, NewBlock, MintWithSignature
<1>9. ASSUME ServerStep PROVE OneTaskInv'
  BY <1>4, <1>9 DEF ServerStep, Crash, Restart
<1>10. CASE UNCHANGED vars
  BY <1>4, <1>10 DEF vars
<1>. QED
  BY <1>2, <1>5, <1>6, <1>7, <1>8, <1>9, <1>10 DEF Next

\* If prepare-open requests never overlap, a pack is never drawn for twice,
\* through crashes, redeploys and repeated requests.
THEOREM SerialPrepare ==
  ASSUME \A p, q \in Preparers : p = q
  PROVE  Spec => []OneOpeningPerPack
<1>1. Init => OneTaskInv
  BY DEF Init, Idle, OneTaskInv, OneOpeningPerPack, PackStillNew
<1>2. IInv /\ OneTaskInv /\ [Next]_vars => OneTaskInv'
  BY OneTaskStep
<1>3. OneTaskInv => OneOpeningPerPack
  BY DEF OneTaskInv
<1>. QED
  BY <1>1, <1>2, <1>3, Invariant, PTL DEF Spec

\* What the job is about to write has not been written.
StillPrepared ==
  appl[Poller].pc = "write" => ~Recorded(appl[Poller].event.opening)

OneApplierInv == OneRowPerToken /\ StillPrepared

LEMMA OneApplierStep ==
  ASSUME Confirmers = {}
  PROVE  IInv /\ OneApplierInv /\ [Next]_vars => OneApplierInv'
<1> SUFFICES ASSUME IInv, OneApplierInv, [Next]_vars PROVE OneApplierInv'
  OBVIOUS
<1> USE DEF dbVars, chainVars, serverVars, taskVars, countVars, Idle
<1>0. /\ appl \in [Appliers -> ApplyTask] /\ Appliers = {Poller}
      /\ OneRowPerToken /\ StillPrepared
  BY DEF IInv, TypeOK, OneApplierInv, Appliers
<1>1. ASSUME userCards' = userCards, appl'[Poller].pc # "write" \/ appl' = appl
      PROVE  OneApplierInv'
  BY <1>0, <1>1 DEF OneApplierInv, OneRowPerToken, StillPrepared, Recorded
<1>2. ASSUME NEW p \in Preparers, PrepareStep(p) PROVE OneApplierInv'
  BY <1>1, <1>2 DEF PrepareStep, PrepareBegin, PrepareRead, PrepareDraw, PrepareInsert,
                    PrepareResign, PrepareFails
<1>3. ASSUME ApplyRead(Poller) PROVE OneApplierInv'
  <2>1. userCards' = userCards
    BY <1>3 DEF ApplyRead
  <2>2. CASE Applicable(appl[Poller].event)
    <3>1. appl[Poller].event \in events
      BY <1>0, <1>3 DEF IInv, Links, TaskEvents, ApplyRead
    <3>2. PICK i0 \in OpeningIds : i0 = appl[Poller].event.opening
      BY <3>1, EventRow
    <3>3. ~Recorded(i0)
      BY <2>2, <3>2 DEF Applicable, IInv, Records, CompletedIffRecorded, Recorded
    <3>4. appl'[Poller].event.opening = i0
      BY <1>0, <1>3, <2>2, <3>2 DEF ApplyRead
    <3>. QED
      BY <1>0, <2>1, <3>3, <3>4 DEF OneApplierInv, OneRowPerToken, StillPrepared, Recorded
  <2>3. CASE ~Applicable(appl[Poller].event)
    <3>1. appl'[Poller].pc = "idle"
      BY <1>0, <1>3, <2>3 DEF ApplyRead
    <3>. QED
      BY <1>1, <2>1, <3>1
  <2>. QED
    BY <2>2, <2>3
<1>4. ASSUME ApplyWrite(Poller) PROVE OneApplierInv'
  <2>1. PICK i0 : i0 = appl[Poller].event.opening
    OBVIOUS
  <2>2. ~Recorded(i0)
    BY <1>0, <1>4, <2>1 DEF StillPrepared, ApplyWrite
  <2>3. PICK m0 : m0 = Len(userCards) + 1
    OBVIOUS
  <2>4. /\ \A n \in DOMAIN userCards' : n \in DOMAIN userCards \/ n = m0
        /\ \A n \in DOMAIN userCards : userCards'[n] = userCards[n]
        /\ userCards'[m0].opening = i0
    BY <1>0, <1>4, <2>1, <2>3, WriteCards
  <2>5. OneRowPerToken'
    BY <1>0, <2>2, <2>4 DEF OneRowPerToken, Recorded
  <2>6. appl'[Poller].pc = "idle"
    BY <1>0, <1>4 DEF ApplyWrite
  <2>. QED
    BY <2>5, <2>6 DEF OneApplierInv, StillPrepared
<1>5. ASSUME ApplyFails(Poller) PROVE OneApplierInv'
  <2>1. userCards' = userCards /\ appl'[Poller].pc = "idle"
    BY <1>0, <1>5 DEF ApplyFails
  <2>. QED
    BY <1>1, <2>1
<1>6. ASSUME PollStep PROVE OneApplierInv'
  BY <1>0, <1>1, <1>6 DEF PollStep, PollFetch, PollFails, PollNext
<1>7. ASSUME ChainStep PROVE OneApplierInv'
  BY <1>1, <1>7 DEF ChainStep, NewBlock, MintWithSignature
<1>8. ASSUME ServerStep PROVE OneApplierInv'
  BY <1>0, <1>1, <1>8 DEF ServerStep, Crash, Restart
<1>9. CASE UNCHANGED vars
  BY <1>1, <1>9 DEF vars
<1>. QED
  BY <1>0, <1>2, <1>3, <1>4, <1>5, <1>6, <1>7, <1>8, <1>9 DEF Next, ApplyStep

\* If only the job applies mints, a minted token is recorded once, however often
\* the job sees the mint.
THEOREM SerialApply ==
  ASSUME Confirmers = {}
  PROVE  Spec => []OneRowPerToken
<1>1. Init => OneApplierInv
  BY DEF Init, Idle, Appliers, OneApplierInv, OneRowPerToken, StillPrepared
<1>2. IInv /\ OneApplierInv /\ [Next]_vars => OneApplierInv'
  BY OneApplierStep
<1>3. OneApplierInv => OneRowPerToken
  BY DEF OneApplierInv
<1>. QED
  BY <1>1, <1>2, <1>3, Invariant, PTL DEF Spec
==============================================================================
