---------------------------- MODULE AccountsProofs ----------------------------
(***************************************************************************)
(* What holds of Accounts for every number of wallets, requests, rewards   *)
(* and pack types, when no wallet has two requests served at once.         *)
(***************************************************************************)
EXTENDS Accounts, FiniteSetTheorems, TLAPS

-----------------------------------------------------------------------------
(* Types *)

Told == [steps : [Wallets -> [Steps -> BOOLEAN \cup {None}]], claimed : [Rewards -> Nat],
         blind : SUBSET Wallets]

Known == {w \in Wallets : users[w] # None}
Referred(w) == {v \in Wallets : users[v] # None /\ users[v].referred_by = w}

TypeInv == TypeOK /\ told \in Told /\ IsFiniteSet(Known)

NonceTypes ==
  /\ nonce_storage \in [Wallets -> Nonce \cup {None}]
  /\ issued \in [Wallets -> 0 .. MaxNonces]
  /\ accepted \in [Wallets -> Seq(1 .. MaxNonces)]

LEMMA TaskType ==
  ASSUME NEW t \in Task
  PROVE  /\ t.w \in Wallets \cup {None}
         /\ t.w = None <=> t = Idle
         /\ t.pc = "idle" <=> t = Idle
         /\ t.pc \in {"lookup", "select", "name", "refer", "insert", "grant"} => t.source \in Sources
         /\ t.pc \in {"lookup", "select", "name", "refer"} => t.code \in Wallets \cup {None}
         /\ t.pc \in {"select", "name", "refer", "insert"} => t.is_new_user \in BOOLEAN
         /\ t.pc \in {"refer", "insert", "rename"} => t.nickname \in Nicknames
         /\ t.pc = "insert" => t.referrer \in Wallets \cup {None} /\ t.row \in User \cup {None}
         /\ t.pc = "onboard" => /\ t.steps \in [Steps -> BOOLEAN \cup {None}]
                                /\ t.set \in Steps \X BOOLEAN
         /\ t.pc = "claim" => t.ids \in SUBSET Rewards
BY SetAssumption DEF Task, Idle

LEMMA IdleType == Idle \in Task /\ Idle.pc = "idle" /\ Idle.w = None
BY DEF Task, Idle

-----------------------------------------------------------------------------
(* The inductive invariant *)

\* A wallet has one request served at a time.
Alone == \A q, r \in Tasks : q # r /\ req[r].w # None => req[q].w # req[r].w

\* What a request remembers is still so: its user is there and has the steps it read, no
\* referral of its referrer was lost since, a new user has no packs yet, and the
\* rewards it saw pending are pending.
TaskOK(t) ==
  /\ t \in Task
  /\ t.pc \in {"onboard", "rename"} => users[t.w] # None
  /\ t.pc = "onboard" => t.steps = [users[t.w].steps EXCEPT ![t.set[1]] = t.set[2]]
  /\ t.pc = "insert" /\ t.referrer # None =>
       /\ users[t.referrer] # None /\ t.row # None
       /\ t.row.referral_count <= Cardinality(Referred(t.referrer))
  /\ t.pc \in {"select", "name", "refer", "insert"} /\ t.is_new_user /\ t.w \notin told.blind =>
       packs[t.w]["reward"] = 0
  /\ t.pc = "grant" /\ t.source = "reward" /\ t.w \notin told.blind => packs[t.w]["reward"] = 0
  /\ t.pc = "claim" => t.ids \subseteq Pending(t.w)

TaskInv == Alone /\ \A r \in Tasks : TaskOK(req[r])

\* Nonces are accepted in the order they were issued in, before the one held.
NonceInv ==
  /\ SignedOnce
  /\ \A w \in Wallets :
       /\ \A i \in DOMAIN accepted[w] : accepted[w][i] <= issued[w]
       /\ Held(w) => /\ nonce_storage[w].id <= issued[w]
                     /\ \A i \in DOMAIN accepted[w] : accepted[w][i] < nonce_storage[w].id

FullSet == STARTER_PACKS_PER_TYPE * Cardinality(PackTypes)

PackInv ==
  \A w \in Wallets : /\ users[w] = None => packs[w]["reward"] = 0
                     /\ w \notin told.blind => packs[w]["reward"] \in {0, FullSet}

StepInv == StepsKept /\ \A w \in Wallets : users[w] = None => told.steps[w] = NewSteps

Inv == TypeInv /\ TaskInv /\ NonceInv /\ ReferralsBacked /\ PackInv /\ StepInv /\ ClaimedOnce

LEMMA FullSetType == FullSet \in Nat
<1>1. Cardinality(PackTypes) \in Nat /\ STARTER_PACKS_PER_TYPE \in Nat
  BY FS_CardinalityType, SetAssumption, NumberAssumption
<1>. QED
  BY <1>1 DEF FullSet

LEMMA InitInv == Init => Inv
<1> SUFFICES ASSUME Init PROVE Inv
  OBVIOUS
<1>1. TypeInv
  <2>1. Known = {}
    BY DEF Known, Init
  <2>2. told \in Told
    BY DEF Init, Told, NewSteps
  <2>3. req \in [Tasks -> Task]
    BY IdleType DEF Init
  <2>4. accepted \in [Wallets -> Seq(1 .. MaxNonces)]
    BY DEF Init
  <2>5. issued \in [Wallets -> 0 .. MaxNonces] /\ served \in 0 .. MaxRequests /\ faults \in 0 .. MaxFaults
    BY NumberAssumption DEF Init
  <2>6. packs \in [Wallets -> [Sources -> Nat]]
    BY DEF Init
  <2>. QED
    BY <2>1, <2>2, <2>3, <2>4, <2>5, <2>6, FS_EmptySet DEF Init, TypeInv, TypeOK
<1>2. TaskInv
  BY IdleType DEF Init, TaskInv, Alone, TaskOK
<1>3. NonceInv
  BY DEF Init, NonceInv, SignedOnce, Held
<1>4. ReferralsBacked /\ PackInv /\ StepInv /\ ClaimedOnce
  <2>1. \A w \in Wallets : users[w] = None /\ packs[w]["reward"] = 0 /\ told.steps[w] = NewSteps
    BY DEF Init, Sources
  <2>2. \A i \in Rewards : rewards[i] = None /\ told.claimed[i] = 0
    BY DEF Init
  <2>. QED
    BY <2>1, <2>2 DEF ReferralsBacked, PackInv, StepInv, StepsKept, ClaimedOnce
<1>. QED
  BY <1>1, <1>2, <1>3, <1>4 DEF Inv

-----------------------------------------------------------------------------
(* Steps of requests *)

\* What a task remembers depends on the tables only.
LEMMA SameTables ==
  ASSUME UNCHANGED <<users, packs, rewards, told>>, NEW t, TaskOK(t)
  PROVE  TaskOK(t)'
BY DEF TaskOK, Referred, Pending, Owned

\* A request moves on, ends or begins, and the others still remember what is so.
LEMMA TaskStep ==
  ASSUME Inv, NEW r \in Tasks, NEW to, req' = [req EXCEPT ![r] = to], TaskOK(to)',
         to.w # None => \A q \in Tasks \ {r} : req[q].w # to.w,
         \A q \in Tasks \ {r} : TaskOK(req[q])'
  PROVE  TaskInv' /\ req' \in [Tasks -> Task]
<1>1. req \in [Tasks -> Task]
  BY DEF Inv, TypeInv, TypeOK
<1>2. to \in Task
  BY DEF TaskOK
<1>3. \A q \in Tasks : req'[q] = IF q = r THEN to ELSE req[q]
  BY <1>1
<1>4. \A q \in Tasks : TaskOK(req[q])'
  BY <1>3
<1>5. Alone'
  BY <1>3 DEF Alone, Inv, TaskInv
<1>. QED
  BY <1>1, <1>2, <1>4, <1>5 DEF TaskInv

\* A step that writes no table.
LEMMA MoveKeeps ==
  ASSUME Inv, NEW r \in Tasks, NEW to, req' = [req EXCEPT ![r] = to], TaskOK(to),
         to.w # None => \A q \in Tasks \ {r} : req[q].w # to.w,
         UNCHANGED <<users, packs, rewards, told>>,
         served' \in 0 .. MaxRequests, faults' \in 0 .. MaxFaults,
         NonceTypes', NonceInv'
  PROVE  Inv'
<1>1. \A q \in Tasks : TaskOK(req[q])
  BY DEF Inv, TaskInv
<1>2. TaskOK(to)' /\ \A q \in Tasks \ {r} : TaskOK(req[q])'
  <2>1. ASSUME NEW q \in Tasks \ {r} PROVE TaskOK(req[q])'
    <3> DEFINE t == req[q]
    <3>1. ASSUME NEW u, u = t PROVE TaskOK(u)'
      BY <1>1, <3>1, SameTables
    <3>2. req'[q] = req[q]
      BY DEF Inv, TypeInv, TypeOK
    <3>. QED
      BY <3>1, <3>2
  <2>. QED
    BY <2>1, SameTables
<1>3. TaskInv' /\ req' \in [Tasks -> Task]
  BY <1>2, TaskStep
<1>4. TypeInv'
  BY <1>3 DEF Inv, TypeInv, TypeOK, NonceTypes, Known
<1>5. (ReferralsBacked /\ PackInv /\ StepInv /\ ClaimedOnce)'
  BY DEF Inv, ReferralsBacked, PackInv, StepInv, StepsKept, ClaimedOnce
<1>. QED
  BY <1>3, <1>4, <1>5 DEF Inv

\* A request that ends.
LEMMA EndKeeps ==
  ASSUME Inv, NEW r \in Tasks, Ends(r), UNCHANGED <<users, packs, rewards, told, served>>,
         faults' \in 0 .. MaxFaults, NonceTypes', NonceInv'
  PROVE  Inv'
<1>1. TaskOK(Idle)
  BY IdleType DEF TaskOK
<1>2. served' \in 0 .. MaxRequests
  BY DEF Inv, TypeInv, TypeOK
<1>. QED
  BY <1>1, <1>2, IdleType, MoveKeeps DEF Ends

LEMMA SameNonces ==
  ASSUME Inv, UNCHANGED nonceVars
  PROVE  NonceTypes' /\ NonceInv'
BY DEF Inv, TypeInv, TypeOK, NonceTypes, NonceInv, nonceVars, SignedOnce, Held

LEMMA SameCounts ==
  ASSUME Inv
  PROVE  /\ served \in 0 .. MaxRequests /\ faults \in 0 .. MaxFaults
         /\ served < MaxRequests => served + 1 \in 0 .. MaxRequests
         /\ faults < MaxFaults => faults + 1 \in 0 .. MaxFaults
<1>1. MaxRequests \in Nat /\ MaxFaults \in Nat
  BY NumberAssumption
<1>. QED
  BY <1>1 DEF Inv, TypeInv, TypeOK

\* A request that begins.
LEMMA BeginKeeps ==
  ASSUME ~Overlap, Inv, NEW r \in Tasks, NEW w \in Wallets, NEW task, Begins(r, w, task),
         task.w = w, TaskOK(task), UNCHANGED <<users, packs, rewards, told, faults>>,
         NonceTypes', NonceInv'
  PROVE  Inv'
<1>1. \A q \in Tasks : req[q].w # w
  BY DEF Begins
<1>2. served' \in 0 .. MaxRequests /\ faults' \in 0 .. MaxFaults
  BY SameCounts DEF Begins
<1>. QED
  BY <1>1, <1>2, MoveKeeps DEF Begins

\* A request that goes on, for the same wallet.
LEMMA GoKeeps ==
  ASSUME Inv, NEW r \in Tasks, NEW task, Goes(r, task), req[r] # Idle,
         task.w = req[r].w, TaskOK(task),
         UNCHANGED <<users, packs, rewards, told, served, faults, nonceVars>>
  PROVE  Inv'
<1>1. req[r].w # None
  BY TaskType DEF Inv, TypeInv, TypeOK
<1>2. \A q \in Tasks \ {r} : req[q].w # task.w
  BY <1>1 DEF Inv, TaskInv, Alone
<1>. QED
  BY <1>2, MoveKeeps, SameCounts, SameNonces DEF Goes

-----------------------------------------------------------------------------
(* The nonces *)

\* No table and no request is touched.
LEMMA RestKeeps ==
  ASSUME Inv, UNCHANGED <<tableVars, req, faults, told>>, served' \in 0 .. MaxRequests,
         NonceTypes', NonceInv'
  PROVE  Inv'
<1> USE DEF tableVars
<1>1. TypeInv'
  BY DEF Inv, TypeInv, TypeOK, NonceTypes, Known
<1>2. TaskInv'
  BY DEF Inv, TaskInv, Alone, TaskOK, Referred, Pending, Owned
<1>3. (ReferralsBacked /\ PackInv /\ StepInv /\ ClaimedOnce)'
  BY DEF Inv, ReferralsBacked, PackInv, StepInv, StepsKept, ClaimedOnce
<1>. QED
  BY <1>1, <1>2, <1>3 DEF Inv

LEMMA HeldType ==
  ASSUME Inv, NEW w \in Wallets
  PROVE  /\ Held(w) => nonce_storage[w].id \in 1 .. MaxNonces /\ nonce_storage[w] \in Nonce
         /\ issued[w] \in 0 .. MaxNonces /\ MaxNonces \in Nat
         /\ \A i \in DOMAIN accepted[w] : accepted[w][i] \in 1 .. MaxNonces
         /\ accepted[w] \in Seq(1 .. MaxNonces)
BY NumberAssumption DEF Inv, TypeInv, TypeOK, Held, Nonce

LEMMA NonceStep ==
  ASSUME Inv, NEW w \in Wallets,
         generate_nonce(w) \/ NonceExpires(w) \/ verify_signature_late(w)
  PROVE  Inv'
<1>n. None \notin Nonce
  BY NoneAssumption
<1>s. nonce_storage \in [Wallets -> Nonce \cup {None}] /\ issued \in [Wallets -> 0 .. MaxNonces]
  BY DEF Inv, TypeInv, TypeOK
<1>0. served' \in 0 .. MaxRequests /\ UNCHANGED <<tableVars, req, faults, told, accepted>>
  BY SameCounts DEF generate_nonce, NonceExpires, verify_signature_late
<1>1. CASE generate_nonce(w)
  <2> DEFINE new == [id |-> issued[w] + 1, expired |-> FALSE]
  <2>1. /\ issued[w] + 1 \in 1 .. MaxNonces /\ issued' = [issued EXCEPT ![w] = issued[w] + 1]
        /\ issued[w] \in Nat
    BY <1>1, HeldType DEF generate_nonce
  <2>2. new \in Nonce
    BY <2>1 DEF Nonce
  <2>3. \A v \in Wallets : nonce_storage'[v] = IF v = w THEN new
                             ELSE IF Held(v) /\ nonce_storage[v].expired THEN None ELSE nonce_storage[v]
    BY <1>1 DEF generate_nonce
  <2>4. nonce_storage' \in [Wallets -> Nonce \cup {None}]
    BY <1>1, <1>s, <2>2 DEF generate_nonce
  <2>5. issued' \in [Wallets -> 0 .. MaxNonces]
    BY <1>s, <2>1
  <2>6. NonceTypes'
    BY <1>0, <2>4, <2>5 DEF NonceTypes, Inv, TypeInv, TypeOK
  <2>7. \A v \in Wallets : issued'[v] = IF v = w THEN issued[w] + 1 ELSE issued[v]
    BY <1>s, <2>1
  <2>8. NonceInv'
    <3>1. ASSUME NEW v \in Wallets, v # w
          PROVE  /\ \A i \in DOMAIN accepted[v] : accepted[v][i] <= issued'[v]
                 /\ nonce_storage'[v] # None =>
                      /\ nonce_storage'[v].id <= issued'[v]
                      /\ \A i \in DOMAIN accepted[v] : accepted[v][i] < nonce_storage'[v].id
      BY <2>3, <2>7, <3>1 DEF Inv, NonceInv, Held
    <3>2. \A i \in DOMAIN accepted[w] : accepted[w][i] < issued[w] + 1 /\ accepted[w][i] <= issued[w] + 1
      <4>1. \A i \in DOMAIN accepted[w] : accepted[w][i] <= issued[w] /\ accepted[w][i] \in Nat
        BY HeldType DEF Inv, NonceInv
      <4>. QED
        BY <2>1, <4>1
    <3>3. nonce_storage'[w].id = issued[w] + 1 /\ issued'[w] = issued[w] + 1
      BY <2>3, <2>7
    <3>. QED
      BY <1>0, <2>1, <3>1, <3>2, <3>3 DEF Inv, NonceInv, SignedOnce, Held
  <2>. QED
    BY <1>0, <2>6, <2>8, RestKeeps
<1>2. CASE NonceExpires(w)
  <2>1. /\ issued' = issued /\ nonce_storage' = [nonce_storage EXCEPT ![w].expired = TRUE] /\ Held(w)
    BY <1>2 DEF NonceExpires
  <2>2. nonce_storage[w] \in Nonce
    BY <2>1, HeldType
  <2>3. nonce_storage'[w] \in Nonce /\ nonce_storage'[w].id = nonce_storage[w].id
    BY <1>s, <2>1, <2>2 DEF Nonce
  <2>4. /\ nonce_storage' \in [Wallets -> Nonce \cup {None}]
        /\ \A v \in Wallets : v # w => nonce_storage'[v] = nonce_storage[v]
    BY <1>s, <2>1, <2>2 DEF Nonce
  <2>5. NonceTypes'
    BY <1>0, <2>1, <2>4 DEF NonceTypes, Inv, TypeInv, TypeOK
  <2>6. NonceInv'
    BY <1>0, <2>1, <2>3, <2>4 DEF Inv, NonceInv, SignedOnce, Held
  <2>. QED
    BY <1>0, <2>5, <2>6, RestKeeps
<1>3. CASE verify_signature_late(w)
  <2>1. issued' = issued /\ nonce_storage' = [nonce_storage EXCEPT ![w] = None]
    BY <1>3 DEF verify_signature_late
  <2>2. NonceTypes'
    BY <1>0, <1>s, <2>1 DEF NonceTypes, Inv, TypeInv, TypeOK
  <2>3. nonce_storage'[w] = None /\ \A v \in Wallets : v # w => nonce_storage'[v] = nonce_storage[v]
    BY <1>s, <2>1
  <2>4. NonceInv'
    BY <1>0, <2>1, <2>3 DEF Inv, NonceInv, SignedOnce, Held
  <2>. QED
    BY <1>0, <2>2, <2>4, RestKeeps
<1>. QED
  BY <1>1, <1>2, <1>3

\* A signature is accepted: its nonce is above all that were, and is gone.
LEMMA SignatureStep ==
  ASSUME ~Overlap, Inv, NEW r \in Tasks, NEW w \in Wallets, NEW k, NEW code \in Wallets \cup {None},
         verify_signature(r, w, k, code)
  PROVE  Inv'
<1> DEFINE task == [pc |-> "lookup", w |-> w, source |-> "reward", code |-> code]
<1>1. /\ Held(w) /\ nonce_storage[w].id = k /\ Begins(r, w, task)
      /\ accepted' = [accepted EXCEPT ![w] = Append(accepted[w], k)]
      /\ nonce_storage' = [nonce_storage EXCEPT ![w] = None]
      /\ UNCHANGED <<issued, tableVars, faults, told>>
  BY DEF verify_signature, Signed
<1>2. TaskOK(task)
  BY DEF TaskOK, Task, Sources
<1>3. k \in 1 .. MaxNonces /\ accepted[w] \in Seq(1 .. MaxNonces)
  BY <1>1, HeldType
<1>4. /\ accepted \in [Wallets -> Seq(1 .. MaxNonces)]
      /\ nonce_storage \in [Wallets -> Nonce \cup {None}]
  BY DEF Inv, TypeInv, TypeOK
<1>5. /\ accepted'[w] = Append(accepted[w], k) /\ nonce_storage'[w] = None
      /\ \A v \in Wallets : v # w => accepted'[v] = accepted[v] /\ nonce_storage'[v] = nonce_storage[v]
  BY <1>1, <1>4
<1>6. Append(accepted[w], k) \in Seq(1 .. MaxNonces)
  BY <1>3
<1>7. NonceTypes'
  BY <1>1, <1>4, <1>6 DEF NonceTypes, Inv, TypeInv, TypeOK
<1>8. NonceInv'
  <2>1. /\ \A i \in 1 .. Len(accepted[w]) : accepted[w][i] < k
        /\ \A i, j \in 1 .. Len(accepted[w]) : i < j => accepted[w][i] < accepted[w][j]
        /\ \A i \in 1 .. Len(accepted[w]) : accepted[w][i] <= issued[w]
        /\ k <= issued[w]
    BY <1>1, <1>3 DEF Inv, NonceInv, SignedOnce
  <2>2. DOMAIN accepted'[w] = 1 .. Len(accepted[w]) + 1 /\ Len(accepted[w]) \in Nat
    BY <1>3, <1>5
  <2>3. \A i \in DOMAIN accepted'[w] : accepted'[w][i] = IF i = Len(accepted[w]) + 1 THEN k ELSE accepted[w][i]
    BY <1>3, <1>5
  <2>4. \A i, j \in DOMAIN accepted'[w] : i < j => accepted'[w][i] < accepted'[w][j]
    BY <2>1, <2>2, <2>3
  <2>5. \A i \in DOMAIN accepted'[w] : accepted'[w][i] <= issued[w]
    BY <2>1, <2>2, <2>3
  <2>. QED
    BY <1>1, <1>5, <2>4, <2>5 DEF Inv, NonceInv, SignedOnce, Held
<1>. QED
  BY <1>1, <1>2, <1>7, <1>8, BeginKeeps DEF tableVars

-----------------------------------------------------------------------------
(* Requests that begin *)

LEMMA UserType ==
  ASSUME Inv, NEW w \in Wallets
  PROVE  users[w] # None => /\ users[w] \in User /\ users[w].referral_count \in Nat
                            /\ users[w].steps \in [Steps -> BOOLEAN \cup {None}]
BY DEF Inv, TypeInv, TypeOK, User

LEMMA ArriveKeeps ==
  ASSUME ~Overlap, Inv, NEW r \in Tasks, Arrive(r)
  PROVE  Inv'
<1> USE DEF tableVars
<1>1. ASSUME NEW w \in Wallets, NEW code \in Wallets \cup {None}, NEW k \in 1 .. MaxNonces,
             verify_signature(r, w, k, code)
      PROVE  Inv'
  BY <1>1, SignatureStep
<1>2. ASSUME NEW w \in Wallets, NEW code \in Wallets \cup {None}, test_verify(r, w, code)
      PROVE  Inv'
  <2> DEFINE task == [pc |-> "lookup", w |-> w, source |-> "admin", code |-> code]
  <2>1. TaskOK(task)
    BY DEF TaskOK, Task, Sources
  <2>. QED
    BY <1>2, <2>1, BeginKeeps, SameNonces DEF test_verify
<1>3. ASSUME NEW w \in Wallets, grant_packs_to_user(r, w)
      PROVE  Inv'
  <2> DEFINE task == [pc |-> "grant", w |-> w, source |-> "admin"]
  <2>1. TaskOK(task)
    BY DEF TaskOK, Task, Sources
  <2>. QED
    BY <1>3, <2>1, BeginKeeps, SameNonces DEF grant_packs_to_user
<1>4. ASSUME NEW w \in Wallets, ClaimBegin(r, w)
      PROVE  Inv'
  <2> DEFINE task == [pc |-> "claim", w |-> w, ids |-> Pending(w)]
  <2>1. task \in Task
    BY DEF Task, Pending, Owned
  <2>2. TaskOK(task)
    BY <2>1 DEF TaskOK
  <2>. QED
    BY <1>4, <2>2, BeginKeeps, SameNonces DEF ClaimBegin
<1>5. ASSUME NEW w \in Wallets, NEW s \in Steps, NEW done \in BOOLEAN, OnboardingBegin(r, w, s, done)
      PROVE  Inv'
  <2> DEFINE steps == [users[w].steps EXCEPT ![s] = done]
             task == [pc |-> "onboard", w |-> w, steps |-> steps, set |-> <<s, done>>]
  <2>1. users[w] # None
    BY <1>5 DEF OnboardingBegin
  <2>2. steps \in [Steps -> BOOLEAN \cup {None}]
    BY <2>1, UserType
  <2>3. task \in Task
    BY <2>2 DEF Task
  <2>4. TaskOK(task)
    BY <2>1, <2>3 DEF TaskOK
  <2>. QED
    BY <1>5, <2>4, BeginKeeps, SameNonces DEF OnboardingBegin
<1>6. ASSUME NEW w \in Wallets, NEW n \in Nicknames, UpdateUserBegin(r, w, n)
      PROVE  Inv'
  <2> DEFINE task == [pc |-> "rename", w |-> w, nickname |-> n]
  <2>1. users[w] # None
    BY <1>6 DEF UpdateUserBegin
  <2>2. TaskOK(task)
    BY <2>1 DEF TaskOK, Task
  <2>. QED
    BY <1>6, <2>2, BeginKeeps, SameNonces DEF UpdateUserBegin
<1>. QED
  BY <1>1, <1>2, <1>3, <1>4, <1>5, <1>6 DEF Arrive

-----------------------------------------------------------------------------
(* Requests that go on *)

LEMMA LookStep ==
  ASSUME Inv, NEW r \in Tasks, get_user_by_wallet(r) \/ SelectUser(r)
  PROVE  Inv'
<1> USE DEF tableVars
<1> DEFINE w == req[r].w
<1>0. req[r] \in Task /\ TaskOK(req[r])
  BY DEF Inv, TypeInv, TypeOK, TaskInv
<1>1. req[r].pc # "idle" /\ req[r] # Idle /\ w \in Wallets
  BY <1>0, TaskType, IdleType DEF get_user_by_wallet, SelectUser
<1>2. CASE get_user_by_wallet(r)
  <2> DEFINE to == [pc |-> "select", w |-> w, source |-> req[r].source, code |-> req[r].code,
                    is_new_user |-> users[w] = None]
  <2>1. req[r].pc = "lookup" /\ Goes(r, to)
    BY <1>2 DEF get_user_by_wallet
  <2>2. req[r].source \in Sources /\ req[r].code \in Wallets \cup {None}
    BY <1>0, <2>1, TaskType
  <2>3. to \in Task
    BY <1>1, <2>2 DEF Task
  <2>4. to.is_new_user => packs[w]["reward"] = 0
    BY <1>1 DEF Inv, PackInv
  <2>5. TaskOK(to)
    BY <2>3, <2>4 DEF TaskOK
  <2>. QED
    BY <1>1, <1>2, <2>1, <2>5, GoKeeps DEF get_user_by_wallet
<1>3. CASE SelectUser(r)
  <2>0. /\ req[r].source \in Sources /\ req[r].code \in Wallets \cup {None}
        /\ req[r].is_new_user \in BOOLEAN /\ req[r].pc = "select"
    BY <1>0, <1>3, TaskType DEF SelectUser
  <2>s. req[r] = [pc |-> "select", w |-> w, source |-> req[r].source, code |-> req[r].code,
                  is_new_user |-> req[r].is_new_user]
    BY <1>0, <2>0 DEF Task, Idle
  <2>1. CASE users[w] = None
    <3> DEFINE to == [req[r] EXCEPT !.pc = "name"]
    <3>1. /\ to = [pc |-> "name", w |-> w, source |-> req[r].source, code |-> req[r].code,
                   is_new_user |-> req[r].is_new_user]
      BY <2>s
    <3>2. to \in Task
      BY <1>1, <2>0, <3>1 DEF Task
    <3>3. to.pc = "name" /\ to.w = w /\ to.is_new_user = req[r].is_new_user
      BY <3>1
    <3>4. TaskOK(to)
      BY <1>0, <2>0, <3>2, <3>3 DEF TaskOK
    <3>5. Goes(r, to)
      BY <1>3, <2>1 DEF SelectUser
    <3>. QED
      BY <1>1, <1>3, <3>3, <3>4, <3>5, GoKeeps DEF SelectUser
  <2>2. CASE users[w] # None /\ req[r].is_new_user
    <3>1. Goes(r, Granting(r))
      BY <1>3, <2>2 DEF SelectUser
    <3>2. Granting(r) \in Task /\ Granting(r).w = w /\ Granting(r).pc = "grant"
      BY <1>1, <2>0 DEF Granting, Task
    <3>3. TaskOK(Granting(r))
      BY <1>0, <2>0, <2>2, <3>2 DEF TaskOK
    <3>. QED
      BY <1>1, <1>3, <3>1, <3>2, <3>3, GoKeeps DEF SelectUser
  <2>3. CASE users[w] # None /\ ~req[r].is_new_user
    <3>1. Ends(r)
      BY <1>3, <2>3 DEF SelectUser
    <3>. QED
      BY <1>3, <3>1, EndKeeps, SameNonces, SameCounts DEF SelectUser
  <2>. QED
    BY <2>1, <2>2, <2>3, <2>0
<1>. QED
  BY <1>2, <1>3

LEMMA NameStep ==
  ASSUME Inv, NEW r \in Tasks, ChooseNickname(r) \/ FindReferrer(r)
  PROVE  Inv'
<1> USE DEF tableVars
<1> DEFINE w == req[r].w
<1>0. req[r] \in Task /\ TaskOK(req[r])
  BY DEF Inv, TypeInv, TypeOK, TaskInv
<1>1. req[r].pc # "idle" /\ req[r] # Idle /\ w \in Wallets
  BY <1>0, TaskType, IdleType DEF ChooseNickname, FindReferrer
<1>2. ASSUME NEW n \in Nicknames, req[r].pc = "name",
             Goes(r, [pc |-> "refer", w |-> w, source |-> req[r].source, code |-> req[r].code,
                      is_new_user |-> req[r].is_new_user, nickname |-> n]),
             UNCHANGED <<nonceVars, tableVars, served, faults, told>>
      PROVE  Inv'
  <2> DEFINE to == [pc |-> "refer", w |-> w, source |-> req[r].source, code |-> req[r].code,
                    is_new_user |-> req[r].is_new_user, nickname |-> n]
  <2>1. to \in Task
    BY <1>0, <1>1, <1>2, TaskType DEF Task
  <2>2. TaskOK(to)
    BY <1>0, <1>2, <2>1 DEF TaskOK
  <2>. QED
    BY <1>1, <1>2, <2>2, GoKeeps
<1>3. CASE FindReferrer(r)
  <2> DEFINE code == req[r].code
             found == code # None /\ users[code] # None
             to == [pc |-> "insert", w |-> w, source |-> req[r].source,
                    nickname |-> req[r].nickname, is_new_user |-> req[r].is_new_user,
                    referrer |-> IF found THEN code ELSE None,
                    row |-> IF found THEN users[code] ELSE None]
  <2>1. req[r].pc = "refer" /\ Goes(r, to)
    BY <1>3 DEF FindReferrer
  <2>2. /\ code \in Wallets \cup {None} /\ req[r].nickname \in Nicknames
        /\ req[r].is_new_user \in BOOLEAN /\ req[r].source \in Sources
    BY <1>0, <2>1, TaskType
  <2>3. to.row \in User \cup {None} /\ to.referrer \in Wallets \cup {None}
    BY <2>2, UserType
  <2>4. to \in Task
    BY <1>1, <2>2, <2>3 DEF Task
  <2>5. to.referrer # None =>
          /\ users[to.referrer] # None /\ to.row # None
          /\ to.row.referral_count <= Cardinality(Referred(to.referrer))
    BY <2>2 DEF Inv, ReferralsBacked, Referred
  <2>6. to.w = w /\ to.pc = "insert" /\ to.is_new_user = req[r].is_new_user
    OBVIOUS
  <2> HIDE DEF to
  <2>7. TaskOK(to)
    BY <1>0, <2>1, <2>4, <2>5, <2>6 DEF TaskOK
  <2>. QED
    BY <1>1, <1>3, <2>1, <2>6, <2>7, GoKeeps DEF FindReferrer
<1>. QED
  BY <1>2, <1>3 DEF ChooseNickname

-----------------------------------------------------------------------------
(* Failures *)

LEMMA FailStep ==
  ASSUME Inv, NEW r \in Tasks, LookupFails(r) \/ RequestFails(r)
  PROVE  Inv'
<1> USE DEF tableVars
<1>1. CASE RequestFails(r)
  BY <1>1, EndKeeps, SameNonces, SameCounts DEF RequestFails
<1>2. CASE LookupFails(r)
  <2>w. PICK w : w = req[r].w
    OBVIOUS
  <2>t. PICK to : to = [pc |-> "select", w |-> w, source |-> req[r].source,
                        code |-> req[r].code, is_new_user |-> TRUE]
    OBVIOUS
  <2>0. req[r] \in Task /\ req[r].pc = "lookup" /\ told \in Told
    BY <1>2 DEF LookupFails, Inv, TypeInv, TypeOK
  <2>1. w \in Wallets /\ w # None /\ req[r].source \in Sources /\ req[r].code \in Wallets \cup {None}
    BY <2>0, <2>w, TaskType, IdleType
  <2>2. told' = [told EXCEPT !.blind = @ \cup {w}]
    BY <1>2, <2>w DEF LookupFails
  <2>3. /\ told'.steps = told.steps /\ told'.claimed = told.claimed /\ told'.blind = told.blind \cup {w}
        /\ told' \in Told
    BY <2>0, <2>1, <2>2 DEF Told
  <2>4. to \in Task
    BY <2>1, <2>t DEF Task
  <2>5. UNCHANGED <<nonceVars, users, packs, rewards, served>> /\ req' = [req EXCEPT ![r] = to]
    BY <1>2, <2>w, <2>t DEF LookupFails, Goes
  <2>6. TaskOK(to)'
    <3>1. to.pc = "select" /\ to.w = w
      BY <2>t
    <3>. QED
      BY <2>3, <2>4, <3>1 DEF TaskOK
  <2>7. ASSUME NEW q \in Tasks \ {r} PROVE TaskOK(req[q])'
    <3>1. req'[q] = req[q] /\ TaskOK(req[q])
      BY <2>5 DEF Inv, TypeInv, TypeOK, TaskInv
    <3>. QED
      BY <2>3, <2>5, <3>1 DEF TaskOK, Referred, Pending, Owned
  <2>8. \A q \in Tasks \ {r} : req[q].w # w
    BY <2>1, <2>w DEF Inv, TaskInv, Alone
  <2>9. TaskInv' /\ req' \in [Tasks -> Task]
    BY <2>5, <2>6, <2>7, <2>8, <2>t, TaskStep
  <2>10. TypeInv'
    BY <1>2, <2>3, <2>5, <2>9, SameNonces, SameCounts
       DEF LookupFails, Inv, TypeInv, TypeOK, NonceTypes, Known
  <2>11. (ReferralsBacked /\ PackInv /\ StepInv /\ ClaimedOnce)'
    BY <2>3, <2>5 DEF Inv, ReferralsBacked, PackInv, StepInv, StepsKept, ClaimedOnce
  <2>. QED
    BY <2>5, <2>9, <2>10, <2>11, SameNonces DEF Inv
<1>. QED
  BY <1>1, <1>2

LEMMA CrashKeeps == Inv /\ Crash => Inv'
<1> SUFFICES ASSUME Inv, Crash PROVE Inv'
  OBVIOUS
<1> USE DEF tableVars
<1>1. \A r \in Tasks : req'[r] = Idle
  BY DEF Crash
<1>2. TaskInv'
  BY <1>1, IdleType DEF TaskInv, Alone, TaskOK
<1>3. TypeInv'
  BY IdleType, SameCounts DEF Crash, Inv, TypeInv, TypeOK, Known
<1>4. NonceInv'
  BY DEF Crash, Inv, NonceInv, SignedOnce, Held
<1>5. (ReferralsBacked /\ PackInv /\ StepInv /\ ClaimedOnce)'
  BY DEF Crash, Inv, ReferralsBacked, PackInv, StepInv, StepsKept, ClaimedOnce
<1>. QED
  BY <1>2, <1>3, <1>4, <1>5 DEF Inv

-----------------------------------------------------------------------------
(* Writes of users *)

LEMMA ReferredFinite ==
  ASSUME Inv, NEW w
  PROVE  IsFiniteSet(Referred(w)) /\ Cardinality(Referred(w)) \in Nat
<1>1. Referred(w) \in SUBSET Known
  BY DEF Referred, Known
<1>. QED
  BY <1>1, FS_Subset, FS_CardinalityType DEF Inv, TypeInv

\* A request writes the row of its user, and of others nothing that a task remembers.
LEMMA UsersStep ==
  ASSUME Inv, NEW r \in Tasks, NEW w \in Wallets, w = req[r].w,
         NEW to, req' = [req EXCEPT ![r] = to], to.w \in {None, w}, TaskOK(to)',
         users' \in [Wallets -> User \cup {None}],
         \A v \in Wallets : users[v] # None =>
           users'[v] # None /\ users'[v].referred_by = users[v].referred_by,
         \A v \in Wallets \ {w} : /\ users[v] = None => users'[v] = None
                                  /\ users[v] # None => users'[v].steps = users[v].steps,
         UNCHANGED <<packs, rewards>>, told'.blind = told.blind
  PROVE  /\ TaskInv' /\ req' \in [Tasks -> Task] /\ IsFiniteSet(Known')
         /\ \A x \in Wallets : /\ IsFiniteSet(Referred(x)') /\ Cardinality(Referred(x)') \in Nat
                               /\ Cardinality(Referred(x)) <= Cardinality(Referred(x)')
<1>1. w # None
  BY SetAssumption
<1>2. Known' \in SUBSET (Known \cup {w})
  BY DEF Known
<1>3. IsFiniteSet(Known \cup {w})
  BY FS_AddElement DEF Inv, TypeInv
<1>4. IsFiniteSet(Known')
  BY <1>2, <1>3, FS_Subset
<1>5. ASSUME NEW x \in Wallets
      PROVE  /\ IsFiniteSet(Referred(x)') /\ Cardinality(Referred(x)') \in Nat
             /\ Cardinality(Referred(x)) <= Cardinality(Referred(x)')
  <2>1. Referred(x)' \in SUBSET Known'
    BY DEF Referred, Known
  <2>2. IsFiniteSet(Referred(x)')
    BY <1>4, <2>1, FS_Subset
  <2>3. Referred(x) \in SUBSET Referred(x)'
    BY DEF Referred
  <2>. QED
    BY <2>2, <2>3, FS_Subset, FS_CardinalityType
<1>6. ASSUME NEW q \in Tasks \ {r} PROVE TaskOK(req[q])'
  <2>1. req'[q] = req[q] /\ TaskOK(req[q]) /\ req[q] \in Task
    BY DEF Inv, TypeInv, TypeOK, TaskInv
  <2>2. req[q].w # w
    BY <1>1 DEF Inv, TaskInv, Alone
  <2>3. PICK t : t = req[q]
    OBVIOUS
  <2>4. t \in Task /\ TaskOK(t) /\ t.w # w
    BY <2>1, <2>2, <2>3
  <2>5. t.pc \in {"onboard", "rename"} => t.w \in Wallets
    BY <2>4, TaskType, IdleType
  <2>6. t.pc \in {"onboard", "rename"} => users'[t.w] # None
    BY <2>4, <2>5 DEF TaskOK
  <2>7. t.pc = "onboard" => t.steps = [users'[t.w].steps EXCEPT ![t.set[1]] = t.set[2]]
    BY <2>4, <2>5 DEF TaskOK
  <2>8. t.pc = "insert" /\ t.referrer # None =>
          /\ users'[t.referrer] # None /\ t.row # None
          /\ t.row.referral_count <= Cardinality(Referred(t.referrer)')
    <3> SUFFICES ASSUME t.pc = "insert", t.referrer # None
                 PROVE  /\ users'[t.referrer] # None /\ t.row # None
                        /\ t.row.referral_count <= Cardinality(Referred(t.referrer)')
      OBVIOUS
    <3>1. t.referrer \in Wallets /\ t.row \in User \cup {None}
      BY <2>4, TaskType
    <3>2. /\ users[t.referrer] # None /\ t.row # None
          /\ t.row.referral_count <= Cardinality(Referred(t.referrer))
      BY <2>4 DEF TaskOK
    <3>3. t.row.referral_count \in Nat
      BY <3>1, <3>2 DEF User
    <3>4. PICK x \in Wallets : x = t.referrer
      BY <3>1
    <3>5. /\ t.row.referral_count <= Cardinality(Referred(x))
          /\ Cardinality(Referred(x)) <= Cardinality(Referred(x)')
          /\ Cardinality(Referred(x)) \in Nat /\ Cardinality(Referred(x)') \in Nat
      BY <1>5, <3>2, <3>4, ReferredFinite
    <3>6. t.row.referral_count <= Cardinality(Referred(x)')
      BY <3>3, <3>5
    <3>. QED
      BY <3>2, <3>1, <3>4, <3>6
  <2>9. TaskOK(t)'
    BY <2>4, <2>6, <2>7, <2>8 DEF TaskOK, Pending, Owned
  <2>. QED
    BY <2>1, <2>3, <2>9
<1>7. to.w # None => \A q \in Tasks \ {r} : req[q].w # to.w
  BY <1>1 DEF Inv, TaskInv, Alone
<1>8. TaskInv' /\ req' \in [Tasks -> Task]
  BY <1>6, <1>7, TaskStep
<1>. QED
  BY <1>4, <1>5, <1>8

\* A rename and a step of onboarding write a column of the user no task counts on.
LEMMA ColumnStep ==
  ASSUME Inv, NEW r \in Tasks, OnboardingCommit(r) \/ UpdateUserCommit(r)
  PROVE  Inv'
<1> USE DEF tableVars
<1>w. PICK w : w = req[r].w
  OBVIOUS
<1>0. req[r] \in Task /\ TaskOK(req[r]) /\ users \in [Wallets -> User \cup {None}] /\ None \notin User
  BY NoneAssumption DEF Inv, TypeInv, TypeOK, TaskInv
<1>1. req[r].pc \in {"onboard", "rename"} /\ w \in Wallets /\ users[w] \in User
  BY <1>0, <1>w, TaskType, IdleType DEF OnboardingCommit, UpdateUserCommit, TaskOK
<1>2. TaskOK(Idle)'
  BY IdleType DEF TaskOK
<1>3. ASSUME NEW row \in User, users' = [users EXCEPT ![w] = row],
             row.referred_by = users[w].referred_by, row.referral_count = users[w].referral_count,
             row.steps = told'.steps[w], told' \in Told, told'.blind = told.blind, told'.claimed = told.claimed,
             \A v \in Wallets \ {w} : told'.steps[v] = told.steps[v],
             Ends(r), UNCHANGED <<nonceVars, packs, rewards, served, faults>>
      PROVE  Inv'
  <2>1. \A v \in Wallets : users'[v] = IF v = w THEN row ELSE users[v]
    BY <1>0, <1>3
  <2>2. users' \in [Wallets -> User \cup {None}]
    BY <1>0, <1>3
  <2>3. /\ TaskInv' /\ req' \in [Tasks -> Task] /\ IsFiniteSet(Known')
        /\ \A x \in Wallets : /\ Cardinality(Referred(x)') \in Nat
                              /\ Cardinality(Referred(x)) <= Cardinality(Referred(x)')
    <3>1. \A v \in Wallets : users[v] # None =>
            users'[v] # None /\ users'[v].referred_by = users[v].referred_by
      BY <1>0, <1>3, <2>1
    <3>2. \A v \in Wallets \ {w} : /\ users[v] = None => users'[v] = None
                                   /\ users[v] # None => users'[v].steps = users[v].steps
      BY <2>1
    <3>3. req' = [req EXCEPT ![r] = Idle] /\ Idle.w = None
      BY <1>3, IdleType DEF Ends
    <3>. QED
      BY <1>1, <1>2, <1>3, <1>w, <2>2, <3>1, <3>2, <3>3, UsersStep
  <2>4. TypeInv'
    BY <1>3, <2>2, <2>3, SameNonces DEF Inv, TypeInv, TypeOK, NonceTypes
  <2>5. ReferralsBacked'
    <3> SUFFICES ASSUME NEW x \in Wallets, users'[x] # None
                 PROVE  users'[x].referral_count <= Cardinality(Referred(x)')
      BY DEF ReferralsBacked, Referred
    <3>1. users[x] # None /\ users'[x].referral_count = users[x].referral_count
      BY <1>0, <1>1, <1>3, <2>1
    <3>2. users[x].referral_count <= Cardinality(Referred(x)) /\ users[x].referral_count \in Nat
      BY <3>1, UserType DEF Inv, ReferralsBacked, Referred
    <3>. QED
      BY <2>3, <3>1, <3>2, ReferredFinite
  <2>6. (PackInv /\ StepInv /\ ClaimedOnce)'
    BY <1>0, <1>1, <1>3, <2>1 DEF Inv, PackInv, StepInv, StepsKept, ClaimedOnce
  <2>. QED
    BY <1>3, <2>3, <2>4, <2>5, <2>6, SameNonces DEF Inv
<1>4. CASE OnboardingCommit(r)
  <2>1. /\ req[r].steps \in [Steps -> BOOLEAN \cup {None}] /\ req[r].set \in Steps \X BOOLEAN
        /\ req[r].pc = "onboard"
        /\ req[r].steps = [users[w].steps EXCEPT ![req[r].set[1]] = req[r].set[2]]
    BY <1>0, <1>4, <1>w, TaskType DEF OnboardingCommit, TaskOK
  <2>2. told \in Told /\ told.steps[w] = users[w].steps
    BY <1>0, <1>1 DEF Inv, TypeInv, StepInv, StepsKept
  <2>3. PICK row : row = [users[w] EXCEPT !.steps = req[r].steps]
    OBVIOUS
  <2>4. /\ row \in User /\ row.referred_by = users[w].referred_by
        /\ row.referral_count = users[w].referral_count /\ row.steps = req[r].steps
    BY <1>1, <2>1, <2>3 DEF User
  <2>5. users' = [users EXCEPT ![w] = row]
    BY <1>4, <1>w, <2>3 DEF OnboardingCommit
  <2>6. PICK a, b : a = req[r].set[1] /\ b = req[r].set[2]
    OBVIOUS
  <2>7. told' = [told EXCEPT !.steps[w][a] = b] /\ a \in Steps /\ b \in BOOLEAN
    BY <1>4, <1>w, <2>1, <2>6 DEF OnboardingCommit
  <2>8. /\ told'.steps = [told.steps EXCEPT ![w] = [told.steps[w] EXCEPT ![a] = b]]
        /\ told'.blind = told.blind /\ told'.claimed = told.claimed
    BY <2>2, <2>7 DEF Told
  <2>9. told' \in Told
    BY <1>1, <2>2, <2>7, <2>8 DEF Told
  <2>10. row.steps = told'.steps[w] /\ \A v \in Wallets \ {w} : told'.steps[v] = told.steps[v]
    BY <1>1, <2>1, <2>2, <2>4, <2>6, <2>8 DEF Told
  <2>. QED
    BY <1>3, <1>4, <2>4, <2>5, <2>8, <2>9, <2>10 DEF OnboardingCommit
<1>5. CASE UpdateUserCommit(r) /\ Taken(req[r].nickname)
  BY <1>5, EndKeeps, SameNonces, SameCounts DEF UpdateUserCommit
<1>6. CASE UpdateUserCommit(r) /\ ~Taken(req[r].nickname)
  <2>1. PICK row : row = [users[w] EXCEPT !.nickname = req[r].nickname]
    OBVIOUS
  <2>2. req[r].nickname \in Nicknames
    BY <1>0, <1>6, TaskType DEF UpdateUserCommit
  <2>3. /\ row \in User /\ row.referred_by = users[w].referred_by
        /\ row.referral_count = users[w].referral_count /\ row.steps = users[w].steps
    BY <1>1, <2>1, <2>2 DEF User
  <2>4. users' = [users EXCEPT ![w] = row]
    BY <1>6, <1>w, <2>1 DEF UpdateUserCommit
  <2>5. told' = told /\ told \in Told /\ told.steps[w] = users[w].steps
    BY <1>0, <1>1, <1>6 DEF UpdateUserCommit, Inv, TypeInv, StepInv, StepsKept
  <2>. QED
    BY <1>3, <1>6, <2>3, <2>4, <2>5 DEF UpdateUserCommit
<1>. QED
  BY <1>4, <1>5, <1>6

\* The insert of a user, with the credit of its referrer.
LEMMA InsertStep ==
  ASSUME Inv, NEW r \in Tasks, InsertUser(r)
  PROVE  Inv'
<1> USE DEF tableVars
<1>w. PICK w : w = req[r].w
  OBVIOUS
<1>0. /\ req[r] \in Task /\ TaskOK(req[r]) /\ users \in [Wallets -> User \cup {None}] /\ None \notin User
      /\ req[r].pc = "insert"
  BY NoneAssumption DEF Inv, TypeInv, TypeOK, TaskInv, InsertUser
<1>1. /\ w \in Wallets /\ w # None /\ req[r].nickname \in Nicknames /\ req[r].is_new_user \in BOOLEAN
      /\ req[r].referrer \in Wallets \cup {None} /\ req[r].row \in User \cup {None}
      /\ req[r].source \in Sources
  BY <1>0, <1>w, TaskType, IdleType
<1>2. CASE Refused(r)
  <2>1. Ends(r) /\ users' = users
    BY <1>2 DEF InsertUser, AfterInsert
  <2>. QED
    BY <2>1, EndKeeps, SameNonces, SameCounts DEF InsertUser, AfterInsert
<1>3. CASE ~Refused(r)
  <2>1. users[w] = None
    BY <1>3, <1>w DEF Refused
  <2>2. PICK to : to = IF req[r].is_new_user THEN Granting(r) ELSE Idle
    OBVIOUS
  <2>3. /\ req' = [req EXCEPT ![r] = to]
        /\ UNCHANGED <<nonceVars, packs, rewards, served, faults, told>>
    BY <1>3, <2>2 DEF InsertUser, AfterInsert, Ends, Goes
  <2>4. to \in Task /\ to.w \in {None, w} /\ to.pc \in {"idle", "grant"}
    BY <1>1, <1>w, <2>2, IdleType DEF Granting, Task
  <2>5. TaskOK(to)'
    <3>1. to.pc = "grant" /\ w \notin told.blind => packs[w]["reward"] = 0 /\ to.w = w
      BY <1>0, <1>1, <1>w, <2>2, IdleType DEF TaskOK, Granting
    <3>2. to.pc = "grant" => to.w = w
      BY <1>w, <2>2, IdleType DEF Granting
    <3>. QED
      BY <2>3, <2>4, <3>1, <3>2 DEF TaskOK
  <2>6. PICK x : x = req[r].referrer
    OBVIOUS
  <2>7. PICK new : new = NewUser(r)
    OBVIOUS
  <2>8. /\ new \in User /\ new # None /\ new.referral_count = 0 /\ new.referred_by = x
        /\ new.steps = NewSteps
    BY <1>0, <1>1, <2>6, <2>7 DEF NewUser, User, NewSteps
  <2>9. x # None => /\ x \in Wallets /\ users[x] \in User /\ x # w
                    /\ req[r].row \in User
                    /\ req[r].row.referral_count <= Cardinality(Referred(x))
    <3>1. x # None => /\ users[x] # None /\ req[r].row # None
                      /\ req[r].row.referral_count <= Cardinality(Referred(x))
      BY <1>0, <2>6 DEF TaskOK
    <3>. QED
      BY <1>0, <1>1, <2>1, <2>6, <3>1
  <2>10. \A v \in Wallets : users'[v] = IF v = w THEN new
                                        ELSE IF v = x THEN [users[v] EXCEPT !.referral_count = req[r].row.referral_count + 1]
                                        ELSE users[v]
    <3>1. users' = [Counted(r) EXCEPT ![w] = new]
      BY <1>3, <1>w, <2>7 DEF InsertUser
    <3>2. CASE x = None
      BY <1>0, <1>1, <2>6, <3>1, <3>2, SetAssumption DEF Counted
    <3>3. CASE x # None
      <4>1. Counted(r) = [users EXCEPT ![x].referral_count = req[r].row.referral_count + 1]
        BY <2>6, <3>3 DEF Counted
      <4>. QED
        BY <1>0, <1>1, <2>9, <3>1, <3>3, <4>1
    <3>. QED
      BY <3>2, <3>3
  <2>11. \A v \in Wallets \ {w} :
           /\ users[v] = None => users'[v] = None
           /\ users[v] # None => /\ users'[v] \in User /\ users'[v].steps = users[v].steps
                                 /\ users'[v].referred_by = users[v].referred_by
                                 /\ v # x => users'[v].referral_count = users[v].referral_count
                                 /\ v = x => users'[v].referral_count = req[r].row.referral_count + 1
    <3> SUFFICES ASSUME NEW v \in Wallets \ {w}
                 PROVE /\ users[v] = None => users'[v] = None
                       /\ users[v] # None => /\ users'[v] \in User /\ users'[v].steps = users[v].steps
                                             /\ users'[v].referred_by = users[v].referred_by
                                             /\ v # x => users'[v].referral_count = users[v].referral_count
                                             /\ v = x => users'[v].referral_count = req[r].row.referral_count + 1
      OBVIOUS
    <3>1. CASE v # x
      BY <1>0, <2>10, <3>1
    <3>2. CASE v = x
      <4>1. x # None /\ users[x] \in User /\ req[r].row.referral_count \in Nat
        BY <2>9, <3>2, SetAssumption DEF User
      <4>2. users'[v] = [users[v] EXCEPT !.referral_count = req[r].row.referral_count + 1]
        BY <2>9, <2>10, <3>2, <4>1
      <4>. QED
        BY <1>0, <3>2, <4>1, <4>2 DEF User
    <3>. QED
      BY <3>1, <3>2
  <2>12. users' \in [Wallets -> User \cup {None}]
    <3>1. \A v \in Wallets : users'[v] \in User \cup {None}
      BY <2>8, <2>10, <2>11
    <3>2. users' = [v \in Wallets |-> users'[v]]
      BY <1>0, <1>3 DEF InsertUser, Counted
    <3>. QED
      BY <3>1, <3>2
  <2>13. /\ TaskInv' /\ req' \in [Tasks -> Task] /\ IsFiniteSet(Known')
         /\ \A v \in Wallets : /\ IsFiniteSet(Referred(v)') /\ Cardinality(Referred(v)') \in Nat
                               /\ Cardinality(Referred(v)) <= Cardinality(Referred(v)')
    <3>1. \A v \in Wallets : users[v] # None =>
            users'[v] # None /\ users'[v].referred_by = users[v].referred_by
      BY <1>0, <2>1, <2>11
    <3>. QED
      BY <1>1, <1>w, <2>3, <2>4, <2>5, <2>11, <2>12, <3>1, UsersStep
  <2>14. TypeInv'
    BY <2>3, <2>12, <2>13, SameNonces DEF Inv, TypeInv, TypeOK, NonceTypes
  <2>15. ReferralsBacked'
    <3> SUFFICES ASSUME NEW v \in Wallets, users'[v] # None
                 PROVE  users'[v].referral_count <= Cardinality(Referred(v)')
      BY DEF ReferralsBacked, Referred
    <3>1. CASE v = w
      <4>1. users'[v].referral_count = 0
        BY <2>8, <2>10, <3>1
      <4>2. Cardinality(Referred(v)') \in Nat
        BY <2>13
      <4>. QED
        BY <4>1, <4>2
    <3>2. CASE v # w /\ v # x
      <4>1. users[v] # None /\ users'[v].referral_count = users[v].referral_count
        BY <2>11, <3>2
      <4>2. users[v].referral_count <= Cardinality(Referred(v)) /\ users[v].referral_count \in Nat
        BY <4>1, UserType DEF Inv, ReferralsBacked, Referred
      <4>. QED
        BY <2>13, <4>1, <4>2, ReferredFinite
    <3>3. CASE v # w /\ v = x
      <4>0. x # None /\ x \in Wallets
        BY <3>3, SetAssumption
      <4>1. users[v] # None /\ users'[v].referral_count = req[r].row.referral_count + 1
        BY <2>11, <3>3
      <4>2. req[r].row.referral_count <= Cardinality(Referred(x)) /\ req[r].row.referral_count \in Nat
        BY <2>9, <4>0 DEF User
      <4>3. w \notin Referred(x)
        BY <2>1 DEF Referred
      <4>4. w \in Referred(x)'
        BY <1>1, <2>8, <2>10 DEF Referred
      <4>5. Referred(x) \cup {w} \in SUBSET Referred(x)'
        BY <2>11, <4>3, <4>4, <2>1, <1>0 DEF Referred
      <4>6. Cardinality(Referred(x) \cup {w}) = Cardinality(Referred(x)) + 1
        BY <4>3, ReferredFinite, FS_AddElement
      <4>7. Cardinality(Referred(x) \cup {w}) <= Cardinality(Referred(x)')
        BY <2>13, <4>0, <4>5, FS_Subset
      <4>8. Cardinality(Referred(x)) \in Nat /\ Cardinality(Referred(x)') \in Nat
        BY <2>13, <4>0, ReferredFinite
      <4>9. req[r].row.referral_count + 1 <= Cardinality(Referred(x)')
        BY <4>2, <4>6, <4>7, <4>8
      <4>. QED
        BY <3>3, <4>1, <4>9
    <3>. QED
      BY <3>1, <3>2, <3>3
  <2>16. PackInv' /\ ClaimedOnce'
    <3>1. \A v \in Wallets : users'[v] = None => users[v] = None
      BY <1>0, <2>8, <2>10, <2>11
    <3>2. PackInv'
      BY <2>3, <3>1 DEF Inv, PackInv
    <3>. QED
      BY <2>3, <3>2 DEF Inv, ClaimedOnce
  <2>17. StepInv'
    <3>1. told.steps[w] = NewSteps
      BY <1>1, <2>1 DEF Inv, StepInv
    <3>2. users'[w].steps = told'.steps[w] /\ users'[w] # None
      BY <1>1, <2>3, <2>8, <2>10, <3>1
    <3>. QED
      BY <2>3, <2>11, <3>2, <1>0 DEF Inv, StepInv, StepsKept
  <2>. QED
    BY <2>3, <2>13, <2>14, <2>15, <2>16, <2>17, SameNonces DEF Inv
<1>. QED
  BY <1>2, <1>3

-----------------------------------------------------------------------------
(* Grants *)

LEMMA PacksTask ==
  ASSUME UNCHANGED <<users, rewards, told>>, NEW t \in Task, TaskOK(t),
         t.w # None => packs'[t.w]["reward"] = packs[t.w]["reward"]
  PROVE  TaskOK(t)'
<1>1. t.pc \in {"select", "name", "refer", "insert", "grant"} => t.w # None
  BY TaskType, IdleType
<1>. QED
  BY <1>1 DEF TaskOK, Referred, Pending, Owned

\* The packs of a sign-in: its wallet had none, and no other request is for it.
LEMMA GrantStep ==
  ASSUME Inv, NEW r \in Tasks, grant_all_active_packs_to_user(r)
  PROVE  Inv'
<1> USE DEF tableVars
<1>w. PICK w, s : w = req[r].w /\ s = req[r].source
  OBVIOUS
<1>0. req[r] \in Task /\ TaskOK(req[r]) /\ req[r].pc = "grant" /\ FullSet \in Nat
  BY FullSetType DEF Inv, TypeInv, TypeOK, TaskInv, grant_all_active_packs_to_user
<1>1. w \in Wallets /\ w # None /\ s \in Sources /\ users[w] # None
  BY <1>0, <1>w, TaskType, IdleType DEF grant_all_active_packs_to_user
<1>2. packs' = [packs EXCEPT ![w][s] = @ + FullSet] /\ packs \in [Wallets -> [Sources -> Nat]]
  BY <1>w DEF grant_all_active_packs_to_user, FullSet, Inv, TypeInv, TypeOK
<1>3. packs' = [packs EXCEPT ![w] = [packs[w] EXCEPT ![s] = packs[w][s] + FullSet]]
  BY <1>2
<1>4. [packs[w] EXCEPT ![s] = packs[w][s] + FullSet] \in [Sources -> Nat]
  BY <1>0, <1>1, <1>2
<1>5. packs' \in [Wallets -> [Sources -> Nat]]
  BY <1>2, <1>3, <1>4
<1>6. /\ \A v \in Wallets \ {w} : packs'[v]["reward"] = packs[v]["reward"]
      /\ packs'[w]["reward"] = IF s = "reward" THEN packs[w]["reward"] + FullSet ELSE packs[w]["reward"]
  BY <1>1, <1>2, <1>3 DEF Sources
<1>7. /\ req' = [req EXCEPT ![r] = Idle] /\ UNCHANGED <<nonceVars, users, rewards, served, faults, told>>
  BY DEF grant_all_active_packs_to_user, Ends
<1>8. ASSUME NEW q \in Tasks \ {r} PROVE TaskOK(req[q])'
  <2>1. req'[q] = req[q] /\ TaskOK(req[q]) /\ req[q] \in Task
    BY <1>7 DEF Inv, TypeInv, TypeOK, TaskInv
  <2>2. req[q].w # w
    BY <1>1, <1>w DEF Inv, TaskInv, Alone
  <2>3. PICK t : t = req[q]
    OBVIOUS
  <2>4. t.w # None => t.w \in Wallets \ {w}
    BY <2>1, <2>2, <2>3, TaskType
  <2>5. TaskOK(t)'
    BY <1>6, <1>7, <2>1, <2>3, <2>4, PacksTask
  <2>. QED
    BY <2>1, <2>3, <2>5
<1>9. TaskOK(Idle)'
  BY IdleType DEF TaskOK
<1>10. TaskInv' /\ req' \in [Tasks -> Task]
  BY <1>7, <1>8, <1>9, IdleType, TaskStep
<1>11. TypeInv'
  BY <1>5, <1>7, <1>10, SameNonces DEF Inv, TypeInv, TypeOK, NonceTypes, Known
<1>12. PackInv'
  <2> SUFFICES ASSUME NEW v \in Wallets
               PROVE  /\ users[v] = None => packs'[v]["reward"] = 0
                      /\ v \notin told.blind => packs'[v]["reward"] \in {0, FullSet}
    BY <1>7 DEF PackInv
  <2>1. CASE v # w
    BY <1>6, <2>1 DEF Inv, PackInv
  <2>2. CASE v = w /\ s # "reward"
    BY <1>6, <2>2 DEF Inv, PackInv
  <2>3. CASE v = w /\ s = "reward"
    <3>1. w \notin told.blind => packs[w]["reward"] = 0
      BY <1>0, <1>w, <2>3 DEF TaskOK
    <3>. QED
      BY <1>0, <1>1, <1>6, <2>3, <3>1
  <2>. QED
    BY <2>1, <2>2, <2>3
<1>13. (ReferralsBacked /\ StepInv /\ ClaimedOnce)'
  BY <1>7 DEF Inv, ReferralsBacked, StepInv, StepsKept, ClaimedOnce
<1>. QED
  BY <1>7, <1>10, <1>11, <1>12, <1>13, SameNonces DEF Inv

\* Packs from the panel are not starter packs.
LEMMA MintStep ==
  ASSUME Inv, NEW w \in Wallets, NEW amount \in 1 .. MaxMint, admin_mint_pack(w, amount)
  PROVE  Inv'
<1> USE DEF tableVars
<1>1. /\ UNCHANGED <<nonceVars, users, rewards, req, faults, told>>
      /\ packs' = [packs EXCEPT ![w]["admin"] = @ + amount] /\ packs \in [Wallets -> [Sources -> Nat]]
  BY DEF admin_mint_pack, Inv, TypeInv, TypeOK
<1>2. packs' = [packs EXCEPT ![w] = [packs[w] EXCEPT !["admin"] = packs[w]["admin"] + amount]]
  BY <1>1
<1>3. [packs[w] EXCEPT !["admin"] = packs[w]["admin"] + amount] \in [Sources -> Nat]
  <2>1. amount \in Nat
    BY NumberAssumption
  <2>2. packs[w] \in [Sources -> Nat]
    BY <1>1
  <2>3. packs[w]["admin"] + amount \in Nat
    BY <2>1, <2>2 DEF Sources
  <2>. QED
    BY <2>2, <2>3
<1>4. packs' \in [Wallets -> [Sources -> Nat]] /\ \A v \in Wallets : packs'[v]["reward"] = packs[v]["reward"]
  BY <1>1, <1>2, <1>3 DEF Sources
<1>5. \A q \in Tasks : TaskOK(req[q])'
  <2> SUFFICES ASSUME NEW q \in Tasks PROVE TaskOK(req[q])'
    OBVIOUS
  <2>1. req'[q] = req[q] /\ TaskOK(req[q]) /\ req[q] \in Task
    BY <1>1 DEF Inv, TypeInv, TypeOK, TaskInv
  <2>2. PICK t : t = req[q]
    OBVIOUS
  <2>3. t.w # None => t.w \in Wallets
    BY <2>1, <2>2, TaskType
  <2>4. TaskOK(t)'
    BY <1>1, <1>4, <2>1, <2>2, <2>3, PacksTask
  <2>. QED
    BY <2>1, <2>2, <2>4
<1>6. TaskInv'
  BY <1>1, <1>5 DEF Inv, TaskInv, Alone
<1>7. TypeInv'
  BY <1>1, <1>4, SameNonces, SameCounts DEF admin_mint_pack, Inv, TypeInv, TypeOK, NonceTypes, Known
<1>8. (PackInv /\ ReferralsBacked /\ StepInv /\ ClaimedOnce)'
  BY <1>1, <1>4 DEF Inv, PackInv, ReferralsBacked, StepInv, StepsKept, ClaimedOnce
<1>. QED
  BY <1>1, <1>6, <1>7, <1>8, SameNonces DEF Inv

-----------------------------------------------------------------------------
(* Rewards *)

\* A new reward changes none that a claim remembers.
LEMMA AwardStep ==
  ASSUME Inv, NEW i \in Rewards, NEW w \in Wallets, Award(i, w)
  PROVE  Inv'
<1> USE DEF tableVars
<1>1. PICK new : new = [owner |-> w, claim_status |-> "pending"]
  OBVIOUS
<1>2. /\ UNCHANGED <<nonceVars, users, packs, req, served, faults, told>>
      /\ rewards[i] = None /\ rewards' = [rewards EXCEPT ![i] = new]
      /\ rewards \in [Rewards -> Reward \cup {None}] /\ new \in Reward
  BY <1>1 DEF Award, Inv, TypeInv, TypeOK, Reward
<1>3. /\ rewards' \in [Rewards -> Reward \cup {None}]
      /\ \A j \in Rewards : rewards'[j] = IF j = i THEN new ELSE rewards[j]
  BY <1>2
<1>4. \A q \in Tasks : TaskOK(req[q])'
  <2> SUFFICES ASSUME NEW q \in Tasks PROVE TaskOK(req[q])'
    OBVIOUS
  <2>1. req'[q] = req[q] /\ TaskOK(req[q])
    BY <1>2 DEF Inv, TaskInv
  <2>2. PICK t : t = req[q]
    OBVIOUS
  <2>3. \A v : Pending(v) \subseteq Pending(v)'
    BY <1>2, <1>3 DEF Pending, Owned
  <2>4. TaskOK(t)'
    BY <1>2, <2>1, <2>2, <2>3 DEF TaskOK, Referred
  <2>. QED
    BY <2>1, <2>2, <2>4
<1>5. TaskInv'
  BY <1>2, <1>4 DEF Inv, TaskInv, Alone
<1>6. TypeInv'
  BY <1>2, <1>3, SameNonces DEF Inv, TypeInv, TypeOK, NonceTypes, Known
<1>7. ClaimedOnce'
  BY <1>1, <1>2, <1>3 DEF Inv, ClaimedOnce
<1>8. (PackInv /\ ReferralsBacked /\ StepInv)'
  BY <1>2 DEF Inv, PackInv, ReferralsBacked, StepInv, StepsKept
<1>. QED
  BY <1>2, <1>5, <1>6, <1>7, <1>8, SameNonces DEF Inv

\* What a claim found pending is pending still, and belongs to no other claim.
LEMMA ClaimStep ==
  ASSUME Inv, NEW r \in Tasks, ClaimCommit(r)
  PROVE  Inv'
<1> USE DEF tableVars
<1>w. PICK w, ids : w = req[r].w /\ ids = req[r].ids
  OBVIOUS
<1>0. req[r] \in Task /\ TaskOK(req[r]) /\ req[r].pc = "claim" /\ told \in Told /\ None \notin Reward
  BY NoneAssumption DEF Inv, TypeInv, TypeOK, TaskInv, ClaimCommit
<1>1. w \in Wallets /\ w # None /\ ids \in SUBSET Rewards /\ ids \subseteq Pending(w)
  BY <1>0, <1>w, TaskType, IdleType DEF TaskOK
<1>2. /\ req' = [req EXCEPT ![r] = Idle] /\ UNCHANGED <<nonceVars, users, packs, served, faults>>
      /\ rewards' = [i \in Rewards |-> IF i \in ids THEN [rewards[i] EXCEPT !.claim_status = "claimed"]
                                       ELSE rewards[i]]
      /\ told' = [told EXCEPT !.claimed = [i \in Rewards |-> IF i \in ids THEN @[i] + 1 ELSE @[i]]]
      /\ rewards \in [Rewards -> Reward \cup {None}]
  BY <1>w DEF ClaimCommit, Ends, Inv, TypeInv, TypeOK
<1>3. \A i \in ids : /\ i \in Rewards /\ rewards[i] \in Reward /\ rewards[i].owner = w
                     /\ rewards[i].claim_status = "pending"
                     /\ rewards'[i] \in Reward /\ rewards'[i].owner = w
                     /\ rewards'[i].claim_status = "claimed"
  BY <1>1, <1>2 DEF Pending, Owned, Reward
<1>4. /\ \A i \in Rewards \ ids : rewards'[i] = rewards[i]
      /\ rewards' \in [Rewards -> Reward \cup {None}]
  BY <1>2, <1>3
<1>5. /\ told'.steps = told.steps /\ told'.blind = told.blind
      /\ told'.claimed = [i \in Rewards |-> IF i \in ids THEN told.claimed[i] + 1 ELSE told.claimed[i]]
  BY <1>0, <1>2 DEF Told
<1>6. told' \in Told
  BY <1>0, <1>2, <1>5 DEF Told
<1>7. ASSUME NEW q \in Tasks \ {r} PROVE TaskOK(req[q])'
  <2>1. req'[q] = req[q] /\ TaskOK(req[q]) /\ req[q] \in Task /\ req[q].w # w
    BY <1>1, <1>2, <1>w DEF Inv, TypeInv, TypeOK, TaskInv, Alone
  <2>2. PICK t : t = req[q]
    OBVIOUS
  <2>3. \A v \in Wallets \ {w} : Pending(v) \subseteq Pending(v)'
    BY <1>3, <1>4 DEF Pending, Owned
  <2>4. t.pc = "claim" => t.w \in Wallets \ {w}
    BY <2>1, <2>2, TaskType, IdleType
  <2>5. TaskOK(t)'
    BY <1>2, <1>5, <2>1, <2>2, <2>3, <2>4 DEF TaskOK, Referred
  <2>. QED
    BY <2>1, <2>2, <2>5
<1>8. TaskOK(Idle)'
  BY IdleType DEF TaskOK
<1>9. TaskInv' /\ req' \in [Tasks -> Task]
  BY <1>2, <1>7, <1>8, IdleType, TaskStep
<1>10. TypeInv'
  BY <1>2, <1>4, <1>6, <1>9, SameNonces DEF Inv, TypeInv, TypeOK, NonceTypes, Known
<1>11. ClaimedOnce'
  <2> SUFFICES ASSUME NEW i \in Rewards
               PROVE  told'.claimed[i] =
                        IF rewards'[i] # None /\ rewards'[i].claim_status = "claimed" THEN 1 ELSE 0
    BY DEF ClaimedOnce
  <2>1. CASE i \in ids
    <3>1. told.claimed[i] = 0
      BY <1>3, <2>1 DEF Inv, ClaimedOnce
    <3>. QED
      BY <1>0, <1>3, <1>5, <2>1, <3>1
  <2>2. CASE i \notin ids
    BY <1>4, <1>5, <2>2 DEF Inv, ClaimedOnce
  <2>. QED
    BY <2>1, <2>2
<1>12. (PackInv /\ ReferralsBacked /\ StepInv)'
  BY <1>2, <1>5 DEF Inv, PackInv, ReferralsBacked, StepInv, StepsKept
<1>. QED
  BY <1>2, <1>9, <1>10, <1>11, <1>12, SameNonces DEF Inv

-----------------------------------------------------------------------------
(* Theorems *)

LEMMA NextInv ==
  ASSUME ~Overlap, Inv, [Next]_vars
  PROVE  Inv'
<1>1. ASSUME NEW w \in Wallets,
             generate_nonce(w) \/ NonceExpires(w) \/ verify_signature_late(w)
      PROVE  Inv'
  BY <1>1, NonceStep
<1>2. ASSUME NEW w \in Wallets, NEW amount \in 1 .. MaxMint, admin_mint_pack(w, amount)
      PROVE  Inv'
  BY <1>2, MintStep
<1>3. ASSUME NEW w \in Wallets, NEW i \in Rewards, Award(i, w)
      PROVE  Inv'
  BY <1>3, AwardStep
<1>4. ASSUME NEW r \in Tasks, Arrive(r)
      PROVE  Inv'
  BY <1>4, ArriveKeeps
<1>5. ASSUME NEW r \in Tasks, Serve(r)
      PROVE  Inv'
  BY <1>5, LookStep, NameStep, InsertStep, GrantStep, ColumnStep, ClaimStep DEF Serve
<1>6. ASSUME NEW r \in Tasks, LookupFails(r) \/ RequestFails(r)
      PROVE  Inv'
  BY <1>6, FailStep
<1>7. CASE Crash
  BY <1>7, CrashKeeps
<1>8. CASE UNCHANGED vars
  BY <1>8, RestKeeps, SameNonces, SameCounts DEF vars, tableVars
<1>. QED
  BY <1>1, <1>2, <1>3, <1>4, <1>5, <1>6, <1>7, <1>8 DEF Next

LEMMA InvProperties == Inv => SignInSound /\ AnswersKept
<1> SUFFICES ASSUME Inv PROVE SignInSound /\ AnswersKept
  OBVIOUS
<1>1. TypeOK /\ SignedOnce /\ ReferralsBacked /\ AnswersKept
  BY DEF Inv, TypeInv, NonceInv, StepInv, AnswersKept
<1>2. StarterOnce
  <2> SUFFICES ASSUME NEW w \in Wallets \ told.blind
               PROVE  /\ packs[w]["reward"] \in {0, FullSet}
                      /\ \A r \in Tasks : req[r].w = w /\ req[r].pc = "grant" /\ req[r].source = "reward"
                                            => packs[w]["reward"] = 0
    BY DEF StarterOnce, FullSet
  <2>1. packs[w]["reward"] \in {0, FullSet}
    BY DEF Inv, PackInv
  <2>2. \A r \in Tasks : TaskOK(req[r])
    BY DEF Inv, TaskInv
  <2>. QED
    BY <2>1, <2>2 DEF TaskOK
<1>. QED
  BY <1>1, <1>2 DEF SignInSound

\* create_or_get_user, verify_signature: with any number of wallets, requests, crashes and
\* failures, a nonce opens one session, a referrer is credited with no more users than name
\* him and the starter packs come once, when the requests of a wallet do not overlap.
THEOREM SignInIsSound ==
  ASSUME ~Overlap
  PROVE  Spec => []SignInSound
<1>1. Init => Inv
  BY InitInv
<1>2. Inv /\ [Next]_vars => Inv'
  BY NextInv
<1>3. Inv => SignInSound
  BY InvProperties
<1>. QED
  BY <1>1, <1>2, <1>3, PTL DEF Spec

\* update_onboarding_step, claim_tournament_rewards: the steps and the claims an answer
\* reported stay so, and no reward is reported twice, under the same hypothesis.
THEOREM AnswersHold ==
  ASSUME ~Overlap
  PROVE  Spec => []AnswersKept
<1>1. Init => Inv
  BY InitInv
<1>2. Inv /\ [Next]_vars => Inv'
  BY NextInv
<1>3. Inv => AnswersKept
  BY InvProperties
<1>. QED
  BY <1>1, <1>2, <1>3, PTL DEF Spec
==============================================================================
