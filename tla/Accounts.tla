------------------------------ MODULE Accounts ------------------------------
(***************************************************************************)
(* Users: signing in with a wallet, the account and the starter packs a    *)
(* first sign-in creates, what a user does with his account (onboarding,   *)
(* claiming rewards) and what an administrator does to it.  A request is a *)
(* task that waits for the database between its statements; several are    *)
(* served at once.  The nonces to sign are kept in the memory of the       *)
(* process.                                                                *)
(*                                                                         *)
(* A referral route is unique and names its user, so a referral code is a  *)
(* wallet here, one without a user when the code is wrong.                 *)
(***************************************************************************)
EXTENDS Integers, Sequences, FiniteSets

CONSTANTS
  Wallets, Nicknames,
  PackTypes,                \* the active pack types
  STARTER_PACKS_PER_TYPE,
  Steps,                    \* onboarding steps
  Rewards,                  \* ids of user_rewards
  Tasks,                    \* requests served at once
  Overlap,                  \* whether a wallet has several requests served at once
  Production,               \* ENVIRONMENT = "production"
  MaxNonces, MaxRequests, MaxMint, MaxFaults,   \* bounds
  None

ASSUME NumberAssumption == /\ STARTER_PACKS_PER_TYPE \in Nat /\ MaxNonces \in Nat
                           /\ MaxRequests \in Nat /\ MaxMint \in Nat /\ MaxFaults \in Nat
ASSUME FlagAssumption   == Overlap \in BOOLEAN /\ Production \in BOOLEAN
ASSUME SetAssumption    == IsFiniteSet(PackTypes) /\ None \notin Wallets \cup Nat

VARIABLES
  nonce_storage, issued,    \* memory of the process; nonces issued to a wallet
  users, packs,             \* table users by wallet, user_packs by source
  rewards,                  \* user_rewards
  req, served, faults,      \* the requests under way, and how many began or failed
  accepted, told            \* history: nonces accepted, what answers said

nonceVars == <<nonce_storage, issued, accepted>>
tableVars == <<users, packs, rewards>>
vars == <<nonceVars, tableVars, req, served, faults, told>>

Sources == {"reward", "admin"}
User   == [nickname: Nicknames, referred_by: Wallets \cup {None}, referral_count: Nat,
           steps: [Steps -> BOOLEAN \cup {None}]]
Nonce  == [id: 1 .. MaxNonces, expired: BOOLEAN]
Reward == [owner: Wallets, claim_status: {"pending", "claimed"}]

ASSUME NoneAssumption == None \notin User \cup Nonce \cup Reward

Idle == [pc |-> "idle", w |-> None]
NewSteps == [s \in Steps |-> None]

Init ==
  /\ nonce_storage = [w \in Wallets |-> None] /\ issued = [w \in Wallets |-> 0]
  /\ users = [w \in Wallets |-> None]
  /\ packs = [w \in Wallets |-> [s \in Sources |-> 0]]
  /\ rewards = [i \in Rewards |-> None]
  /\ req = [r \in Tasks |-> Idle] /\ served = 0 /\ faults = 0
  /\ accepted = [w \in Wallets |-> <<>>]
  /\ told = [steps |-> [w \in Wallets |-> NewSteps], claimed |-> [i \in Rewards |-> 0],
             blind |-> {}]

-----------------------------------------------------------------------------
(* Requests *)

Begins(r, w, task) ==
  /\ req[r] = Idle /\ served < MaxRequests
  /\ Overlap \/ \A q \in Tasks : req[q].w # w
  /\ req' = [req EXCEPT ![r] = task]
  /\ served' = served + 1

Ends(r)         == req' = [req EXCEPT ![r] = Idle]
Goes(r, task)   == req' = [req EXCEPT ![r] = task]

\* Unique wallets and nicknames: what the database refuses.
Taken(n) == \E v \in Wallets : users[v] # None /\ users[v].nickname = n

-----------------------------------------------------------------------------
(* The nonce to sign *)

Held(w) == nonce_storage[w] # None

\* POST nonce: the wallet's nonce is replaced and those past their time are dropped.
generate_nonce(w) ==
  /\ issued[w] < MaxNonces
  /\ issued' = [issued EXCEPT ![w] = @ + 1]
  /\ nonce_storage' = [v \in Wallets |->
       IF v = w THEN [id |-> issued[w] + 1, expired |-> FALSE]
       ELSE IF Held(v) /\ nonce_storage[v].expired THEN None ELSE nonce_storage[v]]
  /\ UNCHANGED <<accepted, tableVars, req, served, faults, told>>

\* Five minutes pass.
NonceExpires(w) ==
  /\ Held(w) /\ ~nonce_storage[w].expired
  /\ nonce_storage' = [nonce_storage EXCEPT ![w].expired = TRUE]
  /\ UNCHANGED <<issued, accepted, tableVars, req, served, faults, told>>

\* The wallet may sign any message it was ever given; one is accepted when it is the
\* nonce held and in time.  Everything from the look at the nonce to its removal is
\* one step: the calls to the node do not yield.
Signed(r, w, k, code) ==
  /\ Held(w) /\ nonce_storage[w].id = k
  /\ Begins(r, w, [pc |-> "lookup", w |-> w, source |-> "reward", code |-> code])
  /\ accepted' = [accepted EXCEPT ![w] = Append(@, k)]
  /\ UNCHANGED <<issued, tableVars, faults, told>>

verify_signature(r, w, k, code) ==
  /\ Signed(r, w, k, code) /\ ~nonce_storage[w].expired
  /\ nonce_storage' = [nonce_storage EXCEPT ![w] = None]

\* A nonce out of time is dropped and the request refused.
verify_signature_late(w) ==
  /\ Held(w) /\ nonce_storage[w].expired
  /\ nonce_storage' = [nonce_storage EXCEPT ![w] = None]
  /\ UNCHANGED <<issued, accepted, tableVars, req, served, faults, told>>

\* POST test-verify: no signature, and not in production.
test_verify(r, w, code) ==
  /\ ~Production
  /\ Begins(r, w, [pc |-> "lookup", w |-> w, source |-> "admin", code |-> code])
  /\ UNCHANGED <<nonceVars, tableVars, faults, told>>

-----------------------------------------------------------------------------
(* Signing in *)

\* Whether the user is new is settled here, by a read of its own.
get_user_by_wallet(r) ==
  /\ req[r].pc = "lookup"
  /\ Goes(r, [pc |-> "select", w |-> req[r].w, source |-> req[r].source,
              code |-> req[r].code, is_new_user |-> users[req[r].w] = None])
  /\ UNCHANGED <<nonceVars, tableVars, served, faults, told>>

\* No answer, as when no connection comes free, is taken for no user.
LookupFails(r) ==
  /\ req[r].pc = "lookup" /\ faults < MaxFaults /\ faults' = faults + 1
  /\ Goes(r, [pc |-> "select", w |-> req[r].w, source |-> req[r].source,
              code |-> req[r].code, is_new_user |-> TRUE])
  /\ told' = [told EXCEPT !.blind = @ \cup {req[r].w}]
  /\ UNCHANGED <<nonceVars, tableVars, served>>

Granting(r) == [pc |-> "grant", w |-> req[r].w, source |-> req[r].source]

\* create_or_get_user looks again, and answers with the user it finds.
SelectUser(r) ==
  /\ req[r].pc = "select"
  /\ IF users[req[r].w] = None THEN Goes(r, [req[r] EXCEPT !.pc = "name"])
     ELSE IF req[r].is_new_user THEN Goes(r, Granting(r)) ELSE Ends(r)
  /\ UNCHANGED <<nonceVars, tableVars, served, faults, told>>

\* A nickname, asked for or from the wallet's profile, numbered until it is free.
ChooseNickname(r) ==
  /\ req[r].pc = "name"
  /\ \E asked, n \in Nicknames :
       /\ ~Taken(n) /\ (~Taken(asked) => n = asked)
       /\ Goes(r, [pc |-> "refer", w |-> req[r].w, source |-> req[r].source, code |-> req[r].code,
                   is_new_user |-> req[r].is_new_user, nickname |-> n])
  /\ UNCHANGED <<nonceVars, tableVars, served, faults, told>>

\* The referrer, if the code names one, as his row is now.
FindReferrer(r) ==
  /\ req[r].pc = "refer"
  /\ LET code == req[r].code
         found == code # None /\ users[code] # None IN
     Goes(r, [pc |-> "insert", w |-> req[r].w, source |-> req[r].source,
              nickname |-> req[r].nickname, is_new_user |-> req[r].is_new_user,
              referrer |-> IF found THEN code ELSE None,
              row |-> IF found THEN users[code] ELSE None])
  /\ UNCHANGED <<nonceVars, tableVars, served, faults, told>>

NewUser(r) == [nickname |-> req[r].nickname, referred_by |-> req[r].referrer,
               referral_count |-> 0, steps |-> NewSteps]

\* Only the columns assigned to are written: the referrer's count, from the row read.
Counted(r) ==
  IF req[r].referrer = None THEN users
  ELSE [users EXCEPT ![req[r].referrer].referral_count = req[r].row.referral_count + 1]

Refused(r) == users[req[r].w] # None \/ Taken(req[r].nickname)

AfterInsert(r) ==
  /\ IF req[r].is_new_user /\ ~Refused(r) THEN Goes(r, Granting(r)) ELSE Ends(r)
  /\ UNCHANGED <<nonceVars, packs, rewards, served, faults, told>>

\* Mutant: the referrer is credited in a transaction of its own.
InsertUserCredited(r) ==
  /\ req[r].pc = "insert"
  /\ users' = IF Refused(r) THEN Counted(r) ELSE [Counted(r) EXCEPT ![req[r].w] = NewUser(r)]
  /\ AfterInsert(r)

\* One commit inserts the user and counts the referral; a wallet or nickname taken
\* since it was looked for rolls both back and the request fails.
InsertUser(r) ==
  /\ req[r].pc = "insert"
  /\ users' = IF Refused(r) THEN users ELSE [Counted(r) EXCEPT ![req[r].w] = NewUser(r)]
  /\ AfterInsert(r)

\* So many rows of each active pack type, in a transaction of its own.
grant_all_active_packs_to_user(r) ==
  /\ req[r].pc = "grant" /\ users[req[r].w] # None
  /\ packs' = [packs EXCEPT ![req[r].w][req[r].source] =
                 @ + STARTER_PACKS_PER_TYPE * Cardinality(PackTypes)]
  /\ Ends(r)
  /\ UNCHANGED <<nonceVars, users, rewards, served, faults, told>>

\* Grants by hand: a starter set outside production, or any number from the panel.
grant_packs_to_user(r, w) ==
  /\ ~Production /\ users[w] # None
  /\ Begins(r, w, [pc |-> "grant", w |-> w, source |-> "admin"])
  /\ UNCHANGED <<nonceVars, tableVars, faults, told>>

admin_mint_pack(w, amount) ==
  /\ users[w] # None /\ served < MaxRequests /\ amount >= 1
  /\ packs' = [packs EXCEPT ![w]["admin"] = @ + amount]
  /\ served' = served + 1
  /\ UNCHANGED <<nonceVars, users, rewards, req, faults, told>>

-----------------------------------------------------------------------------
(* What a user does with his account *)

\* PATCH onboarding reads the steps of its user, and writes them all back.
OnboardingBegin(r, w, s, completed) ==
  /\ users[w] # None
  /\ Begins(r, w, [pc |-> "onboard", w |-> w,
                   steps |-> [users[w].steps EXCEPT ![s] = completed], set |-> <<s, completed>>])
  /\ UNCHANGED <<nonceVars, tableVars, faults, told>>

OnboardingCommit(r) ==
  /\ req[r].pc = "onboard"
  /\ users' = [users EXCEPT ![req[r].w].steps = req[r].steps]
  /\ told' = [told EXCEPT !.steps[req[r].w][req[r].set[1]] = req[r].set[2]]
  /\ Ends(r)
  /\ UNCHANGED <<nonceVars, packs, rewards, served, faults>>

\* A finish of a tournament awards a prize.
Award(i, w) ==
  /\ rewards[i] = None /\ users[w] # None
  /\ rewards' = [rewards EXCEPT ![i] = [owner |-> w, claim_status |-> "pending"]]
  /\ UNCHANGED <<nonceVars, users, packs, req, served, faults, told>>

Owned(w) == {i \in Rewards : rewards[i] # None /\ rewards[i].owner = w}
Pending(w) == {i \in Owned(w) : rewards[i].claim_status = "pending"}

\* Mutant: whatever its status.
ClaimBeginAll(r, w) ==
  /\ Owned(w) # {}
  /\ Begins(r, w, [pc |-> "claim", w |-> w, ids |-> Owned(w)])
  /\ UNCHANGED <<nonceVars, tableVars, faults, told>>

\* POST claim-rewards reads the ids of the rewards pending.
ClaimBegin(r, w) ==
  /\ Pending(w) # {}
  /\ Begins(r, w, [pc |-> "claim", w |-> w, ids |-> Pending(w)])
  /\ UNCHANGED <<nonceVars, tableVars, faults, told>>

\* Those ids become claimed, whatever they are now, and are the answer.
ClaimCommit(r) ==
  /\ req[r].pc = "claim"
  /\ rewards' = [i \in Rewards |-> IF i \in req[r].ids
                                   THEN [rewards[i] EXCEPT !.claim_status = "claimed"] ELSE rewards[i]]
  /\ told' = [told EXCEPT !.claimed = [i \in Rewards |-> IF i \in req[r].ids THEN @[i] + 1 ELSE @[i]]]
  /\ Ends(r)
  /\ UNCHANGED <<nonceVars, users, packs, served, faults>>

-----------------------------------------------------------------------------
(* The administrator *)

\* PUT users: the new nickname is looked for, then written, unless taken meanwhile.
UpdateUserBegin(r, w, n) ==
  /\ users[w] # None /\ ~Taken(n)
  /\ Begins(r, w, [pc |-> "rename", w |-> w, nickname |-> n])
  /\ UNCHANGED <<nonceVars, tableVars, faults, told>>

UpdateUserCommit(r) ==
  /\ req[r].pc = "rename"
  /\ users' = IF Taken(req[r].nickname) THEN users
              ELSE [users EXCEPT ![req[r].w].nickname = req[r].nickname]
  /\ Ends(r)
  /\ UNCHANGED <<nonceVars, packs, rewards, served, faults, told>>

-----------------------------------------------------------------------------
\* A statement fails: nothing of the transaction under way is committed.  (A sign-in
\* whose packs are refused goes on without them.)
RequestFails(r) ==
  /\ req[r] # Idle /\ faults < MaxFaults
  /\ Ends(r) /\ faults' = faults + 1
  /\ UNCHANGED <<nonceVars, tableVars, served, told>>

Crash ==
  /\ faults < MaxFaults /\ faults' = faults + 1
  /\ nonce_storage' = [w \in Wallets |-> None]
  /\ req' = [r \in Tasks |-> Idle]
  /\ UNCHANGED <<issued, accepted, tableVars, served, told>>

Serve(r) ==
  \/ get_user_by_wallet(r) \/ SelectUser(r) \/ ChooseNickname(r) \/ FindReferrer(r)
  \/ InsertUser(r) \/ grant_all_active_packs_to_user(r)
  \/ OnboardingCommit(r) \/ ClaimCommit(r) \/ UpdateUserCommit(r)

Arrive(r) ==
  \/ \E w \in Wallets, code \in Wallets \cup {None} :
       \/ \E k \in 1 .. MaxNonces : verify_signature(r, w, k, code)
       \/ test_verify(r, w, code)
  \/ \E w \in Wallets : grant_packs_to_user(r, w) \/ ClaimBegin(r, w)
  \/ \E w \in Wallets, s \in Steps, done \in BOOLEAN : OnboardingBegin(r, w, s, done)
  \/ \E w \in Wallets, n \in Nicknames : UpdateUserBegin(r, w, n)

Next ==
  \/ \E w \in Wallets : \/ generate_nonce(w) \/ NonceExpires(w) \/ verify_signature_late(w)
                        \/ \E amount \in 1 .. MaxMint : admin_mint_pack(w, amount)
                        \/ \E i \in Rewards : Award(i, w)
  \/ \E r \in Tasks : Arrive(r) \/ Serve(r) \/ LookupFails(r) \/ RequestFails(r)
  \/ Crash

Spec == Init /\ [][Next]_vars

-----------------------------------------------------------------------------
(* Properties *)

Task ==
  {Idle}
  \cup [pc: {"lookup"}, w: Wallets, source: Sources, code: Wallets \cup {None}]
  \cup [pc: {"select", "name"}, w: Wallets, source: Sources, code: Wallets \cup {None},
        is_new_user: BOOLEAN]
  \cup [pc: {"refer"}, w: Wallets, source: Sources, code: Wallets \cup {None},
        is_new_user: BOOLEAN, nickname: Nicknames]
  \cup [pc: {"insert"}, w: Wallets, source: Sources, is_new_user: BOOLEAN,
        nickname: Nicknames, referrer: Wallets \cup {None}, row: User \cup {None}]
  \cup [pc: {"grant"}, w: Wallets, source: Sources]
  \cup [pc: {"onboard"}, w: Wallets, steps: [Steps -> BOOLEAN \cup {None}],
        set: Steps \X BOOLEAN]
  \cup [pc: {"claim"}, w: Wallets, ids: SUBSET Rewards]
  \cup [pc: {"rename"}, w: Wallets, nickname: Nicknames]

TypeOK ==
  /\ nonce_storage \in [Wallets -> Nonce \cup {None}] /\ issued \in [Wallets -> 0 .. MaxNonces]
  /\ users \in [Wallets -> User \cup {None}]
  /\ packs \in [Wallets -> [Sources -> Nat]]
  /\ rewards \in [Rewards -> Reward \cup {None}]
  /\ req \in [Tasks -> Task]
  /\ served \in 0 .. MaxRequests /\ faults \in 0 .. MaxFaults
  /\ accepted \in [Wallets -> Seq(1 .. MaxNonces)]

\* A signature opens one session: each one accepted answers a nonce issued after
\* every nonce accepted before, whatever was reissued, expired or lost with the process.
SignedOnce ==
  \A w \in Wallets : \A i, j \in DOMAIN accepted[w] : i < j => accepted[w][i] < accepted[w][j]

\* A referrer is not credited with more users than name him: an insert that fails
\* takes the credit back.  (Less is possible: two sign-ups may count from one row.)
ReferralsBacked ==
  \A w \in Wallets :
    users[w] # None =>
      users[w].referral_count <=
        Cardinality({v \in Wallets : users[v] # None /\ users[v].referred_by = w})

\* Starter packs come once, as a whole set, and to the user a sign-in created, when the
\* requests of a wallet do not overlap and none took a failed lookup for a new user.
StarterOnce ==
  \A w \in Wallets \ told.blind :
    /\ packs[w]["reward"] \in {0, STARTER_PACKS_PER_TYPE * Cardinality(PackTypes)}
    /\ \A r \in Tasks : req[r].w = w /\ req[r].pc = "grant" /\ req[r].source = "reward"
                          => packs[w]["reward"] = 0

\* The steps an answer acknowledged stay, though sign-ups write to the same row.
StepsKept == \A w \in Wallets : users[w] # None => users[w].steps = told.steps[w]

\* A reward is claimed exactly when one answer said so, and no second one does,
\* though finishes award more between the look and the update.
ClaimedOnce ==
  \A i \in Rewards :
    told.claimed[i] = IF rewards[i] # None /\ rewards[i].claim_status = "claimed" THEN 1 ELSE 0

\* verify_signature, create_or_get_user: what a sign-in creates is created once.
SignInSound == TypeOK /\ SignedOnce /\ ReferralsBacked /\ StarterOnce

\* update_onboarding_step, claim_tournament_rewards: what an answer told a user holds.
AnswersKept == StepsKept /\ ClaimedOnce
==============================================================================
