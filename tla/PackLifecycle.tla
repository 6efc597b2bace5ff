---------------------------- MODULE PackLifecycle ----------------------------
(***************************************************************************)
(* What opening a pack promises, without handlers, signatures or blocks.   *)
(* An opening is offered to a user with a list of cards, may be minted by   *)
(* that user, and may then be recorded as owned.  The stages are never     *)
(* skipped or undone and the offer never changes: the backend can record   *)
(* late, or never, but not something the chain has not seen.               *)
(***************************************************************************)
CONSTANTS Ids,        \* identifiers of openings
          Offers      \* what is offered: a user, a pack and a list of cards

VARIABLES stage,      \* where each opening is
          offer       \* what was offered under each identifier used so far

abstractVars == <<stage, offer>>

Stages == {"absent", "offered", "minted", "recorded"}

AbstractInit ==
  /\ stage = [i \in Ids |-> "absent"]
  /\ offer = [i \in Ids |-> {}]

Offer(i, o) ==
  /\ stage[i] = "absent"
  /\ stage' = [stage EXCEPT ![i] = "offered"]
  /\ offer' = [offer EXCEPT ![i] = {o}]

Mint(i) ==
  /\ stage[i] = "offered"
  /\ stage' = [stage EXCEPT ![i] = "minted"]
  /\ UNCHANGED offer

Record(i) ==
  /\ stage[i] = "minted"
  /\ stage' = [stage EXCEPT ![i] = "recorded"]
  /\ UNCHANGED offer

AbstractNext ==
  \E i \in Ids :
     \/ \E o \in Offers : Offer(i, o)
     \/ Mint(i)
     \/ Record(i)

AbstractSpec == AbstractInit /\ [][AbstractNext]_abstractVars
==============================================================================
