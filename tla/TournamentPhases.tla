-------------------------- MODULE TournamentPhases --------------------------
(***************************************************************************)
(* What the life cycle of tournaments promises its players: a tournament   *)
(* goes from registration to play to its end and never back, and after the *)
(* end each entrant is paid once, an amount that is not taken back.        *)
(***************************************************************************)
CONSTANTS Tournaments, Decks, Initial

VARIABLES
    phase,  \* the status of each tournament
    paid    \* the amounts paid for each deck of each tournament

Init ==
    /\ phase = Initial
    /\ paid = [t \in Tournaments |-> [d \in Decks |-> {}]]

Start(t) ==
    /\ phase[t] = "registration"
    /\ phase' = [phase EXCEPT ![t] = "ongoing"]
    /\ UNCHANGED paid

Finish(t) ==
    /\ phase[t] = "ongoing"
    /\ phase' = [phase EXCEPT ![t] = "finished"]
    /\ UNCHANGED paid

\* Any number of unpaid decks, each with one amount.
Pay(t) ==
    /\ phase[t] = "finished"
    /\ paid' = [paid EXCEPT ![t] = paid'[t]]
    /\ \A d \in Decks :
          paid'[t][d] # paid[t][d]
              => paid[t][d] = {} /\ \E amount \in paid'[t][d] : paid'[t][d] = {amount}
    /\ UNCHANGED phase

Next == \E t \in Tournaments : Start(t) \/ Finish(t) \/ Pay(t)

Spec == Init /\ [][Next]_<<phase, paid>>
=============================================================================
