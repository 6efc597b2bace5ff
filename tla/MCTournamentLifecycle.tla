----------------------- MODULE MCTournamentLifecycle -----------------------
(* Instances of TournamentLifecycle for TLC.  w1 and w2 are the scheduler's  *)
(* tasks: in most runs w1 runs both jobs, so that they never overlap.        *)
EXTENDS TournamentLifecycle

CONSTANTS t1, t2, d1, d2, w1, w2, a1, a2

OneTournament == {t1}
TwoTournaments == {t1, t2}
AllDecks == [t \in Tournaments |-> Decks]
InRegistration == [t \in Tournaments |-> "registration"]
AllFeatured == [t \in Tournaments |-> "featured"]
=============================================================================
