------------------- MODULE MCTournamentRegistration -------------------
(* Instances of TournamentRegistration for TLC: the cards of one or two players. *)
EXTENDS TournamentRegistration

CONSTANTS u1, c1, c2, c3, x, y

OwnAll      == [c \in {c1, c2, c3} |-> u1]
\* c1 and c3 are cards of one token.
TwoTokens   == [c \in {c1, c2, c3} |-> IF c \in {c1, c3} THEN x ELSE y]
\* A deck of both tokens is within the limit of 3 or beyond it.
LightHeavy  == {[k \in {x, y} |-> IF k = x THEN 1 ELSE 2], [k \in {x, y} |-> 2]}
TwoIds      == 1 .. 2
ThreeIds    == 1 .. 3
==============================================================================
