---------------------------- MODULE MCPackOpening ----------------------------
(* Instances of PackOpening for TLC: each pack has the owner its cfg gives it. *)
EXTENDS PackOpening

CONSTANTS u1, u2, k1, k2

OneUser    == {u1}
TwoUsers   == {u1, u2}
OnePack    == {k1}
TwoPacks   == {k1, k2}
OwnOne     == [k \in {k1} |-> u1]
OwnEach    == [k \in {k1, k2} |-> IF k = k1 THEN u1 ELSE u2]
OneId      == 1 .. 1
TwoIds     == 1 .. 2
==============================================================================
