----------------------------- MODULE DeckCustody -----------------------------
(***************************************************************************)
(* What registration promises.  A user enters a tournament with cards that *)
(* are his and that no entry holds, once; he may take them all back.        *)
(***************************************************************************)
CONSTANTS Users, Tournaments, Cards, Owner

VARIABLE entries   \* the cards with which a user takes part, or none

Entries == [Tournaments -> [Users -> SUBSET Cards]]

Init == entries = [t \in Tournaments |-> [u \in Users |-> {}]]

Free(c) == \A t \in Tournaments, u \in Users : c \notin entries[t][u]

Give(t, u, cards) == entries' = [entries EXCEPT ![t][u] = cards]

Enter(t, u) ==
  /\ entries[t][u] = {}
  /\ \E cards \in (SUBSET {c \in Cards : Owner[c] = u /\ Free(c)}) \ {{}} : Give(t, u, cards)

Withdraw(t, u) == entries[t][u] # {} /\ Give(t, u, {})

Next == \E t \in Tournaments, u \in Users : Enter(t, u) \/ Withdraw(t, u)

Spec == Init /\ [][Next]_entries
==============================================================================
