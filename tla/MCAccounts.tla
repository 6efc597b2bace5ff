------------------------------ MODULE MCAccounts ------------------------------
(* Instances of Accounts for TLC. *)
EXTENDS Accounts, TLC

CONSTANTS w1, w2, r1, r2, a, b, c, g1, g2
\* Wallets, tasks, nicknames and rewards are told apart by nothing else.
Symmetry == Permutations({w1, w2}) \cup Permutations({r1, r2})
            \cup Permutations({a, b, c}) \cup Permutations({g1, g2})
==============================================================================
