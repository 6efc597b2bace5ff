----------------------------- MODULE MCCatalogue -----------------------------
(* Instances of Catalogue for TLC. *)
EXTENDS Catalogue, TLC

CONSTANTS k1, k2, w1, w2, r1, r2, g1, g2, cash, nft
Two  == 1 .. 2
Four == 1 .. 4
Symmetry == Permutations({k1, k2}) \cup Permutations({w1, w2}) \cup Permutations({r1, r2})
            \cup Permutations({g1, g2}) \cup Permutations({cash, nft})
==============================================================================
