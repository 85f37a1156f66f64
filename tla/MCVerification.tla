--------------------------- MODULE MCVerification ---------------------------
(* Verification for TLC: hashes, keys and requests are alike.              *)
EXTENDS Verification, TLC

Symmetry == Permutations(Slots) \cup Permutations(Keys)
              \cup Permutations(Submissions) \cup Permutations(Contracts)
=============================================================================
