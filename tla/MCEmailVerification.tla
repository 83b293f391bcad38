-------------------------- MODULE MCEmailVerification --------------------------
(* EmailVerification for TLC: requests and codes are interchangeable.       *)
EXTENDS EmailVerification, TLC

Symmetry == Permutations(Calls) \union Permutations(Codes)
=============================================================================
