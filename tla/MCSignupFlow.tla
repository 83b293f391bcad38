----------------------------- MODULE MCSignupFlow -----------------------------
(* SignupFlow for TLC: tabs and profiles are interchangeable.               *)
EXTENDS SignupFlow, TLC

Symmetry == Permutations(Tabs) \union Permutations(Profiles)
=============================================================================
