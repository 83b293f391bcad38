---------------------------- MODULE MCOnboarding ----------------------------
(* Onboarding for TLC: requests are interchangeable.                        *)
EXTENDS Onboarding, TLC

Symmetry == Permutations(Requests)
=============================================================================
