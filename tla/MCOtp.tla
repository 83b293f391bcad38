-------------------------------- MODULE MCOtp --------------------------------
(* Otp for TLC: calls and codes are interchangeable.                        *)
EXTENDS Otp, TLC

Symmetry == Permutations(Calls) \union Permutations(Codes)
=============================================================================
