------------------------------ MODULE MCSessions ------------------------------
(* Sessions for TLC: requests and passwords are interchangeable.            *)
EXTENDS Sessions, TLC

Symmetry == Permutations(Requests) \union Permutations(Passwords)
=============================================================================
