--------------------------- MODULE MCOAuthAccounts ---------------------------
(* OAuthAccounts for TLC: requests, addresses and profiles are              *)
(* interchangeable.                                                         *)
EXTENDS OAuthAccounts, TLC

Symmetry ==
    Permutations(Requests) \union Permutations(Emails) \union Permutations(Profiles)
=============================================================================
