--------------------------- MODULE MCPasswordReset ---------------------------
(* PasswordReset for TLC: requests and codes are interchangeable, the runs  *)
(* are not (NextRun).  The liveness run takes no symmetry.                  *)
EXTENDS PasswordReset, TLC

Symmetry ==
    Permutations(Jobs) \union Permutations(Resets) \union Permutations(Codes)

\* The liveness run leaves the expiry of codes out, an action constraint: a run that
\* issues a code and a mail that carries it do the same whether older codes run out or not.
NothingExpires == horizon' = horizon
=============================================================================
