--------------------------- MODULE SessionRegister ---------------------------
(***************************************************************************)
(* What clients may rely on of an account's refresh tokens, without the    *)
(* requests that bring it about: there is at most one current token; a     *)
(* refresh trades exactly the current token for a fresh one, its only      *)
(* heir; a token that was current and no longer is never comes back.       *)
(***************************************************************************)
CONSTANTS
    Tokens,  \* every refresh token that may ever be signed
    None     \* no token

VARIABLES
    current,  \* the token that a refresh would accept
    retired,  \* the tokens that were current before
    heir      \* the token each one was traded for

vars == <<current, retired, heir>>

Init ==
    /\ current = None
    /\ retired = {}
    /\ heir = [t \in Tokens |-> None]

Retire == retired' = retired \union ({current} \ {None})

Fresh(t) == t # current /\ t \notin retired

\* A login, in any form, puts a fresh token in place of whatever was there.
Open(t) ==
    /\ Fresh(t)
    /\ current' = t
    /\ Retire
    /\ UNCHANGED heir

\* A refresh trades the current token for a fresh one.
Trade(t) ==
    /\ current # None
    /\ Fresh(t)
    /\ heir' = [heir EXCEPT ![current] = t]
    /\ current' = t
    /\ Retire

\* A logout or a password reset.
Revoke ==
    /\ current # None
    /\ current' = None
    /\ Retire
    /\ UNCHANGED heir

Next == Revoke \/ \E t \in Tokens : Open(t) \/ Trade(t)

Spec == Init /\ [][Next]_vars
=============================================================================
