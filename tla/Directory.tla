------------------------------- MODULE Directory -------------------------------
(***************************************************************************)
(* What the two tables users and user_oauth_accounts promise together: an  *)
(* address names at most one account, a profile at the provider opens at   *)
(* most one account and an account is opened by at most one profile, and   *)
(* what a profile opens never changes.                                     *)
(***************************************************************************)
CONSTANTS Accounts, Emails, Profiles, None

VARIABLES
    address,  \* the address of each account, None while there is no account
    opens     \* the account that each profile opens, or None

vars == <<address, opens>>

Init ==
    /\ address = [a \in Accounts |-> None]
    /\ opens = [p \in Profiles |-> None]

Free(e) == \A a \in Accounts : address[a] # e

\* A new account with address e.
Enrol(a, e) ==
    /\ address[a] = None /\ Free(e)
    /\ address' = [address EXCEPT ![a] = e]

\* Profile p, which opened nothing, opens account a, which nothing opened.
Attach(a, p) ==
    /\ opens[p] = None
    /\ \A q \in Profiles : opens[q] # a
    /\ opens' = [opens EXCEPT ![p] = a]

Rename(a, e) ==
    /\ address[a] # None /\ Free(e)
    /\ address' = [address EXCEPT ![a] = e]

Next ==
    \/ \E a \in Accounts, e \in Emails :
          (Enrol(a, e) \/ Rename(a, e)) /\ UNCHANGED opens
    \/ \E a \in Accounts, e \in Emails, p \in Profiles : Enrol(a, e) /\ Attach(a, p)
    \/ \E a \in Accounts, p \in Profiles :
          address[a] # None /\ Attach(a, p) /\ UNCHANGED address

Spec == Init /\ [][Next]_vars
=============================================================================
