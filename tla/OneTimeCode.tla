----------------------------- MODULE OneTimeCode -----------------------------
(***************************************************************************)
(* What the user of a one-time code may rely on: a code goes live once;    *)
(* from then on it is redeemed by exactly one call or voided, and neither  *)
(* is ever undone.                                                         *)
(***************************************************************************)
CONSTANTS
    Calls,  \* the calls that send codes and redeem them; a call names its code
    None    \* nobody

VARIABLES
    sent,     \* the codes that ever went live
    live,     \* the codes that may still be redeemed
    redeemer  \* the call that redeemed each code

vars == <<sent, live, redeemer>>

Init ==
    /\ sent = {}
    /\ live = {}
    /\ redeemer = [o \in Calls |-> None]

Send(o) ==
    /\ o \notin sent
    /\ sent' = sent \union {o}
    /\ live' = live \union {o}
    /\ UNCHANGED redeemer

\* New codes void old ones, several at once if several are live.
Void(S) ==
    /\ live' = live \ S
    /\ UNCHANGED <<sent, redeemer>>

Redeem(o, c) ==
    /\ o \in live
    /\ live' = live \ {o}
    /\ redeemer' = [redeemer EXCEPT ![o] = c]
    /\ UNCHANGED sent

Next ==
    \/ \E o \in Calls : Send(o) \/ \E c \in Calls : Redeem(o, c)
    \/ \E S \in SUBSET live : Void(S)

Spec == Init /\ [][Next]_vars
=============================================================================
