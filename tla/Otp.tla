--------------------------------- MODULE Otp ---------------------------------
(***************************************************************************)
(* The one-time code services: calls of issue, consume and verify for one  *)
(* user that run at the same time.  Each call awaits the database and      *)
(* argon2, and the others run in between.                                  *)
(***************************************************************************)
EXTENDS OtpTable

VARIABLES
    pc,      \* where each call stands
    target   \* the row whose hash a consume or verify compared with

vars == <<table, pc, target>>

Running == {"hashing",   \* issue, next: Store
            "matched"}   \* consume, next: Redeem or RedeemLate
Over == {"issued", "redeemed", "refused", "valid", "crashed"}

TypeOK ==
    /\ TableTypeOK
    /\ pc \in [Calls -> {"new"} \union Running \union Over]
    /\ target \in [Calls -> Calls \union {None}]

Init ==
    /\ TableInit
    /\ pc = [c \in Calls |-> "new"]
    /\ target = [c \in Calls |-> None]

Goto(c, from, to) == pc[c] = from /\ pc' = [pc EXCEPT ![c] = to]

-----------------------------------------------------------------------------
\* issue: void what is active, then draw and hash a code.
Issue(i, x) ==
    /\ Goto(i, "new", "hashing")
    /\ Invalidate(i, x)
    /\ UNCHANGED target

Store(i) ==
    /\ Goto(i, "hashing", "issued")
    /\ Insert(i)
    /\ UNCHANGED target

\* consume(x): read the newest active row and compare x with its hash.
Match(c, x) ==
    /\ \E o \in Calls :
          /\ Latest(o) /\ code[o] = x
          /\ target' = [target EXCEPT ![c] = o]
    /\ Goto(c, "new", "matched")
    /\ UNCHANGED table

\* No row is active, or the newest one holds another code; consume and verify
\* return alike.
Refuse(c, x) ==
    /\ \A o \in Calls : Latest(o) => code[o] # x
    /\ Goto(c, "new", "refused")
    /\ UNCHANGED <<table, target>>

\* consume's UPDATE affects the row it read, or no row.
Redeem(c) ==
    /\ Goto(c, "matched", "redeemed")
    /\ Unused(target[c])
    /\ MarkUsed(target[c])
    /\ UNCHANGED target

RedeemLate(c) ==
    /\ Goto(c, "matched", "refused")
    /\ ~Unused(target[c])
    /\ UNCHANGED <<table, target>>

\* verify(x) of the password reset service: the same read, and no UPDATE.
Verify(c, x) ==
    /\ \E o \in Calls :
          /\ Latest(o) /\ code[o] = x
          /\ target' = [target EXCEPT ![c] = o]
    /\ Goto(c, "new", "valid")
    /\ UNCHANGED table

Crash ==
    /\ \E c \in Calls : pc[c] \in Running
    /\ pc' = [c \in Calls |-> IF pc[c] \in Running THEN "crashed" ELSE pc[c]]
    /\ UNCHANGED <<table, target>>

Next ==
    \/ \E c \in Calls :
          \/ Store(c) \/ Redeem(c) \/ RedeemLate(c)
          \/ \E x \in Codes : Issue(c, x) \/ Match(c, x) \/ Refuse(c, x) \/ Verify(c, x)
    \/ Expire /\ UNCHANGED <<pc, target>>
    \/ Crash

Spec == Init /\ [][Next]_vars

-----------------------------------------------------------------------------
(* What the services promise.                                               *)

\* Calls of consume that are answered true never share a row: however they
\* overlap, a code is good for one of them (the used_at IS NULL of the UPDATE).
RedeemedOnce ==
    \A c, d \in Calls :
        pc[c] = "redeemed" /\ pc[d] = "redeemed" /\ target[c] = target[d] => c = d

\* A row is active only if every call of issue so far did its invalidation before
\* the row was inserted.  So two codes are good at once only if their calls of
\* issue overlapped, each inserting after the other's invalidation.
ActiveIsUnsuperseded ==
    \A o, i \in Calls : Active(o) => expiresAt[i] < createdAt[o]

\* A code that a later call of issue superseded is never redeemed, not even by a
\* consume that read it before; the exception is a code that ran out between the
\* consume's read and its UPDATE, which invalidation then passes over.
SupersededIsRefused ==
    [][\A c \in Calls :
          pc[c] = "matched" /\ pc'[c] = "redeemed" =>
              \/ Expired(target[c])
              \/ \A i \in Calls : expiresAt[i] < createdAt[target[c]]]_vars

\* The services implement OneTimeCode: a code goes live once, and is redeemed by
\* one call or voided, for good.
IsRedeemer(c, o) == pc[c] = "redeemed" /\ target[c] = o

RedeemerOf(o) ==
    IF \E c \in Calls : IsRedeemer(c, o)
    THEN CHOOSE c \in Calls : IsRedeemer(c, o) ELSE None

Promise == INSTANCE OneTimeCode WITH
    sent <- {o \in Calls : createdAt[o] > 0},
    live <- {o \in Calls : createdAt[o] > 0 /\ ~usedAt[o]},
    redeemer <- [o \in Calls |-> RedeemerOf(o)]

ImplementsOneTimeCode == Promise!Spec

-----------------------------------------------------------------------------
(* What the documentation says, and overlapping calls break.                *)

\* "Previous unused OTPs for that user are invalidated": one code is good at a
\* time.
OneActiveCode == \A o, p \in Calls : Active(o) /\ Active(p) => o = p
=============================================================================
