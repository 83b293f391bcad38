--------------------------- MODULE EmailVerification ---------------------------
(***************************************************************************)
(* Registration and email verification of one address: the handlers        *)
(* register, resendVerification and verifyEmail of AuthService over the    *)
(* users row and the table of module OtpTable.  Every request is one call  *)
(* and names the verification row that it may insert.                      *)
(***************************************************************************)
EXTENDS OtpTable, FiniteSets

CONSTANT Limit  \* VERIFICATION_RESEND_LIMIT_PER_HOUR

ASSUME LimitIsPositive == Limit \in Nat \ {0}
ASSUME CallsAreFinite == IsFiniteSet(Calls)

VARIABLES
    exists,       \* whether users has a row with the address
    isVerified,   \* users.is_verified
    pc,           \* where each request stands
    kind,         \* which handler it runs
    wasVerified,  \* the is_verified that the request read
    target,       \* the row whose hash a verifyEmail compared with
    countedAt,    \* when a resend counted, history
    windowStart   \* rows created up to this moment are over an hour old

account == <<exists, isVerified>>
vars == <<table, account, pc, kind, wasVerified, target, countedAt, windowStart>>

Running == {"creating",   \* register, next: CreateUser
            "counting",   \* resend, next: Count
            "issuing",    \* next: Issue
            "hashing",    \* next: Store
            "mailing",    \* next: Mail
            "consuming",  \* verifyEmail, next: Match
            "matched",    \* next: Redeem
            "redeemed"}   \* next: MarkVerified
Over == {"done", "refused", "failed"}

TypeOK ==
    /\ TableTypeOK
    /\ exists \in BOOLEAN /\ isVerified \in BOOLEAN
    /\ pc \in [Calls -> {"new"} \union Running \union Over]
    /\ kind \in [Calls -> {"register", "resend", "verify", None}]
    /\ wasVerified \in [Calls -> BOOLEAN]
    /\ target \in [Calls -> Calls \union {None}]
    /\ countedAt \in [Calls -> Nat]
    /\ windowStart \in Nat

(***************************************************************************)
(* The address is free, or a registration left the account without a code. *)
(***************************************************************************)
Init ==
    /\ TableInit
    /\ exists \in BOOLEAN
    /\ isVerified = FALSE
    /\ pc = [r \in Calls |-> "new"]
    /\ kind = [r \in Calls |-> None]
    /\ wasVerified = [r \in Calls |-> FALSE]
    /\ target = [r \in Calls |-> None]
    /\ countedAt = [r \in Calls |-> 0]
    /\ windowStart = 0

Goto(r, from, to) == pc[r] = from /\ pc' = [pc EXCEPT ![r] = to]

\* Request r arrives, reads the users row by email and stands at step s.
Arrive(r, k, s) ==
    /\ Goto(r, "new", s)
    /\ kind' = [kind EXCEPT ![r] = k]
    /\ wasVerified' = [wasVerified EXCEPT ![r] = isVerified]
    /\ UNCHANGED <<table, account, target, countedAt, windowStart>>

-----------------------------------------------------------------------------
(* register: create the user, then issue and mail a code.                   *)

Register(r) ==
    \/ ~exists /\ Arrive(r, "register", "creating")
    \/ exists /\ Arrive(r, "register", "refused")

\* The unique constraint on users.email lets one INSERT through.
AnyEmail == TRUE                                \* slip: no unique constraint
EmailIsFree == ~exists

CreateUser(r) ==
    /\ \/ EmailIsFree /\ exists' = TRUE /\ Goto(r, "creating", "issuing")
       \/ ~EmailIsFree /\ UNCHANGED exists /\ Goto(r, "creating", "refused")
    /\ UNCHANGED <<table, isVerified, kind, wasVerified, target, countedAt, windowStart>>

-----------------------------------------------------------------------------
(* resendVerification: refuse, or count, and then issue and mail a code.    *)

Resend(r) ==
    \/ exists /\ ~isVerified /\ Arrive(r, "resend", "counting")
    \/ (~exists \/ isVerified) /\ Arrive(r, "resend", "refused")

RecentResends ==
    {o \in Calls : kind[o] = "resend" /\ createdAt[o] > windowStart}

OneTooMany == Cardinality(RecentResends) <= Limit   \* slip: > for >=
BelowLimit == Cardinality(RecentResends) < Limit

Count(r) ==
    /\ \/ BelowLimit /\ Goto(r, "counting", "issuing")
       \/ ~BelowLimit /\ Goto(r, "counting", "refused")
    /\ countedAt' = [countedAt EXCEPT ![r] = clock]
    /\ UNCHANGED <<table, account, kind, wasVerified, target, windowStart>>

-----------------------------------------------------------------------------
(* Issuing and mailing, in register and in resendVerification alike.        *)

Issue(r, x) ==
    /\ Goto(r, "issuing", "hashing")
    /\ Invalidate(r, x)
    /\ UNCHANGED <<account, kind, wasVerified, target, countedAt, windowStart>>

Store(r) ==
    /\ Goto(r, "hashing", "mailing")
    /\ Insert(r)
    /\ UNCHANGED <<account, kind, wasVerified, target, countedAt, windowStart>>

\* The mail provider accepts the mail, or the request fails and the row stays; the
\* mail may have arrived even then.
Mail(r) ==
    /\ Goto(r, "mailing", "done") \/ Goto(r, "mailing", "failed")
    /\ UNCHANGED <<table, account, kind, wasVerified, target, countedAt, windowStart>>

-----------------------------------------------------------------------------
(* verifyEmail: consume a code, then mark the account verified.             *)

VerifyEmail(r) ==
    \/ exists /\ Arrive(r, "verify", "consuming")
    \/ ~exists /\ Arrive(r, "verify", "refused")

\* The client submits code x, whether or not it was ever mailed.
Match(r, x) ==
    /\ \/ \E o \in Calls :
             /\ Latest(o) /\ code[o] = x
             /\ target' = [target EXCEPT ![r] = o]
             /\ Goto(r, "consuming", "matched")
       \/ /\ \A o \in Calls : Latest(o) => code[o] # x
          /\ Goto(r, "consuming", "refused")
          /\ UNCHANGED target
    /\ UNCHANGED <<table, account, kind, wasVerified, countedAt, windowStart>>

Redeem(r) ==
    /\ Goto(r, "matched", "redeemed")
    /\ Unused(target[r])
    /\ MarkUsed(target[r])
    /\ UNCHANGED <<account, kind, wasVerified, target, countedAt, windowStart>>

RedeemLate(r) ==
    /\ Goto(r, "matched", "refused")
    /\ ~Unused(target[r])
    /\ UNCHANGED <<table, account, kind, wasVerified, target, countedAt, windowStart>>

\* user.is_verified, as it was read before the code was consumed, decides
\* whether the row is written; then the session is issued (module Sessions).
SkipFresh(r) == ~wasVerified[r]                    \* slip: the test inverted
SkipMark(r) == wasVerified[r]

MarkVerified(r) ==
    /\ Goto(r, "redeemed", "done")
    /\ isVerified' = (isVerified \/ ~SkipMark(r))
    /\ UNCHANGED <<table, exists, kind, wasVerified, target, countedAt, windowStart>>

-----------------------------------------------------------------------------
(* Time and crashes.                                                        *)

TimePasses ==
    /\ Expire
    /\ UNCHANGED <<account, pc, kind, wasVerified, target, countedAt, windowStart>>

\* The window of one hour leaves a resend behind; a code does not live that long.
HourPasses ==
    \E o \in RecentResends :
        /\ windowStart' = createdAt[o]
        /\ \A p \in Calls : createdAt[p] \in 1..createdAt[o] => Expired(p)
        /\ UNCHANGED <<table, account, pc, kind, wasVerified, target, countedAt>>

Crash ==
    /\ \E r \in Calls : pc[r] \in Running
    /\ pc' = [r \in Calls |-> IF pc[r] \in Running THEN "failed" ELSE pc[r]]
    /\ UNCHANGED <<table, account, kind, wasVerified, target, countedAt, windowStart>>

Next ==
    \/ \E r \in Calls :
          \/ Register(r) \/ CreateUser(r)
          \/ Resend(r) \/ Count(r)
          \/ (\E x \in Codes : Issue(r, x)) \/ Store(r) \/ Mail(r)
          \/ VerifyEmail(r) \/ (\E x \in Codes : Match(r, x))
          \/ Redeem(r) \/ RedeemLate(r) \/ MarkVerified(r)
    \/ TimePasses \/ HourPasses \/ Crash

Spec == Init /\ [][Next]_vars

-----------------------------------------------------------------------------
(* What the handlers promise.                                               *)

\* Of the registrations of one address that run at once, one creates the account
\* and issues a code; the others are refused.
OneRegistration ==
    \A r, q \in Calls :
        /\ kind[r] = "register" /\ expiresAt[r] > 0
        /\ kind[q] = "register" /\ expiresAt[q] > 0
        => r = q

\* A resend goes through only if fewer than Limit codes had been resent in the
\* hour before it counted: what goes beyond the limit was resent by requests
\* that ran between its count and its insertion.
ResendsWithinLimit ==
    \A r \in RecentResends :
        Cardinality({o \in RecentResends : createdAt[o] <= countedAt[r]}) < Limit

\* Every verifyEmail that is answered with success used up a code of its own and
\* left the account verified, also when another request verified the account
\* after this one read is_verified, or voided the code that it compared with.
RedeemedVerifies ==
    LET Answered == {r \in Calls : pc[r] = "done" /\ kind[r] = "verify"}
    IN  /\ Answered # {} => isVerified
        /\ \A r, q \in Answered :
               usedAt[target[r]] /\ (target[r] = target[q] => r = q)

=============================================================================
