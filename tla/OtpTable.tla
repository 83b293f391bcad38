------------------------------- MODULE OtpTable -------------------------------
(***************************************************************************)
(* One user's rows in verification_otps or password_reset_otps, and the    *)
(* SQL statements that VerificationOtpService and PasswordResetOtpService  *)
(* run on them; the two services and tables are alike.  A call of issue    *)
(* inserts at most one row, so a row is named by the call that inserts it. *)
(*                                                                         *)
(* Time is a counter that moves when something worth ordering happens.     *)
(* Every code lives equally long, so codes run out in the order in which   *)
(* their expiresAt was computed, and that order is all expiresAt keeps.    *)
(***************************************************************************)
EXTENDS Naturals

CONSTANTS
    Calls,  \* the calls of the service; those of issue name their row
    Codes,  \* the values a code may take; two rows may draw the same one
    None    \* no code, no row

ASSUME NoneIsNoValue == None \notin Calls /\ None \notin Codes

VARIABLES
    clock,      \* the moments that passed so far
    expiresAt,  \* when the call computed expires_at, 0 before that
    createdAt,  \* when the row was inserted, 0 before that
    usedAt,     \* whether used_at is set
    code,       \* the code that the call drew and whose hash the row holds
    horizon     \* codes whose expiresAt is up to this one have run out

table == <<clock, expiresAt, createdAt, usedAt, code, horizon>>

TableTypeOK ==
    /\ clock \in Nat
    /\ expiresAt \in [Calls -> Nat]
    /\ createdAt \in [Calls -> Nat]
    /\ usedAt \in [Calls -> BOOLEAN]
    /\ code \in [Calls -> Codes \union {None}]
    /\ horizon \in Nat

TableInit ==
    /\ clock = 0
    /\ expiresAt = [o \in Calls |-> 0]
    /\ createdAt = [o \in Calls |-> 0]
    /\ usedAt = [o \in Calls |-> FALSE]
    /\ code = [o \in Calls |-> None]
    /\ horizon = 0

Tick == clock' = clock + 1

-----------------------------------------------------------------------------
Expired(o) == expiresAt[o] <= horizon

\* The rows with used_at IS NULL AND expires_at > NOW().
Active(o) == createdAt[o] > 0 /\ ~usedAt[o] /\ ~Expired(o)

\* ORDER BY created_at DESC, first row: no other active row is newer.
Latest(o) ==
    Active(o) /\ \A p \in Calls : Active(p) => createdAt[p] <= createdAt[o]

\* invalidateActiveOtps, then the code that issue draws and its expiresAt.
VoidNone == UNCHANGED usedAt                              \* slip: not called
VoidActive == usedAt' = [o \in Calls |-> usedAt[o] \/ Active(o)]

Invalidate(i, x) ==
    /\ VoidActive
    /\ code' = [code EXCEPT ![i] = x]
    /\ expiresAt' = [expiresAt EXCEPT ![i] = clock + 1]
    /\ Tick
    /\ UNCHANGED <<createdAt, horizon>>

Undated(i) ==                                 \* slip: created_at left NULL
    /\ createdAt' = [createdAt EXCEPT ![i] = None]
    /\ Tick
    /\ UNCHANGED <<expiresAt, usedAt, code, horizon>>

\* The INSERT of issue, after argon2.hash.
Insert(i) ==
    /\ createdAt' = [createdAt EXCEPT ![i] = clock + 1]
    /\ Tick
    /\ UNCHANGED <<expiresAt, usedAt, code, horizon>>

\* The WHERE clause of consume's UPDATE, besides the id.
ById(o) == TRUE                                           \* slip: update by id
Unused(o) == ~usedAt[o]

MarkUsed(o) ==
    /\ usedAt' = [usedAt EXCEPT ![o] = TRUE]
    /\ UNCHANGED <<clock, expiresAt, createdAt, code, horizon>>

\* Time passes until the next code has run out.
Expire ==
    \E o \in Calls :
        /\ expiresAt[o] > horizon
        /\ \A p \in Calls : expiresAt[p] > horizon => expiresAt[o] <= expiresAt[p]
        /\ horizon' = expiresAt[o]
        /\ UNCHANGED <<clock, expiresAt, createdAt, usedAt, code>>
=============================================================================
