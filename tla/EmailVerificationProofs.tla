------------------------ MODULE EmailVerificationProofs ------------------------
(* Proofs about EmailVerification, for any number of requests and codes and *)
(* any limit of resends.                                                    *)
EXTENDS EmailVerification, FiniteSetTheorems, TLAPS

(***************************************************************************)
(* The inductive invariant.                                                *)
(*   MomentsPassed    no timestamp is ahead of the clock;                  *)
(*   KindsOfSteps     where a request stands tells which handler it runs;  *)
(*   RowsOfSteps      a request has no expires_at before Issue and no row  *)
(*                    before Store, and a verifyEmail has none at all;     *)
(*   OneCreator       one registration passed CreateUser;                  *)
(*   ReadsHold        is_verified is never set back;                       *)
(*   TargetsAreRows   what a verifyEmail compared with is a row;           *)
(*   RowsUsedOnce     every row that was used up has one verifyEmail;      *)
(*   SuccessVerifies  success means that the account is verified.          *)
(***************************************************************************)
MomentsPassed ==
    \A o \in Calls : createdAt[o] <= clock /\ countedAt[o] <= clock

Issuing == {"issuing", "hashing", "mailing"}

KindsOfSteps ==
    \A r \in Calls :
        /\ pc[r] = "new" => kind[r] = None
        /\ pc[r] = "creating" => kind[r] = "register"
        /\ pc[r] = "counting" => kind[r] = "resend"
        /\ pc[r] \in Issuing => kind[r] \in {"register", "resend"}
        /\ pc[r] \in {"consuming", "matched", "redeemed"} => kind[r] = "verify"

RowsOfSteps ==
    \A r \in Calls :
        /\ pc[r] \in {"new", "creating", "counting", "issuing"} => expiresAt[r] = 0
        /\ pc[r] \in {"new", "creating", "counting", "issuing", "hashing"} => createdAt[r] = 0
        /\ usedAt[r] => createdAt[r] > 0

Creator(r) == kind[r] = "register" /\ (pc[r] \in Issuing \/ expiresAt[r] > 0)

OneCreator ==
    \A r, q \in Calls : Creator(r) => exists /\ (Creator(q) => r = q)

ReadsHold == \A r \in Calls : wasVerified[r] => isVerified

Successful(r) == pc[r] = "redeemed" \/ (pc[r] = "done" /\ kind[r] = "verify")

TargetsAreRows ==
    \A r \in Calls : pc[r] = "matched" \/ Successful(r) =>
        target[r] \in Calls /\ createdAt[target[r]] > 0

RowsUsedOnce ==
    \A r, q \in Calls :
        Successful(r) => usedAt[target[r]]
                         /\ (Successful(q) /\ target[r] = target[q] => r = q)

SuccessVerifies == \A r \in Calls : pc[r] = "done" /\ kind[r] = "verify" => isVerified

IInv ==
    /\ TypeOK
    /\ MomentsPassed
    /\ KindsOfSteps
    /\ RowsOfSteps
    /\ OneCreator
    /\ ReadsHold
    /\ TargetsAreRows
    /\ RowsUsedOnce
    /\ SuccessVerifies

LEMMA InitIInv == Init => IInv
<1> SUFFICES ASSUME Init PROVE IInv
    OBVIOUS
<1>1. TypeOK
    BY NoneIsNoValue DEF Init, TableInit, TypeOK, TableTypeOK, Running, Over
<1>2. MomentsPassed /\ KindsOfSteps /\ RowsOfSteps /\ ReadsHold
    BY DEF Init, TableInit, MomentsPassed, KindsOfSteps, Issuing, RowsOfSteps, ReadsHold
<1>3. \A r \in Calls : pc[r] = "new" /\ expiresAt[r] = 0
    BY DEF Init, TableInit
<1>4. \A r \in Calls : ~Successful(r) /\ pc[r] \notin {"matched", "done"}
    BY <1>3 DEF Successful
<1>5. \A r \in Calls : pc[r] \notin Issuing
    BY <1>3 DEF Issuing
<1>6. \A r \in Calls : ~(expiresAt[r] > 0)
    <2> SUFFICES ASSUME NEW r \in Calls PROVE ~(expiresAt[r] > 0)
        OBVIOUS
    <2>1. expiresAt[r] = 0
        BY <1>3
    <2> QED
        BY <2>1
<1> QED
    BY <1>1, <1>2, <1>4, <1>5, <1>6
       DEF IInv, Creator, OneCreator, TargetsAreRows, RowsUsedOnce, SuccessVerifies

LEMMA NextIInv == IInv /\ [Next]_vars => IInv'
<1> SUFFICES ASSUME IInv, [Next]_vars PROVE IInv'
    OBVIOUS
<1> USE NoneIsNoValue
    DEF IInv, TypeOK, TableTypeOK, Running, Over, MomentsPassed, KindsOfSteps, Issuing,
        RowsOfSteps, Creator, OneCreator, ReadsHold, Successful, TargetsAreRows,
        RowsUsedOnce, SuccessVerifies, Goto, Arrive, table, account, Tick
<1>1. ASSUME NEW r \in Calls, Register(r) PROVE IInv'
    <2>a. UNCHANGED table
        BY <1>1 DEF Register
    <2>b. pc' \in [Calls -> {"new"} \union Running \union Over]
        BY <1>1 DEF Register
    <2>1. (TypeOK /\ MomentsPassed)'
        <3>1. TypeOK'
            BY <1>1, <2>a, <2>b DEF Register
        <3>2. MomentsPassed'
            BY <1>1, <2>a DEF Register
        <3> QED
            BY <3>1, <3>2
    <2>2. KindsOfSteps'
        BY <1>1 DEF Register
    <2>3. RowsOfSteps'
        BY <1>1 DEF Register
    <2>4. OneCreator'
        BY <1>1 DEF Register
    <2>5. (ReadsHold /\ TargetsAreRows)'
        BY <1>1 DEF Register
    <2>6. (RowsUsedOnce /\ SuccessVerifies)'
        BY <1>1 DEF Register
    <2> QED
        BY <2>1, <2>2, <2>3, <2>4, <2>5, <2>6
<1>2. ASSUME NEW r \in Calls, CreateUser(r) PROVE IInv'
    <2>1. CASE EmailIsFree
        \* There is no account, so no registration passed this step.
        <3>1. \A q \in Calls : ~Creator(q)
            BY <2>1 DEF EmailIsFree
        <3>2. exists' /\ \A q \in Calls : Creator(q)' => q = r
            BY <1>2, <2>1, <3>1 DEF CreateUser, EmailIsFree
        <3>3. OneCreator'
            BY <3>2
        <3>4. exists' \in BOOLEAN
            BY <1>2, <2>1 DEF CreateUser, EmailIsFree
        <3>10. pc' \in [Calls -> {"new"} \union Running \union Over]
            BY <1>2 DEF CreateUser
        <3>5. UNCHANGED <<table, isVerified, kind, wasVerified, target, countedAt,
                          windowStart>>
            BY <1>2 DEF CreateUser
        <3>6. TypeOK' /\ MomentsPassed'
            BY <3>4, <3>5, <3>10
        <3>7. KindsOfSteps'
            BY <1>2, <2>1 DEF CreateUser, EmailIsFree
        <3>8. RowsOfSteps'
            BY <1>2, <2>1 DEF CreateUser, EmailIsFree
        <3>9. (ReadsHold /\ TargetsAreRows /\ RowsUsedOnce /\ SuccessVerifies)'
            BY <1>2, <2>1 DEF CreateUser, EmailIsFree
        <3> QED
            BY <3>3, <3>6, <3>7, <3>8, <3>9
    <2>2. CASE ~EmailIsFree
        BY <1>2, <2>2 DEF CreateUser, EmailIsFree
    <2> QED
        BY <2>1, <2>2
<1>3. ASSUME NEW r \in Calls, Resend(r) PROVE IInv'
    <2>a. UNCHANGED table
        BY <1>3 DEF Resend
    <2>b. pc' \in [Calls -> {"new"} \union Running \union Over]
        BY <1>3 DEF Resend
    <2>1. (TypeOK /\ MomentsPassed)'
        <3>1. TypeOK'
            BY <1>3, <2>a, <2>b DEF Resend
        <3>2. MomentsPassed'
            BY <1>3, <2>a DEF Resend
        <3> QED
            BY <3>1, <3>2
    <2>2. KindsOfSteps'
        BY <1>3 DEF Resend
    <2>3. RowsOfSteps'
        BY <1>3 DEF Resend
    <2>4. OneCreator'
        BY <1>3 DEF Resend
    <2>5. (ReadsHold /\ TargetsAreRows)'
        BY <1>3 DEF Resend
    <2>6. (RowsUsedOnce /\ SuccessVerifies)'
        BY <1>3 DEF Resend
    <2> QED
        BY <2>1, <2>2, <2>3, <2>4, <2>5, <2>6
<1>4. ASSUME NEW r \in Calls, Count(r) PROVE IInv'
    BY <1>4 DEF Count
<1>5. ASSUME NEW r \in Calls, NEW x \in Codes, Issue(r, x) PROVE IInv'
    BY <1>5 DEF Issue, Invalidate, VoidActive, Active
<1>6. ASSUME NEW r \in Calls, Store(r) PROVE IInv'
    BY <1>6 DEF Store, Insert
<1>7. ASSUME NEW r \in Calls, Mail(r) PROVE IInv'
    BY <1>7 DEF Mail
<1>8. ASSUME NEW r \in Calls, VerifyEmail(r) PROVE IInv'
    <2>a. UNCHANGED table
        BY <1>8 DEF VerifyEmail
    <2>b. pc' \in [Calls -> {"new"} \union Running \union Over]
        BY <1>8 DEF VerifyEmail
    <2>1. (TypeOK /\ MomentsPassed)'
        <3>1. TypeOK'
            BY <1>8, <2>a, <2>b DEF VerifyEmail
        <3>2. MomentsPassed'
            BY <1>8, <2>a DEF VerifyEmail
        <3> QED
            BY <3>1, <3>2
    <2>2. KindsOfSteps'
        BY <1>8 DEF VerifyEmail
    <2>3. RowsOfSteps'
        BY <1>8 DEF VerifyEmail
    <2>4. OneCreator'
        BY <1>8 DEF VerifyEmail
    <2>5. (ReadsHold /\ TargetsAreRows)'
        BY <1>8 DEF VerifyEmail
    <2>6. (RowsUsedOnce /\ SuccessVerifies)'
        BY <1>8 DEF VerifyEmail
    <2> QED
        BY <2>1, <2>2, <2>3, <2>4, <2>5, <2>6
<1>9. ASSUME NEW r \in Calls, NEW x \in Codes, Match(r, x) PROVE IInv'
    BY <1>9 DEF Match, Latest, Active
<1>10. ASSUME NEW r \in Calls, Redeem(r) PROVE IInv'
    BY <1>10 DEF Redeem, Unused, MarkUsed
<1>11. ASSUME NEW r \in Calls, RedeemLate(r) PROVE IInv'
    BY <1>11 DEF RedeemLate
<1>12. ASSUME NEW r \in Calls, MarkVerified(r) PROVE IInv'
    BY <1>12 DEF MarkVerified, SkipMark
<1>13. CASE TimePasses
    BY <1>13 DEF TimePasses, Expire
<1>14. CASE HourPasses
    BY <1>14 DEF HourPasses, RecentResends
<1>15. CASE Crash
    BY <1>15 DEF Crash
<1>16. CASE UNCHANGED vars
    BY <1>16 DEF vars
<1> QED
    BY <1>1, <1>2, <1>3, <1>4, <1>5, <1>6, <1>7, <1>8, <1>9, <1>10, <1>11, <1>12,
       <1>13, <1>14, <1>15, <1>16 DEF Next

LEMMA Inductive == Spec => []IInv
BY InitIInv, NextIInv, PTL DEF Spec

\* The rows, the requests and the account keep their types.
THEOREM TypeCorrect == Spec => []TypeOK
<1>1. IInv => TypeOK
    BY DEF IInv
<1> QED
    BY <1>1, Inductive, PTL

\* However many registrations of one address run at once, one creates the account
\* and issues a code.
THEOREM AccountIsCreatedOnce == Spec => []OneRegistration
<1>1. IInv => OneRegistration
    BY DEF IInv, OneCreator, Creator, OneRegistration
<1> QED
    BY <1>1, Inductive, PTL

\* A verifyEmail that is answered with success used up a code that no other one
\* did, and the account is verified.
THEOREM SuccessIsVerified == Spec => []RedeemedVerifies
<1>1. IInv => RedeemedVerifies
    BY DEF IInv, RowsUsedOnce, SuccessVerifies, Successful, RedeemedVerifies
<1> QED
    BY <1>1, Inductive, PTL

-----------------------------------------------------------------------------
(* The limit of resends.                                                    *)

\* The resends of the last hour that r counted, or would have counted.
CountedBy(r) == {o \in RecentResends : createdAt[o] <= countedAt[r]}

\* A resend that was let through counted fewer than Limit; its row may follow.
LimitKept ==
    \A r \in Calls :
        kind[r] = "resend" /\ (pc[r] \in Issuing \/ createdAt[r] > 0)
        => Cardinality(CountedBy(r)) < Limit

\* There are only finitely many requests, so fewer rows make a smaller count.
LEMMA FewerAreStillFewer ==
    ASSUME NEW S \in SUBSET Calls, NEW T \in SUBSET S, Cardinality(S) < Limit
    PROVE  Cardinality(T) < Limit
<1>1. IsFiniteSet(S)
    BY CallsAreFinite, FS_Subset
<1>2. Cardinality(T) <= Cardinality(S) /\ IsFiniteSet(T)
    BY <1>1, FS_Subset
<1>3. Cardinality(S) \in Nat /\ Cardinality(T) \in Nat
    BY <1>1, <1>2, FS_CardinalityType
<1> QED
    BY <1>2, <1>3, LimitIsPositive

\* A step that leaves r where it is lets r count no row more than before.
LEMMA CountsShrink ==
    ASSUME IInv, [Next]_vars, NEW r \in Calls, countedAt'[r] = countedAt[r]
    PROVE  CountedBy(r)' \subseteq CountedBy(r)
<1> USE NoneIsNoValue
    DEF IInv, TypeOK, TableTypeOK, MomentsPassed, KindsOfSteps, RowsOfSteps,
        CountedBy, RecentResends, Goto, table, Tick
<1>1. ASSUME NEW q \in Calls, Register(q) \/ Resend(q) \/ VerifyEmail(q)
      PROVE  CountedBy(r)' \subseteq CountedBy(r)
    \* A request that arrives has no row yet.
    BY <1>1 DEF Register, Resend, VerifyEmail, Arrive
<1>2. ASSUME NEW q \in Calls, Store(q)
      PROVE  CountedBy(r)' \subseteq CountedBy(r)
    \* The new row is later than any count.
    BY <1>2 DEF Store, Insert
<1>3. CASE HourPasses
    BY <1>3 DEF HourPasses
<1>4. CASE UNCHANGED <<createdAt, kind, windowStart>>
    BY <1>4
<1> QED
    BY <1>1, <1>2, <1>3, <1>4
       DEF Next, CreateUser, Count, Issue, Invalidate, Mail, Match, Redeem, RedeemLate,
           MarkUsed, MarkVerified, TimePasses, Expire, Crash, vars

\* Only Count lets a resend go on to Issue.
LEMMA StillIssuing ==
    ASSUME IInv, [Next]_vars, NEW r \in Calls, ~Count(r),
           (kind[r] = "resend" /\ (pc[r] \in Issuing \/ createdAt[r] > 0))'
    PROVE  kind[r] = "resend" /\ (pc[r] \in Issuing \/ createdAt[r] > 0)
<1> DEFINE Goal == kind[r] = "resend" /\ (pc[r] \in Issuing \/ createdAt[r] > 0)
<1> USE NoneIsNoValue
    DEF IInv, TypeOK, TableTypeOK, KindsOfSteps, RowsOfSteps, Issuing, Goto, Arrive, table
<1>1. ASSUME NEW q \in Calls, Register(q) \/ Resend(q) \/ VerifyEmail(q) PROVE Goal
    BY <1>1 DEF Register, Resend, VerifyEmail
<1>2. ASSUME NEW q \in Calls, CreateUser(q) PROVE Goal
    BY <1>2 DEF CreateUser
<1>3. ASSUME NEW q \in Calls, Count(q) PROVE Goal
    BY <1>3 DEF Count
<1>4. ASSUME NEW q \in Calls, (\E x \in Codes : Issue(q, x)) \/ Mail(q) PROVE Goal
    BY <1>4 DEF Issue, Invalidate, Mail
<1>5. ASSUME NEW q \in Calls, Store(q) PROVE Goal
    BY <1>5 DEF Store, Insert
<1>6. ASSUME NEW q \in Calls, NEW x \in Codes, Match(q, x) PROVE Goal
    BY <1>6 DEF Match
<1>7. ASSUME NEW q \in Calls, Redeem(q) \/ RedeemLate(q) \/ MarkVerified(q) PROVE Goal
    BY <1>7 DEF Redeem, MarkUsed, RedeemLate, MarkVerified
<1>8. CASE Crash \/ UNCHANGED <<pc, kind, createdAt>>
    BY <1>8 DEF Crash
<1> QED
    BY <1>1, <1>2, <1>3, <1>4, <1>5, <1>6, <1>7, <1>8
       DEF Next, TimePasses, Expire, HourPasses, vars

\* A resend stays within the limit: what it counted can only become less.
LEMMA LimitStep == IInv /\ LimitKept /\ [Next]_vars => LimitKept'
<1> SUFFICES ASSUME IInv, LimitKept, [Next]_vars, NEW r \in Calls,
                    (kind[r] = "resend" /\ (pc[r] \in Issuing \/ createdAt[r] > 0))'
             PROVE  Cardinality(CountedBy(r)') < Limit
    BY DEF LimitKept
<1>1. CASE Count(r)
    \* Every row that is there was created up to now.
    <2>1. BelowLimit
        BY <1>1 DEF Count, IInv, TypeOK, TableTypeOK, KindsOfSteps, RowsOfSteps, Goto,
                    Issuing, table
    <2>2. CountedBy(r)' \subseteq RecentResends
        BY <1>1 DEF Count, CountedBy, RecentResends, table
    <2> QED
        BY <2>1, <2>2, FewerAreStillFewer DEF BelowLimit, RecentResends
<1>2. CASE ~Count(r)
    <2>1. countedAt'[r] = countedAt[r]
        BY <1>2 DEF Next, Register, Resend, VerifyEmail, Arrive, CreateUser, Count, Issue,
                    Store, Mail, Match, Redeem, RedeemLate, MarkVerified, TimePasses,
                    HourPasses, Crash, vars, IInv, TypeOK
    <2>2. kind[r] = "resend" /\ (pc[r] \in Issuing \/ createdAt[r] > 0)
        BY <1>2, StillIssuing
    <2>3. Cardinality(CountedBy(r)) < Limit
        BY <2>2 DEF LimitKept
    <2> QED
        BY <2>1, <2>3, CountsShrink, FewerAreStillFewer DEF CountedBy, RecentResends
<1> QED
    BY <1>1, <1>2

\* A resend goes through only if it counted fewer than Limit codes of the hour;
\* what is beyond the limit was resent by requests that ran at the same time.
THEOREM LimitIsKept == Spec => []ResendsWithinLimit
<1>1. Init => LimitKept
    BY DEF Init, TableInit, LimitKept, Issuing
<1>2. IInv /\ LimitKept => ResendsWithinLimit
    <2> SUFFICES ASSUME IInv, LimitKept, NEW r \in RecentResends
                 PROVE  Cardinality(CountedBy(r)) < Limit
        BY DEF ResendsWithinLimit, CountedBy
    <2>1. r \in Calls /\ kind[r] = "resend" /\ createdAt[r] > 0
        BY DEF RecentResends, IInv, TypeOK, TableTypeOK
    <2> QED
        BY <2>1 DEF LimitKept
<1> QED
    BY <1>1, <1>2, LimitStep, Inductive, PTL DEF Spec

-----------------------------------------------------------------------------
(* Who is verified.                                                         *)

\* Of the handlers of this module only a verifyEmail that used up a code verifies
\* the account, and the code is one that a registration or a resend stored, whatever the
\* requests read before they were overtaken.  The callbacks that verify without a
\* code are in module OAuthAccounts.
VerifiedByCode ==
    isVerified => \E r \in Calls :
        /\ pc[r] = "done" /\ kind[r] = "verify"
        /\ target[r] \in Calls /\ createdAt[target[r]] > 0 /\ usedAt[target[r]]
        /\ kind[target[r]] \in {"register", "resend"}

\* Verified means that somebody redeemed a code, and rows belong to who issued them.
VerifiedBySomebody == isVerified => \E r \in Calls : pc[r] = "done" /\ kind[r] = "verify"
RowsOfIssuers == \A o \in Calls : createdAt[o] > 0 => kind[o] \in {"register", "resend"}

LEMMA VerifiedKept == IInv /\ VerifiedBySomebody /\ [Next]_vars => VerifiedBySomebody'
<1> SUFFICES ASSUME IInv, VerifiedBySomebody, [Next]_vars PROVE VerifiedBySomebody'
    OBVIOUS
<1>1. ASSUME NEW r \in Calls, MarkVerified(r) PROVE VerifiedBySomebody'
    BY <1>1 DEF MarkVerified, Goto, IInv, TypeOK, KindsOfSteps, VerifiedBySomebody
<1>2. \A q \in Calls : pc[q] = "done" => pc'[q] = "done" /\ kind'[q] = kind[q]
    BY DEF Next, Register, Resend, VerifyEmail, Arrive, CreateUser, Count, Issue, Store,
           Mail, Match, Redeem, RedeemLate, MarkVerified, TimePasses, HourPasses, Crash,
           vars, Goto, Running, IInv, TypeOK
<1>3. CASE UNCHANGED isVerified
    BY <1>2, <1>3 DEF VerifiedBySomebody
<1> QED
    BY <1>1, <1>3
       DEF Next, Register, Resend, VerifyEmail, Arrive, CreateUser, Count, Issue, Store,
           Mail, Match, Redeem, RedeemLate, TimePasses, HourPasses, Crash, vars, account

LEMMA IssuersKept == IInv /\ RowsOfIssuers /\ [Next]_vars => RowsOfIssuers'
<1> SUFFICES ASSUME IInv, RowsOfIssuers, [Next]_vars, NEW o \in Calls, createdAt'[o] > 0
             PROVE  kind'[o] \in {"register", "resend"}
    BY DEF RowsOfIssuers
<1>1. ASSUME NEW r \in Calls, Store(r) PROVE kind'[o] \in {"register", "resend"}
    BY <1>1 DEF Store, Insert, Goto, Issuing, IInv, TypeOK, TableTypeOK, KindsOfSteps, RowsOfIssuers
<1>2. CASE UNCHANGED <<createdAt, kind>>
    BY <1>2 DEF RowsOfIssuers
<1>3. ASSUME NEW r \in Calls, Register(r) \/ Resend(r) \/ VerifyEmail(r)
      PROVE  kind'[o] \in {"register", "resend"}
    <2>1. UNCHANGED createdAt
        BY <1>3 DEF Register, Resend, VerifyEmail, Arrive, table
    <2>2. o # r
        BY <1>3, <2>1 DEF Register, Resend, VerifyEmail, Arrive, Goto, IInv, RowsOfSteps
    <2>3. kind'[o] = kind[o]
        BY <1>3, <2>2 DEF Register, Resend, VerifyEmail, Arrive, IInv, TypeOK
    <2> QED
        BY <2>1, <2>3 DEF RowsOfIssuers
<1> QED
    BY <1>1, <1>2, <1>3
       DEF Next, CreateUser, Count, Issue, Invalidate, Mail, Match, Redeem, RedeemLate,
           MarkUsed, MarkVerified, TimePasses, Expire, HourPasses, Crash, vars, table

\* Without a callback nobody is verified but by a code that was issued for the account.
THEOREM CodeVerifies == Spec => []VerifiedByCode
<1>1. Init => VerifiedBySomebody /\ RowsOfIssuers
    BY DEF Init, TableInit, VerifiedBySomebody, RowsOfIssuers
<1>2. IInv /\ VerifiedBySomebody /\ RowsOfIssuers => VerifiedByCode
    <2> SUFFICES ASSUME IInv, VerifiedBySomebody, RowsOfIssuers, isVerified
                 PROVE  VerifiedByCode
        BY DEF VerifiedByCode
    <2>1. PICK r \in Calls : pc[r] = "done" /\ kind[r] = "verify"
        BY DEF VerifiedBySomebody
    <2>2. target[r] \in Calls /\ createdAt[target[r]] > 0 /\ usedAt[target[r]]
        BY <2>1 DEF Successful, IInv, TargetsAreRows, RowsUsedOnce
    <2> QED
        BY <2>1, <2>2 DEF VerifiedByCode, RowsOfIssuers
<1> QED
    BY <1>1, <1>2, VerifiedKept, IssuersKept, Inductive, PTL DEF Spec
=============================================================================
