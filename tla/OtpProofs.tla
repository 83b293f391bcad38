------------------------------ MODULE OtpProofs ------------------------------
(* Proofs about Otp, for any number of calls and codes.                     *)
EXTENDS Otp, TLAPS

(***************************************************************************)
(* The inductive invariant.                                                *)
(*   MomentsPassed      no timestamp is ahead of the clock;                *)
(*   RowsOfIssue        a row is inserted by a call of issue, once, unused; *)
(*   TargetsAreRows     what a consume compared with is a row;             *)
(*   RedeemedIsUsed     a redeemed row has used_at set;                    *)
(*   RedeemedOnce       two redeeming calls have different rows.           *)
(***************************************************************************)
MomentsPassed ==
    /\ horizon <= clock
    /\ \A o \in Calls : expiresAt[o] <= clock /\ createdAt[o] <= clock

RowsOfIssue ==
    \A o \in Calls :
        /\ createdAt[o] > 0 => pc[o] = "issued"
        /\ usedAt[o] => createdAt[o] > 0
        /\ pc[o] = "new" => expiresAt[o] = 0

TargetsAreRows ==
    \A c \in Calls : pc[c] \in {"matched", "redeemed"} =>
        target[c] \in Calls /\ createdAt[target[c]] > 0

RedeemedIsUsed == \A c \in Calls : pc[c] = "redeemed" => usedAt[target[c]]

IInv ==
    /\ TypeOK
    /\ MomentsPassed
    /\ RowsOfIssue
    /\ TargetsAreRows
    /\ RedeemedIsUsed
    /\ RedeemedOnce

LEMMA InitIInv == Init => IInv
BY DEF Init, TableInit, IInv, TypeOK, TableTypeOK, Running, Over, MomentsPassed,
       RowsOfIssue, TargetsAreRows, RedeemedIsUsed, RedeemedOnce

LEMMA NextIInv == IInv /\ [Next]_vars => IInv'
<1> SUFFICES ASSUME IInv, [Next]_vars PROVE IInv'
    OBVIOUS
<1> USE NoneIsNoValue
    DEF IInv, TypeOK, TableTypeOK, Running, Over, MomentsPassed, RowsOfIssue,
        TargetsAreRows, RedeemedIsUsed, RedeemedOnce, Goto, table, Tick
<1>1. ASSUME NEW i \in Calls, NEW x \in Codes, Issue(i, x) PROVE IInv'
    BY <1>1 DEF Issue, Invalidate, VoidActive, Active
<1>2. ASSUME NEW i \in Calls, Store(i) PROVE IInv'
    BY <1>2 DEF Store, Insert
<1>3. ASSUME NEW c \in Calls, NEW x \in Codes, Match(c, x) \/ Verify(c, x)
      PROVE  IInv'
    BY <1>3 DEF Match, Verify, Latest, Active
<1>4. ASSUME NEW c \in Calls, NEW x \in Codes, Refuse(c, x) PROVE IInv'
    BY <1>4 DEF Refuse
<1>5. ASSUME NEW c \in Calls, Redeem(c) PROVE IInv'
    BY <1>5 DEF Redeem, Unused, MarkUsed
<1>6. ASSUME NEW c \in Calls, RedeemLate(c) PROVE IInv'
    BY <1>6 DEF RedeemLate
<1>7. CASE Expire /\ UNCHANGED <<pc, target>>
    BY <1>7 DEF Expire
<1>8. CASE Crash
    BY <1>8 DEF Crash
<1>9. CASE UNCHANGED vars
    BY <1>9 DEF vars
<1> QED
    BY <1>1, <1>2, <1>3, <1>4, <1>5, <1>6, <1>7, <1>8, <1>9 DEF Next

THEOREM Inductive == Spec => []IInv
BY InitIInv, NextIInv, PTL DEF Spec

\* The rows and the calls keep their types.
THEOREM TypeCorrect == Spec => []TypeOK
<1>1. IInv => TypeOK
    BY DEF IInv
<1> QED
    BY <1>1, Inductive, PTL

\* A code is redeemed by at most one call, however many present it at once.
THEOREM SingleUse == Spec => []RedeemedOnce
<1>1. IInv => RedeemedOnce
    BY DEF IInv
<1> QED
    BY <1>1, Inductive, PTL

-----------------------------------------------------------------------------
\* Two codes are active at once only if their calls of issue overlapped.
THEOREM OverlapOnly == Spec => []ActiveIsUnsuperseded
<1>1. Init => ActiveIsUnsuperseded
    BY DEF Init, TableInit, ActiveIsUnsuperseded, Active
<1>2. IInv /\ ActiveIsUnsuperseded /\ [Next]_vars => ActiveIsUnsuperseded'
    <2> SUFFICES ASSUME IInv, ActiveIsUnsuperseded, [Next]_vars
                 PROVE  ActiveIsUnsuperseded'
        OBVIOUS
    <2> USE DEF IInv, TypeOK, TableTypeOK, MomentsPassed, ActiveIsUnsuperseded, Active,
                Expired, Tick, table
    <2>1. ASSUME NEW i \in Calls, NEW x \in Codes, Issue(i, x)
          PROVE  ActiveIsUnsuperseded'
        \* Everything active is voided, and row i is not inserted yet.
        BY <2>1 DEF Issue, Invalidate, VoidActive, RowsOfIssue, Goto
    <2>2. ASSUME NEW i \in Calls, Store(i) PROVE ActiveIsUnsuperseded'
        \* The row is newer than every moment that passed.
        BY <2>2 DEF Store, Insert
    <2>3. ASSUME NEW c \in Calls, Redeem(c) PROVE ActiveIsUnsuperseded'
        BY <2>3 DEF Redeem, MarkUsed
    <2>4. CASE Expire
        BY <2>4 DEF Expire
    <2>5. ASSUME UNCHANGED table PROVE ActiveIsUnsuperseded'
        BY <2>5
    <2> QED
        BY <2>1, <2>2, <2>3, <2>4, <2>5 DEF Next, Match, Refuse, Verify, RedeemLate,
           Crash, vars
<1> QED
    BY <1>1, <1>2, Inductive, PTL DEF Spec

\* A superseded code is refused even by a consume that had already read it,
\* unless the code ran out between the read and the UPDATE.
THEOREM SupersededStaysRefused == Spec => SupersededIsRefused
<1> DEFINE Step == \A c \in Calls :
          pc[c] = "matched" /\ pc'[c] = "redeemed" =>
              \/ Expired(target[c])
              \/ \A i \in Calls : expiresAt[i] < createdAt[target[c]]
<1>1. IInv /\ ActiveIsUnsuperseded /\ [Next]_vars => [Step]_vars
    <2> SUFFICES ASSUME IInv, ActiveIsUnsuperseded, [Next]_vars, NEW c \in Calls,
                        pc[c] = "matched", pc'[c] = "redeemed"
                 PROVE  \/ Expired(target[c])
                        \/ \A i \in Calls : expiresAt[i] < createdAt[target[c]]
        OBVIOUS
    <2>1. Redeem(c)
        BY DEF Next, vars, Issue, Store, Match, Refuse, Verify, Redeem, RedeemLate,
               Crash, Goto, Running, IInv, TypeOK
    <2>2. target[c] \in Calls /\ createdAt[target[c]] > 0 /\ ~usedAt[target[c]]
        BY <2>1 DEF Redeem, Unused, IInv, TargetsAreRows
    <2> QED
        BY <2>2 DEF ActiveIsUnsuperseded, Active
<1> QED
    BY <1>1, Inductive, OverlapOnly, PTL DEF Spec, SupersededIsRefused

-----------------------------------------------------------------------------
(* The services implement OneTimeCode.                                      *)

\* Only Redeem gives a row a redeemer, and no row loses it.
LEMMA RedeemersStay ==
    ASSUME IInv, [Next]_vars, NEW o \in Calls, NEW d \in Calls,
           ~(IsRedeemer(d, o)' <=> IsRedeemer(d, o))
    PROVE  Redeem(d) /\ target[d] = o
<1> USE DEF IInv, TypeOK, IsRedeemer, Goto, Running
<1>1. ASSUME NEW c \in Calls, NEW x \in Codes,
             Issue(c, x) \/ Match(c, x) \/ Refuse(c, x) \/ Verify(c, x)
      PROVE  FALSE
    BY <1>1 DEF Issue, Match, Refuse, Verify
<1>2. ASSUME NEW c \in Calls, Store(c) \/ RedeemLate(c)
      PROVE  FALSE
    BY <1>2 DEF Store, RedeemLate
<1>3. ASSUME NEW c \in Calls, Redeem(c)
      PROVE  Redeem(d) /\ target[d] = o
    BY <1>3 DEF Redeem
<1>4. CASE Crash \/ UNCHANGED <<pc, target>>
    BY <1>4 DEF Crash
<1> QED
    BY <1>1, <1>2, <1>3, <1>4 DEF Next, vars

\* In a step that redeems nothing the redeemers are what they were.
LEMMA NoRedeemer ==
    ASSUME IInv, [Next]_vars, \A d \in Calls : ~Redeem(d)
    PROVE  [o \in Calls |-> RedeemerOf(o)]' = [o \in Calls |-> RedeemerOf(o)]
<1>1. \A o, d \in Calls : IsRedeemer(d, o)' <=> IsRedeemer(d, o)
    BY RedeemersStay DEF IsRedeemer
<1>2. \A o \in Calls : RedeemerOf(o)' = RedeemerOf(o)
    BY <1>1 DEF RedeemerOf
<1> QED
    BY <1>2

\* A step of Redeem redeems its row, and leaves the redeemers of other rows alone.
LEMMA RedeemStep ==
    ASSUME IInv, IInv', [Next]_vars, NEW c \in Calls, Redeem(c)
    PROVE  Promise!Redeem(target[c], c)
<1> PICK t \in Calls : t = target[c]
    BY DEF IInv, TargetsAreRows, Redeem, Goto
<1>1. \A d \in Calls : Redeem(d) => d = c
    BY DEF Redeem, Goto, IInv, TypeOK
<1>2. createdAt[t] > 0 /\ ~usedAt[t]
    BY DEF Redeem, Goto, Unused, IInv, TargetsAreRows
<1>3. \A o \in Calls : o # t => RedeemerOf(o)' = RedeemerOf(o)
    <2>1. \A o, d \in Calls : o # t => (IsRedeemer(d, o)' <=> IsRedeemer(d, o))
        BY <1>1, RedeemersStay DEF IsRedeemer
    <2> QED
        BY <2>1 DEF RedeemerOf
<1>4. RedeemerOf(t)' = c
    \* No other call redeems t, so CHOOSE finds c.
    <2>1. IsRedeemer(c, t)'
        BY DEF Redeem, Goto, IsRedeemer, IInv, TypeOK
    <2>2. \A d \in Calls : IsRedeemer(d, t)' => d = c
        BY <2>1 DEF IInv, RedeemedOnce, IsRedeemer
    <2> QED
        BY <2>1, <2>2 DEF RedeemerOf
<1>5. [o \in Calls |-> RedeemerOf(o)]' =
      [[o \in Calls |-> RedeemerOf(o)] EXCEPT ![t] = c]
    BY <1>3, <1>4
<1>6. {o \in Calls : createdAt[o] > 0 /\ ~usedAt[o]}' =
      {o \in Calls : createdAt[o] > 0 /\ ~usedAt[o]} \ {t}
    BY DEF Redeem, MarkUsed, IInv, TypeOK, TableTypeOK
<1>7. UNCHANGED {o \in Calls : createdAt[o] > 0}
    BY DEF Redeem, MarkUsed
<1> QED
    BY <1>2, <1>5, <1>6, <1>7 DEF Promise!Redeem

\* For any number of calls, a code goes live once and is then redeemed by one
\* call or voided, for good.
THEOREM OtpImplementsOneTimeCode == Spec => ImplementsOneTimeCode
<1>1. Init => Promise!Init
    BY DEF Init, TableInit, Promise!Init, RedeemerOf, IsRedeemer
<1>2. IInv /\ IInv' /\ [Next]_vars => [Promise!Next]_(Promise!vars)
    <2> SUFFICES ASSUME IInv, IInv', [Next]_vars
                 PROVE  [Promise!Next]_(Promise!vars)
        OBVIOUS
    <2> DEFINE Sent == {o \in Calls : createdAt[o] > 0}
               Live == {o \in Calls : createdAt[o] > 0 /\ ~usedAt[o]}
    <2>1. ASSUME NEW i \in Calls, NEW x \in Codes, Issue(i, x)
          PROVE  Promise!Next
        <3>1. Sent' = Sent /\ Live' = Live \ {o \in Calls : Active(o)}
            BY <2>1 DEF Issue, Invalidate, VoidActive, IInv, TypeOK, TableTypeOK
        <3>2. {o \in Calls : Active(o)} \in SUBSET Live
            BY DEF Active
        <3>3. \A d \in Calls : ~Redeem(d)
            BY <2>1 DEF Issue, Redeem, Goto, IInv, TypeOK
        <3> QED
            BY <3>1, <3>2, <3>3, NoRedeemer DEF Promise!Next, Promise!Void
    <2>2. ASSUME NEW i \in Calls, Store(i)
          PROVE  Promise!Next
        <3>1. createdAt[i] = 0 /\ usedAt[i] = FALSE
            BY <2>2 DEF Store, Goto, IInv, TypeOK, TableTypeOK, RowsOfIssue
        <3>2. Sent' = Sent \union {i} /\ Live' = Live \union {i} /\ i \notin Sent
            BY <2>2, <3>1 DEF Store, Insert, IInv, TypeOK, TableTypeOK
        <3>3. \A d \in Calls : ~Redeem(d)
            BY <2>2 DEF Store, Redeem, Goto, IInv, TypeOK
        <3> QED
            BY <3>2, <3>3, NoRedeemer DEF Promise!Next, Promise!Send
    <2>3. ASSUME NEW c \in Calls, Redeem(c)
          PROVE  Promise!Next
        BY <2>3, RedeemStep DEF Promise!Next, Redeem, Goto, IInv, TargetsAreRows
    <2>4. ASSUME \A c \in Calls : ~Redeem(c), UNCHANGED <<createdAt, usedAt>>
          PROVE  UNCHANGED Promise!vars
        BY <2>4, NoRedeemer DEF Promise!vars
    <2>5. CASE \E c \in Calls :
                  RedeemLate(c) \/ \E x \in Codes : Match(c, x) \/ Refuse(c, x)
                                                    \/ Verify(c, x)
        <3>1. \A d \in Calls : ~Redeem(d)
            BY <2>5 DEF Redeem, RedeemLate, Match, Refuse, Verify, Goto, IInv, TypeOK
        <3> QED
            BY <2>4, <2>5, <3>1 DEF RedeemLate, Match, Refuse, Verify, table
    <2>6. CASE Crash \/ (Expire /\ UNCHANGED <<pc, target>>) \/ UNCHANGED vars
        <3>1. \A d \in Calls : ~Redeem(d)
            BY <2>6 DEF Redeem, Crash, Goto, vars, IInv, TypeOK
        <3> QED
            BY <2>4, <2>6, <3>1 DEF Crash, Expire, vars, table
    <2> QED
        BY <2>1, <2>2, <2>3, <2>5, <2>6 DEF Next
<1> QED
    BY <1>1, <1>2, Inductive, PTL DEF Spec, ImplementsOneTimeCode, Promise!Spec
=============================================================================
