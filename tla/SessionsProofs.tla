---------------------------- MODULE SessionsProofs ----------------------------
(* Proofs about Sessions, for any number of requests and passwords.         *)
EXTENDS Sessions, TLAPS

(***************************************************************************)
(* The inductive invariant.                                                *)
(*   CurrentWasAnswered  the stored hash is that of a request whose write  *)
(*                       is behind it: no request is still to store it;    *)
(*   PresentedWereHeld   the token of a refresh or logout was in a cookie, *)
(*                       so its own request is over;                       *)
(*   RotatedIsGone       a token that was traded is not the current one;   *)
(*   ResetSawOver        what was over at a reset is over for good;        *)
(*   OwnOrigin           only an answered refresh continues a session that *)
(*                       another request opened.                           *)
(***************************************************************************)
CurrentWasAnswered ==
    refreshTokenHash # None =>
        kind[refreshTokenHash] \in Minting /\ pc[refreshTokenHash] \in {"done", "lost"}

PresentedWereHeld ==
    \A r \in Requests :
        /\ pc[r] = "rotating" => kind[r] = "refresh"
        /\ pc[r] = "clearing" => kind[r] = "logout"
        /\ pc[r] = "issuing" => kind[r] \in Issuing
        /\ pc[r] = "verifying" => kind[r] \in Issuing
        /\ pc[r] # "new" /\ kind[r] \in {"refresh", "logout"} =>
              given[r] \in Requests /\ pc[given[r]] = "done"

RotatedIsGone ==
    \A t, r \in Requests : Rotated(r, t) => refreshTokenHash # t

ResetSawOver == \A r \in answeredAtReset : pc[r] \in Over

OwnOrigin == \A r \in Requests : pc[r] \notin Over => origin[r] = r

IInv ==
    /\ TypeOK
    /\ CurrentWasAnswered
    /\ PresentedWereHeld
    /\ RotatedIsGone
    /\ ResetSawOver
    /\ OwnOrigin

-----------------------------------------------------------------------------
LEMMA InitIInv == Init => IInv
BY DEF Init, IInv, TypeOK, CurrentWasAnswered, PresentedWereHeld, RotatedIsGone,
       Rotated, ResetSawOver, OwnOrigin, Steps

LEMMA NextIInv == IInv /\ [Next]_vars => IInv'
<1> SUFFICES ASSUME IInv, [Next]_vars PROVE IInv'
    OBVIOUS
<1> USE NoneIsNoValue
    DEF IInv, TypeOK, CurrentWasAnswered, PresentedWereHeld, RotatedIsGone, Rotated,
        ResetSawOver, OwnOrigin, Steps, Running, Over, Kinds, Minting, Issuing, Held, Begin,
        row, history, NoteWrite, Answer
<1>1. ASSUME NEW r \in Requests, OAuthLogin(r) PROVE IInv'
    BY <1>1 DEF OAuthLogin
<1>2. ASSUME NEW r \in Requests, NEW t \in Requests, Reissue(r, t) PROVE IInv'
    BY <1>2 DEF Reissue
<1>3. ASSUME NEW r \in Requests, VerifyEmail(r) PROVE IInv'
    BY <1>3 DEF VerifyEmail
<1>4. ASSUME NEW r \in Requests, MarkVerified(r) PROVE IInv'
    BY <1>4 DEF MarkVerified
<1>5. ASSUME NEW r \in Requests, Persist(r) PROVE IInv'
    BY <1>5 DEF Persist
<1>6. ASSUME NEW r \in Requests, Rotate(r) PROVE IInv'
    BY <1>6 DEF Rotate, StillCurrent
<1>7. ASSUME NEW r \in Requests, RotateConflict(r) PROVE IInv'
    BY <1>7 DEF RotateConflict
<1>8. ASSUME NEW r \in Requests, Clear(r) PROVE IInv'
    BY <1>8 DEF Clear
<1>9. ASSUME NEW r \in Requests, NEW p \in Passwords, Login(r, p) PROVE IInv'
    BY <1>9 DEF Login
<1>10. ASSUME NEW r \in Requests, NEW p \in Passwords, ResetRefused(r, p)
      PROVE  IInv'
    BY <1>10 DEF ResetRefused
<1>11. ASSUME NEW r \in Requests, NEW p \in Passwords, ResetPassword(r, p)
      PROVE  IInv'
    BY <1>11 DEF ResetPassword, RevokeSession
<1>12. ASSUME NEW r \in Requests, NEW t \in Requests, RefreshRead(r, t)
      PROVE  IInv'
    <2>1. CASE Begin(r, "refresh", t, "rotating")
        BY <1>12, <2>1 DEF RefreshRead, HashMatches
    <2>2. CASE Begin(r, "refresh", t, "failed")
        BY <1>12, <2>2 DEF RefreshRead, HashMatches
    <2> QED
        BY <1>12, <2>1, <2>2 DEF RefreshRead
<1>13. ASSUME NEW r \in Requests, NEW t \in Requests, LogoutRead(r, t)
      PROVE  IInv'
    BY <1>13 DEF LogoutRead, HashMatches
<1>14. CASE Crash
    BY <1>14 DEF Crash
<1>15. CASE UNCHANGED vars
    BY <1>15 DEF vars
<1> QED
    BY <1>1, <1>2, <1>3, <1>4, <1>5, <1>6, <1>7, <1>8, <1>9, <1>10, <1>11,
       <1>12, <1>13, <1>14, <1>15 DEF Next

THEOREM Inductive == Spec => []IInv
BY InitIInv, NextIInv, PTL DEF Spec

\* The account row and the request records keep their types under every handler.
THEOREM TypeCorrect == Spec => []TypeOK
<1>1. IInv => TypeOK
    BY DEF IInv
<1> QED
    BY <1>1, Inductive, PTL

-----------------------------------------------------------------------------
(* A request's record changes only in its own steps, and once it is over it *)
(* is over for good.                                                        *)
LEMMA OverIsFinal ==
    ASSUME IInv, [Next]_vars, NEW r \in Requests, pc[r] \in Over
    PROVE  pc'[r] = pc[r] /\ kind'[r] = kind[r] /\ given'[r] = given[r]
           /\ origin'[r] = origin[r]
<1> USE DEF IInv, TypeOK, Over, Running, Begin, row, history, Answer
<1>1. CASE Crash
    BY <1>1 DEF Crash
<1>2. CASE UNCHANGED vars
    BY <1>2 DEF vars
<1>3. ASSUME NEW q \in Requests,
             \/ OAuthLogin(q) \/ VerifyEmail(q) \/ MarkVerified(q)
             \/ Persist(q) \/ Rotate(q) \/ RotateConflict(q) \/ Clear(q)
      PROVE  pc'[r] = pc[r] /\ kind'[r] = kind[r] /\ given'[r] = given[r]
             /\ origin'[r] = origin[r]
    BY <1>3 DEF OAuthLogin, Reissue, VerifyEmail, MarkVerified, Persist, Rotate,
                RotateConflict, Clear
<1>4. ASSUME NEW q \in Requests, NEW p \in Passwords,
             Login(q, p) \/ ResetRefused(q, p) \/ ResetPassword(q, p)
      PROVE  pc'[r] = pc[r] /\ kind'[r] = kind[r] /\ given'[r] = given[r]
             /\ origin'[r] = origin[r]
    BY <1>4 DEF Login, ResetRefused, ResetPassword
<1>5. ASSUME NEW q \in Requests, NEW t \in Requests,
             RefreshRead(q, t) \/ LogoutRead(q, t) \/ Reissue(q, t)
      PROVE  pc'[r] = pc[r] /\ kind'[r] = kind[r] /\ given'[r] = given[r]
             /\ origin'[r] = origin[r]
    BY <1>5 DEF RefreshRead, LogoutRead, Reissue
<1> QED
    BY <1>1, <1>2, <1>3, <1>4, <1>5 DEF Next

\* Only Rotate answers a refresh with a new token, and it finds the presented
\* token current.
LEMMA NewRotation ==
    ASSUME IInv, [Next]_vars, NEW r \in Requests, NEW t \in Requests,
           Rotated(r, t)', ~Rotated(r, t)
    PROVE  Rotate(r) /\ refreshTokenHash = t
<1> USE DEF IInv, TypeOK, PresentedWereHeld, Rotated, Over, Running, Issuing, Begin,
            row, history, Answer
<1>1. CASE Crash
    BY <1>1 DEF Crash
<1>2. CASE UNCHANGED vars
    BY <1>2 DEF vars
<1>3. ASSUME NEW q \in Requests,
             \/ OAuthLogin(q) \/ VerifyEmail(q) \/ MarkVerified(q)
             \/ Persist(q) \/ RotateConflict(q) \/ Clear(q)
      PROVE  FALSE
    BY <1>3 DEF OAuthLogin, Reissue, VerifyEmail, MarkVerified, Persist,
                RotateConflict, Clear
<1>4. ASSUME NEW q \in Requests, NEW p \in Passwords,
             Login(q, p) \/ ResetRefused(q, p) \/ ResetPassword(q, p)
      PROVE  FALSE
    BY <1>4 DEF Login, ResetRefused, ResetPassword
<1>5. ASSUME NEW q \in Requests, NEW u \in Requests,
             RefreshRead(q, u) \/ LogoutRead(q, u) \/ Reissue(q, u)
      PROVE  FALSE
    BY <1>5 DEF RefreshRead, LogoutRead, Reissue
<1>6. ASSUME NEW q \in Requests, Rotate(q)
      PROVE  Rotate(r) /\ refreshTokenHash = t
    BY <1>6 DEF Rotate, StillCurrent
<1> QED
    BY <1>1, <1>2, <1>3, <1>4, <1>5, <1>6 DEF Next

\* However refresh requests interleave, a token is traded at most once: the
\* second trade would have to find current a token that RotatedIsGone says is
\* not.
THEOREM RotationIsExclusive == Spec => []TokenRotatedOnce
<1>1. Init => TokenRotatedOnce
    BY DEF Init, TokenRotatedOnce, Rotated
<1>2. IInv /\ TokenRotatedOnce /\ [Next]_vars => TokenRotatedOnce'
    <2> SUFFICES ASSUME IInv, TokenRotatedOnce, [Next]_vars,
                        NEW t \in Requests, NEW r \in Requests, NEW q \in Requests,
                        Rotated(r, t)', Rotated(q, t)'
                 PROVE  r = q
        BY DEF TokenRotatedOnce
    <2>1. CASE Rotated(r, t) /\ Rotated(q, t)
        BY <2>1 DEF TokenRotatedOnce
    <2>2. CASE ~Rotated(r, t) /\ Rotated(q, t)
        BY <2>2, NewRotation DEF IInv, RotatedIsGone
    <2>3. CASE Rotated(r, t) /\ ~Rotated(q, t)
        BY <2>3, NewRotation DEF IInv, RotatedIsGone
    <2>4. CASE ~Rotated(r, t) /\ ~Rotated(q, t)
        <3>1. Rotate(r) /\ Rotate(q)
            BY <2>4, NewRotation
        <3> QED
            BY <3>1, NoneIsNoValue DEF Rotate
    <2> QED
        BY <2>1, <2>2, <2>3, <2>4
<1> QED
    BY <1>1, <1>2, Inductive, PTL DEF Spec

-----------------------------------------------------------------------------
(* Four statements write the stored hash, and each names itself to the      *)
(* requests that are running.                                               *)
LEMMA HashWriters ==
    ASSUME IInv, [Next]_vars, refreshTokenHash' # refreshTokenHash
    PROVE  \E q \in Requests :
              /\ NoteWrite(q)
              /\ \/ Persist(q)
                 \/ Rotate(q)
                 \/ Clear(q)
                 \/ \E p \in Passwords : ResetPassword(q, p)
<1>1. CASE \E q \in Requests :
              Persist(q) \/ Rotate(q) \/ Clear(q)
              \/ \E p \in Passwords : ResetPassword(q, p)
    BY <1>1 DEF Persist, Rotate, Clear, ResetPassword
<1>2. ASSUME NEW q \in Requests,
             \/ OAuthLogin(q) \/ VerifyEmail(q) \/ MarkVerified(q)
             \/ RotateConflict(q)
      PROVE  FALSE
    BY <1>2 DEF OAuthLogin, Reissue, VerifyEmail, MarkVerified, RotateConflict, row
<1>3. ASSUME NEW q \in Requests, NEW p \in Passwords,
             Login(q, p) \/ ResetRefused(q, p)
      PROVE  FALSE
    BY <1>3 DEF Login, ResetRefused, row
<1>4. ASSUME NEW q \in Requests, NEW t \in Requests,
             RefreshRead(q, t) \/ LogoutRead(q, t) \/ Reissue(q, t)
      PROVE  FALSE
    BY <1>4 DEF RefreshRead, LogoutRead, Reissue, row
<1>5. CASE Crash \/ UNCHANGED vars
    BY <1>5 DEF Crash, vars, row
<1> QED
    BY <1>1, <1>2, <1>3, <1>4, <1>5 DEF Next

\* A session opened by a request that was answered before a reset stays ended:
\* the reset nulls the hash, a later login stores a token of its own session,
\* and a refresh that was in flight no longer finds the hash it compared with.
THEOREM ResetIsFinal == Spec => []ResetEndsAnsweredSessions
<1>1. Init => ResetEndsAnsweredSessions
    BY DEF Init, ResetEndsAnsweredSessions
<1>2. IInv /\ ResetEndsAnsweredSessions /\ [Next]_vars => ResetEndsAnsweredSessions'
    <2> SUFFICES ASSUME IInv, ResetEndsAnsweredSessions, [Next]_vars
                 PROVE  ResetEndsAnsweredSessions'
        OBVIOUS
    <2> USE NoneIsNoValue
    <2>1. ASSUME NEW q \in Requests, Persist(q)
          PROVE  ResetEndsAnsweredSessions'
        \* q is not over, so no reset has counted it, and it is its own origin.
        BY <2>1 DEF Persist, OwnOrigin, ResetSawOver, Over, IInv, TypeOK,
                    ResetEndsAnsweredSessions
    <2>2. ASSUME NEW q \in Requests, Rotate(q)
          PROVE  ResetEndsAnsweredSessions'
        \* q inherits the origin of the token that is still current.
        BY <2>2 DEF Rotate, StillCurrent, PresentedWereHeld, IInv, TypeOK,
                    ResetEndsAnsweredSessions
    <2>3. ASSUME NEW q \in Requests,
                 Clear(q) \/ \E p \in Passwords : ResetPassword(q, p)
          PROVE  ResetEndsAnsweredSessions'
        BY <2>3 DEF Clear, ResetPassword, RevokeSession, ResetEndsAnsweredSessions
    <2>4. ASSUME refreshTokenHash' = refreshTokenHash, refreshTokenHash # None
          PROVE  ResetEndsAnsweredSessions'
        \* The request whose hash is stored is over: its origin is settled.
        <3>1. origin'[refreshTokenHash] = origin[refreshTokenHash]
            BY <2>4, OverIsFinal DEF CurrentWasAnswered, Over, IInv, TypeOK
        <3>2. answeredAtReset' = answeredAtReset
            BY <2>4 DEF Next, vars, row, history, Crash, OAuthLogin, Reissue,
                VerifyEmail, MarkVerified, Persist, Rotate, RotateConflict, Clear,
                Login, ResetRefused, ResetPassword, RevokeSession, RefreshRead,
                LogoutRead
        <3> QED
            BY <2>4, <3>1, <3>2 DEF ResetEndsAnsweredSessions
    <2>5. CASE refreshTokenHash' # refreshTokenHash
        <3>1. PICK q \in Requests : \/ Persist(q) \/ Rotate(q) \/ Clear(q)
                                   \/ \E p \in Passwords : ResetPassword(q, p)
            BY <2>5, HashWriters
        <3> QED
            BY <2>1, <2>2, <2>3, <3>1
    <2>6. CASE refreshTokenHash' = None
        BY <2>6 DEF ResetEndsAnsweredSessions
    <2> QED
        BY <2>4, <2>5, <2>6
<1> QED
    BY <1>1, <1>2, Inductive, PTL DEF Spec

-----------------------------------------------------------------------------
(* A running refresh or logout stays where it is, with its token, until its *)
(* own step, a crash included; and it starts from a matching token.         *)
LEMMA StillRunning ==
    ASSUME IInv, [Next]_vars, NEW r \in Requests,
           pc'[r] \in {"rotating", "clearing"}
    PROVE  \/ pc[r] = pc'[r] /\ given'[r] = given[r]
              /\ overlap[r] \subseteq overlap'[r]
           \/ refreshTokenHash' = given'[r]
<1> USE DEF IInv, TypeOK, Begin, row, history, Answer, NoteWrite
<1>1. ASSUME NEW q \in Requests,
             \/ OAuthLogin(q) \/ VerifyEmail(q) \/ MarkVerified(q)
             \/ Persist(q) \/ Rotate(q) \/ RotateConflict(q) \/ Clear(q)
      PROVE  pc[r] = pc'[r] /\ given'[r] = given[r] /\ overlap[r] \subseteq overlap'[r]
    BY <1>1 DEF OAuthLogin, Reissue, VerifyEmail, MarkVerified, Persist, Rotate,
                RotateConflict, Clear
<1>2. ASSUME NEW q \in Requests, NEW p \in Passwords,
             Login(q, p) \/ ResetRefused(q, p) \/ ResetPassword(q, p)
      PROVE  pc[r] = pc'[r] /\ given'[r] = given[r] /\ overlap[r] \subseteq overlap'[r]
    BY <1>2 DEF Login, ResetRefused, ResetPassword
<1>3. ASSUME NEW q \in Requests, NEW t \in Requests,
             RefreshRead(q, t) \/ LogoutRead(q, t) \/ Reissue(q, t)
      PROVE  \/ pc[r] = pc'[r] /\ given'[r] = given[r]
                /\ overlap[r] \subseteq overlap'[r]
             \/ refreshTokenHash' = given'[r]
    BY <1>3 DEF RefreshRead, LogoutRead, Reissue, HashMatches
<1>4. CASE Crash
    BY <1>4 DEF Crash, Running
<1>5. CASE UNCHANGED vars
    BY <1>5 DEF vars
<1> QED
    BY <1>1, <1>2, <1>3, <1>4, <1>5 DEF Next

\* A refresh is refused after its comparison, and a logout ends a session it was
\* not sent for, only when another request wrote the row while it ran.
THEOREM NoSpuriousConflict == Spec => []OnlyOverlapDisturbs
<1>1. Init => OnlyOverlapDisturbs
    BY DEF Init, OnlyOverlapDisturbs
<1>2. IInv /\ OnlyOverlapDisturbs /\ [Next]_vars => OnlyOverlapDisturbs'
    <2> SUFFICES ASSUME IInv, OnlyOverlapDisturbs, [Next]_vars, NEW r \in Requests,
                        pc'[r] \in {"rotating", "clearing"},
                        refreshTokenHash' # given'[r]
                 PROVE  /\ overlap'[r] # {}
                        /\ refreshTokenHash' # None => refreshTokenHash' \in overlap'[r]
        BY DEF OnlyOverlapDisturbs
    <2>1. /\ pc[r] = pc'[r] /\ given'[r] = given[r]
          /\ overlap[r] \subseteq overlap'[r]
        BY StillRunning
    <2>2. CASE refreshTokenHash' = refreshTokenHash
        BY <2>1, <2>2 DEF OnlyOverlapDisturbs
    <2>3. CASE refreshTokenHash' # refreshTokenHash
        <3>1. PICK q \in Requests :
                 /\ NoteWrite(q)
                 /\ \/ Persist(q) \/ Rotate(q) \/ Clear(q)
                    \/ \E p \in Passwords : ResetPassword(q, p)
            BY <2>3, HashWriters
        <3>2. q # r /\ refreshTokenHash' \in {q, None}
            BY <2>1, <3>1 DEF Persist, Rotate, Clear, ResetPassword, RevokeSession,
                              Begin, Answer, IInv, TypeOK
        <3>3. q \in overlap'[r]
            BY <2>1, <3>1, <3>2 DEF NoteWrite, Running, IInv, TypeOK
        <3> QED
            BY <3>2, <3>3
    <2> QED
        BY <2>2, <2>3
<1> QED
    BY <1>1, <1>2, Inductive, PTL DEF Spec

-----------------------------------------------------------------------------
(* The handlers implement SessionRegister.                                  *)

\* Minted tokens stay minted, and only Persist and Rotate mint one.
LEMMA MintStep ==
    ASSUME IInv, [Next]_vars
    PROVE  /\ Minted \subseteq Minted'
           /\ \A t \in Minted' \ Minted : Persist(t) \/ Rotate(t)
<1>1. Minted \subseteq Minted'
    BY OverIsFinal DEF Minted, Over
<1>2. ASSUME NEW t \in Requests, t \in Minted', t \notin Minted
      PROVE  Persist(t) \/ Rotate(t)
    <2> USE DEF IInv, TypeOK, PresentedWereHeld, Begin, Answer, row, history, Minted,
                Minting, Issuing, Over, Running
    <2>1. ASSUME NEW q \in Requests,
                 \/ OAuthLogin(q) \/ VerifyEmail(q) \/ MarkVerified(q)
                 \/ RotateConflict(q) \/ Clear(q)
          PROVE  FALSE
        BY <1>2, <2>1 DEF OAuthLogin, Reissue, VerifyEmail, MarkVerified,
                          RotateConflict, Clear
    <2>2. ASSUME NEW q \in Requests, Persist(q) \/ Rotate(q)
          PROVE  q = t
        BY <1>2, <2>2 DEF Persist, Rotate
    <2>3. ASSUME NEW q \in Requests, NEW p \in Passwords,
                 Login(q, p) \/ ResetRefused(q, p) \/ ResetPassword(q, p)
          PROVE  FALSE
        BY <1>2, <2>3 DEF Login, ResetRefused, ResetPassword
    <2>4. ASSUME NEW q \in Requests, NEW u \in Requests,
                 RefreshRead(q, u) \/ LogoutRead(q, u) \/ Reissue(q, u)
          PROVE  FALSE
        BY <1>2, <2>4 DEF RefreshRead, LogoutRead, Reissue
    <2>5. CASE Crash
        BY <1>2, <2>5 DEF Crash
    <2>6. CASE UNCHANGED vars
        BY <1>2, <2>6 DEF vars
    <2> QED
        BY <2>1, <2>2, <2>3, <2>4, <2>5, <2>6 DEF Next
<1> QED
    BY <1>1, <1>2 DEF Minted

\* What was traded stays traded for the same token.
LEMMA RotatedStays ==
    ASSUME IInv, [Next]_vars, NEW r \in Requests, NEW t \in Requests, Rotated(r, t)
    PROVE  Rotated(r, t)'
BY OverIsFinal DEF Rotated, Over

\* A step in which nobody rotates leaves every heir what it was.
LEMMA HeirsStay ==
    ASSUME IInv, [Next]_vars, NEW t \in Requests,
           \A r \in Requests : Rotate(r) => t # refreshTokenHash
    PROVE  HeirOf(t)' = HeirOf(t)
<1>1. \A r \in Requests : Rotated(r, t)' <=> Rotated(r, t)
    BY NewRotation, RotatedStays
<1> QED
    BY <1>1 DEF HeirOf, Rotated

LEMMA OpenStep ==
    ASSUME IInv, [Next]_vars, NEW q \in Requests, Persist(q)
    PROVE  Register!Open(q)
<1> USE NoneIsNoValue DEF IInv, TypeOK, CurrentWasAnswered, PresentedWereHeld
<1>1. q \notin Minted /\ q # refreshTokenHash /\ refreshTokenHash' = q
    BY DEF Persist, Minted
<1>2. Minted' = Minted \union {q}
    <2>1. q \in Minted'
        BY DEF Persist, Minted, Answer, Minting
    <2>2. \A t \in Requests : t # q => ~Persist(t) /\ ~Rotate(t)
        BY DEF Persist, Rotate
    <2> QED
        BY <2>1, <2>2, MintStep DEF Minted
<1>3. None \notin Minted /\ (refreshTokenHash # None => refreshTokenHash \in Minted)
    BY DEF Minted
<1>4. \A t \in Requests : HeirOf(t)' = HeirOf(t)
    <2>1. \A r \in Requests : ~Rotate(r)
        BY DEF Persist, Rotate
    <2> QED
        BY <2>1, HeirsStay
<1>5. Register!Fresh(q)
    BY <1>1 DEF Register!Fresh
<1>6. Register!Retire
    BY <1>1, <1>2, <1>3 DEF Register!Retire
<1>7. [t \in Requests |-> HeirOf(t)]' = [t \in Requests |-> HeirOf(t)]
    BY <1>4
<1> QED
    BY <1>1, <1>5, <1>6, <1>7 DEF Register!Open

LEMMA TradeStep ==
    ASSUME IInv, TokenRotatedOnce', [Next]_vars, NEW q \in Requests, Rotate(q)
    PROVE  Register!Trade(q)
<1> USE NoneIsNoValue DEF IInv, TypeOK, CurrentWasAnswered, PresentedWereHeld
<1>1. /\ q \notin Minted /\ q # refreshTokenHash /\ refreshTokenHash' = q
      /\ refreshTokenHash \in Requests /\ refreshTokenHash = given[q]
    BY DEF Rotate, StillCurrent, Minted
<1> PICK old \in Requests : old = refreshTokenHash
    BY <1>1
<1>2. Minted' = Minted \union {q}
    <2>1. q \in Minted'
        BY DEF Rotate, Minted, Answer, Minting
    <2>2. \A t \in Requests : t # q => ~Persist(t) /\ ~Rotate(t)
        BY DEF Persist, Rotate
    <2> QED
        BY <2>1, <2>2, MintStep DEF Minted
<1>3. None \notin Minted /\ old \in Minted
    BY <1>1 DEF Minted
<1>4. \A t \in Requests : t # old => HeirOf(t)' = HeirOf(t)
    BY HeirsStay
<1>5. HeirOf(old)' = q
    \* q is the only request that traded the token, so CHOOSE finds it.
    <2>1. Rotated(q, old)'
        BY <1>1 DEF Rotate, Rotated, Answer
    <2>2. \A r \in Requests : Rotated(r, old)' => r = q
        BY <1>1, <2>1 DEF TokenRotatedOnce
    <2> QED
        BY <1>1, <2>1, <2>2 DEF HeirOf
<1>6. Register!Fresh(q)
    BY <1>1 DEF Register!Fresh
<1>7. Register!Retire
    BY <1>1, <1>2, <1>3 DEF Register!Retire
<1>8. [t \in Requests |-> HeirOf(t)]' =
      [[t \in Requests |-> HeirOf(t)] EXCEPT ![old] = q]
    BY <1>1, <1>4, <1>5
<1> QED
    BY <1>1, <1>6, <1>7, <1>8 DEF Register!Trade

\* A logout or a reset that finds a hash revokes it.
LEMMA RevokeStep ==
    ASSUME IInv, [Next]_vars, NEW q \in Requests,
           Clear(q) \/ \E p \in Passwords : ResetPassword(q, p),
           refreshTokenHash # None
    PROVE  Register!Revoke
<1> USE NoneIsNoValue DEF IInv, TypeOK, CurrentWasAnswered
<1>1. \A t \in Requests : ~Persist(t) /\ ~Rotate(t)
    BY DEF Clear, ResetPassword, RevokeSession, Persist, Rotate
<1>2. Minted' = Minted
    BY <1>1, MintStep DEF Minted
<1>3. None \notin Minted /\ refreshTokenHash \in Minted /\ refreshTokenHash' = None
    BY DEF Minted, Clear, ResetPassword, RevokeSession
<1>4. \A t \in Requests : HeirOf(t)' = HeirOf(t)
    BY <1>1, HeirsStay
<1>5. Register!Retire
    BY <1>2, <1>3 DEF Register!Retire
<1> QED
    BY <1>3, <1>4, <1>5 DEF Register!Revoke

\* A step that leaves the hash alone leaves the register alone.
LEMMA RegisterStutters ==
    ASSUME IInv, [Next]_vars, refreshTokenHash' = refreshTokenHash
    PROVE  UNCHANGED Register!vars
<1>1. \A t \in Requests : ~Persist(t) /\ ~Rotate(t)
    BY NoneIsNoValue DEF Persist, Rotate, IInv, TypeOK, CurrentWasAnswered
<1>2. Minted' = Minted
    BY <1>1, MintStep DEF Minted
<1>3. \A t \in Requests : HeirOf(t)' = HeirOf(t)
    BY <1>1, HeirsStay
<1> QED
    BY <1>2, <1>3 DEF Register!vars

\* For any number of requests, the handlers implement the register: a refresh
\* trades exactly the current token, each token has at most one heir, and what
\* stopped being current never comes back.
THEOREM SessionsImplementRegister == Spec => ImplementsRegister
<1>1. Init => Register!Init
    BY NoneIsNoValue DEF Init, Register!Init, Minted, HeirOf, Rotated
<1>2. IInv /\ TokenRotatedOnce' /\ [Next]_vars => [Register!Next]_(Register!vars)
    <2> SUFFICES ASSUME IInv, TokenRotatedOnce', [Next]_vars
                 PROVE  [Register!Next]_(Register!vars)
        OBVIOUS
    <2>1. CASE refreshTokenHash' = refreshTokenHash
        BY <2>1, RegisterStutters
    <2>2. CASE refreshTokenHash' # refreshTokenHash
        <3>1. PICK q \in Requests : \/ Persist(q) \/ Rotate(q) \/ Clear(q)
                                   \/ \E p \in Passwords : ResetPassword(q, p)
            BY <2>2, HashWriters
        <3>2. CASE Persist(q)
            BY <3>2, OpenStep DEF Register!Next
        <3>3. CASE Rotate(q)
            BY <3>3, TradeStep DEF Register!Next
        <3>4. CASE Clear(q) \/ \E p \in Passwords : ResetPassword(q, p)
            <4>1. refreshTokenHash # None
                BY <2>2, <3>4 DEF Clear, ResetPassword, RevokeSession
            <4> QED
                BY <3>4, <4>1, RevokeStep DEF Register!Next
        <3> QED
            BY <3>1, <3>2, <3>3, <3>4
    <2> QED
        BY <2>1, <2>2
<1> QED
    BY <1>1, <1>2, Inductive, RotationIsExclusive, PTL
    DEF Spec, ImplementsRegister, Register!Spec
=============================================================================
