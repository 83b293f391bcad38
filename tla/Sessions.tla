------------------------------- MODULE Sessions -------------------------------
(***************************************************************************)
(* The refresh-token session of one account, as AuthService keeps it in    *)
(* the users row: the single column refresh_token_hash, the password and   *)
(* is_verified.  Several HTTP requests run at once in the Node process;    *)
(* one of them gives way to the others at every await, so each action      *)
(* below is what a handler does between two database statements.  Every    *)
(* statement addresses the row by the user's id: requests for other        *)
(* accounts touch other rows and are left out.                             *)
(*                                                                         *)
(* signTokens puts a randomUUID in every refresh token and argon2 salts    *)
(* every hash, so a token and its hash are named by the request that       *)
(* minted them: refreshTokenHash = r says that the column holds the hash   *)
(* of the token request r signed.                                          *)
(***************************************************************************)
EXTENDS Naturals

CONSTANTS
    Requests,   \* the HTTP requests of the account; each also names its token
    Passwords,  \* the passwords that login and reset requests carry
    None        \* SQL NULL, and "nothing" in the request records

ASSUME NoneIsNoValue == None \notin Requests /\ None \notin Passwords

VARIABLES
    password,          \* users.password, None for an OAuth-only account
    isVerified,        \* users.is_verified
    refreshTokenHash,  \* users.refresh_token_hash
    pc,                \* where each request stands
    kind,              \* which handler it runs
    given,             \* the password, or the session by its token, that it carries
    origin,            \* history: the request whose login opened the session
    overlap,           \* history: the requests that wrote while it ran
    answeredAtReset    \* history: the requests over when a reset was written

row == <<password, isVerified, refreshTokenHash>>
history == <<origin, overlap, answeredAtReset>>
vars == <<row, pc, kind, given, history>>

Issuing == {"login", "oauth", "reissue", "verify"}
Minting == Issuing \union {"refresh"}
Kinds == Minting \union {"logout", "reset"}

Running == {"verifying",  \* next: MarkVerified
            "issuing",    \* next: Persist
            "rotating",   \* next: Rotate or RotateConflict
            "clearing"}   \* next: Clear
Over == {"done",          \* answered with success, the client has its cookies
         "lost",          \* written, but the answer never reached the client
         "failed"}        \* answered with an error, or cut off by a crash
Steps == {"new"} \union Running \union Over

TypeOK ==
    /\ password \in Passwords \union {None}
    /\ isVerified \in BOOLEAN
    /\ refreshTokenHash \in Requests \union {None}
    /\ pc \in [Requests -> Steps]
    /\ kind \in [Requests -> Kinds \union {None}]
    /\ given \in [Requests -> Passwords \union Requests \union {None}]
    /\ origin \in [Requests -> Requests]
    /\ overlap \in [Requests -> SUBSET Requests]
    /\ answeredAtReset \subseteq Requests

(***************************************************************************)
(* An account that signed up with a password starts unverified or has been *)
(* verified since; one that came in through OAuth has no password and is   *)
(* verified.                                                               *)
(***************************************************************************)
Init ==
    /\ password \in Passwords \union {None}
    /\ isVerified \in BOOLEAN
    /\ password = None => isVerified
    /\ refreshTokenHash = None
    /\ pc = [r \in Requests |-> "new"]
    /\ kind = [r \in Requests |-> None]
    /\ given = [r \in Requests |-> None]
    /\ origin = [r \in Requests |-> r]
    /\ overlap = [r \in Requests |-> {}]
    /\ answeredAtReset = {}

-----------------------------------------------------------------------------
\* The refresh tokens that clients were given in a cookie.
Held == {t \in Requests : pc[t] = "done" /\ kind[t] \in Minting}

\* Request r arrives, runs handler k up to its first write and stands at step s.
Begin(r, k, x, s) ==
    /\ pc[r] = "new"
    /\ pc' = [pc EXCEPT ![r] = s]
    /\ kind' = [kind EXCEPT ![r] = k]
    /\ given' = [given EXCEPT ![r] = x]

\* Request r's write to the row is seen by every request that is running.
NoteWrite(r) ==
    overlap' = [q \in Requests |->
                   IF pc[q] \in Running /\ q # r
                   THEN overlap[q] \union {r} ELSE overlap[q]]

\* r's last statement is committed; its answer reaches the client or is lost.
Answer(r) == \E s \in {"done", "lost"} : pc' = [pc EXCEPT ![r] = s]

-----------------------------------------------------------------------------
(* Handlers that open a session.                                            *)

\* argon2.verify of the submitted password against the hash just read.
PasswordMatches(p) == password # None /\ password = p

\* login: read the row, refuse, or go on to sign and hash a token.
Login(r, p) ==
    /\ \/ isVerified /\ PasswordMatches(p) /\ Begin(r, "login", p, "issuing")
       \/ ~(isVerified /\ PasswordMatches(p)) /\ Begin(r, "login", p, "failed")
    /\ UNCHANGED <<row, history>>

\* finalizeOAuthLogin of a profile that resolves to this account, which the
\* resolution leaves verified.
OAuthLogin(r) ==
    /\ Begin(r, "oauth", None, "issuing")
    /\ isVerified' = TRUE
    /\ UNCHANGED <<password, refreshTokenHash, history>>

\* issueSessionForUser at the end of an onboarding request.  The access token that was
\* signed with t authenticates it; JwtStrategy does not ask whether the session is still
\* open, and neither does issueSessionForUser.
Reissue(r, t) ==
    /\ t \in Held
    /\ Begin(r, "reissue", t, "issuing")
    /\ UNCHANGED <<row, history>>

\* verifyEmail: the code is consumed (module Otp) or refused.
VerifyEmail(r) ==
    /\ \/ Begin(r, "verify", None, IF isVerified THEN "issuing" ELSE "verifying")
       \/ Begin(r, "verify", None, "failed")
    /\ UNCHANGED <<row, history>>

MarkVerified(r) ==
    /\ pc[r] = "verifying"
    /\ isVerified' = TRUE
    /\ pc' = [pc EXCEPT ![r] = "issuing"]
    /\ UNCHANGED <<password, refreshTokenHash, kind, given, history>>

\* persistRefreshToken: an UPDATE by id that looks at nothing else in the row.
Persist(r) ==
    /\ pc[r] = "issuing"
    /\ refreshTokenHash' = r
    /\ Answer(r)
    /\ NoteWrite(r)
    /\ UNCHANGED <<password, isVerified, kind, given, origin, answeredAtReset>>

-----------------------------------------------------------------------------
(* Handlers that use or end a session.  A request whose token has expired  *)
(* is turned away before the row is read and changes nothing: it is left   *)
(* out.                                                                    *)

\* argon2.verify of the presented token against the stored hash.
AnyHash(t) == refreshTokenHash # None    \* slip: only the null check is left
HashMatches(t) == refreshTokenHash = t

\* refresh: a token that is not the stored one is refused.
RefreshRead(r, t) ==
    /\ t \in Held
    /\ \/ HashMatches(t) /\ Begin(r, "refresh", t, "rotating")
       \/ ~HashMatches(t) /\ Begin(r, "refresh", t, "failed")
    /\ UNCHANGED <<row, history>>

\* The WHERE clause of rotateRefreshTokenHash: the row still holds the hash
\* that the handler compared with.
NoWhereClause(r) == TRUE                           \* slip: update by id alone
SomeSessionLeft(r) == refreshTokenHash # None      \* slip: IS NOT NULL instead
StillCurrent(r) == refreshTokenHash = given[r]

Rotate(r) ==
    /\ pc[r] = "rotating"
    /\ StillCurrent(r)
    /\ refreshTokenHash' = r
    /\ origin' = [origin EXCEPT ![r] = origin[given[r]]]
    /\ Answer(r)
    /\ NoteWrite(r)
    /\ UNCHANGED <<password, isVerified, kind, given, answeredAtReset>>

RotateConflict(r) ==
    /\ pc[r] = "rotating"
    /\ ~StillCurrent(r)
    /\ pc' = [pc EXCEPT ![r] = "failed"]
    /\ UNCHANGED <<row, kind, given, history>>

\* logoutByRefreshToken: a token that is not the stored one is answered with
\* success and nothing is written.
LogoutRead(r, t) ==
    /\ t \in Held
    /\ \/ HashMatches(t) /\ Begin(r, "logout", t, "clearing")
       \/ ~HashMatches(t) /\ Begin(r, "logout", t, "done")
    /\ UNCHANGED <<row, history>>

\* setRefreshTokenHash(id, null), whatever the column holds by now.
Clear(r) ==
    /\ pc[r] = "clearing"
    /\ refreshTokenHash' = None
    /\ Answer(r)
    /\ NoteWrite(r)
    /\ UNCHANGED <<password, isVerified, kind, given, origin, answeredAtReset>>

\* The refresh_token_hash half of the UPDATE in updatePassword.
KeepSession == UNCHANGED refreshTokenHash          \* slip: only the password
EmptyHash == refreshTokenHash' = ""                 \* slip: not NULL
RevokeSession == refreshTokenHash' = None

\* resetPassword: the code is refused, or it is consumed (module Otp) and one
\* UPDATE sets the password and clears the hash.
ResetRefused(r, p) ==
    /\ Begin(r, "reset", p, "failed")
    /\ UNCHANGED <<row, history>>

ResetPassword(r, p) ==
    /\ \E s \in {"done", "lost"} : Begin(r, "reset", p, s)
    /\ password' = p
    /\ RevokeSession
    /\ NoteWrite(r)
    /\ answeredAtReset' = answeredAtReset \union {q \in Requests : pc[q] \in Over}
    /\ UNCHANGED <<isVerified, origin>>

\* The one Node process stops: what was running is not finished by anyone.
Crash ==
    /\ \E r \in Requests : pc[r] \in Running
    /\ pc' = [r \in Requests |-> IF pc[r] \in Running THEN "failed" ELSE pc[r]]
    /\ UNCHANGED <<row, kind, given, history>>

-----------------------------------------------------------------------------
Next ==
    \/ \E r \in Requests :
          \/ OAuthLogin(r) \/ VerifyEmail(r) \/ MarkVerified(r)
          \/ Persist(r) \/ Rotate(r) \/ RotateConflict(r) \/ Clear(r)
          \/ \E p \in Passwords : Login(r, p) \/ ResetRefused(r, p) \/ ResetPassword(r, p)
          \/ \E t \in Requests : RefreshRead(r, t) \/ LogoutRead(r, t) \/ Reissue(r, t)
    \/ Crash

Spec == Init /\ [][Next]_vars

-----------------------------------------------------------------------------
(* What the handlers promise.                                               *)

\* A refresh request of token t that was answered with a new token.
Rotated(r, t) ==
    kind[r] = "refresh" /\ given[r] = t /\ pc[r] \in {"done", "lost"}

\* Of all the refresh requests that present one token, however they interleave
\* with each other and with logins, logouts and resets, at most one is answered
\* with a new token (the conditional UPDATE of rotateRefreshTokenHash).
TokenRotatedOnce ==
    \A t, r, q \in Requests : Rotated(r, t) /\ Rotated(q, t) => r = q

\* A session whose opening request was answered before a password reset is never
\* the current one again, not even through a refresh that was in flight when
\* the reset was written (updatePassword nulls the hash, the refresh then finds
\* that its hash is gone).  Every request that opens a session counts as a new opening, also a
\* Reissue that arrives after the reset with an access token from before it.
ResetEndsAnsweredSessions ==
    refreshTokenHash # None => origin[refreshTokenHash] \notin answeredAtReset

\* A refresh or a logout that is about to write after its comparison finds the
\* hash it compared with, unless another request wrote the row in the meantime:
\* a refresh is refused, and a logout ends a session other than the presented
\* one, only because of a request that ran at the same time.
OnlyOverlapDisturbs ==
    \A r \in Requests :
        pc[r] \in {"rotating", "clearing"} /\ refreshTokenHash # given[r] =>
            /\ overlap[r] # {}
            /\ refreshTokenHash # None => refreshTokenHash \in overlap[r]

\* The handlers implement the register of SessionRegister: whatever the
\* interleaving, a refresh trades exactly the current token, every token has at
\* most one heir and a token that stopped being current never comes back.
Minted == {t \in Requests : kind[t] \in Minting /\ pc[t] \in {"done", "lost"}}

HeirOf(t) ==
    IF \E r \in Requests : Rotated(r, t)
    THEN CHOOSE r \in Requests : Rotated(r, t) ELSE None

Register == INSTANCE SessionRegister WITH
    Tokens <- Requests,
    current <- refreshTokenHash,
    retired <- Minted \ {refreshTokenHash},
    heir <- [t \in Requests |-> HeirOf(t)]

\* Every step of the handlers is a step of the register or leaves it alone.
ImplementsRegister == Register!Spec

-----------------------------------------------------------------------------
(* What the documentation says of sessions, and overlapping requests break. *)

\* "All active sessions for the user are revoked on success": once a reset is
\* written no current session was opened with another password.
ResetRevokesAllSessions ==
    refreshTokenHash # None /\ kind[origin[refreshTokenHash]] = "login" =>
        given[origin[refreshTokenHash]] = password

\* "Revoke current session": once a logout is answered the session it was sent
\* for has no current token.
LogoutEndsSession ==
    \A r \in Requests :
        pc[r] = "done" /\ kind[r] = "logout" /\ refreshTokenHash # None =>
            origin[refreshTokenHash] # origin[given[r]]
=============================================================================
