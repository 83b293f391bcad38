------------------------------- MODULE SignupFlow -------------------------------
(***************************************************************************)
(* Sign-up and login with Google in the tabs of one browser.  A sign-up    *)
(* page leaves the role in a cookie of ten minutes, which is all that      *)
(* connects it with the callback: GoogleOAuthGuard sets it,                *)
(* googleAuthRedirect reads and clears it.  The tabs share it.             *)
(*                                                                         *)
(* A role is set by a tab, so the cookie is named by the tab that set it.  *)
(* How a profile becomes an account is one step here, module OAuthAccounts *)
(* has its parts.                                                          *)
(***************************************************************************)
CONSTANTS
    Tabs,       \* one flow each
    Profiles,   \* Google accounts
    SameSites,  \* the values of AUTH_COOKIE_SAMESITE to look at
    None

ASSUME NoneIsNoTab == None \notin Tabs /\ None \notin Profiles
ASSUME SameSitesAreKnown == SameSites \subseteq {"strict", "lax", "none"}

VARIABLES
    sameSite,  \* AUTH_COOKIE_SAMESITE of this deployment
    cookie,    \* the tab whose role the browser's cookie holds, None for no cookie
    pc,        \* where each flow stands
    path,      \* how it was entered: a role, or "login"
    sent,      \* the cookie in its callback
    result,    \* what the server made of it
    role,      \* users.role of the account of each profile, "none" while there is none
    creator,   \* history: the tab whose callback created the account
    before,    \* history: the flows that were answered when each was entered
    later,     \* history: sign-up pages opened while each was at the consent screen
    expired    \* history: the flows during whose consent the cookie ran out

account == <<role, creator>>
history == <<before, later, expired>>
vars == <<sameSite, cookie, pc, path, sent, result, account, history>>

SignupRoles == {"talent", "employer"}
Errors == {"oauth_role_required", "oauth_failed"}

TypeOK ==
    /\ sameSite \in SameSites
    /\ cookie \in Tabs \union {None}
    /\ pc \in [Tabs -> {"new", "consent", "calling", "answering", "done", "closed"}]
    /\ path \in [Tabs -> SignupRoles \union {"login", "none"}]
    /\ sent \in [Tabs -> Tabs \union {None}]
    /\ result \in [Tabs -> Errors \union {"welcome", "none"}]
    /\ role \in [Profiles -> SignupRoles \union {"none"}]
    /\ creator \in [Profiles -> Tabs \union {None}]
    /\ before \in [Tabs -> SUBSET Tabs] /\ later \in [Tabs -> SUBSET Tabs]
    /\ expired \subseteq Tabs

Init ==
    /\ sameSite \in SameSites /\ cookie = None
    /\ pc = [t \in Tabs |-> "new"] /\ path = [t \in Tabs |-> "none"]
    /\ sent = [t \in Tabs |-> None]
    /\ result = [t \in Tabs |-> "none"]
    /\ role = [p \in Profiles |-> "none"]
    /\ creator = [p \in Profiles |-> None]
    /\ before = [t \in Tabs |-> {}] /\ later = [t \in Tabs |-> {}] /\ expired = {}

Goto(t, from, to) == pc[t] = from /\ pc' = [pc EXCEPT ![t] = to]

-----------------------------------------------------------------------------
(* The guard: /google leaves the cookie alone, /google/signup/:role sets it. *)
(* A role that normalizeOAuthSignupRole does not know changes nothing.       *)

Enter(t, via) ==
    /\ Goto(t, "new", "consent")
    /\ path' = [path EXCEPT ![t] = via]
    /\ before' = [before EXCEPT ![t] = {q \in Tabs : pc[q] = "done"}]
    /\ UNCHANGED <<sameSite, sent, result, account, expired>>

Login(t) == Enter(t, "login") /\ UNCHANGED <<cookie, later>>

Signup(t, r) ==
    /\ Enter(t, r)
    /\ cookie' = t
    /\ later' = [q \in Tabs |-> IF pc[q] = "consent" THEN later[q] \union {t} ELSE later[q]]

\* handleRequest throws: no consent, or a profile without an address.
Cleared(t) == cookie' = None             \* slip: the cookie goes with the refusal
Kept(t) == cookie' = cookie

Deny(t) ==
    /\ Goto(t, "consent", "closed")
    /\ Kept(t)
    /\ UNCHANGED <<sameSite, path, sent, result, account, history>>

-----------------------------------------------------------------------------
(* The callback: sent by the browser, resolved by the server, answered.  Who *)
(* consented matters first when the server looks for the account.           *)

\* Google redirects the browser from another site: it sends a Lax cookie along, and a
\* Strict one only where it looks past the redirect.
Callback(t) ==
    /\ Goto(t, "consent", "calling")
    /\ \E c \in {cookie} \union (IF sameSite = "strict" THEN {None} ELSE {}) :
           sent' = [sent EXCEPT ![t] = c]
    /\ UNCHANGED <<sameSite, cookie, path, result, account, history>>

Respond(t, with) == Goto(t, "calling", "answering") /\ result' = [result EXCEPT ![t] = with]

\* googleCallback for a profile that has an account.
SignIn(t, p) ==
    /\ role[p] # "none"
    /\ Respond(t, "welcome")
    /\ UNCHANGED <<sameSite, cookie, path, sent, account, history>>

\* For a new one, with the role that came along.
OwnPath(t) == path[t]                    \* slip: whatever the flow was entered by
RoleOf(t) == path[sent[t]]

Create(t, p) ==
    /\ pc[t] = "calling" /\ role[p] = "none" /\ sent[t] # None
    /\ role' = [role EXCEPT ![p] = RoleOf(t)]
    /\ creator' = [creator EXCEPT ![p] = t]
    /\ Respond(t, "welcome")
    /\ UNCHANGED <<sameSite, cookie, path, sent, history>>

\* Without it, or when something else throws.
Fail(t, p) ==
    /\ \/ /\ role[p] = "none" /\ sent[t] = None
          /\ Respond(t, "oauth_role_required")
       \/ Respond(t, "oauth_failed")
    /\ UNCHANGED <<sameSite, cookie, path, sent, account, history>>

ClearedOnSuccess(t) ==                   \* slip: not in the catch block
    cookie' = IF result[t] \in Errors THEN cookie ELSE None
ClearCookie(t) == cookie' = None

\* The request is over, and the cookie that it carried is gone.
Forget(t) == sent' = [sent EXCEPT ![t] = None]

Answer(t) ==
    /\ Goto(t, "answering", "done")
    /\ ClearCookie(t)
    /\ Forget(t)
    /\ UNCHANGED <<sameSite, path, result, account, history>>

-----------------------------------------------------------------------------
(* A tab is closed or its answer is lost, and the cookie runs out.          *)

Close(t) ==
    /\ \E s \in {"consent", "calling", "answering"} : Goto(t, s, "closed")
    /\ Forget(t)
    /\ UNCHANGED <<sameSite, cookie, path, result, account, history>>

Expire ==
    /\ cookie # None /\ cookie' = None
    /\ expired' = expired \union {t \in Tabs : pc[t] = "consent"}
    /\ UNCHANGED <<sameSite, pc, path, sent, result, account, before, later>>

Next ==
    \/ \E t \in Tabs :
          \/ Login(t) \/ (\E r \in SignupRoles : Signup(t, r)) \/ Deny(t)
          \/ Callback(t)
          \/ \E p \in Profiles : SignIn(t, p) \/ Create(t, p) \/ Fail(t, p)
          \/ Answer(t) \/ Close(t)
    \/ Expire

Spec == Init /\ [][Next]_vars

-----------------------------------------------------------------------------
(* What the cookie promises.                                                *)

\* An account has the role of the page that its own tab was entered by, unless another
\* sign-up page was opened in the same browser during the consent or, for a tab that
\* was entered by /google, before it by a flow that was not answered: an answered flow
\* never decides the role of a later account.
RoleIsOwnUnlessOverlapped ==
    \A p \in Profiles : creator[p] # None =>
        LET t == creator[p]
        IN  \/ role[p] = path[t]
            \/ \E s \in Tabs :
                  /\ role[p] = path[s] /\ s \notin before[t]
                  /\ path[t] = "login" \/ s \in later[t]

\* A sign-up is told that its role is missing only if the cookie is Strict, or ran out
\* during the consent, or another flow of the browser was answered since: the guard
\* throws and plain logins take no role away.
RoleRequiredIsExplained ==
    \A t \in Tabs : result[t] = "oauth_role_required" =>
        \/ path[t] = "login" \/ sameSite = "strict" \/ t \in expired
        \/ \E q \in Tabs \ {t} : pc[q] = "done" /\ q \notin before[t]
=============================================================================
