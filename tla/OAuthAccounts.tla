----------------------------- MODULE OAuthAccounts -----------------------------
(***************************************************************************)
(* Which account a sign-in with the one OAuth provider ends in:            *)
(* UsersService.resolveOAuthUserFromProviderProfile, which runs under both *)
(* Google endpoints, with linkOauthAccountToUser and the transaction of    *)
(* UserModelAction.  Registrations with a password and the address that an *)
(* administrator gives an account run beside it.                           *)
(*                                                                         *)
(* A request creates at most one account, so an account is named by the    *)
(* request that creates it.                                                *)
(***************************************************************************)
CONSTANTS
    Requests,  \* the requests, and the accounts that they create
    Emails,    \* addresses
    Profiles,  \* values of provider_id
    None

ASSUME NoneIsNothing == None \notin Requests /\ None \notin Emails /\ None \notin Profiles

VARIABLES
    email,       \* users.email of the account, None while there is no row
    isVerified,  \* users.is_verified of the account
    links,       \* the rows of user_oauth_accounts, as <<account, profile>>
    pc,          \* where each request stands
    kind,        \* "register", or OAuth with ("signup") or without ("login") a role
    asked,       \* the address in the request
    profile,     \* the provider_id in the request
    user,        \* the account that the request found or created
    disturbed    \* requests during which an address was changed, history

account == <<email, isVerified, links>>
given == <<kind, asked, profile>>
vars == <<account, pc, given, user, disturbed>>

Running == {"inserting",  \* register, next: InsertUser
            "finding",    \* OAuth, next: Find
            "creating",   \* next: Create
            "raced",      \* Create met a unique violation, next: FindRaced
            "marking",    \* next: Mark
            "linking",    \* next: Link
            "conflict",   \* Link met a unique violation, next: CheckExternal
            "rejected"}   \* next: CheckOwn
Over == {"done", "refused", "roleRequired", "failed", "lost"}

TypeOK ==
    /\ email \in [Requests -> Emails \union {None}]
    /\ isVerified \in [Requests -> BOOLEAN]
    /\ links \subseteq Requests \X Profiles
    /\ pc \in [Requests -> {"new"} \union Running \union Over]
    /\ kind \in [Requests -> {"register", "signup", "login", "none"}]
    /\ asked \in [Requests -> Emails \union {None}]
    /\ profile \in [Requests -> Profiles \union {None}]
    /\ user \in [Requests -> Requests \union {None}]
    /\ disturbed \subseteq Requests

Init ==
    /\ email = [r \in Requests |-> None]
    /\ isVerified = [r \in Requests |-> FALSE]
    /\ links = {}
    /\ pc = [r \in Requests |-> "new"]
    /\ kind = [r \in Requests |-> "none"]
    /\ asked = [r \in Requests |-> None]
    /\ profile = [r \in Requests |-> None]
    /\ user = [r \in Requests |-> None]
    /\ disturbed = {}

Goto(r, from, to) == pc[r] = from /\ pc' = [pc EXCEPT ![r] = to]

Arrive(r, k, e, p, s) ==
    /\ Goto(r, "new", s)
    /\ kind' = [kind EXCEPT ![r] = k]
    /\ asked' = [asked EXCEPT ![r] = e]
    /\ profile' = [profile EXCEPT ![r] = p]
    /\ UNCHANGED <<account, disturbed>>

-----------------------------------------------------------------------------
(* The tables: lookups, unique constraints, and the rows that are inserted. *)

AnyAccount(u, e) == email[u] # None      \* slip: an undefined email in the WHERE
HasEmail(u, e) == email[u] = e

EmailFree(e) == \A u \in Requests : email[u] # e

\* IDX_oauth_provider_external_id and IDX_user_oauth_provider
AnyProfile(p) == TRUE                    \* slip: the index is missing
ProfileFree(p) == \A u \in Requests : <<u, p>> \notin links
Linkless(u) == \A p \in Profiles : <<u, p>> \notin links

Swapped(u, p) == links' = links \union {<<p, u>>}  \* slip: the columns swapped
AddLink(u, p) == links' = links \union {<<u, p>>}

AddUser(r, verified) ==
    /\ email' = [email EXCEPT ![r] = asked[r]]
    /\ isVerified' = [isVerified EXCEPT ![r] = verified]

-----------------------------------------------------------------------------
(* Registration with a password.                                            *)

Register(r, e) ==
    /\ \/ EmailFree(e) /\ Arrive(r, "register", e, None, "inserting")
       \/ ~EmailFree(e) /\ Arrive(r, "register", e, None, "refused")
    /\ UNCHANGED user

InsertUser(r) ==
    /\ \/ EmailFree(asked[r]) /\ AddUser(r, FALSE) /\ Goto(r, "inserting", "done")
       \/ /\ ~EmailFree(asked[r])
          /\ Goto(r, "inserting", "refused")
          /\ UNCHANGED <<email, isVerified>>
    /\ UNCHANGED <<links, given, user, disturbed>>

-----------------------------------------------------------------------------
(* The OAuth callback: by profile, then by address, then a new account.     *)

Callback(r, k, e, p) ==
    \/ \E u \in Requests :
          /\ <<u, p>> \in links
          /\ user' = [user EXCEPT ![r] = u]
          /\ Arrive(r, k, e, p, "done")
    \/ /\ \A u \in Requests : <<u, p>> \notin links
       /\ UNCHANGED user
       /\ Arrive(r, k, e, p, "finding")

AlwaysLink(u) == "linking"               \* slip: markVerified is forgotten
NextFor(u) == IF isVerified[u] THEN "linking" ELSE "marking"

\* The account with the address is there, and is taken.
Adopt(r, from) ==
    \E u \in Requests :
        /\ HasEmail(u, asked[r])
        /\ Goto(r, from, NextFor(u))
        /\ user' = [user EXCEPT ![r] = u]

Find(r) ==
    /\ \/ Adopt(r, "finding")
       \/ /\ EmailFree(asked[r])
          /\ \/ kind[r] = "signup" /\ Goto(r, "finding", "creating")
             \/ kind[r] = "login" /\ Goto(r, "finding", "roleRequired")
          /\ UNCHANGED user
    /\ UNCHANGED <<account, given, disturbed>>

\* The transaction of createVerifiedUserWithOauthLink: both rows or none.
Inserts(r) ==
    AddUser(r, TRUE) /\ AddLink(r, profile[r])
Conflicts(r) ==
    ~EmailFree(asked[r]) \/ ~ProfileFree(profile[r])

Rethrow == "failed"                      \* slip: a lost race is an error
OnConflict == "raced"

RolledBack(r) == UNCHANGED <<email, isVerified, links>>

Create(r) ==
    /\ \/ /\ ~Conflicts(r) /\ Inserts(r)
          /\ Goto(r, "creating", "done")
          /\ user' = [user EXCEPT ![r] = r]
       \/ /\ Conflicts(r) /\ RolledBack(r)
          /\ Goto(r, "creating", OnConflict)
          /\ UNCHANGED user
    /\ UNCHANGED <<given, disturbed>>

\* If the race was lost to an account with the address, that one is taken.
FindRaced(r) ==
    /\ \/ Adopt(r, "raced")
       \/ EmailFree(asked[r]) /\ Goto(r, "raced", "failed") /\ UNCHANGED user
    /\ UNCHANGED <<account, given, disturbed>>

Mark(r) ==
    /\ Goto(r, "marking", "linking")
    /\ isVerified' = [isVerified EXCEPT ![user[r]] = TRUE]
    /\ UNCHANGED <<email, links, given, user, disturbed>>

-----------------------------------------------------------------------------
(* linkOauthAccountToUser.                                                  *)

Link(r) ==
    /\ \/ /\ ProfileFree(profile[r]) /\ Linkless(user[r])
          /\ AddLink(user[r], profile[r])
          /\ Goto(r, "linking", "done")
       \/ /\ ~(ProfileFree(profile[r]) /\ Linkless(user[r]))
          /\ Goto(r, "linking", "conflict")
          /\ UNCHANGED links
    /\ UNCHANGED <<email, isVerified, given, user, disturbed>>

\* A conflict with a row that says what was to be inserted is none.
AnyConflict(r) == TRUE                   \* slip: every conflict is taken for that
SameRow(r) == <<user[r], profile[r]>> \in links

CheckExternal(r) ==
    /\ \/ SameRow(r) /\ Goto(r, "conflict", "done")
       \/ ~SameRow(r) /\ Goto(r, "conflict", "rejected")
    /\ UNCHANGED <<account, given, user, disturbed>>

\* The row is looked up again, by account and provider.
CheckOwn(r) ==
    /\ Goto(r, "rejected", IF SameRow(r) THEN "done" ELSE "failed")
    /\ UNCHANGED <<account, given, user, disturbed>>

-----------------------------------------------------------------------------
(* The administrator's update, and crashes.                                 *)

ChangeEmail(u, e) ==
    /\ email[u] # None /\ EmailFree(e)
    /\ email' = [email EXCEPT ![u] = e]
    /\ disturbed' = disturbed \union {r \in Requests : pc[r] \in Running}
    /\ UNCHANGED <<isVerified, links, pc, given, user>>

Crash ==
    /\ \E r \in Requests : pc[r] \in Running
    /\ pc' = [r \in Requests |-> IF pc[r] \in Running THEN "lost" ELSE pc[r]]
    /\ UNCHANGED <<account, given, user, disturbed>>

Next ==
    \/ \E r \in Requests :
          \/ \E e \in Emails :
                \/ Register(r, e)
                \/ \E p \in Profiles, k \in {"signup", "login"} : Callback(r, k, e, p)
                \/ ChangeEmail(r, e)
          \/ InsertUser(r)
          \/ Find(r) \/ Create(r) \/ FindRaced(r) \/ Mark(r)
          \/ Link(r) \/ CheckExternal(r) \/ CheckOwn(r)
    \/ Crash

Spec == Init /\ [][Next]_vars

-----------------------------------------------------------------------------
(* What a sign-in promises.                                                 *)

SignedIn(r) == pc[r] = "done" /\ kind[r] \in {"signup", "login"}

\* Whoever is signed in by a profile is signed in to the account that the profile
\* is linked to, and so is every other request with that profile: no two callbacks
\* end in two accounts, whichever of the three cases and conflicts each met.
OneIdentity ==
    \A r \in Requests : SignedIn(r) =>
        /\ <<user[r], profile[r]>> \in links
        /\ \A q \in Requests :
               SignedIn(q) /\ profile[q] = profile[r] => user[q] = user[r]

\* A linked account is verified, although the account is marked and linked by
\* statements of their own and others may link or create it in between.
LinkedIsVerified ==
    \A u \in Requests, p \in Profiles : <<u, p>> \in links => isVerified[u]

\* An account that a callback created, and that has no password, is linked to the
\* profile it was created for: a lost race leaves no account behind.
CreatedWithLink ==
    \A u \in Requests :
        kind[u] = "signup" /\ email[u] # None => <<u, profile[u]>> \in links

\* No order of callbacks, failures and crashes leaves an account half made: linked and
\* not verified, or created by a callback and not linked.
AccountsAreWhole == LinkedIsVerified /\ CreatedWithLink

\* A callback fails, if no address changed meanwhile, only because its profile
\* opens the account of another address or because the account of its address is
\* opened by another profile: losing a race to a registration or to another
\* callback is never the reason.
FailureIsExplained ==
    [][\A r \in Requests \ disturbed :
          pc[r] # "failed" /\ pc'[r] = "failed" =>
              \E u \in Requests, p \in Profiles :
                  /\ <<u, p>> \in links
                  /\ ~(p = profile[r] <=> email[u] = asked[r])]_vars

\* A profile is linked only to an account whose address some callback of this profile
\* showed; the exception is a callback during which an address changed.
LinkFollowsEmail ==
    [][\A u \in Requests, p \in Profiles :
          <<u, p>> \in links' \ links =>
              \E r \in Requests :
                  /\ kind[r] # "register" /\ profile[r] = p
                  /\ email'[u] = asked[r] \/ r \in disturbed]_vars

\* The tables implement Directory: an address names one account, a profile opens one,
\* and neither a race nor a change of address moves a profile to another account.
Opened(p) ==
    IF \E u \in Requests : <<u, p>> \in links
    THEN CHOOSE u \in Requests : <<u, p>> \in links ELSE None

Tables == INSTANCE Directory WITH
    Accounts <- Requests,
    address <- email,
    opens <- [p \in Profiles |-> Opened(p)]

ImplementsDirectory == Tables!Spec
=============================================================================
