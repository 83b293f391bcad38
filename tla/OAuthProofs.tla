------------------------------ MODULE OAuthProofs ------------------------------
(* Proofs about OAuthAccounts, for any requests, addresses and profiles.    *)
EXTENDS OAuthAccounts, TLAPS

(***************************************************************************)
(* The inductive invariant.                                                *)
(*   UniqueRows     the unique constraints, and the foreign key of a link; *)
(*   Requested      what a request carries at each step, and that a        *)
(*                  request that has an account is done;                   *)
(*   OwnAccount     an adopted account exists, and is verified from the    *)
(*                  moment it is about to be linked;                       *)
(*   StillNamed     it keeps the address of an undisturbed request;        *)
(*   LostTo         what the loser of a race lost to is still there.       *)
(***************************************************************************)
UniqueRows ==
    /\ \A u, v \in Requests : email[u] # None /\ email[u] = email[v] => u = v
    /\ \A u, v \in Requests, p \in Profiles :
          <<u, p>> \in links /\ <<v, p>> \in links => u = v
    /\ \A u \in Requests, p, q \in Profiles :
          <<u, p>> \in links /\ <<u, q>> \in links => p = q
    /\ \A u \in Requests, p \in Profiles : <<u, p>> \in links => email[u] # None

Callbacks == {"finding", "creating", "raced", "marking", "linking", "conflict",
              "rejected", "roleRequired", "failed"}

Requested ==
    \A r \in Requests :
        /\ email[r] # None => pc[r] = "done"
        /\ pc[r] = "new" => kind[r] = "none"
        /\ pc[r] # "new" => asked[r] \in Emails
        /\ pc[r] \in Callbacks => kind[r] \in {"signup", "login"}
        /\ kind[r] \in {"signup", "login"} => profile[r] \in Profiles
        /\ pc[r] = "inserting" => kind[r] = "register"
        /\ pc[r] \in {"creating", "raced"} => kind[r] = "signup"

Adopted == {"marking", "linking", "conflict", "rejected"}

OwnAccount ==
    \A r \in Requests :
        /\ pc[r] \in Adopted => user[r] \in Requests /\ email[user[r]] # None
        /\ pc[r] \in Adopted \ {"marking"} => isVerified[user[r]]

StillNamed ==
    \A r \in Requests \ disturbed :
        pc[r] \in Adopted => email[user[r]] = asked[r]

LostTo ==
    \A r \in Requests :
        /\ pc[r] = "raced" /\ r \notin disturbed =>
               ~EmailFree(asked[r]) \/ ~ProfileFree(profile[r])
        /\ pc[r] \in {"conflict", "rejected"} =>
               ~ProfileFree(profile[r]) \/ ~Linkless(user[r])

SignedInAsLinked ==
    \A r \in Requests : SignedIn(r) => <<user[r], profile[r]>> \in links

IInv ==
    /\ TypeOK
    /\ UniqueRows
    /\ Requested
    /\ OwnAccount
    /\ StillNamed
    /\ LostTo
    /\ SignedInAsLinked
    /\ LinkedIsVerified
    /\ CreatedWithLink

LEMMA InitIInv == Init => IInv
BY NoneIsNothing
   DEF Init, IInv, TypeOK, Running, Over, UniqueRows, Requested, Callbacks, OwnAccount,
       Adopted, StillNamed, LostTo, SignedInAsLinked, SignedIn, LinkedIsVerified,
       CreatedWithLink

-----------------------------------------------------------------------------
(* Each part is kept by every step.                                         *)

\* A callback arrives at step s with account u, and is answered if u is linked.
Arrived(r, k, e, p, s, u) ==
    /\ UNCHANGED <<email, isVerified, links, disturbed>>
    /\ pc[r] = "new" /\ pc' = [pc EXCEPT ![r] = s]
    /\ profile' = [profile EXCEPT ![r] = p]
    /\ asked' = [asked EXCEPT ![r] = e]
    /\ kind' = [kind EXCEPT ![r] = k]
    /\ user' = [user EXCEPT ![r] = u]
    /\ s = "done" => u \in Requests /\ <<u, p>> \in links

LEMMA CallbackStep ==
    ASSUME NEW r \in Requests, NEW e \in Emails, NEW p \in Profiles,
           NEW k \in {"signup", "login"}, TypeOK, Callback(r, k, e, p)
    PROVE  \E s \in {"done", "finding"}, u \in Requests \union {None} :
              Arrived(r, k, e, p, s, u)
<1> USE DEF Callback, Arrive, Goto, account, Arrived
<1>1. CASE \E u \in Requests : <<u, p>> \in links
    <2>1. PICK u \in Requests : <<u, p>> \in links /\ user' = [user EXCEPT ![r] = u]
        BY <1>1
    <2> QED
        BY <1>1, <2>1
<1>2. CASE \A u \in Requests : <<u, p>> \notin links
    <2>1. user' = [user EXCEPT ![r] = user[r]] /\ user[r] \in Requests \union {None}
        BY <1>2 DEF TypeOK
    <2> QED
        BY <1>2, <2>1
<1> QED
    BY <1>1, <1>2

\* What a creating request carries.
LEMMA CreatingCarries ==
    ASSUME NEW r \in Requests, IInv, pc[r] \in {"inserting", "creating"}
    PROVE  /\ asked[r] \in Emails
           /\ email[r] = None
           /\ pc[r] = "creating" => profile[r] \in Profiles
BY DEF IInv, Requested, Callbacks

LEMMA TypeKept == IInv /\ [Next]_vars => TypeOK'
<1> SUFFICES ASSUME IInv, [Next]_vars PROVE TypeOK'
    OBVIOUS
<1> USE DEF IInv, TypeOK, Requested, OwnAccount, Adopted, Callbacks, Running, Over, Goto,
            account, given
<1>1. ASSUME NEW r \in Requests, NEW e \in Emails, Register(r, e)
      PROVE  TypeOK'
    BY <1>1, NoneIsNothing DEF Register, Arrive, EmailFree
<1>2. ASSUME NEW r \in Requests, NEW e \in Emails, NEW p \in Profiles,
             NEW k \in {"signup", "login"}, Callback(r, k, e, p)
      PROVE  TypeOK'
    <2>1. PICK s \in {"done", "finding"}, u \in Requests \union {None} :
              Arrived(r, k, e, p, s, u)
        BY <1>2, CallbackStep
    <2> QED
        BY <2>1 DEF Arrived
<1>3. ASSUME NEW r \in Requests, InsertUser(r)
      PROVE  TypeOK'
    <2>1. asked[r] \in Emails
        BY <1>3, CreatingCarries DEF InsertUser
    <2> QED
        BY <1>3, <2>1 DEF InsertUser, AddUser
<1>4. ASSUME NEW r \in Requests, Find(r) \/ FindRaced(r)
      PROVE  TypeOK'
    BY <1>4, NoneIsNothing DEF Find, FindRaced, Adopt, HasEmail, NextFor
<1>5. ASSUME NEW r \in Requests, Create(r)
      PROVE  TypeOK'
    <2>1. asked[r] \in Emails /\ profile[r] \in Profiles
        BY <1>5, CreatingCarries DEF Create
    <2>2. CASE Conflicts(r)
        BY <1>5, <2>1, <2>2 DEF Create, RolledBack, OnConflict
    <2>3. CASE ~Conflicts(r)
        <3>1. /\ email' = [email EXCEPT ![r] = asked[r]]
              /\ isVerified' = [isVerified EXCEPT ![r] = TRUE]
              /\ pc' = [pc EXCEPT ![r] = "done"] /\ user' = [user EXCEPT ![r] = r]
              /\ UNCHANGED <<kind, asked, profile, disturbed>>
            BY <1>5, <2>3 DEF Create, Inserts, AddUser
        <3>2. links' = links \union {<<r, profile[r]>>}
            BY <1>5, <2>3 DEF Create, Inserts, AddLink
        <3>3. links' \subseteq Requests \X Profiles
            BY <2>1, <3>2
        <3> QED
            BY <2>1, <3>1, <3>3
    <2> QED
        BY <2>2, <2>3
<1>6. ASSUME NEW r \in Requests, Mark(r)
      PROVE  TypeOK'
    BY <1>6 DEF Mark
<1>7. ASSUME NEW r \in Requests, Link(r)
      PROVE  TypeOK'
    BY <1>7 DEF Link, AddLink
<1>8. ASSUME NEW r \in Requests, CheckExternal(r) \/ CheckOwn(r)
      PROVE  TypeOK'
    BY <1>8 DEF CheckExternal, CheckOwn, SameRow
<1>9. ASSUME NEW r \in Requests, NEW e \in Emails, ChangeEmail(r, e)
      PROVE  TypeOK'
    BY <1>9, NoneIsNothing DEF ChangeEmail
<1>10. CASE Crash
    BY <1>10 DEF Crash
<1>11. CASE UNCHANGED vars
    BY <1>11 DEF vars
<1> QED
    BY <1>1, <1>2, <1>3, <1>4, <1>5, <1>6, <1>7, <1>8, <1>9, <1>10, <1>11
    DEF Next

LEMMA RowsKept == IInv /\ [Next]_vars => UniqueRows'
<1> SUFFICES ASSUME IInv, [Next]_vars PROVE UniqueRows'
    OBVIOUS
<1> USE DEF IInv, TypeOK, UniqueRows, Requested, OwnAccount, Adopted, EmailFree,
        ProfileFree, Linkless, Goto, account, given
<1>1. ASSUME NEW r \in Requests, NEW e \in Emails, Register(r, e)
      PROVE  UniqueRows'
    BY <1>1, NoneIsNothing DEF Register, Arrive, EmailFree
<1>2. ASSUME NEW r \in Requests, NEW e \in Emails, NEW p \in Profiles,
             NEW k \in {"signup", "login"}, Callback(r, k, e, p)
      PROVE  UniqueRows'
    <2>1. PICK s \in {"done", "finding"}, u \in Requests \union {None} :
              Arrived(r, k, e, p, s, u)
        BY <1>2, CallbackStep
    <2> QED
        BY <2>1 DEF Arrived
<1>3. ASSUME NEW r \in Requests, InsertUser(r)
      PROVE  UniqueRows'
    BY <1>3, NoneIsNothing DEF InsertUser, AddUser
<1>4. ASSUME NEW r \in Requests, Find(r) \/ FindRaced(r)
      PROVE  UniqueRows'
    BY <1>4, NoneIsNothing DEF Find, FindRaced, Adopt, HasEmail, NextFor
<1>5. ASSUME NEW r \in Requests, Create(r)
      PROVE  UniqueRows'
    <2>1. asked[r] \in Emails /\ profile[r] \in Profiles /\ email[r] = None
        BY <1>5, CreatingCarries DEF Create
    <2>2. CASE Conflicts(r)
        BY <1>5, <2>2 DEF Create, RolledBack
    <2>3. CASE ~Conflicts(r)
        \* The address and the profile are free, and the account is new.
        <3>1. /\ email' = [email EXCEPT ![r] = asked[r]]
              /\ links' = links \union {<<r, profile[r]>>}
            BY <1>5, <2>3 DEF Create, Inserts, AddUser, AddLink
        <3>2. EmailFree(asked[r]) /\ ProfileFree(profile[r])
            BY <2>3 DEF Conflicts
        <3>3. \A p \in Profiles : <<r, p>> \notin links
            BY <2>1
        <3> QED
            BY <2>1, <3>1, <3>2, <3>3
    <2> QED
        BY <2>2, <2>3
<1>6. ASSUME NEW r \in Requests, Mark(r)
      PROVE  UniqueRows'
    BY <1>6 DEF Mark
<1>7. ASSUME NEW r \in Requests, Link(r)
      PROVE  UniqueRows'
    BY <1>7 DEF Link, AddLink
<1>8. ASSUME NEW r \in Requests, CheckExternal(r) \/ CheckOwn(r)
      PROVE  UniqueRows'
    BY <1>8 DEF CheckExternal, CheckOwn, SameRow
<1>9. ASSUME NEW r \in Requests, NEW e \in Emails, ChangeEmail(r, e)
      PROVE  UniqueRows'
    BY <1>9, NoneIsNothing DEF ChangeEmail
<1>10. CASE Crash
    BY <1>10 DEF Crash
<1>11. CASE UNCHANGED vars
    BY <1>11 DEF vars
<1> HIDE DEF UniqueRows
<1> QED
    BY <1>1, <1>2, <1>3, <1>4, <1>5, <1>6, <1>7, <1>8, <1>9, <1>10, <1>11
    DEF Next

LEMMA RequestedKept == IInv /\ [Next]_vars => Requested'
<1> SUFFICES ASSUME IInv, [Next]_vars PROVE Requested'
    OBVIOUS
<1> USE DEF IInv, TypeOK, Requested, Callbacks, Running, Goto, account, given
<1>1. ASSUME NEW r \in Requests, NEW e \in Emails, Register(r, e)
      PROVE  Requested'
    BY <1>1, NoneIsNothing DEF Register, Arrive, EmailFree
<1>2. ASSUME NEW r \in Requests, NEW e \in Emails, NEW p \in Profiles,
             NEW k \in {"signup", "login"}, Callback(r, k, e, p)
      PROVE  Requested'
    <2>1. PICK s \in {"done", "finding"}, u \in Requests \union {None} :
              Arrived(r, k, e, p, s, u)
        BY <1>2, CallbackStep
    <2> QED
        BY <2>1 DEF Arrived
<1>3. ASSUME NEW r \in Requests, InsertUser(r)
      PROVE  Requested'
    BY <1>3, NoneIsNothing DEF InsertUser, AddUser
<1>4. ASSUME NEW r \in Requests, Find(r) \/ FindRaced(r)
      PROVE  Requested'
    BY <1>4, NoneIsNothing DEF Find, FindRaced, Adopt, HasEmail, NextFor
<1>5. ASSUME NEW r \in Requests, Create(r)
      PROVE  Requested'
    BY <1>5, NoneIsNothing DEF Create, Conflicts, Inserts, AddUser, AddLink, RolledBack,
                               OnConflict
<1>6. ASSUME NEW r \in Requests, Mark(r)
      PROVE  Requested'
    BY <1>6 DEF Mark
<1>7. ASSUME NEW r \in Requests, Link(r)
      PROVE  Requested'
    BY <1>7 DEF Link, AddLink
<1>8. ASSUME NEW r \in Requests, CheckExternal(r) \/ CheckOwn(r)
      PROVE  Requested'
    BY <1>8 DEF CheckExternal, CheckOwn, SameRow
<1>9. ASSUME NEW r \in Requests, NEW e \in Emails, ChangeEmail(r, e)
      PROVE  Requested'
    BY <1>9, NoneIsNothing DEF ChangeEmail
<1>10. CASE Crash
    BY <1>10 DEF Crash
<1>11. CASE UNCHANGED vars
    BY <1>11 DEF vars
<1> QED
    BY <1>1, <1>2, <1>3, <1>4, <1>5, <1>6, <1>7, <1>8, <1>9, <1>10, <1>11
    DEF Next

LEMMA OwnAccountKept == IInv /\ [Next]_vars => OwnAccount'
<1> SUFFICES ASSUME IInv, [Next]_vars PROVE OwnAccount'
    OBVIOUS
<1> USE DEF IInv, TypeOK, OwnAccount, Adopted, Running, Requested, Callbacks, Goto,
            account, given
<1>1. ASSUME NEW r \in Requests, NEW e \in Emails, Register(r, e)
      PROVE  OwnAccount'
    BY <1>1, NoneIsNothing DEF Register, Arrive, EmailFree
<1>2. ASSUME NEW r \in Requests, NEW e \in Emails, NEW p \in Profiles,
             NEW k \in {"signup", "login"}, Callback(r, k, e, p)
      PROVE  OwnAccount'
    <2>1. PICK s \in {"done", "finding"}, u \in Requests \union {None} :
              Arrived(r, k, e, p, s, u)
        BY <1>2, CallbackStep
    <2> QED
        BY <2>1 DEF Arrived
<1>3. ASSUME NEW r \in Requests, InsertUser(r)
      PROVE  OwnAccount'
    BY <1>3, NoneIsNothing DEF InsertUser, AddUser
<1>4. ASSUME NEW r \in Requests, Find(r) \/ FindRaced(r)
      PROVE  OwnAccount'
    BY <1>4, NoneIsNothing DEF Find, FindRaced, Adopt, HasEmail, NextFor
<1>5. ASSUME NEW r \in Requests, Create(r)
      PROVE  OwnAccount'
    BY <1>5, NoneIsNothing DEF Create, Conflicts, Inserts, AddUser, AddLink, RolledBack,
                               OnConflict
<1>6. ASSUME NEW r \in Requests, Mark(r)
      PROVE  OwnAccount'
    BY <1>6 DEF Mark
<1>7. ASSUME NEW r \in Requests, Link(r)
      PROVE  OwnAccount'
    BY <1>7 DEF Link, AddLink
<1>8. ASSUME NEW r \in Requests, CheckExternal(r) \/ CheckOwn(r)
      PROVE  OwnAccount'
    BY <1>8 DEF CheckExternal, CheckOwn, SameRow
<1>9. ASSUME NEW r \in Requests, NEW e \in Emails, ChangeEmail(r, e)
      PROVE  OwnAccount'
    BY <1>9, NoneIsNothing DEF ChangeEmail
<1>10. CASE Crash
    BY <1>10 DEF Crash
<1>11. CASE UNCHANGED vars
    BY <1>11 DEF vars
<1> QED
    BY <1>1, <1>2, <1>3, <1>4, <1>5, <1>6, <1>7, <1>8, <1>9, <1>10, <1>11
    DEF Next

LEMMA StillNamedKept == IInv /\ [Next]_vars => StillNamed'
<1> SUFFICES ASSUME IInv, [Next]_vars PROVE StillNamed'
    OBVIOUS
<1> USE DEF IInv, TypeOK, StillNamed, Adopted, Running, OwnAccount, Requested, EmailFree,
        Callbacks, Goto, account, given
<1>1. ASSUME NEW r \in Requests, NEW e \in Emails, Register(r, e)
      PROVE  StillNamed'
    BY <1>1, NoneIsNothing DEF Register, Arrive, EmailFree
<1>2. ASSUME NEW r \in Requests, NEW e \in Emails, NEW p \in Profiles,
             NEW k \in {"signup", "login"}, Callback(r, k, e, p)
      PROVE  StillNamed'
    <2>1. PICK s \in {"done", "finding"}, u \in Requests \union {None} :
              Arrived(r, k, e, p, s, u)
        BY <1>2, CallbackStep
    <2> QED
        BY <2>1 DEF Arrived
<1>3. ASSUME NEW r \in Requests, InsertUser(r)
      PROVE  StillNamed'
    BY <1>3, NoneIsNothing DEF InsertUser, AddUser
<1>4. ASSUME NEW r \in Requests, Find(r) \/ FindRaced(r)
      PROVE  StillNamed'
    BY <1>4, NoneIsNothing DEF Find, FindRaced, Adopt, HasEmail, NextFor
<1>5. ASSUME NEW r \in Requests, Create(r)
      PROVE  StillNamed'
    BY <1>5, NoneIsNothing DEF Create, Conflicts, Inserts, AddUser, AddLink, RolledBack,
                               OnConflict
<1>6. ASSUME NEW r \in Requests, Mark(r)
      PROVE  StillNamed'
    BY <1>6 DEF Mark
<1>7. ASSUME NEW r \in Requests, Link(r)
      PROVE  StillNamed'
    BY <1>7 DEF Link, AddLink
<1>8. ASSUME NEW r \in Requests, CheckExternal(r) \/ CheckOwn(r)
      PROVE  StillNamed'
    BY <1>8 DEF CheckExternal, CheckOwn, SameRow
<1>9. ASSUME NEW r \in Requests, NEW e \in Emails, ChangeEmail(r, e)
      PROVE  StillNamed'
    BY <1>9, NoneIsNothing DEF ChangeEmail
<1>10. CASE Crash
    BY <1>10 DEF Crash
<1>11. CASE UNCHANGED vars
    BY <1>11 DEF vars
<1> HIDE DEF StillNamed
<1> QED
    BY <1>1, <1>2, <1>3, <1>4, <1>5, <1>6, <1>7, <1>8, <1>9, <1>10, <1>11
    DEF Next

LEMMA LostToKept == IInv /\ [Next]_vars => LostTo'
<1> SUFFICES ASSUME IInv, [Next]_vars PROVE LostTo'
    OBVIOUS
<1> USE DEF IInv, TypeOK, LostTo, EmailFree, ProfileFree, Linkless, Requested, Adopted,
        OwnAccount, Running, Callbacks, Goto, account, given
<1>1. ASSUME NEW r \in Requests, NEW e \in Emails, Register(r, e)
      PROVE  LostTo'
    BY <1>1, NoneIsNothing DEF Register, Arrive, EmailFree
<1>2. ASSUME NEW r \in Requests, NEW e \in Emails, NEW p \in Profiles,
             NEW k \in {"signup", "login"}, Callback(r, k, e, p)
      PROVE  LostTo'
    <2>1. PICK s \in {"done", "finding"}, u \in Requests \union {None} :
              Arrived(r, k, e, p, s, u)
        BY <1>2, CallbackStep
    <2> QED
        BY <2>1 DEF Arrived
<1>3. ASSUME NEW r \in Requests, InsertUser(r)
      PROVE  LostTo'
    BY <1>3, NoneIsNothing DEF InsertUser, AddUser
<1>4. ASSUME NEW r \in Requests, Find(r) \/ FindRaced(r)
      PROVE  LostTo'
    BY <1>4, NoneIsNothing DEF Find, FindRaced, Adopt, HasEmail, NextFor
<1>5. ASSUME NEW r \in Requests, Create(r)
      PROVE  LostTo'
    BY <1>5, NoneIsNothing DEF Create, Conflicts, Inserts, AddUser, AddLink, RolledBack,
                               OnConflict
<1>6. ASSUME NEW r \in Requests, Mark(r)
      PROVE  LostTo'
    BY <1>6 DEF Mark
<1>7. ASSUME NEW r \in Requests, Link(r)
      PROVE  LostTo'
    BY <1>7 DEF Link, AddLink
<1>8. ASSUME NEW r \in Requests, CheckExternal(r) \/ CheckOwn(r)
      PROVE  LostTo'
    BY <1>8 DEF CheckExternal, CheckOwn, SameRow
<1>9. ASSUME NEW r \in Requests, NEW e \in Emails, ChangeEmail(r, e)
      PROVE  LostTo'
    BY <1>9, NoneIsNothing DEF ChangeEmail
<1>10. CASE Crash
    BY <1>10 DEF Crash
<1>11. CASE UNCHANGED vars
    BY <1>11 DEF vars
<1> HIDE DEF LostTo
<1> QED
    BY <1>1, <1>2, <1>3, <1>4, <1>5, <1>6, <1>7, <1>8, <1>9, <1>10, <1>11
    DEF Next

LEMMA SignedInKept == IInv /\ [Next]_vars => SignedInAsLinked'
<1> SUFFICES ASSUME IInv, [Next]_vars PROVE SignedInAsLinked'
    OBVIOUS
<1> USE DEF IInv, TypeOK, SignedInAsLinked, SignedIn, Requested, Running, Goto, account, given
<1>1. ASSUME NEW r \in Requests, NEW e \in Emails, Register(r, e)
      PROVE  SignedInAsLinked'
    BY <1>1, NoneIsNothing DEF Register, Arrive, EmailFree
<1>2. ASSUME NEW r \in Requests, NEW e \in Emails, NEW p \in Profiles,
             NEW k \in {"signup", "login"}, Callback(r, k, e, p)
      PROVE  SignedInAsLinked'
    <2>1. PICK s \in {"done", "finding"}, u \in Requests \union {None} :
              Arrived(r, k, e, p, s, u)
        BY <1>2, CallbackStep
    <2> QED
        BY <2>1 DEF Arrived
<1>3. ASSUME NEW r \in Requests, InsertUser(r)
      PROVE  SignedInAsLinked'
    BY <1>3, NoneIsNothing DEF InsertUser, AddUser
<1>4. ASSUME NEW r \in Requests, Find(r) \/ FindRaced(r)
      PROVE  SignedInAsLinked'
    BY <1>4, NoneIsNothing DEF Find, FindRaced, Adopt, HasEmail, NextFor
<1>5. ASSUME NEW r \in Requests, Create(r)
      PROVE  SignedInAsLinked'
    BY <1>5, NoneIsNothing DEF Create, Conflicts, Inserts, AddUser, AddLink, RolledBack,
                               OnConflict
<1>6. ASSUME NEW r \in Requests, Mark(r)
      PROVE  SignedInAsLinked'
    BY <1>6 DEF Mark
<1>7. ASSUME NEW r \in Requests, Link(r)
      PROVE  SignedInAsLinked'
    BY <1>7 DEF Link, AddLink
<1>8. ASSUME NEW r \in Requests, CheckExternal(r) \/ CheckOwn(r)
      PROVE  SignedInAsLinked'
    BY <1>8 DEF CheckExternal, CheckOwn, SameRow
<1>9. ASSUME NEW r \in Requests, NEW e \in Emails, ChangeEmail(r, e)
      PROVE  SignedInAsLinked'
    BY <1>9, NoneIsNothing DEF ChangeEmail
<1>10. CASE Crash
    BY <1>10 DEF Crash
<1>11. CASE UNCHANGED vars
    BY <1>11 DEF vars
<1> QED
    BY <1>1, <1>2, <1>3, <1>4, <1>5, <1>6, <1>7, <1>8, <1>9, <1>10, <1>11
    DEF Next

LEMMA VerifiedKept == IInv /\ [Next]_vars => LinkedIsVerified'
<1> SUFFICES ASSUME IInv, [Next]_vars PROVE LinkedIsVerified'
    OBVIOUS
<1> USE DEF IInv, TypeOK, LinkedIsVerified, UniqueRows, OwnAccount, Adopted, Requested,
            Goto, account, given
<1>1. ASSUME NEW r \in Requests, NEW e \in Emails, Register(r, e)
      PROVE  LinkedIsVerified'
    BY <1>1, NoneIsNothing DEF Register, Arrive, EmailFree
<1>2. ASSUME NEW r \in Requests, NEW e \in Emails, NEW p \in Profiles,
             NEW k \in {"signup", "login"}, Callback(r, k, e, p)
      PROVE  LinkedIsVerified'
    <2>1. PICK s \in {"done", "finding"}, u \in Requests \union {None} :
              Arrived(r, k, e, p, s, u)
        BY <1>2, CallbackStep
    <2> QED
        BY <2>1 DEF Arrived
<1>3. ASSUME NEW r \in Requests, InsertUser(r)
      PROVE  LinkedIsVerified'
    BY <1>3, NoneIsNothing DEF InsertUser, AddUser
<1>4. ASSUME NEW r \in Requests, Find(r) \/ FindRaced(r)
      PROVE  LinkedIsVerified'
    BY <1>4, NoneIsNothing DEF Find, FindRaced, Adopt, HasEmail, NextFor
<1>5. ASSUME NEW r \in Requests, Create(r)
      PROVE  LinkedIsVerified'
    BY <1>5, NoneIsNothing DEF Create, Conflicts, Inserts, AddUser, AddLink, RolledBack,
                               OnConflict
<1>6. ASSUME NEW r \in Requests, Mark(r)
      PROVE  LinkedIsVerified'
    BY <1>6 DEF Mark
<1>7. ASSUME NEW r \in Requests, Link(r)
      PROVE  LinkedIsVerified'
    BY <1>7 DEF Link, AddLink
<1>8. ASSUME NEW r \in Requests, CheckExternal(r) \/ CheckOwn(r)
      PROVE  LinkedIsVerified'
    BY <1>8 DEF CheckExternal, CheckOwn, SameRow
<1>9. ASSUME NEW r \in Requests, NEW e \in Emails, ChangeEmail(r, e)
      PROVE  LinkedIsVerified'
    BY <1>9, NoneIsNothing DEF ChangeEmail
<1>10. CASE Crash
    BY <1>10 DEF Crash
<1>11. CASE UNCHANGED vars
    BY <1>11 DEF vars
<1> HIDE DEF LinkedIsVerified
<1> QED
    BY <1>1, <1>2, <1>3, <1>4, <1>5, <1>6, <1>7, <1>8, <1>9, <1>10, <1>11
    DEF Next

LEMMA CreatedKept == IInv /\ [Next]_vars => CreatedWithLink'
<1> SUFFICES ASSUME IInv, [Next]_vars PROVE CreatedWithLink'
    OBVIOUS
<1> USE DEF IInv, TypeOK, CreatedWithLink, Requested, Callbacks, Goto, account, given
<1>1. ASSUME NEW r \in Requests, NEW e \in Emails, Register(r, e)
      PROVE  CreatedWithLink'
    BY <1>1, NoneIsNothing DEF Register, Arrive, EmailFree
<1>2. ASSUME NEW r \in Requests, NEW e \in Emails, NEW p \in Profiles,
             NEW k \in {"signup", "login"}, Callback(r, k, e, p)
      PROVE  CreatedWithLink'
    <2>1. PICK s \in {"done", "finding"}, u \in Requests \union {None} :
              Arrived(r, k, e, p, s, u)
        BY <1>2, CallbackStep
    <2> QED
        BY <2>1 DEF Arrived
<1>3. ASSUME NEW r \in Requests, InsertUser(r)
      PROVE  CreatedWithLink'
    BY <1>3, NoneIsNothing DEF InsertUser, AddUser
<1>4. ASSUME NEW r \in Requests, Find(r) \/ FindRaced(r)
      PROVE  CreatedWithLink'
    BY <1>4, NoneIsNothing DEF Find, FindRaced, Adopt, HasEmail, NextFor
<1>5. ASSUME NEW r \in Requests, Create(r)
      PROVE  CreatedWithLink'
    BY <1>5, NoneIsNothing DEF Create, Conflicts, Inserts, AddUser, AddLink, RolledBack,
                               OnConflict
<1>6. ASSUME NEW r \in Requests, Mark(r)
      PROVE  CreatedWithLink'
    BY <1>6 DEF Mark
<1>7. ASSUME NEW r \in Requests, Link(r)
      PROVE  CreatedWithLink'
    BY <1>7 DEF Link, AddLink
<1>8. ASSUME NEW r \in Requests, CheckExternal(r) \/ CheckOwn(r)
      PROVE  CreatedWithLink'
    BY <1>8 DEF CheckExternal, CheckOwn, SameRow
<1>9. ASSUME NEW r \in Requests, NEW e \in Emails, ChangeEmail(r, e)
      PROVE  CreatedWithLink'
    BY <1>9, NoneIsNothing DEF ChangeEmail
<1>10. CASE Crash
    BY <1>10 DEF Crash
<1>11. CASE UNCHANGED vars
    BY <1>11 DEF vars
<1> QED
    BY <1>1, <1>2, <1>3, <1>4, <1>5, <1>6, <1>7, <1>8, <1>9, <1>10, <1>11
    DEF Next

LEMMA NextIInv == IInv /\ [Next]_vars => IInv'
BY TypeKept, RowsKept, RequestedKept, OwnAccountKept, StillNamedKept, LostToKept,
   SignedInKept, VerifiedKept, CreatedKept DEF IInv

THEOREM Inductive == Spec => []IInv
BY InitIInv, NextIInv, PTL DEF Spec

-----------------------------------------------------------------------------
\* The tables and the requests keep their types.
THEOREM TypeCorrect == Spec => []TypeOK
<1>1. IInv => TypeOK
    BY DEF IInv
<1> QED
    BY <1>1, Inductive, PTL

\* However callbacks and registrations overlap, a profile signs in to one account,
\* the one that it is linked to.
THEOREM OneAccountPerProfile == Spec => []OneIdentity
<1>1. IInv => OneIdentity
    <2> SUFFICES ASSUME IInv, NEW r \in Requests, SignedIn(r)
                 PROVE  /\ <<user[r], profile[r]>> \in links
                        /\ \A q \in Requests : SignedIn(q) /\ profile[q] = profile[r] =>
                               user[q] = user[r]
        BY DEF OneIdentity
    <2>1. \A q \in Requests : SignedIn(q) => <<user[q], profile[q]>> \in links
        BY DEF IInv, SignedInAsLinked
    <2>2. \A u, v, p : <<u, p>> \in links /\ <<v, p>> \in links => u = v
        BY DEF IInv, TypeOK, UniqueRows
    <2> QED
        BY <2>1, <2>2
<1> QED
    BY <1>1, Inductive, PTL

\* No account is linked before it is verified, and one that a callback created is
\* linked to the callback's profile.
THEOREM AccountsStayWhole == Spec => []AccountsAreWhole
<1>1. IInv => AccountsAreWhole
    BY DEF IInv, AccountsAreWhole
<1> QED
    BY <1>1, Inductive, PTL

\* A callback that loses a race is answered all the same, unless its profile or its
\* address is taken.
THEOREM FailuresAreExplained == Spec => FailureIsExplained
<1> DEFINE Step == \A r \in Requests \ disturbed :
          pc[r] # "failed" /\ pc'[r] = "failed" =>
              \E u \in Requests, p \in Profiles :
                  /\ <<u, p>> \in links
                  /\ ~(p = profile[r] <=> email[u] = asked[r])
<1>1. IInv /\ [Next]_vars => [Step]_vars
    <2> SUFFICES ASSUME IInv, [Next]_vars,
                        NEW r \in Requests \ disturbed,
                        pc[r] # "failed", pc'[r] = "failed"
                 PROVE  \E u \in Requests, p \in Profiles :
                           <<u, p>> \in links /\ ~(p = profile[r] <=> email[u] = asked[r])
        OBVIOUS
    <2>1. (pc[r] = "raced" /\ EmailFree(asked[r])) \/ (pc[r] = "rejected" /\ ~SameRow(r))
        <3> USE DEF IInv, TypeOK, Goto, Running
        <3>1. ASSUME NEW q \in Requests, NEW e \in Emails,
                     \/ Register(q, e) \/ ChangeEmail(q, e)
                     \/ \E p \in Profiles, k \in {"signup", "login"} : Callback(q, k, e, p)
              PROVE  FALSE
            BY <3>1 DEF Register, ChangeEmail, Callback, Arrive
        <3>2. ASSUME NEW q \in Requests,
                     InsertUser(q) \/ Find(q) \/ Create(q) \/ Mark(q) \/ Link(q) \/ CheckExternal(q)
              PROVE  FALSE
            BY <3>2 DEF InsertUser, Find, Adopt, NextFor, Create, OnConflict, Mark, Link,
                        CheckExternal
        <3>3. ASSUME NEW q \in Requests, FindRaced(q)
              PROVE  pc[r] = "raced" /\ EmailFree(asked[r])
            BY <3>3 DEF FindRaced, Adopt, NextFor
        <3>4. ASSUME NEW q \in Requests, CheckOwn(q)
              PROVE  pc[r] = "rejected" /\ ~SameRow(r)
            BY <3>4 DEF CheckOwn
        <3>5. ~Crash /\ ~UNCHANGED vars
            BY DEF Crash, vars
        <3> QED
            BY <3>1, <3>2, <3>3, <3>4, <3>5 DEF Next
    <2>2. profile[r] \in Profiles
        BY <2>1 DEF IInv, Requested, Callbacks
    <2>3. CASE pc[r] = "raced" /\ EmailFree(asked[r])
        \* The transaction met a row that links the profile, as no row has the address.
        <3>1. PICK u \in Requests : <<u, profile[r]>> \in links
            BY <2>3 DEF IInv, LostTo, ProfileFree
        <3> QED
            BY <2>2, <2>3, <3>1 DEF EmailFree
    <2>4. CASE pc[r] = "rejected" /\ ~SameRow(r)
        <3>1. user[r] \in Requests /\ email[user[r]] = asked[r] /\ asked[r] # None
            BY <2>4, NoneIsNothing DEF IInv, OwnAccount, StillNamed, Adopted, Requested
        <3>2. CASE ~ProfileFree(profile[r])
            \* The row is another account's, which has another address.
            <4>1. PICK u \in Requests : <<u, profile[r]>> \in links
                BY <3>2 DEF ProfileFree
            <4>2. email[u] # asked[r]
                BY <2>4, <3>1, <4>1 DEF IInv, UniqueRows, SameRow
            <4> QED
                BY <2>2, <4>1, <4>2
        <3>3. CASE ~Linkless(user[r])
            BY <2>4, <3>1, <3>3 DEF Linkless, SameRow
        <3> QED
            BY <2>4, <3>2, <3>3 DEF IInv, LostTo
    <2> QED
        BY <2>1, <2>3, <2>4
<1> QED
    BY <1>1, Inductive, PTL DEF Spec, FailureIsExplained

\* A profile is linked to the account of an address that it showed.
THEOREM LinksFollowEmails == Spec => LinkFollowsEmail
<1> DEFINE Step == \A u \in Requests, p \in Profiles :
          <<u, p>> \in links' \ links =>
              \E r \in Requests :
                  /\ kind[r] # "register" /\ profile[r] = p
                  /\ email'[u] = asked[r] \/ r \in disturbed
<1>1. IInv /\ [Next]_vars => [Step]_vars
    <2> SUFFICES ASSUME IInv, [Next]_vars, NEW u \in Requests, NEW p \in Profiles,
                        <<u, p>> \in links' \ links
                 PROVE  \E r \in Requests :
                           /\ kind[r] # "register" /\ profile[r] = p
                           /\ email'[u] = asked[r] \/ r \in disturbed
        OBVIOUS
    <2>1. PICK r \in Requests : (Create(r) \/ Link(r)) /\ links' # links
        BY DEF Next, vars, account, given, Register, InsertUser, Callback, Arrive, Find,
               FindRaced, Mark, CheckExternal, CheckOwn, ChangeEmail, Crash
    <2>2. CASE Create(r)
        BY <2>1, <2>2 DEF Create, RolledBack, Inserts, AddUser, AddLink, IInv, TypeOK,
                          Requested, Goto
    <2>3. CASE Link(r)
        BY <2>1, <2>3 DEF Link, AddLink, IInv, TypeOK, Requested, Callbacks, StillNamed,
                          Adopted, Goto
    <2> QED
        BY <2>1, <2>2, <2>3
<1> QED
    BY <1>1, Inductive, PTL DEF Spec, LinkFollowsEmail

-----------------------------------------------------------------------------
(* The tables implement Directory.                                          *)

LEMMA TheOne ==
    ASSUME NEW L, NEW p, NEW u \in Requests, <<u, p>> \in L,
           \A v \in Requests : <<v, p>> \in L => v = u
    PROVE  (CHOOSE v \in Requests : <<v, p>> \in L) = u
OBVIOUS

\* Inserting a link is what the directory calls Attach.
LEMMA Attaching ==
    ASSUME IInv, NEW u \in Requests, NEW p \in Profiles,
           links' = links \union {<<u, p>>}, ProfileFree(p), Linkless(u)
    PROVE  Tables!Attach(u, p)
<1> USE DEF ProfileFree, Linkless
<1>1. Opened(p) = None /\ Opened(p)' = u
    <2>1. \A v \in Requests : <<v, p>> \in links' => v = u
        OBVIOUS
    <2> QED
        BY <2>1, TheOne DEF Opened
<1>2. \A q \in Profiles : Opened(q) # u
    <2> SUFFICES ASSUME NEW q \in Profiles, Opened(q) = u PROVE FALSE
        OBVIOUS
    <2>1. <<u, q>> \in links
        BY NoneIsNothing DEF Opened
    <2> QED
        BY <2>1
<1>3. \A q \in Profiles \ {p} : Opened(q)' = Opened(q)
    <2> SUFFICES ASSUME NEW q \in Profiles \ {p} PROVE Opened(q)' = Opened(q)
        OBVIOUS
    <2>1. \A v \in Requests : <<v, q>> \in links' <=> <<v, q>> \in links
        OBVIOUS
    <2> QED
        BY <2>1 DEF Opened
<1> QED
    BY <1>1, <1>2, <1>3 DEF Tables!Attach

\* The two tables behave as a directory in which a profile never moves.
THEOREM OAuthImplementsDirectory == Spec => ImplementsDirectory
<1>1. Init => Tables!Init
    BY DEF Init, Tables!Init, Opened
<1>2. IInv /\ [Next]_vars => [Tables!Next]_(Tables!vars)
    <2> SUFFICES ASSUME IInv, [Next]_vars
                 PROVE  [Tables!Next]_(Tables!vars)
        OBVIOUS
    <2>1. ASSUME links' = links PROVE \A p \in Profiles : Opened(p)' = Opened(p)
        BY <2>1 DEF Opened
    <2>2. ASSUME NEW r \in Requests, InsertUser(r) PROVE [Tables!Next]_(Tables!vars)
        <3>1. CASE EmailFree(asked[r])
            <4>1. asked[r] \in Emails /\ email[r] = None
                BY <2>2, CreatingCarries DEF InsertUser, Goto
            <4>2. Tables!Enrol(r, asked[r])
                BY <2>2, <3>1, <4>1 DEF InsertUser, AddUser, Goto, EmailFree,
                                        Tables!Enrol, Tables!Free
            <4> QED
                BY <2>1, <2>2, <4>1, <4>2 DEF InsertUser, Tables!Next
        <3>2. CASE ~EmailFree(asked[r])
            BY <2>1, <2>2, <3>2 DEF InsertUser, Tables!vars
        <3> QED
            BY <3>1, <3>2
    <2>3. ASSUME NEW r \in Requests, Create(r) PROVE [Tables!Next]_(Tables!vars)
        <3>1. CASE Conflicts(r)
            BY <2>1, <2>3, <3>1 DEF Create, RolledBack, Tables!vars
        <3>2. CASE ~Conflicts(r)
            <4>1. asked[r] \in Emails /\ profile[r] \in Profiles /\ email[r] = None
                BY <2>3, CreatingCarries DEF Create, Goto
            <4>2. /\ email' = [email EXCEPT ![r] = asked[r]]
                  /\ links' = links \union {<<r, profile[r]>>}
                BY <2>3, <3>2 DEF Create, Inserts, AddUser, AddLink
            <4>3. EmailFree(asked[r]) /\ ProfileFree(profile[r]) /\ Linkless(r)
                BY <3>2, <4>1 DEF Conflicts, Linkless, IInv, UniqueRows
            <4>4. Tables!Enrol(r, asked[r])
                BY <4>1, <4>2, <4>3 DEF EmailFree, Tables!Enrol, Tables!Free
            <4>5. Tables!Attach(r, profile[r])
                BY <4>1, <4>2, <4>3, Attaching
            <4> QED
                BY <4>1, <4>4, <4>5 DEF Tables!Next
        <3> QED
            BY <3>1, <3>2
    <2>4. ASSUME NEW r \in Requests, Link(r) PROVE [Tables!Next]_(Tables!vars)
        <3>1. CASE links' = links
            BY <2>1, <2>4, <3>1 DEF Link, Tables!vars
        <3>2. CASE links' # links
            <4>1. /\ user[r] \in Requests /\ email[user[r]] # None
                  /\ profile[r] \in Profiles
                BY <2>4 DEF Link, Goto, IInv, OwnAccount, Adopted, Requested, Callbacks
            <4>2. Tables!Attach(user[r], profile[r])
                BY <2>4, <3>2, <4>1, Attaching DEF Link, AddLink
            <4> QED
                BY <2>4, <4>1, <4>2 DEF Link, Tables!Next
        <3> QED
            BY <3>1, <3>2
    <2>5. ASSUME NEW u \in Requests, NEW e \in Emails, ChangeEmail(u, e)
          PROVE  [Tables!Next]_(Tables!vars)
        <3>1. Tables!Rename(u, e)
            BY <2>5 DEF ChangeEmail, EmailFree, Tables!Rename, Tables!Free
        <3> QED
            BY <2>1, <2>5, <3>1 DEF ChangeEmail, Tables!Next
    <2>6. ASSUME UNCHANGED <<email, links>> PROVE [Tables!Next]_(Tables!vars)
        BY <2>1, <2>6 DEF Tables!vars
    <2> QED
        BY <2>2, <2>3, <2>4, <2>5, <2>6
        DEF Next, vars, account, Register, Callback, Arrive, Find, FindRaced, Mark,
            CheckExternal, CheckOwn, Crash
<1> QED
    BY <1>1, <1>2, Inductive, PTL DEF Spec, ImplementsDirectory, Tables!Spec
=============================================================================
