---------------------------- MODULE SignupFlowProofs ----------------------------
(***************************************************************************)
(* Theorems about SignupFlow, for any tabs, profiles and SameSite values.  *)
(***************************************************************************)
EXTENDS SignupFlow, TLAPS

-----------------------------------------------------------------------------
(* The inductive invariant.                                                 *)

\* The flow of the cookie's tab was entered by a sign-up page and was not answered.
CookieIsOpen ==
    cookie # None => path[cookie] \in SignupRoles /\ pc[cookie] \notin {"new", "done"}

EnteredHasPath == \A t \in Tabs : pc[t] = "new" <=> path[t] = "none"
SentIsSignup == \A t \in Tabs : sent[t] # None => path[sent[t]] \in SignupRoles
BeforeIsDone == \A t \in Tabs : before[t] \subseteq {q \in Tabs : pc[q] = "done"}

\* Why tab t may meet the role that tab s left in the cookie.
MayMeet(t, s) == s = t \/ (s \notin before[t] /\ (path[t] = "login" \/ s \in later[t]))

CookieMayBeMet ==
    \A t \in Tabs : pc[t] = "consent" /\ cookie # None => MayMeet(t, cookie)
SentMayBeMet ==
    \A t \in Tabs :
        /\ sent[t] # None => MayMeet(t, sent[t])
        /\ pc[t] \in {"new", "consent"} => sent[t] = None

CreatorCalled ==
    \A p \in Profiles : creator[p] # None =>
        pc[creator[p]] \notin {"new", "consent"} /\ role[p] \in SignupRoles

\* Why tab t may find no role.
Excused(t) ==
    \/ path[t] = "login" \/ t \in expired
    \/ \E q \in Tabs \ {t} : pc[q] = "done" /\ q \notin before[t]

MissingIsExcused ==
    \A t \in Tabs :
        /\ pc[t] = "consent" /\ cookie = None => Excused(t)
        /\ pc[t] = "calling" /\ sent[t] = None => sameSite = "strict" \/ Excused(t)
        /\ result[t] # "none" => pc[t] \notin {"new", "consent", "calling"}

IInv ==
    /\ TypeOK
    /\ CookieIsOpen /\ EnteredHasPath /\ SentIsSignup /\ BeforeIsDone
    /\ CookieMayBeMet /\ SentMayBeMet /\ CreatorCalled /\ MissingIsExcused
    /\ RoleIsOwnUnlessOverlapped /\ RoleRequiredIsExplained

-----------------------------------------------------------------------------
LEMMA InitOK == Init => IInv
<1> SUFFICES ASSUME Init PROVE IInv
    OBVIOUS
<1>1. TypeOK
    BY DEF Init, TypeOK
<1>2. CookieIsOpen /\ EnteredHasPath /\ SentIsSignup /\ BeforeIsDone
    BY DEF Init, CookieIsOpen, EnteredHasPath, SentIsSignup, BeforeIsDone
<1>3. CookieMayBeMet /\ SentMayBeMet /\ CreatorCalled /\ MissingIsExcused
    BY DEF Init, CookieMayBeMet, SentMayBeMet, CreatorCalled, MissingIsExcused
<1>4. RoleIsOwnUnlessOverlapped /\ RoleRequiredIsExplained
    BY DEF Init, RoleIsOwnUnlessOverlapped, RoleRequiredIsExplained
<1> QED
    BY <1>1, <1>2, <1>3, <1>4 DEF IInv

-----------------------------------------------------------------------------
(* One lemma per group of facts, one step per action.                       *)

\* Create writes a role because the cookie that was sent holds one.
LEMMA TypeKept == IInv /\ [Next]_vars => TypeOK'
<1> SUFFICES ASSUME IInv, [Next]_vars PROVE TypeOK'
    OBVIOUS
<1> USE NoneIsNoTab DEF IInv, TypeOK, Goto, account, history, SignupRoles, Errors, SentIsSignup
<1>1. ASSUME NEW t \in Tabs, Login(t)
      PROVE  TypeOK'
    BY <1>1 DEF Login, Enter
<1>2. ASSUME NEW t \in Tabs, NEW r \in SignupRoles, Signup(t, r)
      PROVE  TypeOK'
    BY <1>2 DEF Signup, Enter
<1>3. ASSUME NEW t \in Tabs, Deny(t)
      PROVE  TypeOK'
    BY <1>3 DEF Deny, Kept
<1>4. ASSUME NEW t \in Tabs, Callback(t)
      PROVE  TypeOK'
    BY <1>4 DEF Callback
<1>5. ASSUME NEW t \in Tabs, NEW p \in Profiles, SignIn(t, p)
      PROVE  TypeOK'
    BY <1>5 DEF SignIn, Respond
<1>6. ASSUME NEW t \in Tabs, NEW p \in Profiles, Create(t, p)
      PROVE  TypeOK'
    BY <1>6 DEF Create, RoleOf, Respond
<1>7. ASSUME NEW t \in Tabs, NEW p \in Profiles, Fail(t, p)
      PROVE  TypeOK'
    BY <1>7 DEF Fail, Respond
<1>8. ASSUME NEW t \in Tabs, Answer(t)
      PROVE  TypeOK'
    BY <1>8 DEF Answer, ClearCookie, Forget
<1>9. ASSUME NEW t \in Tabs, Close(t)
      PROVE  TypeOK'
    BY <1>9 DEF Close, Forget
<1>10. ASSUME Expire
      PROVE  TypeOK'
    BY <1>10 DEF Expire
<1>11. ASSUME UNCHANGED vars
      PROVE  TypeOK'
    BY <1>11 DEF vars
<1> HIDE DEF IInv, TypeOK, Goto, account, history, SignupRoles, Errors, SentIsSignup
<1> QED
    BY <1>1, <1>2, <1>3, <1>4, <1>5, <1>6, <1>7, <1>8, <1>9, <1>10, <1>11 DEF Next

\* What the cookie, the histories and the callbacks know of the flows.
LEMMA CookieKept == IInv /\ [Next]_vars => CookieIsOpen'
<1> SUFFICES ASSUME IInv, [Next]_vars PROVE CookieIsOpen'
    OBVIOUS
<1> USE NoneIsNoTab DEF IInv, TypeOK, Goto, account, history, SignupRoles, CookieIsOpen,
                        EnteredHasPath
<1>1. ASSUME NEW t \in Tabs, Login(t)
      PROVE  CookieIsOpen'
    BY <1>1 DEF Login, Enter
<1>2. ASSUME NEW t \in Tabs, NEW r \in SignupRoles, Signup(t, r)
      PROVE  CookieIsOpen'
    BY <1>2 DEF Signup, Enter
<1>3. ASSUME NEW t \in Tabs, Deny(t)
      PROVE  CookieIsOpen'
    BY <1>3 DEF Deny, Kept
<1>4. ASSUME NEW t \in Tabs, Callback(t)
      PROVE  CookieIsOpen'
    BY <1>4 DEF Callback
<1>5. ASSUME NEW t \in Tabs, NEW p \in Profiles, SignIn(t, p)
      PROVE  CookieIsOpen'
    BY <1>5 DEF SignIn, Respond
<1>6. ASSUME NEW t \in Tabs, NEW p \in Profiles, Create(t, p)
      PROVE  CookieIsOpen'
    BY <1>6 DEF Create, RoleOf, Respond
<1>7. ASSUME NEW t \in Tabs, NEW p \in Profiles, Fail(t, p)
      PROVE  CookieIsOpen'
    BY <1>7 DEF Fail, Respond
<1>8. ASSUME NEW t \in Tabs, Answer(t)
      PROVE  CookieIsOpen'
    BY <1>8 DEF Answer, ClearCookie, Forget
<1>9. ASSUME NEW t \in Tabs, Close(t)
      PROVE  CookieIsOpen'
    BY <1>9 DEF Close, Forget
<1>10. ASSUME Expire
      PROVE  CookieIsOpen'
    BY <1>10 DEF Expire
<1>11. ASSUME UNCHANGED vars
      PROVE  CookieIsOpen'
    BY <1>11 DEF vars
<1> HIDE DEF IInv, TypeOK, Goto, account, history, SignupRoles, CookieIsOpen, EnteredHasPath
<1> QED
    BY <1>1, <1>2, <1>3, <1>4, <1>5, <1>6, <1>7, <1>8, <1>9, <1>10, <1>11 DEF Next

\* A flow has a path once it was entered.
LEMMA PathKept == IInv /\ [Next]_vars => EnteredHasPath'
<1> SUFFICES ASSUME IInv, [Next]_vars PROVE EnteredHasPath'
    OBVIOUS
<1> USE NoneIsNoTab DEF IInv, TypeOK, Goto, account, history, SignupRoles, EnteredHasPath
<1>1. ASSUME NEW t \in Tabs, Login(t)
      PROVE  EnteredHasPath'
    BY <1>1 DEF Login, Enter
<1>2. ASSUME NEW t \in Tabs, NEW r \in SignupRoles, Signup(t, r)
      PROVE  EnteredHasPath'
    BY <1>2 DEF Signup, Enter
<1>3. ASSUME NEW t \in Tabs, Deny(t)
      PROVE  EnteredHasPath'
    BY <1>3 DEF Deny, Kept
<1>4. ASSUME NEW t \in Tabs, Callback(t)
      PROVE  EnteredHasPath'
    BY <1>4 DEF Callback
<1>5. ASSUME NEW t \in Tabs, NEW p \in Profiles, SignIn(t, p)
      PROVE  EnteredHasPath'
    BY <1>5 DEF SignIn, Respond
<1>6. ASSUME NEW t \in Tabs, NEW p \in Profiles, Create(t, p)
      PROVE  EnteredHasPath'
    BY <1>6 DEF Create, RoleOf, Respond
<1>7. ASSUME NEW t \in Tabs, NEW p \in Profiles, Fail(t, p)
      PROVE  EnteredHasPath'
    BY <1>7 DEF Fail, Respond
<1>8. ASSUME NEW t \in Tabs, Answer(t)
      PROVE  EnteredHasPath'
    BY <1>8 DEF Answer, ClearCookie, Forget
<1>9. ASSUME NEW t \in Tabs, Close(t)
      PROVE  EnteredHasPath'
    BY <1>9 DEF Close, Forget
<1>10. ASSUME Expire
      PROVE  EnteredHasPath'
    BY <1>10 DEF Expire
<1>11. ASSUME UNCHANGED vars
      PROVE  EnteredHasPath'
    BY <1>11 DEF vars
<1> HIDE DEF IInv, TypeOK, Goto, account, history, SignupRoles, EnteredHasPath
<1> QED
    BY <1>1, <1>2, <1>3, <1>4, <1>5, <1>6, <1>7, <1>8, <1>9, <1>10, <1>11 DEF Next

\* A callback carries the role of a sign-up page.
LEMMA SentKept == IInv /\ [Next]_vars => SentIsSignup'
<1> SUFFICES ASSUME IInv, [Next]_vars PROVE SentIsSignup'
    OBVIOUS
<1> USE NoneIsNoTab DEF IInv, TypeOK, Goto, account, history, SignupRoles, SentIsSignup,
                        CookieIsOpen, EnteredHasPath
<1>1. ASSUME NEW t \in Tabs, Login(t)
      PROVE  SentIsSignup'
    BY <1>1 DEF Login, Enter
<1>2. ASSUME NEW t \in Tabs, NEW r \in SignupRoles, Signup(t, r)
      PROVE  SentIsSignup'
    BY <1>2 DEF Signup, Enter
<1>3. ASSUME NEW t \in Tabs, Deny(t)
      PROVE  SentIsSignup'
    BY <1>3 DEF Deny, Kept
<1>4. ASSUME NEW t \in Tabs, Callback(t)
      PROVE  SentIsSignup'
    BY <1>4 DEF Callback
<1>5. ASSUME NEW t \in Tabs, NEW p \in Profiles, SignIn(t, p)
      PROVE  SentIsSignup'
    BY <1>5 DEF SignIn, Respond
<1>6. ASSUME NEW t \in Tabs, NEW p \in Profiles, Create(t, p)
      PROVE  SentIsSignup'
    BY <1>6 DEF Create, RoleOf, Respond
<1>7. ASSUME NEW t \in Tabs, NEW p \in Profiles, Fail(t, p)
      PROVE  SentIsSignup'
    BY <1>7 DEF Fail, Respond
<1>8. ASSUME NEW t \in Tabs, Answer(t)
      PROVE  SentIsSignup'
    BY <1>8 DEF Answer, ClearCookie, Forget
<1>9. ASSUME NEW t \in Tabs, Close(t)
      PROVE  SentIsSignup'
    BY <1>9 DEF Close, Forget
<1>10. ASSUME Expire
      PROVE  SentIsSignup'
    BY <1>10 DEF Expire
<1>11. ASSUME UNCHANGED vars
      PROVE  SentIsSignup'
    BY <1>11 DEF vars
<1> HIDE DEF IInv, TypeOK, Goto, account, history, SignupRoles, SentIsSignup, CookieIsOpen,
             EnteredHasPath
<1> QED
    BY <1>1, <1>2, <1>3, <1>4, <1>5, <1>6, <1>7, <1>8, <1>9, <1>10, <1>11 DEF Next

\* Flows that were answered stay answered.
LEMMA BeforeKept == IInv /\ [Next]_vars => BeforeIsDone'
<1> SUFFICES ASSUME IInv, [Next]_vars PROVE BeforeIsDone'
    OBVIOUS
<1> USE NoneIsNoTab DEF IInv, TypeOK, Goto, account, history, SignupRoles, BeforeIsDone
<1>1. ASSUME NEW t \in Tabs, Login(t)
      PROVE  BeforeIsDone'
    BY <1>1 DEF Login, Enter
<1>2. ASSUME NEW t \in Tabs, NEW r \in SignupRoles, Signup(t, r)
      PROVE  BeforeIsDone'
    BY <1>2 DEF Signup, Enter
<1>3. ASSUME NEW t \in Tabs, Deny(t)
      PROVE  BeforeIsDone'
    BY <1>3 DEF Deny, Kept
<1>4. ASSUME NEW t \in Tabs, Callback(t)
      PROVE  BeforeIsDone'
    BY <1>4 DEF Callback
<1>5. ASSUME NEW t \in Tabs, NEW p \in Profiles, SignIn(t, p)
      PROVE  BeforeIsDone'
    BY <1>5 DEF SignIn, Respond
<1>6. ASSUME NEW t \in Tabs, NEW p \in Profiles, Create(t, p)
      PROVE  BeforeIsDone'
    BY <1>6 DEF Create, RoleOf, Respond
<1>7. ASSUME NEW t \in Tabs, NEW p \in Profiles, Fail(t, p)
      PROVE  BeforeIsDone'
    BY <1>7 DEF Fail, Respond
<1>8. ASSUME NEW t \in Tabs, Answer(t)
      PROVE  BeforeIsDone'
    BY <1>8 DEF Answer, ClearCookie, Forget
<1>9. ASSUME NEW t \in Tabs, Close(t)
      PROVE  BeforeIsDone'
    BY <1>9 DEF Close, Forget
<1>10. ASSUME Expire
      PROVE  BeforeIsDone'
    BY <1>10 DEF Expire
<1>11. ASSUME UNCHANGED vars
      PROVE  BeforeIsDone'
    BY <1>11 DEF vars
<1> HIDE DEF IInv, TypeOK, Goto, account, history, SignupRoles, BeforeIsDone
<1> QED
    BY <1>1, <1>2, <1>3, <1>4, <1>5, <1>6, <1>7, <1>8, <1>9, <1>10, <1>11 DEF Next

\* A sign-up page that is opened during the consent of t is in later[t].
LEMMA CookieMet == IInv /\ [Next]_vars => CookieMayBeMet'
<1> SUFFICES ASSUME IInv, [Next]_vars PROVE CookieMayBeMet'
    OBVIOUS
<1> USE NoneIsNoTab DEF IInv, TypeOK, Goto, account, history, SignupRoles, CookieMayBeMet,
                        MayMeet, CookieIsOpen, EnteredHasPath, BeforeIsDone
<1>1. ASSUME NEW t \in Tabs, Login(t)
      PROVE  CookieMayBeMet'
    BY <1>1 DEF Login, Enter
<1>2. ASSUME NEW t \in Tabs, NEW r \in SignupRoles, Signup(t, r)
      PROVE  CookieMayBeMet'
    BY <1>2 DEF Signup, Enter
<1>3. ASSUME NEW t \in Tabs, Deny(t)
      PROVE  CookieMayBeMet'
    BY <1>3 DEF Deny, Kept
<1>4. ASSUME NEW t \in Tabs, Callback(t)
      PROVE  CookieMayBeMet'
    BY <1>4 DEF Callback
<1>5. ASSUME NEW t \in Tabs, NEW p \in Profiles, SignIn(t, p)
      PROVE  CookieMayBeMet'
    BY <1>5 DEF SignIn, Respond
<1>6. ASSUME NEW t \in Tabs, NEW p \in Profiles, Create(t, p)
      PROVE  CookieMayBeMet'
    BY <1>6 DEF Create, RoleOf, Respond
<1>7. ASSUME NEW t \in Tabs, NEW p \in Profiles, Fail(t, p)
      PROVE  CookieMayBeMet'
    BY <1>7 DEF Fail, Respond
<1>8. ASSUME NEW t \in Tabs, Answer(t)
      PROVE  CookieMayBeMet'
    BY <1>8 DEF Answer, ClearCookie, Forget
<1>9. ASSUME NEW t \in Tabs, Close(t)
      PROVE  CookieMayBeMet'
    BY <1>9 DEF Close, Forget
<1>10. ASSUME Expire
      PROVE  CookieMayBeMet'
    BY <1>10 DEF Expire
<1>11. ASSUME UNCHANGED vars
      PROVE  CookieMayBeMet'
    BY <1>11 DEF vars
<1> HIDE DEF IInv, TypeOK, Goto, account, history, SignupRoles, CookieMayBeMet, MayMeet,
             CookieIsOpen, EnteredHasPath, BeforeIsDone
<1> QED
    BY <1>1, <1>2, <1>3, <1>4, <1>5, <1>6, <1>7, <1>8, <1>9, <1>10, <1>11 DEF Next

\* The callback takes the cookie over, and the histories of t end with it.
LEMMA SentMet == IInv /\ [Next]_vars => SentMayBeMet'
<1> SUFFICES ASSUME IInv, [Next]_vars PROVE SentMayBeMet'
    OBVIOUS
<1> USE NoneIsNoTab DEF IInv, TypeOK, Goto, account, history, SignupRoles, SentMayBeMet,
                        CookieMayBeMet, MayMeet, EnteredHasPath
<1>1. ASSUME NEW t \in Tabs, Login(t)
      PROVE  SentMayBeMet'
    BY <1>1 DEF Login, Enter
<1>2. ASSUME NEW t \in Tabs, NEW r \in SignupRoles, Signup(t, r)
      PROVE  SentMayBeMet'
    BY <1>2 DEF Signup, Enter
<1>3. ASSUME NEW t \in Tabs, Deny(t)
      PROVE  SentMayBeMet'
    BY <1>3 DEF Deny, Kept
<1>4. ASSUME NEW t \in Tabs, Callback(t)
      PROVE  SentMayBeMet'
    BY <1>4 DEF Callback
<1>5. ASSUME NEW t \in Tabs, NEW p \in Profiles, SignIn(t, p)
      PROVE  SentMayBeMet'
    BY <1>5 DEF SignIn, Respond
<1>6. ASSUME NEW t \in Tabs, NEW p \in Profiles, Create(t, p)
      PROVE  SentMayBeMet'
    BY <1>6 DEF Create, RoleOf, Respond
<1>7. ASSUME NEW t \in Tabs, NEW p \in Profiles, Fail(t, p)
      PROVE  SentMayBeMet'
    BY <1>7 DEF Fail, Respond
<1>8. ASSUME NEW t \in Tabs, Answer(t)
      PROVE  SentMayBeMet'
    BY <1>8 DEF Answer, ClearCookie, Forget
<1>9. ASSUME NEW t \in Tabs, Close(t)
      PROVE  SentMayBeMet'
    BY <1>9 DEF Close, Forget
<1>10. ASSUME Expire
      PROVE  SentMayBeMet'
    BY <1>10 DEF Expire
<1>11. ASSUME UNCHANGED vars
      PROVE  SentMayBeMet'
    BY <1>11 DEF vars
<1> HIDE DEF IInv, TypeOK, Goto, account, history, SignupRoles, SentMayBeMet,
             CookieMayBeMet, MayMeet, EnteredHasPath
<1> QED
    BY <1>1, <1>2, <1>3, <1>4, <1>5, <1>6, <1>7, <1>8, <1>9, <1>10, <1>11 DEF Next

\* An account is created by a callback.
LEMMA CreatorKept == IInv /\ [Next]_vars => CreatorCalled'
<1> SUFFICES ASSUME IInv, [Next]_vars PROVE CreatorCalled'
    OBVIOUS
<1> USE NoneIsNoTab DEF IInv, TypeOK, Goto, account, history, SignupRoles, CreatorCalled,
                        SentIsSignup, SentMayBeMet
<1>1. ASSUME NEW t \in Tabs, Login(t)
      PROVE  CreatorCalled'
    BY <1>1 DEF Login, Enter
<1>2. ASSUME NEW t \in Tabs, NEW r \in SignupRoles, Signup(t, r)
      PROVE  CreatorCalled'
    BY <1>2 DEF Signup, Enter
<1>3. ASSUME NEW t \in Tabs, Deny(t)
      PROVE  CreatorCalled'
    BY <1>3 DEF Deny, Kept
<1>4. ASSUME NEW t \in Tabs, Callback(t)
      PROVE  CreatorCalled'
    BY <1>4 DEF Callback
<1>5. ASSUME NEW t \in Tabs, NEW p \in Profiles, SignIn(t, p)
      PROVE  CreatorCalled'
    BY <1>5 DEF SignIn, Respond
<1>6. ASSUME NEW t \in Tabs, NEW p \in Profiles, Create(t, p)
      PROVE  CreatorCalled'
    BY <1>6 DEF Create, RoleOf, Respond
<1>7. ASSUME NEW t \in Tabs, NEW p \in Profiles, Fail(t, p)
      PROVE  CreatorCalled'
    BY <1>7 DEF Fail, Respond
<1>8. ASSUME NEW t \in Tabs, Answer(t)
      PROVE  CreatorCalled'
    BY <1>8 DEF Answer, ClearCookie, Forget
<1>9. ASSUME NEW t \in Tabs, Close(t)
      PROVE  CreatorCalled'
    BY <1>9 DEF Close, Forget
<1>10. ASSUME Expire
      PROVE  CreatorCalled'
    BY <1>10 DEF Expire
<1>11. ASSUME UNCHANGED vars
      PROVE  CreatorCalled'
    BY <1>11 DEF vars
<1> HIDE DEF IInv, TypeOK, Goto, account, history, SignupRoles, CreatorCalled,
             SentIsSignup, SentMayBeMet
<1> QED
    BY <1>1, <1>2, <1>3, <1>4, <1>5, <1>6, <1>7, <1>8, <1>9, <1>10, <1>11 DEF Next

\* Only an expiry and the answer of another flow take the cookie of t away.
LEMMA MissingKept == IInv /\ [Next]_vars => MissingIsExcused'
<1> SUFFICES ASSUME IInv, [Next]_vars PROVE MissingIsExcused'
    OBVIOUS
<1> USE NoneIsNoTab DEF IInv, TypeOK, Goto, account, history, SignupRoles,
                        MissingIsExcused, Excused, EnteredHasPath, BeforeIsDone
<1>1. ASSUME NEW t \in Tabs, Login(t)
      PROVE  MissingIsExcused'
    BY <1>1 DEF Login, Enter
<1>2. ASSUME NEW t \in Tabs, NEW r \in SignupRoles, Signup(t, r)
      PROVE  MissingIsExcused'
    BY <1>2 DEF Signup, Enter
<1>3. ASSUME NEW t \in Tabs, Deny(t)
      PROVE  MissingIsExcused'
    BY <1>3 DEF Deny, Kept
<1>4. ASSUME NEW t \in Tabs, Callback(t)
      PROVE  MissingIsExcused'
    BY <1>4 DEF Callback
<1>5. ASSUME NEW t \in Tabs, NEW p \in Profiles, SignIn(t, p)
      PROVE  MissingIsExcused'
    BY <1>5 DEF SignIn, Respond
<1>6. ASSUME NEW t \in Tabs, NEW p \in Profiles, Create(t, p)
      PROVE  MissingIsExcused'
    BY <1>6 DEF Create, RoleOf, Respond
<1>7. ASSUME NEW t \in Tabs, NEW p \in Profiles, Fail(t, p)
      PROVE  MissingIsExcused'
    BY <1>7 DEF Fail, Respond
<1>8. ASSUME NEW t \in Tabs, Answer(t)
      PROVE  MissingIsExcused'
    BY <1>8 DEF Answer, ClearCookie, Forget
<1>9. ASSUME NEW t \in Tabs, Close(t)
      PROVE  MissingIsExcused'
    BY <1>9 DEF Close, Forget
<1>10. ASSUME Expire
      PROVE  MissingIsExcused'
    BY <1>10 DEF Expire
<1>11. ASSUME UNCHANGED vars
      PROVE  MissingIsExcused'
    BY <1>11 DEF vars
<1> HIDE DEF IInv, TypeOK, Goto, account, history, SignupRoles, MissingIsExcused, Excused,
             EnteredHasPath, BeforeIsDone
<1> QED
    BY <1>1, <1>2, <1>3, <1>4, <1>5, <1>6, <1>7, <1>8, <1>9, <1>10, <1>11 DEF Next

\* The cookie that an account was created with is the tab's own or one it may meet.
LEMMA RoleKept == IInv /\ [Next]_vars => RoleIsOwnUnlessOverlapped'
<1> SUFFICES ASSUME IInv, [Next]_vars PROVE RoleIsOwnUnlessOverlapped'
    OBVIOUS
<1> USE NoneIsNoTab DEF IInv, TypeOK, Goto, account, history, SignupRoles,
                        RoleIsOwnUnlessOverlapped, CreatorCalled, SentMayBeMet, MayMeet,
                        EnteredHasPath, SentIsSignup
<1>1. ASSUME NEW t \in Tabs, Login(t)
      PROVE  RoleIsOwnUnlessOverlapped'
    BY <1>1 DEF Login, Enter
<1>2. ASSUME NEW t \in Tabs, NEW r \in SignupRoles, Signup(t, r)
      PROVE  RoleIsOwnUnlessOverlapped'
    BY <1>2 DEF Signup, Enter
<1>3. ASSUME NEW t \in Tabs, Deny(t)
      PROVE  RoleIsOwnUnlessOverlapped'
    BY <1>3 DEF Deny, Kept
<1>4. ASSUME NEW t \in Tabs, Callback(t)
      PROVE  RoleIsOwnUnlessOverlapped'
    BY <1>4 DEF Callback
<1>5. ASSUME NEW t \in Tabs, NEW p \in Profiles, SignIn(t, p)
      PROVE  RoleIsOwnUnlessOverlapped'
    BY <1>5 DEF SignIn, Respond
<1>6. ASSUME NEW t \in Tabs, NEW p \in Profiles, Create(t, p)
      PROVE  RoleIsOwnUnlessOverlapped'
    BY <1>6 DEF Create, RoleOf, Respond
<1>7. ASSUME NEW t \in Tabs, NEW p \in Profiles, Fail(t, p)
      PROVE  RoleIsOwnUnlessOverlapped'
    BY <1>7 DEF Fail, Respond
<1>8. ASSUME NEW t \in Tabs, Answer(t)
      PROVE  RoleIsOwnUnlessOverlapped'
    BY <1>8 DEF Answer, ClearCookie, Forget
<1>9. ASSUME NEW t \in Tabs, Close(t)
      PROVE  RoleIsOwnUnlessOverlapped'
    BY <1>9 DEF Close, Forget
<1>10. ASSUME Expire
      PROVE  RoleIsOwnUnlessOverlapped'
    BY <1>10 DEF Expire
<1>11. ASSUME UNCHANGED vars
      PROVE  RoleIsOwnUnlessOverlapped'
    BY <1>11 DEF vars
<1> HIDE DEF IInv, TypeOK, Goto, account, history, SignupRoles, RoleIsOwnUnlessOverlapped,
             CreatorCalled, SentMayBeMet, MayMeet, EnteredHasPath, SentIsSignup
<1> QED
    BY <1>1, <1>2, <1>3, <1>4, <1>5, <1>6, <1>7, <1>8, <1>9, <1>10, <1>11 DEF Next

\* What excuses a missing role stays true.
LEMMA RequiredKept == IInv /\ [Next]_vars => RoleRequiredIsExplained'
<1> SUFFICES ASSUME IInv, [Next]_vars PROVE RoleRequiredIsExplained'
    OBVIOUS
<1> USE NoneIsNoTab DEF IInv, TypeOK, Goto, account, history, SignupRoles,
                        RoleRequiredIsExplained, MissingIsExcused, Excused, EnteredHasPath,
                        BeforeIsDone
<1>1. ASSUME NEW t \in Tabs, Login(t)
      PROVE  RoleRequiredIsExplained'
    BY <1>1 DEF Login, Enter
<1>2. ASSUME NEW t \in Tabs, NEW r \in SignupRoles, Signup(t, r)
      PROVE  RoleRequiredIsExplained'
    BY <1>2 DEF Signup, Enter
<1>3. ASSUME NEW t \in Tabs, Deny(t)
      PROVE  RoleRequiredIsExplained'
    BY <1>3 DEF Deny, Kept
<1>4. ASSUME NEW t \in Tabs, Callback(t)
      PROVE  RoleRequiredIsExplained'
    BY <1>4 DEF Callback
<1>5. ASSUME NEW t \in Tabs, NEW p \in Profiles, SignIn(t, p)
      PROVE  RoleRequiredIsExplained'
    BY <1>5 DEF SignIn, Respond
<1>6. ASSUME NEW t \in Tabs, NEW p \in Profiles, Create(t, p)
      PROVE  RoleRequiredIsExplained'
    BY <1>6 DEF Create, RoleOf, Respond
<1>7. ASSUME NEW t \in Tabs, NEW p \in Profiles, Fail(t, p)
      PROVE  RoleRequiredIsExplained'
    BY <1>7 DEF Fail, Respond
<1>8. ASSUME NEW t \in Tabs, Answer(t)
      PROVE  RoleRequiredIsExplained'
    BY <1>8 DEF Answer, ClearCookie, Forget
<1>9. ASSUME NEW t \in Tabs, Close(t)
      PROVE  RoleRequiredIsExplained'
    BY <1>9 DEF Close, Forget
<1>10. ASSUME Expire
      PROVE  RoleRequiredIsExplained'
    BY <1>10 DEF Expire
<1>11. ASSUME UNCHANGED vars
      PROVE  RoleRequiredIsExplained'
    BY <1>11 DEF vars
<1> HIDE DEF IInv, TypeOK, Goto, account, history, SignupRoles, RoleRequiredIsExplained,
             MissingIsExcused, Excused, EnteredHasPath, BeforeIsDone
<1> QED
    BY <1>1, <1>2, <1>3, <1>4, <1>5, <1>6, <1>7, <1>8, <1>9, <1>10, <1>11 DEF Next

LEMMA Inductive == Spec => []IInv
<1>1. IInv /\ [Next]_vars => IInv'
    BY TypeKept, CookieKept, PathKept, SentKept, BeforeKept, CookieMet, SentMet, CreatorKept,
       MissingKept, RoleKept, RequiredKept DEF IInv
<1> QED
    BY InitOK, <1>1, PTL DEF Spec

-----------------------------------------------------------------------------
\* Every reachable state of SignupFlow is well typed.
THEOREM TypeCorrect == Spec => []TypeOK
<1>1. IInv => TypeOK
    BY DEF IInv
<1> QED
    BY <1>1, Inductive, PTL

\* The cookie gives an account the role of its own tab unless flows overlap.
THEOREM RolesAreOwn == Spec => []RoleIsOwnUnlessOverlapped
<1>1. IInv => RoleIsOwnUnlessOverlapped
    BY DEF IInv
<1> QED
    BY <1>1, Inductive, PTL

\* A sign-up lacks its role only because of an expiry, a Strict cookie or the answer
\* of another flow.
THEOREM MissingRolesAreExplained == Spec => []RoleRequiredIsExplained
<1>1. IInv => RoleRequiredIsExplained
    BY DEF IInv
<1> QED
    BY <1>1, Inductive, PTL
=============================================================================
