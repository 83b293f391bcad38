# Verification of the SkillBridge backend

TLA+ models of the NestJS backend in `src/`, with the TLC runs that check them
and the TLAPS proofs about them. Paths below are those of the repository.

## The system

One Node process (pm2, `ecosystem.config.cjs`, one instance, restarted when it
dies) serves HTTP, keeps everything in PostgreSQL through TypeORM, and hands
password-reset work to two BullMQ queues in Redis when `REDIS_URL` is set.
Requests interleave at every `await`. Nearly all statements are single UPDATEs
or INSERTs outside a transaction and without locks, so what keeps concurrent
requests apart is, if anything, the WHERE clause or a unique constraint.

| Component | State | Operations | What makes it correct | What is hard |
|---|---|---|---|---|
| Sessions (`auth.service.ts`, `users.service.ts`) | `users.refresh_token_hash`, `password`, `is_verified` | login, OAuth login, re-issue after onboarding, verifyEmail, refresh, logout, reset | a token is rotated once; a reset ends old sessions; a lost comparison is explained by an overlap | reads, seconds of argon2, then writes by id; lost answers; crashes |
| One-time codes (`verification-otp.service.ts`, `password-reset-otp.service.ts`) | tables `verification_otps`, `password_reset_otps` | issue, consume, verify | a code is redeemed once; superseded codes stay refused | invalidate / hash / INSERT and read / compare / UPDATE are separate steps; expiry between them |
| Registration and email verification (`auth.service.ts`) | the users row, the code table, the mail provider | register, resendVerification, verifyEmail | one registration per address; limit of resends; a used code verifies | count then insert; stale `is_verified`; mail fails after the row is stored |
| Password reset pipeline (`password-reset-queue.service.ts`, `password-reset-delivery.service.ts`, `outbound-email-queue.service.ts`) | two Redis queues, or callbacks and `inlinePending` | forgotPassword, delivery, mailing, resetPassword, awaitIdleForTests | one code good at a time, and later resets use newer codes (Redis); every job settles; the counter is exact (inline) | at-least-once jobs, crashes between two writes, jobs that stall, lost callbacks |
| OAuth accounts (`users.service.ts`, `user.action.ts`) | `users`, `user_oauth_accounts` | resolve a profile: existing link, link by email, new user | one account per address, a profile opens one account for good, a linked account is verified | two callbacks, or a callback and a registration, at once; verified before linked; conflicts told apart by second lookups |
| Users administration | `users` | create, update, remove | an address names one account | a change of address overlaps an OAuth callback |
| Talent onboarding (`talent.service.ts`) | `talent_profiles`, `users.onboarding_complete` | saveGoal, saveGoalStep, saveTracks, saveTrackStep, saveProfile, saveTalentProfile, completeOnboarding, personalise | a completed user has a profile; only overlapping saves undo each other | objects saved from stale reads, checks without locks, two lock orders |
| Employer onboarding (`employer.service.ts`) | `employer_profiles`, `users.onboarding_complete` | saveProfile, completeOnboarding | one profile, one completion | checks without a lock |
| Candidate onboarding | - | the predecessor of talent onboarding | - | dead code: its module is not imported |
| Inquiries | `waitlist_entries`, `contact_messages` | joinWaitlist, createContactMessage | an address is on the list once | look up, then insert |
| Upload | an S3 bucket | uploadAvatar | - | upload and row are not one transaction |
| Google sign-up flow (`google-auth.guard.ts`, `auth.cookies.ts`, `auth.controller.ts`) | the cookie of the sign-up role, one per browser | `/google`, `/google/signup/:role`, `/google/callback` | an account gets the role of the page its tab was entered by | tabs share the cookie; it outlives abandoned sign-ups, and runs out |
| Database migrations (`src/database/migrations`) | the schema, the `migrations` table | `migration:run`, `migration:revert` | a run reaches the tables of the entities in use and never throws; a revert restores | data written in between; reverts that take back more than their migration did |
| Other guards, strategies, redirects | none | who may call what; where a login is sent | agreement with the role table of the documentation | - |
| Mail templates, configuration, filters, seeds | none | formatting, parsing | - | - |

They interact through the users row (sessions, verification, reset, OAuth,
onboarding all write columns of it), through the cookie that the sign-up page leaves
for the callback, through calls inside the process (the
onboarding services call `issueSessionForUser`; verifyEmail and resetPassword
call `consume`), and through the two queues.

## The modules

| Module | Models |
|---|---|
| `Sessions` | the handlers that read or write the session of one account |
| `SessionRegister` | the abstract register of one current token that `Sessions` implements |
| `SessionsProofs` | theorems about `Sessions` |
| `OtpTable` | the rows of one user's codes and the SQL statements on them; used by the three modules below |
| `Otp` | calls of issue, consume and verify at the same time |
| `OneTimeCode` | the abstract one-time code that `Otp` implements |
| `OtpProofs` | theorems about `Otp` |
| `SignupFlow` | the tabs of one browser, the cookie of the sign-up role and the callback |
| `SignupFlowProofs` | theorems about `SignupFlow` |
| `EmailVerification` | register, resendVerification and verifyEmail over `OtpTable` |
| `EmailVerificationProofs` | theorems about `EmailVerification` |
| `PasswordReset` | the reset pipeline from forgotPassword to resetPassword over `OtpTable` |
| `PasswordResetProofs` | theorems about `PasswordReset` |
| `OAuthAccounts` | OAuth callbacks, registrations and changes of address over the two tables |
| `Directory` | the abstract directory that `OAuthAccounts` implements: an address names one account, a profile opens one and never another |
| `OAuthProofs` | theorems about `OAuthAccounts` |
| `Onboarding` | the handlers of `TalentService` and `EmployerService` over one user's profile |
| `OnboardingProofs` | theorems about `Onboarding` |
| `Migrations` | the schema, the 19 migrations up and down, and the tables of the entities |
| `MigrationsProofs` | theorems about `Migrations` |
| `MC...` | the same modules with the symmetry that TLC uses |

In every module an action is what a handler does between two statements that
other requests can see. `pc` says which statement comes next, so the program
order of a handler is the order of its `pc` values, and a local variable that
lives across an `await` is a function on requests (`given`, `target`,
`wasVerified`). Definitions marked `slip` are not part of a model: each is a
bug that one of the definitions below it could have had (a dropped WHERE clause, a
missing invalidation), and each breaks the property that is meant to notice it.

**Sessions.** A refresh token carries a random `jti` and argon2 salts its hash, so a
token and its hash are both named by the request that minted them:
`refreshTokenHash = r` is the stored hash of the token of request `r`. `Begin` is a
handler up to its first write; `Persist`, `Rotate`, `Clear` and `ResetPassword` are
the UPDATEs; `Answer` lets the client receive the answer or not. Requests for
other accounts touch other rows. The redemption of a code is nondeterministic
here (it is the subject of `Otp`), and the resolution of an OAuth profile is one step
that leaves the account verified. Access tokens are stateless and appear in one place:
`Reissue(r, t)` is an onboarding request that the access token signed together with the
refresh token t authenticates, whether or not t is still the current one. Whether
onboarding lets it through, and how often, is in `Onboarding`. Left out: the expiry of
access tokens and of refresh tokens (refused before the row is read), and an
administrator's update or removal of the user.

**OtpTable.** A row is named by the call of issue that inserts it. Time is a
counter that moves with the writes worth ordering; since every code lives equally
long, `expiresAt` is the moment at which the expiry was computed, and `horizon` says
up to which of these moments codes have run out. Expiry may thus fall between any two
statements. Two rows may draw the same code.

**EmailVerification.** `Arrive` is the read of the users row by email. A verification
may submit any code (`Match(r, x)`), one that was issued or not. The mail
provider accepts or refuses a mail; when it refuses, the row stays and counts
against the limit, as in the code. `windowStart` is the start of the hour that
`countRecentResends` looks at; it moves past a resend only when the codes of that
time have run out, because a code lives for 15 minutes. That an OAuth login verifies
the account meanwhile is left out.

**PasswordReset.** The variable `redis`, chosen from `Modes` at the start, says which of the
two modes of `PasswordResetQueueService` and `OutboundEmailQueueService` the deployment
runs in. BullMQ itself is external
and modelled from how the code configures it: default options, so concurrency 1, one
attempt, first in first out, and a job whose worker died is put back at the front
once (`stalled`) and fails the second time. A crash loses what runs; with Redis the
queues stay, without it the pending callbacks are lost, as the comment in `enqueue`
says. The payload check of the mail worker and the provider's errors are one
outcome, a failed job; the provider may have taken the mail all the same, so `sends` counts
attempts. A reset may submit any code (`Reset(r, x)`), whatever mails went out. The user row exists throughout. `RunsSuffice` bounds the
crashes: with Redis one happens only while there are unused runs left for the jobs that
it makes start again, so that no job waits for want of a name.

**OAuthAccounts.** A request creates at most one account, which is therefore named by
it. There is one provider (`google`), so the index on (user_id, provider) says that an
account has one link. `Callback` is the lookup by profile with which
`resolveOAuthUserFromProviderProfile` begins, `Find` and `FindRaced` its two lookups by
address, `Create` the transaction of `createVerifiedUserWithOauthLink`, `Mark` the
UPDATE of `markVerified`, `Link` the INSERT of `linkOauthAccountToUser`, and
`CheckExternal` and `CheckOwn` the lookups after its unique violation. The transaction
is one step: it writes rows that nobody else can see before it commits, and a
conflicting INSERT waits for its end. Rows do not vanish: `UsersService.remove` calls
the delete of a model action that is in a package outside the repository, and the
foreign key of the links has no cascade. A login that verifies the account by code
meanwhile is left out; it would only verify more.

**SignupFlow.** A role is only put into the cookie by a tab, so the cookie is named by the
tab that set it (`cookie = t`), and the role that it stands for is `path[t]`. `Login` and
`Signup` are `GoogleOAuthGuard` in front of `/google` and `/google/signup/:role`, `Deny` its
`handleRequest` when it throws, `Callback` the request that the browser sends, `SignIn`,
`Create` and `Fail` what `googleAuthRedirect` makes of it, `Answer` the redirect that clears
the cookie. Which profile the user consented with is chosen where it is first looked
at. A role that `normalizeOAuthSignupRole` does not know is refused before Google is asked,
with the cookie as it was, and starts no flow. `AUTH_COOKIE_SAMESITE` is the variable `sameSite`: Google redirects
from another site, so a Strict cookie may be withheld. The creation of the account is
one step here (`OAuthAccounts` has its parts), and the session is in `Sessions`.

**Migrations.** A table is the record of its columns, those that are NOT NULL apart, its unique
keys, its other indexes and what its foreign key does on delete; with it go whether
it has rows and which of the columns that some migration makes NOT NULL hold a
NULL. Types, lengths and defaults of columns are left out, except the type
`users_role_enum` and its default. Each migration is a pair of operators named after its
class, `...Up` and `...Down`, made of its statements; a statement that throws marks the
database, and the transaction of the command is then rolled back. `Run(n)` is
`migration:run` of the release with the first n migrations: every prefix may have been
a release. `Entities` is what the pattern `**/*.entity` of `data-source.ts` loads. `Fits`
compares the tables with the entities in use (`InUse`): `CandidateProfile` is loaded too,
but its module is not imported by `AppModule`, so nothing queries its table, which a
migration renamed to `talent_profiles`. `Fits` says that no table of that name is left: of the
entities that are loaded one has none. With `DATABASE_SYNC`, which is off by default
(`env.ts:33`), TypeORM would create it. Migrations that were merged out of the order of their timestamps are not
modelled. `AddUser`, `AddProfile` and `Complete` are the rows that whatever release is
running writes between two commands.

**Onboarding.** One user, whose profile row is a record of the columns that the handlers
write; a column holds the request that wrote it. A step is `Fetch`, perhaps
`CreateProfile`, `Compare` and `Save`; a completion is `Find`, `Compare`, `Write`
and `Commit`, with `UpdateAvatar` where an avatar comes with it, which is first
in `saveTalentProfile` and after `Find` in `saveProfile`. `Arrive` includes the check
of `onboarding_complete`, on which `saveGoalStep`, `saveTrackStep` and
`saveTalentProfile` do not insist. TypeORM's `save` is external: it reads the row by
its id and updates the columns in which the object differs (`Differing`,
`Update`), so an object read before another request's save carries that
request's columns back to what they were. PostgreSQL is external as well: row locks last
until the transaction ends, writes appear when it commits, and of two transactions
that wait for each other one is aborted. The lock that the foreign key
takes on the users row does not conflict with updates of its other columns. The upload
precedes the transaction, the new session follows it (`Reissue` in `Sessions`), and
`avatar_url` itself is not a column of the model. `EmployerService` is the same
module over `employer_profiles` with `Handlers` limited to `"profile"` and `"legacy"`,
and the run, which has both handlers among the eight, covers it.

## The runs

| Run | Question | Bounds | Result |
|---|---|---|---|
| `sessions` | do the promises of the session handlers hold for every interleaving? | 4 requests, 2 passwords; 460,812 states | holds |
| `sessions_reset` | does a reset end all sessions? | same | no: a login that compared the old password before the reset stores its token after it |
| `sessions_logout` | does a logout end the session it was sent for? | same | no: a refresh that was running replaces the token, the logout then finds no match and answers success |
| `otp` | do the code services keep their promises and implement `OneTimeCode`? | 4 calls, 2 codes; 52,257 states | holds |
| `otp_active` | is one code good at a time? | same | no: two calls of issue that overlap miss each other's rows |
| `email_verification` | one registration, limit, verification | 3 calls, 2 codes, limit 1; 708,850 states | holds |
| `password_reset` | what do the queues, the codes and the resets promise, with Redis and without? | 2 jobs, 3 runs, 2 resets, 1 code, 1 crash; 3.2 million states | holds |
| `password_reset_live` | is every accepted job and mail settled, also one that stalls twice? | 2 jobs, 3 runs, no reset, 2 crashes; 101,468 states | holds |
| `signup_flow` | whose role does an account get, and when is a role missing? | 3 tabs, 2 profiles, Strict and Lax; 3.2 million states | holds |
| `migrations` | do runs and reverts reach what the entities in use expect? | all 19 migrations, no bound; 1,193 states | holds |
| `oauth` | one account per profile, and a refinement of `Directory` | 3 requests, 2 addresses, 2 profiles; 26,407 states | holds |
| `onboarding` | what do the completing transactions promise, and what may overlapping saves do to each other? | 3 requests of all 8 handlers; 782,945 states | holds |

The bounds are enough for what the properties tell apart: a race of two
requests needs those two, one that opened the session they use and one that
disturbs them, which makes four for sessions and codes. In `EmailVerification` a
verification, a second one and the code they compete for make three, and limit 1
makes the second resend the interesting one. In `PasswordReset` one crash makes one
job run twice, hence three runs for two jobs, and a second crash makes one stall for good; with `Codes` of one value
every code that is submitted matches every row, which only allows a reset more. The liveness run has no
resets, and `NothingExpires` keeps codes from running out in it: neither changes what a run
or a mail may do next, and both would multiply the states. In `SignupFlow` two
tabs overlap and a third one was answered before or clears their cookie; Lax and None
behave alike. `Migrations` has finitely many states as it stands. In
`OAuthAccounts` two requests race and a third one has linked or registered before;
two addresses and two profiles are enough for every pair to contradict. In
`Onboarding` a deadlock and a lost update need two requests, and a third one has
created or completed the profile. Requests
that are not used up yet can always arrive, and once all are over the system
stops by design: deadlock is not checked.

The negative runs state what `docs/auth-module-specification.md` promises; each has a
counterpart that does hold and says which exceptions are left. `OnlyOverlapDisturbs` is
what is left of "revoke current session" (line 697) and `ActiveIsUnsuperseded` of "previous
unused OTPs are invalidated" (594): only requests that overlap cause the exception.
`ResetEndsAnsweredSessions` is what is left of "all active sessions are revoked" (783), and that
sentence has two exceptions. One needs overlap, a login or a verification that was
running when the reset was written (`sessions_reset`). The other needs none: neither
`JwtStrategy` nor `issueSessionForUser` looks at the session, so a client that was signed in
before the reset is signed in again by an onboarding request that it sends afterwards with
its old access token, which lives for 15 minutes. `Reissue` does this in the model, and
`ResetEndsAnsweredSessions` allows it, because a reissue counts as a new opening.

Other sentences are kept with a restriction, which a property that holds states:
"max 3 resend attempts per hour" (618) by `ResendsWithinLimit`, up to resends that
count before any of them inserts; "no session limits" (893) by `ImplementsRegister`, which
has one current token; "accounts are silently linked" (862) by `FailureIsExplained`, since
an account takes one profile of a provider (`user-oauth-account.entity.ts:14`), whereas
the schema at lines 79-87 would let it take two; and `profile_verified` "true when all
profile fields are complete" (`talent-profile.entity.ts:79`) in one direction by
`VerifiedIsStaleByOverlapOnly`, since `saveProfile` never sets it.

So does the comment at `auth.controller.ts:186`, which says that the callback preserves
whether the user entered through the talent or the employer path:
`RoleIsOwnUnlessOverlapped` keeps it for tabs that do not overlap, apart from a plain login
that meets the cookie of a sign-up which was never answered.

The properties of `Onboarding` are of that kind too. Nothing in the code prevents a
lost update, so `LostToOverlapOnly` says that a column that is gone and a step that
was set back take requests that overlap, `FailureNeedsOverlap` that a user who sends
one request after the other never meets the unique index or a deadlock and that a deadlock
takes an avatar (`saveTalentProfile` locks the users row first, the others the
profile), and `LateWritesOverlap` that a completed profile is changed by the guarded
handlers only if they ran while it was completed. `before` holds, for each request,
those that were over when it arrived. `VerifiedIsStaleByOverlapOnly` excuses a stale
flag by any two requests that landed and overlap: that the request which wrote
`profile_verified` is one of the two holds for three requests, but not for five,
where the flag travels in the stale object of an overlapping step.

`OneActiveCode`, which `Otp` refutes for calls that overlap, holds in
`PasswordReset` with Redis: the single worker does not overlap calls of issue, not
even when a crash makes a job run twice. Mails are another matter: one that stalls is put
back after later mails may have left, so `LaterResetNewerCode` speaks of the codes
that resets redeem, not of the order of the inbox.

Two reverts of `Migrations` take back more than their migration did, and
`RevertRestores` names them with what they take: the revert of `MakeUserPasswordNullable`
makes the password NOT NULL although an earlier migration that still counts made it
nullable, and that of `RestoreIncorrectlyDroppedIndexes` drops indexes that were
there before. `RunReachesEntities` shows that another run repairs both.

**Fairness.** Only the liveness run uses it. `Deliver`, `SendOut` and `Recover` are
weakly fair: the event loop runs what is ready, BullMQ workers take the next
job when they are free and look for stalled jobs every 30 seconds. Nothing is
assumed of users (nobody has to ask for a code or to use it), of time, or of
crashes except that they are finitely many (`MaxCrashes`). The mail provider may refuse
every mail: settled means completed or failed.

## The proofs

TLAPS checks, for any sets of requests, passwords, calls, codes, addresses and
profiles, tabs, jobs and handlers, from the assumptions that `None` is none of them, that
the sets that the properties count are finite (`CallsAreFinite` of `EmailVerification`,
`JobsAreFinite` of `PasswordReset`), and that the other constants are what they
stand for (a positive limit, a number of crashes, handlers of the services):

* `SessionsProofs`: `TypeCorrect`, `RotationIsExclusive` (`TokenRotatedOnce`), `ResetIsFinal`
  (`ResetEndsAnsweredSessions`), `NoSpuriousConflict` (`OnlyOverlapDisturbs`) and
  `SessionsImplementRegister` (`ImplementsRegister`). None of them is inductive
  alone. The invariant adds what the handlers know: the stored hash is that of
  a request that is done or lost; a request that carries a token carries one
  that was minted; a token that was rotated is no longer stored; every request that
  wrote while another ran is in the latter's `overlap`; the origin of a
  token that is stored, or about to be rotated from the stored one, was not
  over at the last reset. The refinement maps a step of the handlers that writes
  the column to `Open`, `Trade` or `Revoke`, and everything else to a stutter.
* `OtpProofs`: `TypeCorrect`, `SingleUse` (`RedeemedOnce`), `OverlapOnly`
  (`ActiveIsUnsuperseded`), `SupersededStaysRefused` (`SupersededIsRefused`) and
  `OtpImplementsOneTimeCode` (`ImplementsOneTimeCode`). The invariant relates the
  columns of a row to the step of the call that owns it, keeps all
  moments behind the clock, and says that a row inserted before a later
  invalidation is used or has run out, and that a row with a redeemer is used.
* `OAuthProofs`: `TypeCorrect`, `OneAccountPerProfile` (`OneIdentity`), `AccountsStayWhole`
  (`AccountsAreWhole`), `FailuresAreExplained`
  (`FailureIsExplained`), `LinksFollowEmails` (`LinkFollowsEmail`) and
  `OAuthImplementsDirectory` (`ImplementsDirectory`). The invariant adds the unique indexes
  (`UniqueRows`), that what a callback carries is what was asked (`Requested`), that
  an account exists only if its own request created it (`OwnAccount`), that the account
  it found still has the address unless an address changed (`StillNamed`), that a
  request in the conflict branch met a link that contradicts (`LostTo`), and that
  whoever is signed in is linked. Links only grow, which makes `Opened` of
  the refinement stable.
* `SignupFlowProofs`: `TypeCorrect`, `RolesAreOwn` (`RoleIsOwnUnlessOverlapped`) and
  `MissingRolesAreExplained` (`RoleRequiredIsExplained`). The invariant carries the two
  excuses from the tab to its account: whatever cookie a tab may still meet at the
  consent screen is its own or one that the property excuses (`CookieMayBeMet`), so is the
  one that it sent (`SentMayBeMet`), and a tab that would meet none is excused already
  (`MissingIsExcused`).
* `EmailVerificationProofs`: `TypeCorrect`, `AccountIsCreatedOnce` (`OneRegistration`),
  `SuccessIsVerified` (`RedeemedVerifies`) and `LimitIsKept` (`ResendsWithinLimit`). The first
  three follow from which rows a request may own at each step (`RowsOfSteps`), from
  one registration having passed `CreateUser` (`OneCreator`) and from `is_verified`
  never being set back (`ReadsHold`). The limit has an invariant of its own on top
  (`LimitKept`): a resend that was let through would count no more today than it did,
  because rows are only inserted after its count and the window only moves forward
  (`CountsShrink`). `CodeVerifies` (`VerifiedByCode`, which no run checks): whatever codes
  are submitted, of the handlers of this module only a verifyEmail that used up a code which
  a registration or a resend stored verifies the account. It takes `RowsUsedOnce` and
  `TargetsAreRows` of the invariant, that a verified account has a verification which is
  done (`VerifiedKept`) and that rows belong to requests which issue (`IssuersKept`). The OAuth
  callbacks that verify without a code are in `OAuthAccounts`.
* `PasswordResetProofs`: `TypeCorrect`, `CodesAreSerial` (`OneActiveCode`), `LaterResetsAreNewer`
  (`LaterResetNewerCode`), `CompletedJobsDelivered` (`CompletedIsHandedOver`) and `CounterIsExact`
  (`PendingIsExact`). With Redis one run is under way (`OneRun`), no code is good
  while it hashes its own (`NoneWhileHashing`), hence a good code is the newest of all rows
  (`ActiveIsNewest`), which gives both properties of codes; a reset that was answered has
  used its row up (`TargetsAreRows`), so the next one finds a newer row. The counter
  needs that the queue holds each waiting job once (`QueueIsWaiting`) and that each
  active job has its own run (`RunsAreActive`), and the facts about cardinalities. Four
  more theorems state what no run checks. `NoWorkStranded` (`NothingIsStranded`) is the safety
  half of `WorkSettles`: work that is not over is where a worker, a run or the recovery finds
  it. `RetriesAreBounded` (`RepeatedOnce`) bounds what recovery repeats: a job has two runs
  at most, one of them cut by a crash, and a mail is attempted twice at most. `ResetsAreEarned`
  (`PasswordIsEarned`): whatever codes are submitted, the password is written only by a reset
  that used up a code which a run had stored, and no code pays for two. `OutcomesAreKept` (`OutcomesAreFinal`, an action property): what became of
  a job or of a mail is never revised, and neither is taken up again. The first two need
  which runs a waiting or an active job may have (`RunsOfJobs`), that each waiting mail is
  in its queue once (`MailIsQueued`) and how often a mail was attempted at each of its states
  (`MailsArrive`); the third needs `TargetsAreRows` and that the UPDATE finds the row unused
  (`EarnedBut`).
* `OnboardingProofs`: `TypeCorrect`, `CompleteWithProfile` (`CompletedHasProfile`), `LegacyIsFirst`
  (`LegacyCreates`), `LossNeedsOverlap` (`LostToOverlapOnly`), `FailuresOverlap`
  (`FailureNeedsOverlap`), `VerifiedIsCurrent` (`VerifiedIsStaleByOverlapOnly`) and
  `LateWritesAreOverlaps` (`LateWritesOverlap`). The invariant says who holds a lock
  (`LocksHeld`), who knows that there is a profile or missed it (`ProfileIsThere`,
  `CreatorOverlaps`), and follows a value from the request that wrote it through the
  objects that others read (`SourcesLanded`, `OwnColumns`, `ReadsKept`) back into
  the row. `QuietReads` is what one request after the other amounts to: while nothing
  else lands, the object is what the handler makes of the row.

* `MigrationsProofs`: `TypeCorrect`, `RevertsRefusedForData` (`RefusedForData`),
  `RunsReachEntities` (`RunReachesEntities`) and `RevertsRestore` (`RevertRestores`), all from
  `SchemaKnown`. The run explores every state of the model, so these theorems add the reason,
  not generality: which facts about which migration make the schema come out right. The
  argument goes bottom up. A lemma for each kind of statement says when it does not
  throw and what it leaves alone (`CreateTableOk`, `AddColumnsOk`, ...). `Version(k, t)` is what table t
  looks like after the first k migrations, `Names(k)` which tables there are. A lemma for
  each migration leads from one version to the next (`Up1` to `Up19`) or back (`Down1` to
  `Down19`; the sixth throws), whatever rows and NULLs there are; a revert throws only where
  a NULL stands in the way. The invariant is that the database has the version that the
  migrations table tells, up to `Lost`: after a revert the password may be NOT NULL at 7 and 8,
  and three indexes may be gone at 6 to 9. `Migrated` is a recursive function, so that it can be
  reasoned about: `MigratedSteps` shows that the function exists, one step after the
  other, and `MigratedOk` that it ends in the version that the run should reach.

Each proof shows that `Init` implies the invariant, that every action preserves it
(one step per action) and that it implies the property; the temporal step is by PTL.

Only model-checked: `WorkSettles`, since liveness is out of reach of TLAPS here
(`NoWorkStranded` is as much of it as a proof of safety can say), and the three
negative runs, whose counterexamples are found by TLC. The invariants of the theorems
that no run checks were first looked at with TLC on the instances of the runs
`password_reset` and `email_verification`, where they hold.

## Not modelled

* Inquiries: `joinWaitlist` and `createContactMessage` are one lookup and one INSERT
  each. What a race can do is decided by the unique constraint alone, whose error the
  loser is answered with; a model would restate the constraint.
* Upload: one PUT under a fresh key before the transaction; a failure afterwards leaves an
  object that nothing refers to.
* Guards, strategies, redirects, filters, interceptors, templates and
  `parseDurationToMs`: functions of their arguments without state.
* Candidate onboarding: its module is not imported. Of its entity, which is loaded, only
  the missing table is modelled (`Fits` of `Migrations`).
* `UsersService.remove`: whether it deletes the row or marks it is decided in a package
  outside the repository. The seeder inserts one administrator if there is none.
* The statements of earlier releases, which run beside the migrations of the next one
  (`cd.yml:133`): the repository has them only as migrations.

What could follow: a composition of `Sessions` with `Otp`, in which verifyEmail and
resetPassword redeem codes that were issued, in place of the nondeterministic
redemption.
