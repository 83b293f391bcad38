------------------------------- MODULE Onboarding -------------------------------
(***************************************************************************)
(* The onboarding of one user: the handlers of TalentService over the      *)
(* user's row in talent_profiles and users.onboarding_complete.            *)
(* EmployerService runs "profile" and "legacy" alike over                  *)
(* employer_profiles; a user has one of the two roles.                     *)
(*                                                                         *)
(* save(entity) is TypeORM's: it reads the row again, and updates the      *)
(* columns in which the object in memory differs from it, stale ones       *)
(* included.  A transaction (READ COMMITTED) shows its writes at once when *)
(* it commits, and keeps every row that it wrote locked until then.        *)
(***************************************************************************)
EXTENDS Naturals

CONSTANTS
    Requests,  \* the requests of the user
    Handlers,  \* the handlers that they may call
    None

Steps == {"goal",      \* saveGoal
          "goalStep",  \* saveGoalStep
          "tracks",    \* saveTracks
          "track"}     \* saveTrackStep
Completions == {"profile",   \* saveProfile without an avatarUrl
                "portrait",  \* saveProfile with an avatarUrl
                "photo",     \* saveTalentProfile
                "legacy"}    \* completeOnboarding

ASSUME HandlersAreKnown == Handlers \subseteq Steps \union Completions
ASSUME NoneIsNoRequest == None \notin Requests

VARIABLES
    complete,   \* users.onboarding_complete
    creator,    \* the request that inserted the profile, None while there is no row
    row,        \* its columns; a value is named by the request that wrote it
    pc,         \* where each request stands
    kind,       \* its handler
    full,       \* requests that fill in all the fields of the profile
    entity,     \* the profile object of each request
    fresh,      \* requests whose object is not a row yet
    diff,       \* the columns that a save found to differ
    usersLock,  \* the transaction that wrote the users row, None
    rowLock,    \* the transaction that wrote the profile, None
    before      \* the requests that were over when each arrived, history

db == <<complete, creator, row>>
locks == <<usersLock, rowLock>>
object == <<entity, fresh>>
request == <<kind, full, before>>
vars == <<db, pc, request, object, diff, locks>>

Running == {"fetching",   \* next: Fetch
            "creating",   \* next: CreateProfile
            "comparing",  \* next: Compare
            "saving",     \* next: Save
            "locking",    \* photo, next: UpdateAvatar
            "finding",    \* next: Find
            "portrait",   \* portrait, next: UpdateAvatar
            "matching",   \* next: Compare
            "writing",    \* next: Write
            "marking"}    \* next: Commit
Over == {"done", "refused", "failed", "deadlocked", "lost"}

Blank == [goal |-> None, track |-> None, tracks |-> None, details |-> None,
          plan |-> None, verified |-> FALSE, step |-> 0]

TypeOK ==
    LET Value == Requests \union {None}
        Row == [goal : Value, track : Value, tracks : Value, details : Value,
                plan : Value, verified : BOOLEAN, step : 0..3]
    IN  /\ complete \in BOOLEAN /\ creator \in Value /\ row \in Row
        /\ pc \in [Requests -> {"new"} \union Running \union Over]
        /\ kind \in [Requests -> Handlers \union {"none"}]
        /\ full \subseteq Requests
        /\ entity \in [Requests -> Row]
        /\ fresh \subseteq Requests
        /\ diff \in [Requests -> SUBSET DOMAIN Blank]
        /\ usersLock \in Value /\ rowLock \in Value
        /\ before \in [Requests -> SUBSET Requests]

Init ==
    /\ complete = FALSE /\ creator = None /\ row = Blank
    /\ pc = [r \in Requests |-> "new"]
    /\ kind = [r \in Requests |-> "none"]
    /\ full = {}
    /\ entity = [r \in Requests |-> Blank]
    /\ fresh = {}
    /\ diff = [r \in Requests |-> {}]
    /\ usersLock = None /\ rowLock = None
    /\ before = [r \in Requests |-> {}]

Goto(r, from, to) == pc[r] = from /\ pc' = [pc EXCEPT ![r] = to]
IsFree(lock, r) == lock \in {None, r}

\* Request r leaves its transaction, and its locks with it.
Release(r) ==
    /\ usersLock' = IF usersLock = r THEN None ELSE usersLock
    /\ rowLock' = IF rowLock = r THEN None ELSE rowLock

-----------------------------------------------------------------------------
(* Arrival: the handlers of the first design are refused once onboarding is *)
(* complete, saveGoalStep, saveTrackStep and saveTalentProfile never are.   *)

Unguarded(k) == FALSE                            \* slip: the check is left out
Guarded(k) == k \in {"goal", "tracks", "profile", "portrait", "legacy"}

Start(k) ==
    CASE k \in Steps -> "fetching"
      [] k = "photo" -> "locking"
      [] OTHER       -> "finding"

Arrive(r, k) ==
    /\ \/ Goto(r, "new", Start(k)) /\ ~(Guarded(k) /\ complete)
       \/ Goto(r, "new", "refused") /\ Guarded(k) /\ complete
    /\ kind' = [kind EXCEPT ![r] = k]
    /\ \/ full' = full \union {r} /\ k \in Completions \ {"legacy"}
       \/ UNCHANGED full
    /\ before' = [before EXCEPT ![r] = {q \in Requests : pc[q] \in Over}]
    /\ UNCHANGED <<db, object, diff, locks>>

-----------------------------------------------------------------------------
(* What a handler does to the profile object.                               *)

Counted(n, s) == s + 1                           \* slip: the saves are counted
AtLeast(n, s) == IF s < n THEN n ELSE s

Change(r, e) ==
    CASE kind[r] \in {"goal", "goalStep"} ->
             [e EXCEPT !.goal = r, !.step = AtLeast(1, @)]
      [] kind[r] = "track"  -> [e EXCEPT !.track = r, !.step = AtLeast(2, @)]
      [] kind[r] = "tracks" -> [e EXCEPT !.tracks = r, !.step = AtLeast(2, @)]
      [] kind[r] \in {"profile", "portrait"} -> [e EXCEPT !.details = r, !.step = 3]
      [] kind[r] = "photo"  ->
             [e EXCEPT !.details = r, !.step = 3, !.verified = r \in full]
      [] kind[r] = "legacy" -> [e EXCEPT !.plan = r]

Hold(r, e) == entity' = [entity EXCEPT ![r] = Change(r, e)]

-----------------------------------------------------------------------------
(* The steps: find or create the profile, change it, save it.               *)

NoLookup == TRUE                                 \* slip: create without a look
IsMissing == creator = None

Fetch(r) ==
    /\ \/ Goto(r, "fetching", "comparing") /\ ~IsMissing /\ Hold(r, row)
       \/ Goto(r, "fetching", "creating") /\ IsMissing /\ UNCHANGED entity
    /\ UNCHANGED <<db, request, fresh, diff, locks>>

\* The unique index on user_id lets one INSERT through.
CreateProfile(r) ==
    /\ rowLock = None
    /\ \/ /\ Goto(r, "creating", "comparing") /\ creator = None
          /\ creator' = r /\ row' = Blank
          /\ Hold(r, Blank)
       \/ /\ Goto(r, "creating", "failed") /\ creator # None
          /\ UNCHANGED <<creator, row, entity>>
    /\ UNCHANGED <<complete, request, fresh, diff, locks>>

Differing(r) == {c \in DOMAIN Blank : entity[r][c] # row[c]}

Compare(r) ==
    /\ \/ Goto(r, "comparing", "saving")
       \/ Goto(r, "matching", "writing")
    /\ diff' = [diff EXCEPT ![r] = Differing(r)]
    /\ UNCHANGED <<db, request, object, locks>>

Update(r) ==
    row' = [c \in DOMAIN Blank |-> IF c \in diff[r] THEN entity[r][c] ELSE row[c]]

Save(r) ==
    /\ rowLock = None
    /\ Goto(r, "saving", "done")
    /\ Update(r)
    /\ UNCHANGED <<complete, creator, request, object, diff, locks>>

-----------------------------------------------------------------------------
(* The transactions.                                                        *)

\* UPDATE users SET avatar_url, in saveTalentProfile before the profile is read.
UpdateAvatar(r) ==
    /\ IsFree(usersLock, r)
    /\ usersLock' = r
    /\ \/ Goto(r, "locking", "finding")
       \/ Goto(r, "portrait", "matching")
    /\ UNCHANGED <<db, request, object, diff, rowLock>>

Forgotten == Blank                               \* slip: the row is not read
Stored == row

\* saveProfile and saveTalentProfile take the profile or a new one;
\* completeOnboarding refuses to find one.
Found(r) == IF kind[r] = "portrait" THEN "portrait" ELSE "matching"

Find(r) ==
    /\ \/ /\ Goto(r, "finding", Found(r)) /\ creator # None /\ kind[r] # "legacy"
          /\ Hold(r, Stored) /\ UNCHANGED fresh
       \/ /\ Goto(r, "finding", Found(r)) /\ creator = None
          /\ Hold(r, Blank) /\ fresh' = fresh \union {r}
       \/ /\ Goto(r, "finding", "refused") /\ creator # None /\ kind[r] = "legacy"
          /\ UNCHANGED object
    /\ UNCHANGED <<db, request, diff, locks>>

\* An INSERT that meets the unique index, or the write of one row.
Anyway(r) == FALSE                               \* slip: no unique index
Collides(r) == r \in fresh /\ creator # None

Write(r) ==
    /\ IsFree(rowLock, r)
    /\ \/ /\ Goto(r, "writing", "marking") /\ ~Collides(r)
          /\ rowLock' = r /\ UNCHANGED usersLock
       \/ /\ Goto(r, "writing", "failed") /\ Collides(r)
          /\ Release(r)
    /\ UNCHANGED <<db, request, object, diff>>

ProfileStays(r) == UNCHANGED <<creator, row>>     \* slip: the save is not awaited
ProfileCommits(r) ==
    \/ r \in fresh /\ creator' = r /\ row' = entity[r]
    \/ r \notin fresh /\ UNCHANGED creator /\ Update(r)

Commit(r) ==
    /\ IsFree(usersLock, r)
    /\ Goto(r, "marking", "done")
    /\ complete' = TRUE
    /\ ProfileCommits(r)
    /\ Release(r)
    /\ UNCHANGED <<request, object, diff>>

\* PostgreSQL aborts one of two transactions that wait for each other.
WaitsFor(r, q) ==
    \/ pc[r] = "writing" /\ rowLock = q /\ q # r
    \/ pc[r] \in {"locking", "portrait", "marking"} /\ usersLock = q /\ q # r

Deadlock(r) ==
    /\ \E q \in Requests : WaitsFor(r, q) /\ WaitsFor(q, r)
    /\ pc' = [pc EXCEPT ![r] = "deadlocked"]
    /\ Release(r)
    /\ UNCHANGED <<db, request, object, diff>>

Crash ==
    /\ \E r \in Requests : pc[r] \in Running
    /\ pc' = [r \in Requests |-> IF pc[r] \in Running THEN "lost" ELSE pc[r]]
    /\ usersLock' = None /\ rowLock' = None
    /\ UNCHANGED <<db, request, object, diff>>

Next ==
    \/ \E r \in Requests :
          \/ \E k \in Handlers : Arrive(r, k)
          \/ Fetch(r) \/ CreateProfile(r) \/ Compare(r) \/ Save(r)
          \/ UpdateAvatar(r) \/ Find(r) \/ Write(r) \/ Commit(r) \/ Deadlock(r)
    \/ Crash

Spec == Init /\ [][Next]_vars

-----------------------------------------------------------------------------
(* What the handlers promise.                                               *)

Landed(r) == pc[r] = "done"

\* Neither of the two was over when the other one arrived.
Overlap(r, q) ==
    r # q /\ "new" \notin {pc[r], pc[q]} /\ r \notin before[q] /\ q \notin before[r]

Sets(k) ==
    CASE k \in {"goal", "goalStep"} -> "goal"
      [] k = "track"  -> "track"
      [] k = "tracks" -> "tracks"
      [] k = "legacy" -> "plan"
      [] OTHER        -> "details"

StepOf(k) ==
    CASE k \in {"goal", "goalStep"}  -> 1
      [] k \in {"track", "tracks"}   -> 2
      [] k = "legacy"                -> 0
      [] OTHER                       -> 3

\* Onboarding is complete only for a user who has a profile: the row and the flag
\* are written in two statements, and a deadlock or a crash may come between them.
CompletedHasProfile == complete => creator # None

\* completeOnboarding succeeds only if it created the profile, so at most once, and
\* never over the work of another request that it did not see.
LegacyCreates == \A r \in Requests : Landed(r) /\ kind[r] = "legacy" => creator = r

\* What a request saved is there until a later request saves the same column, and the
\* user is not sent back before the step that it reached: going back and saving a step
\* again does neither.  Only a request that overlaps it may undo its column by saving
\* something else, or set the step back.
LostToOverlapOnly ==
    \A r \in Requests : Landed(r) =>
        /\ \/ row[Sets(kind[r])] = r
           \/ \E q \in Requests \ {r} :
                 /\ Landed(q) /\ q \notin before[r]
                 /\ Overlap(r, q) \/ Sets(kind[q]) = Sets(kind[r])
        /\ \/ row.step >= StepOf(kind[r])
           \/ \E q \in Requests : Landed(q) /\ Overlap(r, q)

\* The unique index and the deadlock detector hit only requests that overlap another.
\* The transactions lock the profile before the user, except those that save an avatar
\* first: without one of these nothing deadlocks.
FailureNeedsOverlap ==
    \A r \in Requests :
        /\ pc[r] \in {"failed", "deadlocked"} => \E q \in Requests : Overlap(r, q)
        /\ pc[r] = "deadlocked" => \E q \in Requests : kind[q] \in {"photo", "portrait"}

\* Of the handlers that are refused once onboarding is complete, one that writes to a
\* completed profile all the same overlapped the request that completed it.
LateWritesOverlap ==
    [][\A r \in Requests :
          /\ kind[r] \in {"goal", "tracks", "profile", "portrait", "legacy"}
          /\ ~Landed(r) /\ Landed(r)' /\ complete
          => \E q \in Requests :
                Landed(q) /\ kind[q] \in Completions /\ Overlap(r, q)]_vars

\* profile_verified, which saveTalentProfile derives from what it saves and no other
\* handler writes, is stale only if saves overlapped: one after the other, the
\* handlers never show an incomplete profile as verified.
VerifiedIsStaleByOverlapOnly ==
    row.verified =>
        \/ row.details \in full
        \/ \E r, q \in Requests : Landed(r) /\ Landed(q) /\ Overlap(r, q)
=============================================================================
