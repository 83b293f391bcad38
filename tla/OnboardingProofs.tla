---------------------------- MODULE OnboardingProofs ----------------------------
(* Proofs about Onboarding, for any number of requests and any handlers.    *)
EXTENDS Onboarding, TLAPS

\* The columns that are named by the request that wrote them, and the others.
Named == {"goal", "track", "tracks", "details", "plan"}
Value == Requests \union {None}
Row == [goal : Value, track : Value, tracks : Value, details : Value,
        plan : Value, verified : BOOLEAN, step : 0..3]

LEMMA Columns == DOMAIN Blank = Named \union {"verified", "step"}
BY DEF Blank, Named

LEMMA RowFields ==
    ASSUME NEW e \in Row
    PROVE  /\ DOMAIN e = DOMAIN Blank
           /\ \A c \in Named : e[c] \in Value
           /\ e.verified \in BOOLEAN
           /\ e.step \in 0..3
BY DEF Row, Blank, Named

\* A row whose columns have their types.
LEMMA FieldsMakeRow ==
    ASSUME NEW e, e = [c \in DOMAIN Blank |-> e[c]],
           \A c \in Named : e[c] \in Value,
           e.verified \in BOOLEAN, e.step \in 0..3
    PROVE  e \in Row
BY Columns DEF Row, Named

\* The row that a save with the differences D leaves behind.
Merged(e, D) == [c \in DOMAIN Blank |-> IF c \in D THEN e[c] ELSE row[c]]

LEMMA MergedFields ==
    ASSUME row \in Row, NEW e \in Row, NEW D \in SUBSET DOMAIN Blank
    PROVE  /\ Merged(e, D) \in Row
           /\ \A c \in DOMAIN Blank : Merged(e, D)[c] = IF c \in D THEN e[c] ELSE row[c]
<1>1. \A c \in DOMAIN Blank : Merged(e, D)[c] = IF c \in D THEN e[c] ELSE row[c]
    BY DEF Merged
<1>2. Merged(e, D) = [c \in DOMAIN Blank |-> Merged(e, D)[c]]
    BY DEF Merged
<1>3. \A c \in Named : Merged(e, D)[c] \in Value
    BY <1>1, RowFields, Columns
<1>4. Merged(e, D).verified \in BOOLEAN
    BY <1>1, RowFields, Columns
<1>5. Merged(e, D).step \in 0..3
    BY <1>1, RowFields, Columns
<1> QED
    BY <1>1, <1>2, <1>3, <1>4, <1>5, FieldsMakeRow

LEMMA SetsNamed == \A k \in Steps \union Completions : Sets(k) \in Named
BY DEF Steps, Completions, Sets, Named

\* What a handler does to the object that it holds.
LEMMA ChangeFields ==
    ASSUME NEW r \in Requests, NEW e \in Row, kind[r] \in Steps \union Completions
    PROVE  /\ Change(r, e) \in Row
           /\ \A c \in Named : Change(r, e)[c] = IF c = Sets(kind[r]) THEN r ELSE e[c]
           /\ Change(r, e).step >= StepOf(kind[r]) /\ Change(r, e).step >= e.step
           /\ Change(r, e).verified = IF kind[r] = "photo" THEN r \in full ELSE e.verified
<1> DEFINE Goal ==
    /\ Change(r, e) \in Row
    /\ \A c \in Named : Change(r, e)[c] = IF c = Sets(kind[r]) THEN r ELSE e[c]
    /\ Change(r, e).step >= StepOf(kind[r]) /\ Change(r, e).step >= e.step
    /\ Change(r, e).verified = IF kind[r] = "photo" THEN r \in full ELSE e.verified
<1> HIDE DEF Goal
<1>1. CASE kind[r] \in {"goal", "goalStep"}
    <2>1. Change(r, e) = [e EXCEPT !.goal = r, !.step = AtLeast(1, e.step)]
        BY <1>1 DEF Change
    <2>2. Sets(kind[r]) = "goal" /\ StepOf(kind[r]) = 1 /\ kind[r] # "photo"
        BY <1>1 DEF Sets, StepOf
    <2>3. AtLeast(1, e.step) \in 0..3 /\ AtLeast(1, e.step) >= 1
          /\ AtLeast(1, e.step) >= e.step
        BY DEF Row, AtLeast
    <2>4. Change(r, e) \in Row
        BY <2>1, <2>3 DEF Row, Value
    <2>5. \A c \in Named : Change(r, e)[c] = IF c = "goal" THEN r ELSE e[c]
        BY <2>1 DEF Row, Named
    <2>6. Change(r, e).step = AtLeast(1, e.step) /\ Change(r, e).verified = e.verified
        BY <2>1 DEF Row
    <2> QED
        BY <2>2, <2>3, <2>4, <2>5, <2>6 DEF Goal
<1>2. CASE kind[r] = "track"
    <2>1. Change(r, e) = [e EXCEPT !.track = r, !.step = AtLeast(2, e.step)]
        BY <1>2 DEF Change
    <2>2. Sets(kind[r]) = "track" /\ StepOf(kind[r]) = 2 /\ kind[r] # "photo"
        BY <1>2 DEF Sets, StepOf
    <2>3. AtLeast(2, e.step) \in 0..3 /\ AtLeast(2, e.step) >= 2
          /\ AtLeast(2, e.step) >= e.step
        BY DEF Row, AtLeast
    <2>4. Change(r, e) \in Row
        BY <2>1, <2>3 DEF Row, Value
    <2>5. \A c \in Named : Change(r, e)[c] = IF c = "track" THEN r ELSE e[c]
        BY <2>1 DEF Row, Named
    <2>6. Change(r, e).step = AtLeast(2, e.step) /\ Change(r, e).verified = e.verified
        BY <2>1 DEF Row
    <2> QED
        BY <2>2, <2>3, <2>4, <2>5, <2>6 DEF Goal
<1>3. CASE kind[r] = "tracks"
    <2>1. Change(r, e) = [e EXCEPT !.tracks = r, !.step = AtLeast(2, e.step)]
        BY <1>3 DEF Change
    <2>2. Sets(kind[r]) = "tracks" /\ StepOf(kind[r]) = 2 /\ kind[r] # "photo"
        BY <1>3 DEF Sets, StepOf
    <2>3. AtLeast(2, e.step) \in 0..3 /\ AtLeast(2, e.step) >= 2
          /\ AtLeast(2, e.step) >= e.step
        BY DEF Row, AtLeast
    <2>4. Change(r, e) \in Row
        BY <2>1, <2>3 DEF Row, Value
    <2>5. \A c \in Named : Change(r, e)[c] = IF c = "tracks" THEN r ELSE e[c]
        BY <2>1 DEF Row, Named
    <2>6. Change(r, e).step = AtLeast(2, e.step) /\ Change(r, e).verified = e.verified
        BY <2>1 DEF Row
    <2> QED
        BY <2>2, <2>3, <2>4, <2>5, <2>6 DEF Goal
<1>4. CASE kind[r] \in {"profile", "portrait"}
    <2>1. Change(r, e) = [e EXCEPT !.details = r, !.step = 3]
        BY <1>4 DEF Change
    <2>2. Sets(kind[r]) = "details" /\ StepOf(kind[r]) = 3 /\ kind[r] # "photo"
        BY <1>4 DEF Sets, StepOf
    <2>3. Change(r, e) \in Row
        <3>1. 3 \in 0..3 /\ r \in Value
            BY DEF Value
        <3> QED
            BY <2>1, <3>1 DEF Row
    <2>4. \A c \in Named : Change(r, e)[c] = IF c = "details" THEN r ELSE e[c]
        BY <2>1 DEF Row, Named
    <2>5. Change(r, e).step = 3 /\ Change(r, e).verified = e.verified /\ e.step \in 0..3
        BY <2>1 DEF Row
    <2> QED
        BY <2>2, <2>3, <2>4, <2>5 DEF Goal
<1>5. CASE kind[r] = "photo"
    <2>1. Change(r, e) = [e EXCEPT !.details = r, !.step = 3, !.verified = r \in full]
        BY <1>5 DEF Change
    <2>2. Sets(kind[r]) = "details" /\ StepOf(kind[r]) = 3
        BY <1>5 DEF Sets, StepOf
    <2>3. Change(r, e) \in Row
        <3>1. 3 \in 0..3 /\ r \in Value
            BY DEF Value
        <3>2. CASE r \in full
            <4>1. Change(r, e) = [e EXCEPT !.details = r, !.step = 3, !.verified = TRUE]
                BY <2>1, <3>2
            <4> QED
                BY <3>1, <4>1 DEF Row
        <3>3. CASE r \notin full
            <4>1. (r \in full) = FALSE
                BY <3>3
            <4>2. Change(r, e) = [e EXCEPT !.details = r, !.step = 3, !.verified = FALSE]
                BY <2>1, <4>1
            <4> QED
                BY <3>1, <4>2 DEF Row
        <3> QED
            BY <3>2, <3>3
    <2>4. \A c \in Named : Change(r, e)[c] = IF c = "details" THEN r ELSE e[c]
        BY <2>1 DEF Row, Named
    <2>5. Change(r, e).step = 3 /\ Change(r, e).verified = (r \in full) /\ e.step \in 0..3
        BY <2>1 DEF Row
    <2> QED
        BY <1>5, <2>2, <2>3, <2>4, <2>5 DEF Goal
<1>6. CASE kind[r] = "legacy"
    <2>1. Change(r, e) = [e EXCEPT !.plan = r]
        BY <1>6 DEF Change
    <2>2. Sets(kind[r]) = "plan" /\ StepOf(kind[r]) = 0 /\ kind[r] # "photo"
        BY <1>6 DEF Sets, StepOf
    <2>3. Change(r, e) \in Row
        BY <2>1 DEF Row, Value
    <2>4. \A c \in Named : Change(r, e)[c] = IF c = "plan" THEN r ELSE e[c]
        BY <2>1 DEF Row, Named
    <2>5. Change(r, e).step = e.step /\ Change(r, e).verified = e.verified /\ e.step \in 0..3
        BY <2>1 DEF Row
    <2> QED
        BY <2>2, <2>3, <2>4, <2>5 DEF Goal
<1> QED
    BY <1>1, <1>2, <1>3, <1>4, <1>5, <1>6 DEF Steps, Completions, Goal

-----------------------------------------------------------------------------
(***************************************************************************)
(* The inductive invariant, besides the types and the properties.          *)
(*   BeforeIsOver        what was over before a request stays over;        *)
(*   KindsOfSteps        where a request stands tells its handlers;        *)
(*   LocksHeld           who holds a lock, and who may have taken it;      *)
(*   ProfileIsThere      who knows that there is a profile, or that there  *)
(*                       is none;                                          *)
(*   CreatorOverlaps     a request that missed a profile that is there     *)
(*                       overlaps the one that created it;                 *)
(*   CompletionOverlaps  a guarded request that goes on after onboarding   *)
(*                       was completed overlaps the one that completed it; *)
(*   SourcesLanded       a value of another request was saved by it;       *)
(*   OwnColumns          what a request is about to save is its own;       *)
(*   ReadsKept           a request holds what landed before it arrived;    *)
(*   SavesStay           what landed is in the row, or its loss is excused;*)
(*   QuietReads          while nothing else lands, the object is what the  *)
(*                       handler makes of the row;                         *)
(*   VerifiedIsComplete  only a completion writes profile_verified.        *)
(***************************************************************************)
DbTypes == complete \in BOOLEAN /\ creator \in Value /\ row \in Row
StateTypes ==
    /\ pc \in [Requests -> {"new"} \union Running \union Over]
    /\ kind \in [Requests -> Handlers \union {"none"}]
    /\ full \subseteq Requests
    /\ before \in [Requests -> SUBSET Requests]
ObjectTypes ==
    /\ entity \in [Requests -> Row]
    /\ fresh \subseteq Requests
    /\ diff \in [Requests -> SUBSET DOMAIN Blank]
LockTypes == usersLock \in Value /\ rowLock \in Value

LEMMA TypesInParts == TypeOK <=> DbTypes /\ StateTypes /\ ObjectTypes /\ LockTypes
BY DEF TypeOK, DbTypes, StateTypes, ObjectTypes, LockTypes, Row, Value

BeforeIsOver == \A r \in Requests : \A q \in before[r] : pc[q] \in Over

KindsOfSteps ==
    \A r \in Requests :
        /\ pc[r] = "new" <=> kind[r] = "none"
        /\ pc[r] \in {"fetching", "creating", "comparing", "saving"} => kind[r] \in Steps
        /\ pc[r] = "locking" => kind[r] = "photo"
        /\ pc[r] = "portrait" => kind[r] = "portrait"
        /\ pc[r] \in {"finding", "matching", "writing", "marking"} => kind[r] \in Completions

LocksHeld ==
    \A r \in Requests :
        /\ rowLock = r <=> pc[r] = "marking"
        /\ usersLock = r => kind[r] \in {"photo", "portrait"}

Looked == {"portrait", "matching", "writing", "marking"}

ProfileIsThere ==
    /\ complete => creator # None
    /\ creator = None => row = Blank
    /\ \A r \in Requests :
          /\ pc[r] \in {"comparing", "saving", "done"} => creator # None
          /\ pc[r] \in Looked /\ r \notin fresh => creator # None
          /\ pc[r] = "marking" /\ r \in fresh => creator = None
          /\ pc[r] \in Looked /\ kind[r] = "legacy" => r \in fresh
          /\ pc[r] \in {"new", "locking", "finding"} => r \notin fresh
          /\ pc[r] = "done" /\ kind[r] = "legacy" => creator = r

CreatorOverlaps ==
    \A r \in Requests :
        creator # None /\ (pc[r] = "creating" \/ (pc[r] \in Looked /\ r \in fresh))
        => Overlap(r, creator)

CompletionOverlaps ==
    \A r \in Requests :
        complete /\ pc[r] \in Running /\ Guarded(kind[r]) =>
            \E q \in Requests : Landed(q) /\ kind[q] \in Completions /\ Overlap(r, q)

Holding == {"comparing", "saving"} \union Looked
Compared == {"saving", "writing", "marking"}

SourcesLanded ==
    \A c \in Named :
        /\ row[c] # None => Landed(row[c])
        /\ \A q \in Requests : entity[q][c] \notin {None, q} => Landed(entity[q][c])

\* What excuses a column of r that is gone, and a step that was set back.
Undone(r) ==
    \E q \in Requests \ {r} :
        Landed(q) /\ q \notin before[r] /\ (Overlap(r, q) \/ Sets(kind[q]) = Sets(kind[r]))
SetBack(r) == \E q \in Requests : Landed(q) /\ Overlap(r, q)

OwnColumns ==
    \A r \in Requests :
        /\ pc[r] \in Holding =>
              entity[r][Sets(kind[r])] = r /\ entity[r].step >= StepOf(kind[r])
        /\ pc[r] \in Compared =>
              /\ Sets(kind[r]) \in diff[r]
              /\ "step" \in diff[r] \/ row.step >= StepOf(kind[r]) \/ SetBack(r)

ReadsKept ==
    \A q \in Requests : \A r \in before[q] : pc[q] \in Holding /\ Landed(r) =>
        /\ entity[q][Sets(kind[r])] = r \/ Sets(kind[q]) = Sets(kind[r]) \/ Undone(r)
        /\ entity[q].step >= StepOf(kind[r]) \/ SetBack(r)

SavesStay ==
    \A r \in Requests : Landed(r) =>
        /\ row[Sets(kind[r])] = r \/ Undone(r)
        /\ row.step >= StepOf(kind[r]) \/ SetBack(r)

Quiet(q) == \A p \in Requests \ {q} : Landed(p) => p \in before[q]

QuietReads ==
    \A q \in Requests : Quiet(q) =>
        /\ pc[q] \in Holding => entity[q] = Change(q, row)
        /\ pc[q] \in Compared => diff[q] = Differing(q)

VerifiedIsComplete ==
    /\ row.verified => complete
    /\ \A q \in Requests :
          pc[q] \in Holding /\ kind[q] # "photo" /\ entity[q].verified => complete

IInv ==
    /\ DbTypes /\ StateTypes /\ ObjectTypes /\ LockTypes
    /\ BeforeIsOver /\ KindsOfSteps /\ LocksHeld
    /\ ProfileIsThere /\ CreatorOverlaps /\ FailureNeedsOverlap
    /\ CompletionOverlaps
    /\ SourcesLanded /\ OwnColumns /\ ReadsKept /\ SavesStay
    /\ QuietReads /\ VerifiedIsComplete /\ VerifiedIsStaleByOverlapOnly

-----------------------------------------------------------------------------
LEMMA HandlersKnown == \A k \in Handlers : k \in Steps \union Completions /\ k # "none"
BY HandlersAreKnown DEF Steps, Completions

LEMMA InitOK == Init => IInv
<1> SUFFICES ASSUME Init PROVE IInv
    OBVIOUS
<1>1. Blank \in Row /\ \A c \in Named : Blank[c] = None
    BY DEF Blank, Row, Value, Named
<1>2. DbTypes
    BY <1>1 DEF Init, DbTypes, Value
<1>3. StateTypes
    BY DEF Init, StateTypes
<1>4. ObjectTypes /\ LockTypes
    BY <1>1 DEF Init, ObjectTypes, LockTypes, Value
<1>5. \A r \in Requests : pc[r] = "new" /\ kind[r] = "none" /\ r \notin fresh
    BY DEF Init
<1>6. \A r \in Requests : ~Landed(r) /\ pc[r] \notin Running \union Looked \union Holding
                          /\ pc[r] \notin Compared
    BY <1>5 DEF Landed, Running, Looked, Holding, Compared
<1>7. BeforeIsOver /\ LocksHeld
    BY <1>5, NoneIsNoRequest DEF Init, BeforeIsOver, LocksHeld
<1>8. KindsOfSteps
    BY <1>5 DEF KindsOfSteps
<1>9. ProfileIsThere
    BY <1>5, <1>6 DEF Init, ProfileIsThere
<1>10. CreatorOverlaps /\ CompletionOverlaps /\ OwnColumns /\ ReadsKept /\ SavesStay
    BY <1>5, <1>6
       DEF Init, CreatorOverlaps, CompletionOverlaps, OwnColumns, ReadsKept, SavesStay
<1>11. FailureNeedsOverlap
    BY <1>5 DEF FailureNeedsOverlap
<1>12. SourcesLanded
    BY <1>1 DEF Init, SourcesLanded
<1>13. QuietReads /\ VerifiedIsComplete /\ VerifiedIsStaleByOverlapOnly
    BY <1>6 DEF Init, Blank, QuietReads, VerifiedIsComplete, VerifiedIsStaleByOverlapOnly
<1> QED
    BY <1>2, <1>3, <1>4, <1>7, <1>8, <1>9, <1>10, <1>11, <1>12, <1>13 DEF IInv

-----------------------------------------------------------------------------
(* Types.                                                                   *)

LEMMA StateTypesKept == IInv /\ [Next]_vars => StateTypes'
<1> SUFFICES ASSUME IInv, [Next]_vars PROVE StateTypes'
    OBVIOUS
<1> USE NoneIsNoRequest
    DEF IInv, Goto, request, StateTypes, Running, Over
<1>1. ASSUME NEW r \in Requests, NEW k \in Handlers, Arrive(r, k)
      PROVE  StateTypes'
    BY <1>1 DEF Arrive, Start
<1>2. ASSUME NEW r \in Requests, Fetch(r)
      PROVE  StateTypes'
    BY <1>2 DEF Fetch
<1>3. ASSUME NEW r \in Requests, CreateProfile(r)
      PROVE  StateTypes'
    BY <1>3 DEF CreateProfile
<1>4. ASSUME NEW r \in Requests, Compare(r)
      PROVE  StateTypes'
    BY <1>4 DEF Compare
<1>5. ASSUME NEW r \in Requests, Save(r)
      PROVE  StateTypes'
    BY <1>5 DEF Save
<1>6. ASSUME NEW r \in Requests, UpdateAvatar(r)
      PROVE  StateTypes'
    BY <1>6 DEF UpdateAvatar
<1>7. ASSUME NEW r \in Requests, Find(r)
      PROVE  StateTypes'
    BY <1>7 DEF Find, Found
<1>8. ASSUME NEW r \in Requests, Write(r)
      PROVE  StateTypes'
    BY <1>8 DEF Write
<1>9. ASSUME NEW r \in Requests, Commit(r)
      PROVE  StateTypes'
    BY <1>9 DEF Commit
<1>10. ASSUME NEW r \in Requests, Deadlock(r)
      PROVE  StateTypes'
    BY <1>10 DEF Deadlock
<1>11. CASE Crash
    BY <1>11 DEF Crash
<1>12. CASE UNCHANGED <<pc, request>>
    BY <1>12
<1> HIDE DEF IInv, StateTypes, Running, Over
<1> QED
    BY <1>1, <1>2, <1>3, <1>4, <1>5, <1>6, <1>7, <1>8, <1>9, <1>10, <1>11, <1>12
       DEF Next, Arrive, Fetch, CreateProfile, Compare, Save, UpdateAvatar, Find, Write,
           Commit, Deadlock, Crash, vars

LEMMA LockTypesKept == IInv /\ [Next]_vars => LockTypes'
<1> SUFFICES ASSUME IInv, [Next]_vars PROVE LockTypes'
    OBVIOUS
<1> USE NoneIsNoRequest
    DEF IInv, Goto, locks, LockTypes, Value
<1>1. ASSUME NEW r \in Requests, UpdateAvatar(r)
      PROVE  LockTypes'
    BY <1>1 DEF UpdateAvatar
<1>2. ASSUME NEW r \in Requests, Write(r)
      PROVE  LockTypes'
    BY <1>2 DEF Write, Release
<1>3. ASSUME NEW r \in Requests, Commit(r)
      PROVE  LockTypes'
    BY <1>3 DEF Commit, Release
<1>4. ASSUME NEW r \in Requests, Deadlock(r)
      PROVE  LockTypes'
    BY <1>4 DEF Deadlock, Release
<1>5. CASE Crash
    BY <1>5 DEF Crash
<1>6. CASE UNCHANGED <<locks>>
    BY <1>6
<1> HIDE DEF IInv, LockTypes, Value
<1> QED
    BY <1>1, <1>2, <1>3, <1>4, <1>5, <1>6
       DEF Next, Arrive, Fetch, CreateProfile, Compare, Save, UpdateAvatar, Find, Write,
           Commit, Deadlock, Crash, vars

LEMMA BlankIsRow == Blank \in Row
BY DEF Blank, Row, Value

\* A request that has arrived has a handler.
LEMMA KindKnown ==
    ASSUME IInv, NEW r \in Requests, pc[r] # "new"
    PROVE  kind[r] \in Steps \union Completions
BY HandlersKnown DEF IInv, KindsOfSteps, StateTypes

LEMMA ObjectTypesKept == IInv /\ [Next]_vars => ObjectTypes'
<1> SUFFICES ASSUME IInv, [Next]_vars PROVE ObjectTypes'
    OBVIOUS
<1> USE NoneIsNoRequest
    DEF IInv, Goto, object, ObjectTypes
<1>1. ASSUME NEW r \in Requests, Fetch(r)
      PROVE  ObjectTypes'
    <2>1. Change(r, row) \in Row
        BY <1>1, KindKnown, ChangeFields DEF Fetch, DbTypes
    <2>2. entity' \in [Requests -> Row]
        BY <1>1, <2>1 DEF Fetch, Hold
    <2> QED
        BY <1>1, <2>2 DEF Fetch
<1>2. ASSUME NEW r \in Requests, CreateProfile(r)
      PROVE  ObjectTypes'
    <2>1. Change(r, Blank) \in Row
        BY <1>2, KindKnown, ChangeFields, BlankIsRow DEF CreateProfile
    <2>2. entity' \in [Requests -> Row]
        BY <1>2, <2>1 DEF CreateProfile, Hold
    <2> QED
        BY <1>2, <2>2 DEF CreateProfile
<1>3. ASSUME NEW r \in Requests, Compare(r)
      PROVE  ObjectTypes'
    <2>1. Differing(r) \in SUBSET DOMAIN Blank
        BY DEF Differing
    <2> QED
        BY <1>3, <2>1 DEF Compare
<1>4. ASSUME NEW r \in Requests, Find(r)
      PROVE  ObjectTypes'
    <2>1. Change(r, row) \in Row /\ Change(r, Blank) \in Row
        BY <1>4, KindKnown, ChangeFields, BlankIsRow DEF Find, DbTypes
    <2>2. entity' \in [Requests -> Row]
        BY <1>4, <2>1 DEF Find, Hold, Stored
    <2>3. fresh' \subseteq Requests
        BY <1>4 DEF Find
    <2> QED
        BY <1>4, <2>2, <2>3 DEF Find
<1>5. CASE UNCHANGED <<object, diff>>
    BY <1>5
<1> HIDE DEF IInv, ObjectTypes
<1> QED
    BY <1>1, <1>2, <1>3, <1>4, <1>5
       DEF Next, Arrive, Fetch, CreateProfile, Compare, Save, UpdateAvatar, Find, Write,
           Commit, Deadlock, Crash, vars

LEMMA DbTypesKept == IInv /\ [Next]_vars => DbTypes'
<1> SUFFICES ASSUME IInv, [Next]_vars PROVE DbTypes'
    OBVIOUS
<1> USE NoneIsNoRequest
    DEF IInv, Goto, db, DbTypes
<1>1. ASSUME NEW r \in Requests, CreateProfile(r)
      PROVE  DbTypes'
    BY <1>1, BlankIsRow DEF CreateProfile, Value
<1>2. ASSUME NEW r \in Requests, Save(r)
      PROVE  DbTypes'
    <2>1. Merged(entity[r], diff[r]) \in Row
        BY MergedFields DEF ObjectTypes
    <2> QED
        BY <1>2, <2>1 DEF Save, Update, Merged
<1>3. ASSUME NEW r \in Requests, Commit(r)
      PROVE  DbTypes'
    <2>1. Merged(entity[r], diff[r]) \in Row /\ entity[r] \in Row
        BY MergedFields DEF ObjectTypes
    <2>2. row' \in Row /\ creator' \in Value
        BY <1>3, <2>1 DEF Commit, ProfileCommits, Update, Merged, Value
    <2> QED
        BY <1>3, <2>2 DEF Commit
<1>4. CASE UNCHANGED <<db>>
    BY <1>4
<1> HIDE DEF IInv, DbTypes
<1> QED
    BY <1>1, <1>2, <1>3, <1>4
       DEF Next, Arrive, Fetch, CreateProfile, Compare, Save, UpdateAvatar, Find, Write,
           Commit, Deadlock, Crash, vars

-----------------------------------------------------------------------------
(* Requests that are over, and requests that overlap.                       *)

\* What is over stays over.
LEMMA BeforeKept == IInv /\ [Next]_vars => BeforeIsOver'
<1> SUFFICES ASSUME IInv, [Next]_vars PROVE BeforeIsOver'
    OBVIOUS
<1> USE NoneIsNoRequest
    DEF IInv, Goto, request, BeforeIsOver, StateTypes, Running, Over
<1>1. ASSUME NEW r \in Requests, NEW k \in Handlers, Arrive(r, k)
      PROVE  BeforeIsOver'
    BY <1>1 DEF Arrive
<1>2. ASSUME NEW r \in Requests, Fetch(r)
      PROVE  BeforeIsOver'
    BY <1>2 DEF Fetch
<1>3. ASSUME NEW r \in Requests, CreateProfile(r)
      PROVE  BeforeIsOver'
    BY <1>3 DEF CreateProfile
<1>4. ASSUME NEW r \in Requests, Compare(r)
      PROVE  BeforeIsOver'
    BY <1>4 DEF Compare
<1>5. ASSUME NEW r \in Requests, Save(r)
      PROVE  BeforeIsOver'
    BY <1>5 DEF Save
<1>6. ASSUME NEW r \in Requests, UpdateAvatar(r)
      PROVE  BeforeIsOver'
    BY <1>6 DEF UpdateAvatar
<1>7. ASSUME NEW r \in Requests, Find(r)
      PROVE  BeforeIsOver'
    BY <1>7 DEF Find, Found
<1>8. ASSUME NEW r \in Requests, Write(r)
      PROVE  BeforeIsOver'
    BY <1>8 DEF Write
<1>9. ASSUME NEW r \in Requests, Commit(r)
      PROVE  BeforeIsOver'
    BY <1>9 DEF Commit
<1>10. ASSUME NEW r \in Requests, Deadlock(r)
      PROVE  BeforeIsOver'
    <2>1. pc[r] \in Running
        BY <1>10 DEF Deadlock, WaitsFor
    <2> QED
        BY <1>10, <2>1 DEF Deadlock
<1>11. CASE Crash
    BY <1>11 DEF Crash
<1>12. CASE UNCHANGED <<pc, request>>
    BY <1>12
<1> HIDE DEF IInv, BeforeIsOver, StateTypes, Running, Over
<1> QED
    BY <1>1, <1>2, <1>3, <1>4, <1>5, <1>6, <1>7, <1>8, <1>9, <1>10, <1>11, <1>12
       DEF Next, Arrive, Fetch, CreateProfile, Compare, Save, UpdateAvatar, Find, Write,
           Commit, Deadlock, Crash, vars

LEMMA KindsKept == IInv /\ [Next]_vars => KindsOfSteps'
<1> SUFFICES ASSUME IInv, [Next]_vars PROVE KindsOfSteps'
    OBVIOUS
<1> USE NoneIsNoRequest
    DEF IInv, Goto, request, KindsOfSteps, StateTypes, Running, Over
<1>1. ASSUME NEW r \in Requests, NEW k \in Handlers, Arrive(r, k)
      PROVE  KindsOfSteps'
    <2>1. k \in Steps \union Completions /\ k # "none"
        BY HandlersKnown
    <2>2. /\ kind' = [kind EXCEPT ![r] = k]
          /\ pc' = [pc EXCEPT ![r] = Start(k)] \/ pc' = [pc EXCEPT ![r] = "refused"]
        BY <1>1 DEF Arrive
    <2>3. CASE k \in Steps
        BY <2>1, <2>2, <2>3 DEF Start
    <2>4. CASE k = "photo"
        BY <2>1, <2>2, <2>4 DEF Start, Steps
    <2>5. CASE k \in Completions /\ k # "photo"
        BY <2>1, <2>2, <2>5 DEF Start, Steps, Completions
    <2> QED
        BY <2>1, <2>3, <2>4, <2>5
<1>2. ASSUME NEW r \in Requests, Fetch(r)
      PROVE  KindsOfSteps'
    BY <1>2 DEF Fetch
<1>3. ASSUME NEW r \in Requests, CreateProfile(r)
      PROVE  KindsOfSteps'
    BY <1>3 DEF CreateProfile
<1>4. ASSUME NEW r \in Requests, Compare(r)
      PROVE  KindsOfSteps'
    BY <1>4 DEF Compare
<1>5. ASSUME NEW r \in Requests, Save(r)
      PROVE  KindsOfSteps'
    BY <1>5 DEF Save
<1>6. ASSUME NEW r \in Requests, UpdateAvatar(r)
      PROVE  KindsOfSteps'
    BY <1>6 DEF UpdateAvatar, Completions
<1>7. ASSUME NEW r \in Requests, Find(r)
      PROVE  KindsOfSteps'
    BY <1>7 DEF Find, Found, Completions
<1>8. ASSUME NEW r \in Requests, Write(r)
      PROVE  KindsOfSteps'
    BY <1>8 DEF Write
<1>9. ASSUME NEW r \in Requests, Commit(r)
      PROVE  KindsOfSteps'
    BY <1>9 DEF Commit
<1>10. ASSUME NEW r \in Requests, Deadlock(r)
      PROVE  KindsOfSteps'
    BY <1>10 DEF Deadlock, WaitsFor
<1>11. CASE Crash
    BY <1>11 DEF Crash
<1>12. CASE UNCHANGED <<pc, request>>
    BY <1>12
<1> HIDE DEF IInv, KindsOfSteps, StateTypes, Running, Over
<1> QED
    BY <1>1, <1>2, <1>3, <1>4, <1>5, <1>6, <1>7, <1>8, <1>9, <1>10, <1>11, <1>12
       DEF Next, Arrive, Fetch, CreateProfile, Compare, Save, UpdateAvatar, Find, Write,
           Commit, Deadlock, Crash, vars

\* The row is locked from the write to the commit.
LEMMA LocksKept == IInv /\ [Next]_vars => LocksHeld'
<1> SUFFICES ASSUME IInv, [Next]_vars PROVE LocksHeld'
    OBVIOUS
<1> USE NoneIsNoRequest
    DEF IInv, Goto, request, locks, LocksHeld, KindsOfSteps, StateTypes, LockTypes,
        Value, Running, Over
<1>1. ASSUME NEW r \in Requests, NEW k \in Handlers, Arrive(r, k)
      PROVE  LocksHeld'
    BY <1>1 DEF Arrive, Start
<1>2. ASSUME NEW r \in Requests, Fetch(r)
      PROVE  LocksHeld'
    BY <1>2 DEF Fetch
<1>3. ASSUME NEW r \in Requests, CreateProfile(r)
      PROVE  LocksHeld'
    BY <1>3 DEF CreateProfile
<1>4. ASSUME NEW r \in Requests, Compare(r)
      PROVE  LocksHeld'
    BY <1>4 DEF Compare
<1>5. ASSUME NEW r \in Requests, Save(r)
      PROVE  LocksHeld'
    BY <1>5 DEF Save
<1>6. ASSUME NEW r \in Requests, UpdateAvatar(r)
      PROVE  LocksHeld'
    BY <1>6 DEF UpdateAvatar, IsFree
<1>7. ASSUME NEW r \in Requests, Find(r)
      PROVE  LocksHeld'
    BY <1>7 DEF Find, Found
<1>8. ASSUME NEW r \in Requests, Write(r)
      PROVE  LocksHeld'
    BY <1>8 DEF Write, IsFree, Release
<1>9. ASSUME NEW r \in Requests, Commit(r)
      PROVE  LocksHeld'
    BY <1>9 DEF Commit, IsFree, Release
<1>10. ASSUME NEW r \in Requests, Deadlock(r)
      PROVE  LocksHeld'
    BY <1>10 DEF Deadlock, Release, WaitsFor
<1>11. CASE Crash
    BY <1>11 DEF Crash
<1>12. CASE UNCHANGED <<pc, request, locks>>
    BY <1>12
<1> HIDE DEF IInv, LocksHeld, KindsOfSteps, StateTypes, LockTypes, Value, Running, Over
<1> QED
    BY <1>1, <1>2, <1>3, <1>4, <1>5, <1>6, <1>7, <1>8, <1>9, <1>10, <1>11, <1>12
       DEF Next, Arrive, Fetch, CreateProfile, Compare, Save, UpdateAvatar, Find, Write,
           Commit, Deadlock, Crash, vars

\* A request that has arrived keeps its handler, its input and its history, and one
\* that is over stays where it is.
LEMMA Settled ==
    ASSUME IInv, [Next]_vars, NEW r \in Requests, pc[r] # "new"
    PROVE  /\ pc'[r] # "new" /\ kind'[r] = kind[r] /\ before'[r] = before[r]
           /\ (r \in full)' <=> r \in full
           /\ pc[r] \in Over => pc'[r] = pc[r]
<1> DEFINE Goal == /\ pc'[r] # "new" /\ kind'[r] = kind[r] /\ before'[r] = before[r]
                   /\ (r \in full)' <=> r \in full
                   /\ pc[r] \in Over => pc'[r] = pc[r]
<1> USE DEF IInv, StateTypes, Running, Over, Goto, request
<1>1. ASSUME NEW q \in Requests, NEW k \in Handlers, Arrive(q, k) PROVE Goal
    BY <1>1 DEF Arrive
<1>2. ASSUME NEW q \in Requests, Fetch(q) \/ CreateProfile(q) \/ Compare(q) \/ Save(q) PROVE Goal
    BY <1>2 DEF Fetch, CreateProfile, Compare, Save
<1>3. ASSUME NEW q \in Requests, UpdateAvatar(q) \/ Find(q) \/ Write(q) \/ Commit(q) PROVE Goal
    BY <1>3 DEF UpdateAvatar, Find, Found, Write, Commit
<1>4. ASSUME NEW q \in Requests, Deadlock(q) PROVE Goal
    BY <1>4 DEF Deadlock, WaitsFor
<1>5. CASE Crash \/ UNCHANGED <<pc, request>>
    BY <1>5 DEF Crash
<1> QED
    BY <1>1, <1>2, <1>3, <1>4, <1>5 DEF Next, vars

\* So does their overlap.
LEMMA OverlapStays ==
    ASSUME IInv, [Next]_vars, NEW r \in Requests, NEW q \in Requests, Overlap(r, q)
    PROVE  Overlap(r, q)'
<1>1. pc[r] # "new" /\ pc[q] # "new"
    BY DEF Overlap
<1> QED
    BY <1>1, Settled DEF Overlap

LEMMA LandedStays ==
    ASSUME IInv, [Next]_vars, NEW r \in Requests, Landed(r)
    PROVE  /\ Landed(r)' /\ kind'[r] = kind[r] /\ before'[r] = before[r]
           /\ (r \in full)' <=> r \in full
BY Settled DEF Landed, Over

\* Two requests that run at once overlap.
LEMMA RunningOverlap ==
    ASSUME IInv, NEW r \in Requests, NEW q \in Requests, r # q,
           pc[r] \in Running, pc[q] \in Running
    PROVE  Overlap(r, q)
BY DEF IInv, BeforeIsOver, Overlap, Running, Over

\* A request lands in Save or in Commit.
LEMMA Landing ==
    ASSUME IInv, [Next]_vars, NEW p \in Requests, ~Landed(p), Landed(p)'
    PROVE  /\ pc[p] \in {"saving", "marking"} /\ pc' = [pc EXCEPT ![p] = "done"]
           /\ UNCHANGED <<request, object, diff>>
           /\ pc[p] = "marking" => complete'
           /\ \/ /\ pc[p] = "marking" /\ p \in fresh
                 /\ row' = entity[p] /\ creator' = p
              \/ /\ pc[p] = "marking" => p \notin fresh
                 /\ row' = Merged(entity[p], diff[p]) /\ creator' = creator
           /\ pc[p] = "saving" => UNCHANGED complete
<1>1. Save(p) \/ Commit(p)
    BY DEF Next, Arrive, Fetch, CreateProfile, Compare, Save, UpdateAvatar, Find, Found,
           Write, Commit, Deadlock, Crash, vars, Goto, Landed, IInv, StateTypes, Running,
           KindsOfSteps, Start
<1>2. CASE Save(p)
    BY <1>2 DEF Save, Update, Merged, Goto, request, object
<1>3. CASE Commit(p)
    BY <1>3 DEF Commit, ProfileCommits, Update, Merged, Goto, request, object
<1> QED
    BY <1>1, <1>2, <1>3

\* The row changes only when a request lands.
LEMMA RowChanges ==
    ASSUME IInv, [Next]_vars, row' # row \/ complete' # complete
    PROVE  \E p \in Requests : ~Landed(p) /\ Landed(p)'
<1>1. PICK p \in Requests : CreateProfile(p) \/ Save(p) \/ Commit(p)
    BY DEF Next, Arrive, Fetch, Compare, UpdateAvatar, Find, Write, Deadlock, Crash, vars, db
<1>2. ~CreateProfile(p)
    BY DEF CreateProfile, IInv, ProfileIsThere
<1>3. ~Landed(p) /\ Landed(p)'
    BY <1>1, <1>2 DEF Save, Commit, Goto, Landed, IInv, StateTypes
<1> QED
    BY <1>3

-----------------------------------------------------------------------------
(* The profile and the flag.                                                *)

\* Between the write and the commit of a new profile nobody else creates one.
LEMMA ProfileKept == IInv /\ [Next]_vars => ProfileIsThere'
<1> SUFFICES ASSUME IInv, [Next]_vars PROVE ProfileIsThere'
    OBVIOUS
<1> USE NoneIsNoRequest
    DEF IInv, Goto, request, db, object, ProfileIsThere, LocksHeld, KindsOfSteps,
        StateTypes, DbTypes, LockTypes, ObjectTypes, Value, Looked, Running
<1>1. ASSUME NEW r \in Requests, NEW k \in Handlers, Arrive(r, k)
      PROVE  ProfileIsThere'
    BY <1>1 DEF Arrive, Start
<1>2. ASSUME NEW r \in Requests, Fetch(r)
      PROVE  ProfileIsThere'
    BY <1>2 DEF Fetch, IsMissing
<1>3. ASSUME NEW r \in Requests, CreateProfile(r)
      PROVE  ProfileIsThere'
    BY <1>3 DEF CreateProfile, Steps
<1>4. ASSUME NEW r \in Requests, Compare(r)
      PROVE  ProfileIsThere'
    BY <1>4 DEF Compare, Steps
<1>5. ASSUME NEW r \in Requests, Save(r)
      PROVE  ProfileIsThere'
    BY <1>5 DEF Save, Steps
<1>6. ASSUME NEW r \in Requests, UpdateAvatar(r)
      PROVE  ProfileIsThere'
    BY <1>6 DEF UpdateAvatar
<1>7. ASSUME NEW r \in Requests, Find(r)
      PROVE  ProfileIsThere'
    BY <1>7 DEF Find, Found
<1>8. ASSUME NEW r \in Requests, Write(r)
      PROVE  ProfileIsThere'
    BY <1>8 DEF Write, IsFree, Collides
<1>9. ASSUME NEW r \in Requests, Commit(r)
      PROVE  ProfileIsThere'
    BY <1>9 DEF Commit, ProfileCommits
<1>10. ASSUME NEW r \in Requests, Deadlock(r)
      PROVE  ProfileIsThere'
    BY <1>10 DEF Deadlock, WaitsFor
<1>11. CASE Crash
    BY <1>11 DEF Crash
<1>12. CASE UNCHANGED <<pc, kind, db, fresh>>
    BY <1>12
<1> HIDE DEF IInv, ProfileIsThere, LocksHeld, KindsOfSteps, StateTypes, DbTypes,
             LockTypes, ObjectTypes, Value, Looked, Running
<1> QED
    BY <1>1, <1>2, <1>3, <1>4, <1>5, <1>6, <1>7, <1>8, <1>9, <1>10, <1>11, <1>12
       DEF Next, Arrive, Fetch, CreateProfile, Compare, Save, UpdateAvatar, Find, Write,
           Commit, Deadlock, Crash, vars

\* Whoever creates the profile overlaps the requests that missed it.
LEMMA CreatorKept == IInv /\ [Next]_vars => CreatorOverlaps'
<1> SUFFICES ASSUME IInv, [Next]_vars, NEW q \in Requests, creator' # None,
                    (pc[q] = "creating" \/ (pc[q] \in Looked /\ q \in fresh))'
             PROVE  Overlap(q, creator)'
    BY DEF CreatorOverlaps
<1>1. CASE creator # None /\ (pc[q] = "creating" \/ (pc[q] \in Looked /\ q \in fresh))
    <2>1. creator' = creator /\ creator \in Requests
        <3>1. \A r \in Requests : Commit(r) => creator' = creator
            BY <1>1 DEF Commit, ProfileCommits, Goto, IInv, ProfileIsThere
        <3>2. creator' = creator
            BY <1>1, <3>1 DEF Next, Arrive, Fetch, CreateProfile, Compare, Save, UpdateAvatar,
               Find, Write, Deadlock, Crash, vars, db
        <3> QED
            BY <1>1, <3>2 DEF IInv, DbTypes, Value
    <2> QED
        BY <1>1, <2>1, OverlapStays DEF IInv, CreatorOverlaps
<1>2. CASE creator = None /\ (pc[q] = "creating" \/ (pc[q] \in Looked /\ q \in fresh))
    \* Some request creates the profile in this step.
    <2>1. PICK p \in Requests : (CreateProfile(p) \/ Commit(p)) /\ creator' = p
        BY <1>2 DEF Next, Arrive, Fetch, CreateProfile, Compare, Save, UpdateAvatar,
           Find, Write, Commit, ProfileCommits, Deadlock, Crash, vars, db
    <2>2. pc[p] \in Running /\ pc[q] \in Running /\ p # q
        BY <1>2, <2>1 DEF CreateProfile, Commit, Goto, Running, Looked, IInv, StateTypes
    <2> QED
        BY <2>1, <2>2, RunningOverlap, OverlapStays
<1>3. CASE ~(pc[q] = "creating" \/ (pc[q] \in Looked /\ q \in fresh))
    \* It has just seen that there is no profile.
    <2> USE DEF Goto, Looked, IInv, StateTypes, object
    <2>1. ASSUME NEW r \in Requests, NEW k \in Handlers, Arrive(r, k) PROVE FALSE
        BY <1>3, <2>1 DEF Arrive, Start
    <2>2. ASSUME NEW r \in Requests,
                 CreateProfile(r) \/ Compare(r) \/ Save(r) \/ UpdateAvatar(r) \/ Write(r)
          PROVE  FALSE
        BY <1>3, <2>2 DEF CreateProfile, Compare, Save, UpdateAvatar, Write
    <2>3. ASSUME NEW r \in Requests, Commit(r) \/ Deadlock(r) PROVE FALSE
        BY <1>3, <2>3 DEF Commit, Deadlock
    <2>4. ASSUME NEW r \in Requests, Fetch(r) \/ Find(r) PROVE creator' = None
        BY <1>3, <2>4 DEF Fetch, Find, Found, IsMissing, db, ProfileIsThere
    <2>5. CASE Crash \/ UNCHANGED vars
        BY <1>3, <2>5 DEF Crash, vars
    <2> QED
        BY <2>1, <2>2, <2>3, <2>4, <2>5 DEF Next
<1> QED
    BY <1>1, <1>2, <1>3

\* Failures and deadlocks.
LEMMA FailureKept == IInv /\ [Next]_vars => FailureNeedsOverlap'
<1> SUFFICES ASSUME IInv, [Next]_vars, NEW r \in Requests, pc'[r] \in {"failed", "deadlocked"}
             PROVE  /\ \E q \in Requests : Overlap(r, q)'
                    /\ pc'[r] = "deadlocked" =>
                          \E q \in Requests : kind'[q] \in {"photo", "portrait"}
    BY DEF FailureNeedsOverlap
<1>1. CASE pc[r] \in {"failed", "deadlocked"}
    <2>1. pc'[r] = pc[r]
        BY <1>1, Settled DEF Over
    <2>2. PICK q \in Requests : Overlap(r, q)
        BY <1>1 DEF IInv, FailureNeedsOverlap
    <2>3. pc[r] = "deadlocked" => \E p \in Requests : kind'[p] \in {"photo", "portrait"}
        <3> SUFFICES ASSUME pc[r] = "deadlocked"
                     PROVE  \E p \in Requests : kind'[p] \in {"photo", "portrait"}
            OBVIOUS
        <3>1. PICK p \in Requests : kind[p] \in {"photo", "portrait"}
            BY DEF IInv, FailureNeedsOverlap
        <3>2. pc[p] # "new"
            BY <3>1 DEF IInv, KindsOfSteps
        <3> QED
            BY <3>1, <3>2, Settled
    <2> QED
        BY <2>1, <2>2, <2>3, OverlapStays
<1>2. CASE pc[r] \notin {"failed", "deadlocked"}
    <2>1. CreateProfile(r) \/ Write(r) \/ Deadlock(r)
        BY <1>2 DEF Next, Arrive, Start, Fetch, CreateProfile, Compare, Save, UpdateAvatar,
           Find, Found, Write, Commit, Deadlock, Crash, vars, Goto, IInv, StateTypes
    <2>2. CASE CreateProfile(r) /\ creator # None
        BY <2>2, OverlapStays
           DEF CreateProfile, Goto, IInv, StateTypes, CreatorOverlaps, DbTypes, Value
    <2>3. CASE Write(r) /\ Collides(r)
        BY <2>3, OverlapStays
           DEF Write, Goto, Collides, IInv, StateTypes, CreatorOverlaps, Looked, DbTypes, Value
    <2>4. CASE Deadlock(r)
        <3>1. PICK q \in Requests : WaitsFor(r, q) /\ WaitsFor(q, r)
            BY <2>4 DEF Deadlock
        <3>2. r # q /\ pc[r] \in Running /\ pc[q] \in Running
            BY <3>1 DEF WaitsFor, Running
        <3>3. usersLock \in {r, q}
            \* They cannot both wait for the profile.
            BY <3>1 DEF WaitsFor
        <3>4. kind[r] \in {"photo", "portrait"} \/ kind[q] \in {"photo", "portrait"}
            BY <3>3 DEF IInv, LocksHeld
        <3>5. UNCHANGED kind
            BY <2>4 DEF Deadlock, request
        <3> QED
            BY <3>2, <3>4, <3>5, RunningOverlap, OverlapStays
    <2> QED
        BY <1>2, <2>1, <2>2, <2>3, <2>4 DEF CreateProfile, Write, Goto, IInv, StateTypes
<1> QED
    BY <1>1, <1>2

\* A guarded request that was let in arrived before onboarding was complete.
LEMMA CompletionKept == IInv /\ [Next]_vars => CompletionOverlaps'
<1> SUFFICES ASSUME IInv, [Next]_vars, NEW r \in Requests, complete',
                    pc'[r] \in Running, Guarded(kind[r])'
             PROVE  \E q \in Requests :
                       Landed(q)' /\ kind'[q] \in Completions /\ Overlap(r, q)'
    BY DEF CompletionOverlaps
<1>1. CASE pc[r] = "new"
    <2>1. PICK k \in Handlers : Arrive(r, k)
        <3> USE DEF Goto, IInv, StateTypes, Running
        <3>1. ASSUME NEW q \in Requests,
                     Fetch(q) \/ CreateProfile(q) \/ Compare(q) \/ Save(q) \/ UpdateAvatar(q)
                     \/ Find(q) \/ Write(q) \/ Commit(q)
              PROVE  FALSE
            BY <1>1, <3>1 DEF Fetch, CreateProfile, Compare, Save, UpdateAvatar, Find, Write,
               Commit
        <3>2. ASSUME NEW q \in Requests, Deadlock(q) PROVE FALSE
            BY <1>1, <3>2 DEF Deadlock
        <3>3. CASE Crash \/ UNCHANGED vars
            BY <1>1, <3>3 DEF Crash, vars
        <3>4. ASSUME NEW q \in Requests, NEW k \in Handlers, Arrive(q, k) PROVE q = r
            BY <1>1, <3>4 DEF Arrive
        <3> QED
            BY <3>1, <3>2, <3>3, <3>4 DEF Next
    <2>2. ~complete
        BY <2>1 DEF Arrive, Goto, Guarded, IInv, StateTypes, Running
    <2> QED
        BY <2>1, <2>2 DEF Arrive, db
<1>2. CASE pc[r] # "new"
    <2>1. pc[r] \in Running
        BY <1>2, Settled DEF IInv, StateTypes, Running, Over
    <2>2. kind'[r] = kind[r]
        BY <1>2, Settled
    <2>3. CASE complete
        <3>1. PICK q \in Requests : Landed(q) /\ kind[q] \in Completions /\ Overlap(r, q)
            BY <2>1, <2>2, <2>3 DEF IInv, CompletionOverlaps, Guarded
        <3> QED
            BY <3>1, LandedStays, OverlapStays
    <2>4. CASE ~complete
        <3>1. PICK q \in Requests : Commit(q)
            BY <2>4 DEF Next, Arrive, Fetch, CreateProfile, Compare, Save, UpdateAvatar, Find,
               Write, Deadlock, Crash, vars, db
        <3>2. pc[q] = "marking" /\ Landed(q)' /\ q # r
            BY <3>1 DEF Commit, Goto, Landed, Running, IInv, StateTypes
        <3>3. kind'[q] \in Completions
            BY <3>1, <3>2 DEF Commit, request, IInv, KindsOfSteps
        <3>4. Overlap(r, q)'
            BY <2>1, <3>2, RunningOverlap, OverlapStays DEF Running
        <3> QED
            BY <3>2, <3>3, <3>4
    <2> QED
        BY <2>3, <2>4
<1> QED
    BY <1>1, <1>2

-----------------------------------------------------------------------------
(* What the requests hold and what they save.                               *)

\* A request takes hold of the row as it is, or of a blank one while there is none.
LEMMA HoldStep ==
    ASSUME IInv, [Next]_vars, NEW q \in Requests
    PROVE  \/ /\ entity'[q] = entity[q]
              /\ pc'[q] \in Holding => pc[q] \in Holding
           \/ /\ entity'[q] = Change(q, row) /\ pc[q] \notin Holding
              /\ UNCHANGED <<row, complete, request>>
              /\ \A p \in Requests : p # q => pc'[p] = pc[p]
              /\ pc[q] \notin {"new", "done"} /\ pc'[q] # "done"
<1> DEFINE Goal ==
           \/ /\ entity'[q] = entity[q]
              /\ pc'[q] \in Holding => pc[q] \in Holding
           \/ /\ entity'[q] = Change(q, row) /\ pc[q] \notin Holding
              /\ UNCHANGED <<row, complete, request>>
              /\ \A p \in Requests : p # q => pc'[p] = pc[p]
              /\ pc[q] \notin {"new", "done"} /\ pc'[q] # "done"
<1> USE DEF IInv, ObjectTypes, StateTypes, Holding, Looked, Goto
<1>1. ASSUME NEW r \in Requests, NEW k \in Handlers, Arrive(r, k) PROVE Goal
    BY <1>1 DEF Arrive, Start, object
<1>2. ASSUME NEW r \in Requests, Fetch(r) PROVE Goal
    BY <1>2 DEF Fetch, Hold, db, request
<1>3. ASSUME NEW r \in Requests, CreateProfile(r) PROVE Goal
    BY <1>3 DEF CreateProfile, Hold, ProfileIsThere, request
<1>4. ASSUME NEW r \in Requests, Compare(r) \/ Save(r) \/ UpdateAvatar(r) PROVE Goal
    BY <1>4 DEF Compare, Save, UpdateAvatar, object
<1>5. ASSUME NEW r \in Requests, Find(r) PROVE Goal
    BY <1>5 DEF Find, Found, Hold, Stored, ProfileIsThere, db, request, object
<1>6. ASSUME NEW r \in Requests, Write(r) \/ Commit(r) \/ Deadlock(r) PROVE Goal
    BY <1>6 DEF Write, Commit, Deadlock, object
<1>7. CASE Crash \/ UNCHANGED vars
    BY <1>7 DEF Crash, vars, object
<1> QED
    BY <1>1, <1>2, <1>3, <1>4, <1>5, <1>6, <1>7 DEF Next

\* A save compares what it holds with the row as it is.
LEMMA CompareStep ==
    ASSUME IInv, [Next]_vars, NEW q \in Requests, pc'[q] \in Compared
    PROVE  /\ entity'[q] = entity[q]
           /\ \/ pc[q] \in Compared /\ diff'[q] = diff[q]
              \/ /\ pc[q] \in Holding \ Compared
                 /\ diff'[q] = Differing(q) /\ UNCHANGED <<row, request>>
<1> DEFINE Goal ==
           /\ entity'[q] = entity[q]
           /\ \/ pc[q] \in Compared /\ diff'[q] = diff[q]
              \/ /\ pc[q] \in Holding \ Compared
                 /\ diff'[q] = Differing(q) /\ UNCHANGED <<row, request>>
<1> USE DEF IInv, ObjectTypes, StateTypes, Holding, Looked, Compared, Goto
<1>1. ASSUME NEW r \in Requests, NEW k \in Handlers, Arrive(r, k) PROVE Goal
    BY <1>1 DEF Arrive, Start, object
<1>2. ASSUME NEW r \in Requests, Fetch(r) \/ CreateProfile(r) PROVE Goal
    BY <1>2 DEF Fetch, CreateProfile, Hold
<1>3. ASSUME NEW r \in Requests, Compare(r) PROVE Goal
    BY <1>3 DEF Compare, object, db
<1>4. ASSUME NEW r \in Requests, Save(r) \/ UpdateAvatar(r) PROVE Goal
    BY <1>4 DEF Save, UpdateAvatar, object
<1>5. ASSUME NEW r \in Requests, Find(r) PROVE Goal
    BY <1>5 DEF Find, Found, Hold, object
<1>6. ASSUME NEW r \in Requests, Write(r) \/ Commit(r) \/ Deadlock(r) PROVE Goal
    BY <1>6 DEF Write, Commit, Deadlock, object
<1>7. CASE Crash \/ UNCHANGED vars
    BY <1>7 DEF Crash, vars, object
<1> QED
    BY <1>1, <1>2, <1>3, <1>4, <1>5, <1>6, <1>7 DEF Next

LEMMA SourcesKept == IInv /\ [Next]_vars => SourcesLanded'
<1> SUFFICES ASSUME IInv, [Next]_vars, NEW c \in Named
             PROVE  /\ row'[c] # None => pc'[row'[c]] = "done"
                    /\ \A q \in Requests :
                          entity'[q][c] \notin {None, q} => pc'[entity'[q][c]] = "done"
    BY DEF SourcesLanded, Landed
<1>1. row[c] \in Value /\ \A q \in Requests : entity[q][c] \in Value
    BY RowFields DEF IInv, DbTypes, ObjectTypes
<1>2. row[c] # None => pc'[row[c]] = "done"
    BY <1>1, LandedStays DEF IInv, SourcesLanded, Value, Landed
<1>3. \A q \in Requests : entity[q][c] \notin {None, q} => pc'[entity[q][c]] = "done"
    BY <1>1, LandedStays DEF IInv, SourcesLanded, Value, Landed
<1>4. row'[c] # None => pc'[row'[c]] = "done"
    <2>1. CASE row' = row
        BY <1>2, <2>1
    <2>2. CASE row' # row
        <3>1. PICK p \in Requests : ~Landed(p) /\ Landed(p)'
            BY <2>2, RowChanges
        <3>2. row' = entity[p] \/ row' = Merged(entity[p], diff[p])
            BY <3>1, Landing
        <3>3. row'[c] \in {entity[p][c], row[c]}
            BY <3>2, MergedFields, Columns DEF IInv, DbTypes, ObjectTypes
        <3> QED
            BY <1>2, <1>3, <3>1, <3>3 DEF Landed
    <2> QED
        BY <2>1, <2>2
<1>5. ASSUME NEW q \in Requests, entity'[q][c] \notin {None, q}
      PROVE  pc'[entity'[q][c]] = "done"
    <2>1. CASE entity'[q] = entity[q]
        BY <1>3, <1>5, <2>1
    <2>2. CASE entity'[q] = Change(q, row) /\ pc[q] # "new"
        <3>1. entity'[q][c] \in {q, row[c]}
            BY <2>2, KindKnown, ChangeFields DEF IInv, DbTypes
        <3> QED
            BY <1>2, <1>5, <3>1
    <2> QED
        BY <2>1, <2>2, HoldStep
<1> QED
    BY <1>4, <1>5

\* What excuses a column that is gone, or a step that was set back, stays true.
LEMMA ExcusesStay ==
    ASSUME IInv, [Next]_vars, NEW r \in Requests, pc[r] # "new"
    PROVE  (Undone(r) => Undone(r)') /\ (SetBack(r) => SetBack(r)')
<1>1. before'[r] = before[r] /\ kind'[r] = kind[r]
    BY Settled
<1>2. ASSUME NEW q \in Requests, Landed(q)
      PROVE  Landed(q)' /\ kind'[q] = kind[q] /\ (Overlap(r, q) => Overlap(r, q)')
    BY <1>2, LandedStays, OverlapStays
<1> QED
    BY <1>1, <1>2 DEF Undone, SetBack

\* A request that lands while r runs, or that did not see r land, is an excuse.
LEMMA LandingExcuses ==
    ASSUME IInv, [Next]_vars, NEW r \in Requests, NEW p \in Requests, r # p,
           ~Landed(p), Landed(p)', pc[r] # "new", r \notin before[p]
    PROVE  Undone(r)' /\ SetBack(r)'
<1>1. pc[p] \in {"saving", "marking"} /\ UNCHANGED request
    BY Landing
<1>2. p \notin before[r]
    BY <1>1 DEF IInv, BeforeIsOver, Over
<1>3. Overlap(r, p)
    BY <1>1, <1>2 DEF Overlap
<1>4. Overlap(r, p)' /\ p \notin before'[r]
    BY <1>1, <1>2, <1>3, OverlapStays DEF request
<1> QED
    BY <1>4 DEF Undone, SetBack

LEMMA OwnKept == IInv /\ [Next]_vars => OwnColumns'
<1> SUFFICES ASSUME IInv, [Next]_vars, NEW r \in Requests
             PROVE  /\ pc'[r] \in Holding =>
                          entity'[r][Sets(kind'[r])] = r /\ entity'[r].step >= StepOf(kind'[r])
                    /\ pc'[r] \in Compared =>
                          /\ Sets(kind'[r]) \in diff'[r]
                          /\ "step" \in diff'[r] \/ row'.step >= StepOf(kind'[r]) \/ SetBack(r)'
    BY DEF OwnColumns
<1>1. ASSUME pc'[r] \in Holding
      PROVE  entity'[r][Sets(kind'[r])] = r /\ entity'[r].step >= StepOf(kind'[r])
    <2>1. CASE entity'[r] = entity[r] /\ pc[r] \in Holding
        BY <2>1, Settled DEF IInv, OwnColumns, Holding, Looked
    <2>2. CASE entity'[r] = Change(r, row) /\ pc[r] # "new"
        <3>1. kind[r] \in Steps \union Completions /\ kind'[r] = kind[r]
            BY <2>2, KindKnown, Settled
        <3> QED
            BY <2>2, <3>1, SetsNamed, ChangeFields DEF IInv, DbTypes
    <2> QED
        BY <1>1, <2>1, <2>2, HoldStep
<1>2. ASSUME pc'[r] \in Compared
      PROVE  /\ Sets(kind'[r]) \in diff'[r]
             /\ "step" \in diff'[r] \/ row'.step >= StepOf(kind'[r]) \/ SetBack(r)'
    <2>1. pc[r] \in Holding /\ pc[r] # "new" /\ kind'[r] = kind[r]
        BY <1>2, CompareStep, Settled DEF Compared, Holding, Looked
    <2>2. kind[r] \in Steps \union Completions /\ Sets(kind[r]) \in Named
        BY <2>1, KindKnown, SetsNamed
    <2>3. CASE pc[r] \in Compared /\ diff'[r] = diff[r]
        <3>1. /\ Sets(kind[r]) \in diff[r]
              /\ "step" \in diff[r] \/ row.step >= StepOf(kind[r]) \/ SetBack(r)
            BY <2>3 DEF IInv, OwnColumns
        <3>2. CASE row' = row
            BY <2>1, <2>3, <3>1, <3>2, ExcusesStay
        <3>3. CASE row' # row
            <4>1. PICK p \in Requests : ~Landed(p) /\ Landed(p)'
                BY <3>3, RowChanges
            <4>2. p # r /\ r \notin before[p]
                BY <1>2, <2>1, <4>1
                   DEF Landed, Compared, Holding, Looked, IInv, BeforeIsOver, Over
            <4> QED
                BY <2>1, <2>3, <3>1, <4>1, <4>2, LandingExcuses
        <3> QED
            BY <3>2, <3>3
    <2>4. CASE diff'[r] = Differing(r) /\ row' = row
        <3>1. entity[r][Sets(kind[r])] = r /\ entity[r].step >= StepOf(kind[r])
            BY <2>1 DEF IInv, OwnColumns
        <3>2. row[Sets(kind[r])] # r
            \* r has not landed yet.
            BY <2>1, <2>2, NoneIsNoRequest
               DEF IInv, SourcesLanded, Landed, Holding, Looked
        <3>3. Sets(kind[r]) \in Differing(r)
            BY <2>2, <3>1, <3>2, Columns DEF Differing
        <3>4. "step" \in Differing(r) \/ row.step = entity[r].step
            BY Columns DEF Differing
        <3> QED
            BY <2>1, <2>4, <3>1, <3>3, <3>4
    <2> QED
        BY <1>2, <2>3, <2>4, CompareStep
<1> QED
    BY <1>1, <1>2

LEMMA ReadsStay == IInv /\ [Next]_vars => ReadsKept'
<1> SUFFICES ASSUME IInv, [Next]_vars, NEW q \in Requests, NEW r \in before'[q],
                    pc'[q] \in Holding, Landed(r)'
             PROVE  /\ \/ entity'[q][Sets(kind'[r])] = r
                       \/ Sets(kind'[q]) = Sets(kind'[r])
                       \/ Undone(r)'
                    /\ entity'[q].step >= StepOf(kind'[r]) \/ SetBack(r)'
    BY DEF ReadsKept
<1>1. pc[q] # "new"
    <2>1. CASE pc[q] \in Holding
        BY <2>1 DEF Holding, Looked
    <2>2. CASE pc[q] \notin Holding
        BY <2>2, HoldStep
    <2> QED
        BY <2>1, <2>2
<1>2. before'[q] = before[q] /\ kind'[q] = kind[q] /\ r \in Requests
    BY <1>1, Settled DEF IInv, StateTypes
<1>3. Landed(r)
    BY <1>2, Settled DEF IInv, BeforeIsOver, Landed, Over
<1>4. kind'[r] = kind[r] /\ (Undone(r) => Undone(r)') /\ (SetBack(r) => SetBack(r)')
    BY <1>2, <1>3, LandedStays, ExcusesStay DEF Landed
<1>5. CASE entity'[q] = entity[q] /\ pc[q] \in Holding
    BY <1>2, <1>3, <1>4, <1>5 DEF IInv, ReadsKept
<1>6. CASE entity'[q] = Change(q, row)
    <2>1. kind[q] \in Steps \union Completions /\ kind[r] \in Steps \union Completions
        BY <1>1, <1>2, <1>3, KindKnown DEF Landed
    <2>2. /\ row[Sets(kind[r])] = r \/ Undone(r)
          /\ row.step >= StepOf(kind[r]) \/ SetBack(r)
        BY <1>2, <1>3 DEF IInv, SavesStay
    <2>3. entity'[q][Sets(kind[r])] = r \/ Sets(kind[q]) = Sets(kind[r]) \/ Undone(r)
        BY <1>6, <2>1, <2>2, SetsNamed, ChangeFields DEF IInv, DbTypes
    <2>4. entity'[q].step >= row.step /\ entity'[q].step \in 0..3 /\ row.step \in 0..3
        BY <1>6, <2>1, ChangeFields, RowFields DEF IInv, DbTypes
    <2>5. StepOf(kind[r]) \in 0..3
        BY DEF StepOf
    <2> QED
        BY <1>2, <1>4, <2>2, <2>3, <2>4, <2>5
<1> QED
    BY <1>5, <1>6, HoldStep

LEMMA SavesKept == IInv /\ [Next]_vars => SavesStay'
<1> SUFFICES ASSUME IInv, [Next]_vars, NEW r \in Requests, Landed(r)'
             PROVE  /\ row'[Sets(kind'[r])] = r \/ Undone(r)'
                    /\ row'.step >= StepOf(kind'[r]) \/ SetBack(r)'
    BY DEF SavesStay
<1>1. CASE ~Landed(r)
    \* What r saves is its own.
    <2>1. pc[r] \in {"saving", "marking"} /\ kind'[r] = kind[r]
          /\ (row' = entity[r] \/ row' = Merged(entity[r], diff[r]))
        BY <1>1, Landing DEF request
    <2>2. Sets(kind[r]) \in Named
        BY <2>1, KindKnown, SetsNamed
    <2>3. entity[r][Sets(kind[r])] = r /\ entity[r].step >= StepOf(kind[r])
          /\ Sets(kind[r]) \in diff[r]
          /\ ("step" \in diff[r] \/ row.step >= StepOf(kind[r]) \/ SetBack(r))
        BY <2>1 DEF IInv, OwnColumns, Holding, Looked, Compared
    <2>4. SetBack(r) => SetBack(r)'
        BY <2>1, ExcusesStay
    <2>5. CASE row' = entity[r]
        BY <2>1, <2>3, <2>5
    <2>6. CASE row' = Merged(entity[r], diff[r])
        <3>1. row'[Sets(kind[r])] = r
            BY <2>2, <2>3, <2>6, MergedFields, Columns DEF IInv, DbTypes, ObjectTypes
        <3>2. row'.step = IF "step" \in diff[r] THEN entity[r].step ELSE row.step
            BY <2>6, MergedFields, Columns DEF IInv, DbTypes, ObjectTypes
        <3> QED
            BY <2>1, <2>3, <2>4, <3>1, <3>2
    <2> QED
        BY <2>1, <2>5, <2>6
<1>2. CASE Landed(r)
    <2>1. kind'[r] = kind[r] /\ (Undone(r) => Undone(r)') /\ (SetBack(r) => SetBack(r)')
        BY <1>2, LandedStays, ExcusesStay DEF Landed
    <2>2. /\ row[Sets(kind[r])] = r \/ Undone(r)
          /\ row.step >= StepOf(kind[r]) \/ SetBack(r)
        BY <1>2 DEF IInv, SavesStay
    <2>3. CASE row' = row
        BY <2>1, <2>2, <2>3
    <2>4. CASE row' # row
        <3>1. PICK p \in Requests : ~Landed(p) /\ Landed(p)'
            BY <2>4, RowChanges
        <3>2. p # r /\ pc[r] # "new"
            BY <1>2, <3>1 DEF Landed
        <3>3. CASE r \notin before[p]
            BY <3>1, <3>2, <3>3, LandingExcuses
        <3>4. CASE r \in before[p]
            \* It holds what r saved, or writes the column of r once more.
            <4>1. pc[p] \in {"saving", "marking"} /\ p \notin before[r] /\ UNCHANGED request
                BY <3>1, Landing DEF IInv, BeforeIsOver, Over
            <4>2. row' = Merged(entity[p], diff[p])
                BY <1>2, <3>1, <4>1, Landing DEF IInv, ProfileIsThere, Landed
            <4>3. /\ \/ entity[p][Sets(kind[r])] = r
                     \/ Sets(kind[p]) = Sets(kind[r])
                     \/ Undone(r)
                  /\ entity[p].step >= StepOf(kind[r]) \/ SetBack(r)
                BY <1>2, <3>4, <4>1 DEF IInv, ReadsKept, Holding, Looked
            <4>4. Sets(kind[p]) = Sets(kind[r]) => Undone(r)'
                BY <3>1, <3>2, <4>1 DEF Undone, request
            <4>5. Sets(kind[r]) \in Named
                BY <1>2, KindKnown, SetsNamed DEF Landed
            <4>6. /\ row'[Sets(kind[r])] \in {entity[p][Sets(kind[r])], row[Sets(kind[r])]}
                  /\ row'.step \in {entity[p].step, row.step}
                BY <4>2, <4>5, MergedFields, Columns DEF IInv, DbTypes, ObjectTypes
            <4> QED
                BY <2>1, <2>2, <4>3, <4>4, <4>6
        <3> QED
            BY <3>3, <3>4
    <2> QED
        BY <2>3, <2>4
<1> QED
    BY <1>1, <1>2

-----------------------------------------------------------------------------
(* profile_verified.                                                        *)

\* While q is under way and nothing else lands, the row is what q read.
LEMMA QuietRow ==
    ASSUME IInv, [Next]_vars, NEW q \in Requests, pc[q] # "new", pc'[q] # "done", Quiet(q)'
    PROVE  Quiet(q) /\ row' = row
<1>1. before'[q] = before[q]
    BY Settled
<1>2. Quiet(q)
    BY <1>1, LandedStays DEF Quiet
<1>3. ASSUME NEW p \in Requests, ~Landed(p), Landed(p)' PROVE FALSE
    <2>1. p # q
        BY <1>3 DEF Landed
    <2>2. p \in before[q]
        BY <1>1, <1>3, <2>1 DEF Quiet
    <2>3. pc[p] \in {"saving", "marking"}
        BY <1>3, Landing
    <2> QED
        BY <2>2, <2>3 DEF IInv, BeforeIsOver, Over
<1> QED
    BY <1>2, <1>3, RowChanges

LEMMA QuietKept == IInv /\ [Next]_vars => QuietReads'
<1> SUFFICES ASSUME IInv, [Next]_vars, NEW q \in Requests, Quiet(q)'
             PROVE  /\ pc'[q] \in Holding => entity'[q] = Change(q, row)'
                    /\ pc'[q] \in Compared => diff'[q] = Differing(q)'
    BY DEF QuietReads
<1>1. ASSUME pc[q] # "new" PROVE Change(q, row') = Change(q, row)'
    <2>1. kind'[q] = kind[q]
        BY <1>1, Settled
    <2>2. CASE kind[q] # "photo"
        BY <2>1, <2>2 DEF Change
    <2>3. CASE kind[q] = "photo" /\ q \in full
        <3>1. q \in full'
            BY <1>1, <2>3, Settled
        <3>2. (q \in full) = TRUE /\ (q \in full') = TRUE
            BY <2>3, <3>1
        <3>3. /\ Change(q, row') = [row' EXCEPT !.details = q, !.step = 3, !.verified = TRUE]
              /\ Change(q, row)' = [row' EXCEPT !.details = q, !.step = 3, !.verified = TRUE]
            BY <2>1, <2>3, <3>2 DEF Change
        <3> QED
            BY <3>3
    <2>4. CASE kind[q] = "photo" /\ q \notin full
        <3>1. q \notin full'
            BY <1>1, <2>4, Settled
        <3>2. (q \in full) = FALSE /\ (q \in full') = FALSE
            BY <2>4, <3>1
        <3>3. /\ Change(q, row') = [row' EXCEPT !.details = q, !.step = 3, !.verified = FALSE]
              /\ Change(q, row)' = [row' EXCEPT !.details = q, !.step = 3, !.verified = FALSE]
            BY <2>1, <2>4, <3>2 DEF Change
        <3> QED
            BY <3>3
    <2> QED
        BY <2>2, <2>3, <2>4
<1>2. ASSUME pc'[q] \in Holding PROVE entity'[q] = Change(q, row)'
    <2>1. pc[q] # "new" /\ pc'[q] # "done"
        BY <1>2, HoldStep DEF Holding, Looked
    <2>2. Quiet(q) /\ row' = row
        BY <2>1, QuietRow
    <2>3. entity'[q] = Change(q, row)
        BY <1>2, <2>2, HoldStep DEF IInv, QuietReads
    <2> QED
        BY <1>1, <2>1, <2>2, <2>3
<1>3. ASSUME pc'[q] \in Compared PROVE diff'[q] = Differing(q)'
    <2>1. pc[q] \in Holding /\ pc[q] # "new" /\ pc'[q] # "done" /\ entity'[q] = entity[q]
        BY <1>3, CompareStep DEF Compared, Holding, Looked
    <2>2. Quiet(q) /\ row' = row
        BY <2>1, QuietRow
    <2>3. diff'[q] = Differing(q)
        BY <1>3, <2>2, CompareStep DEF IInv, QuietReads
    <2> QED
        BY <2>1, <2>2, <2>3 DEF Differing
<1> QED
    BY <1>2, <1>3

LEMMA VerifiedCompleteKept == IInv /\ [Next]_vars => VerifiedIsComplete'
<1> SUFFICES ASSUME IInv, [Next]_vars PROVE VerifiedIsComplete'
    OBVIOUS
<1>1. complete => complete'
    BY DEF Next, Arrive, Fetch, CreateProfile, Compare, Save, UpdateAvatar, Find, Write,
       Commit, Deadlock, Crash, vars, db
<1>2. ASSUME row'.verified PROVE complete'
    <2>1. CASE row' = row
        BY <1>1, <1>2, <2>1 DEF IInv, VerifiedIsComplete
    <2>2. CASE row' # row
        <3>1. PICK p \in Requests : ~Landed(p) /\ Landed(p)'
            BY <2>2, RowChanges
        <3>2. CASE pc[p] = "marking"
            BY <3>1, <3>2, Landing
        <3>3. CASE pc[p] = "saving"
            <4>1. kind[p] # "photo" /\ row' = Merged(entity[p], diff[p])
                BY <3>1, <3>3, Landing DEF IInv, KindsOfSteps, Steps
            <4>2. row'.verified = IF "verified" \in diff[p] THEN entity[p].verified
                                                            ELSE row.verified
                BY <4>1, MergedFields, Columns DEF IInv, DbTypes, ObjectTypes
            <4> QED
                BY <1>1, <1>2, <3>3, <4>1, <4>2 DEF IInv, VerifiedIsComplete, Holding
        <3> QED
            BY <3>1, <3>2, <3>3, Landing
    <2> QED
        BY <2>1, <2>2
<1>3. ASSUME NEW q \in Requests, pc'[q] \in Holding, kind'[q] # "photo", entity'[q].verified
      PROVE  complete'
    <2>1. CASE entity'[q] = entity[q] /\ pc[q] \in Holding
        <3>1. kind'[q] = kind[q]
            BY <2>1, Settled DEF Holding, Looked
        <3> QED
            BY <1>1, <1>3, <2>1, <3>1 DEF IInv, VerifiedIsComplete
    <2>2. CASE entity'[q] = Change(q, row) /\ pc[q] # "new"
        <3>1. kind'[q] = kind[q] /\ kind[q] \in Steps \union Completions
            BY <2>2, Settled, KindKnown
        <3>2. kind[q] # "photo" /\ row \in Row
            BY <1>3, <3>1 DEF IInv, DbTypes
        <3>3. Change(q, row).verified = row.verified
            BY <3>1, <3>2, ChangeFields
        <3>4. row.verified
            BY <1>3, <2>2, <3>3
        <3> QED
            BY <1>1, <3>4 DEF IInv, VerifiedIsComplete
    <2> QED
        BY <1>3, <2>1, <2>2, HoldStep
<1> QED
    BY <1>2, <1>3 DEF VerifiedIsComplete

\* A request that lands while no other one landed since it arrived leaves what its
\* handler makes of the row.
LEMMA QuietLanding ==
    ASSUME IInv, [Next]_vars, NEW p \in Requests, ~Landed(p), Landed(p)', Quiet(p)
    PROVE  row' = Change(p, row)
<1>1. pc[p] \in {"saving", "marking"}
      /\ (row' = entity[p] \/ row' = Merged(entity[p], diff[p]))
    BY Landing
<1>2. entity[p] = Change(p, row) /\ diff[p] = Differing(p)
    BY <1>1 DEF IInv, QuietReads, Holding, Looked, Compared
<1>3. entity[p] = [c \in DOMAIN Blank |-> entity[p][c]]
    BY DEF IInv, ObjectTypes, Row, Blank
<1>4. Merged(entity[p], diff[p]) = entity[p]
    BY <1>2, <1>3 DEF Merged, Differing
<1> QED
    BY <1>1, <1>2, <1>4

LEMMA VerifiedKept == IInv /\ [Next]_vars => VerifiedIsStaleByOverlapOnly'
<1> SUFFICES ASSUME IInv, [Next]_vars, row'.verified
             PROVE  \/ (row.details \in full)'
                    \/ \E r, q \in Requests : (Landed(r) /\ Landed(q) /\ Overlap(r, q))'
    BY DEF VerifiedIsStaleByOverlapOnly
<1>1. ASSUME NEW r \in Requests, NEW q \in Requests, Landed(r), Landed(q), Overlap(r, q)
      PROVE  (Landed(r) /\ Landed(q) /\ Overlap(r, q))'
    BY <1>1, LandedStays, OverlapStays
<1>2. full \subseteq full'
    BY DEF Next, Arrive, Fetch, CreateProfile, Compare, Save, UpdateAvatar, Find, Write,
       Commit, Deadlock, Crash, vars, request
<1>3. CASE row' = row
    BY <1>1, <1>2, <1>3 DEF IInv, VerifiedIsStaleByOverlapOnly
<1>4. CASE row' # row
    <2>1. PICK p \in Requests : ~Landed(p) /\ Landed(p)'
        BY <1>4, RowChanges
    <2>2. pc[p] \in {"saving", "marking"} /\ UNCHANGED request
        BY <2>1, Landing
    <2>3. CASE ~Quiet(p)
        <3>1. PICK r \in Requests \ {p} : Landed(r) /\ r \notin before[p]
            BY <2>3 DEF Quiet
        <3>2. p \notin before[r]
            BY <2>2 DEF IInv, BeforeIsOver, Over
        <3>3. Overlap(r, p)
            BY <2>2, <3>1, <3>2 DEF Overlap, Landed
        <3> QED
            BY <2>1, <3>1, <3>3, LandedStays, OverlapStays
    <2>4. CASE Quiet(p)
        <3>1. row' = Change(p, row)
            BY <2>1, <2>4, QuietLanding
        <3>2. kind[p] \in Steps \union Completions
            BY <2>2, KindKnown
        <3>3. /\ row'.details = IF Sets(kind[p]) = "details" THEN p ELSE row.details
              /\ row'.verified = IF kind[p] = "photo" THEN p \in full ELSE row.verified
            BY <3>1, <3>2, ChangeFields DEF IInv, DbTypes, Named
        <3>4. CASE kind[p] = "photo"
            BY <1>2, <3>3, <3>4 DEF Sets
        <3>5. CASE kind[p] \in {"profile", "portrait"}
            \* It was let in before onboarding was complete, so nothing was verified.
            <4>1. complete
                BY <3>3, <3>5 DEF IInv, VerifiedIsComplete
            <4>2. PICK q \in Requests : Landed(q) /\ Overlap(p, q)
                BY <2>2, <3>5, <4>1 DEF IInv, CompletionOverlaps, Guarded, Running
            <4> QED
                BY <2>4, <4>2 DEF Quiet, Overlap
        <3>6. CASE kind[p] \notin {"photo", "profile", "portrait"}
            <4>1. Sets(kind[p]) # "details"
                BY <3>2, <3>6 DEF Sets, Steps, Completions
            <4>2. row'.details = row.details /\ row'.verified = row.verified
                BY <3>3, <3>6, <4>1
            <4> QED
                BY <1>1, <1>2, <4>2 DEF IInv, VerifiedIsStaleByOverlapOnly
        <3> QED
            BY <3>4, <3>5, <3>6
    <2> QED
        BY <2>3, <2>4
<1> QED
    BY <1>3, <1>4

-----------------------------------------------------------------------------
LEMMA Inductive == Spec => []IInv
<1>1. IInv /\ [Next]_vars => IInv'
    BY StateTypesKept, LockTypesKept, ObjectTypesKept, DbTypesKept, BeforeKept, KindsKept,
       LocksKept, ProfileKept, CreatorKept, FailureKept, CompletionKept, SourcesKept, OwnKept,
       ReadsStay, SavesKept, QuietKept, VerifiedCompleteKept, VerifiedKept DEF IInv
<1> QED
    BY InitOK, <1>1, PTL DEF Spec

\* The tables, the requests and their objects keep their types.
THEOREM TypeCorrect == Spec => []TypeOK
<1>1. IInv => TypeOK
    BY TypesInParts DEF IInv
<1> QED
    BY <1>1, Inductive, PTL

\* Onboarding is complete only for a user with a profile.
THEOREM CompleteWithProfile == Spec => []CompletedHasProfile
<1>1. IInv => CompletedHasProfile
    BY DEF IInv, ProfileIsThere, CompletedHasProfile
<1> QED
    BY <1>1, Inductive, PTL

\* completeOnboarding succeeds only if it created the profile.
THEOREM LegacyIsFirst == Spec => []LegacyCreates
<1>1. IInv => LegacyCreates
    BY DEF IInv, ProfileIsThere, LegacyCreates, Landed
<1> QED
    BY <1>1, Inductive, PTL

\* What was saved is undone, and the step set back, only by requests that overlap.
THEOREM LossNeedsOverlap == Spec => []LostToOverlapOnly
<1>1. IInv => LostToOverlapOnly
    BY DEF IInv, SavesStay, Undone, SetBack, LostToOverlapOnly
<1> QED
    BY <1>1, Inductive, PTL

\* A request fails or is aborted only because another one ran at the same time.
THEOREM FailuresOverlap == Spec => []FailureNeedsOverlap
<1>1. IInv => FailureNeedsOverlap
    BY DEF IInv
<1> QED
    BY <1>1, Inductive, PTL

\* One after the other the handlers never show an incomplete profile as verified.
THEOREM VerifiedIsCurrent == Spec => []VerifiedIsStaleByOverlapOnly
<1>1. IInv => VerifiedIsStaleByOverlapOnly
    BY DEF IInv
<1> QED
    BY <1>1, Inductive, PTL

\* A guarded handler writes to a completed profile only if it overlapped the request
\* that completed it.
THEOREM LateWritesAreOverlaps == Spec => LateWritesOverlap
<1> DEFINE Step == \A r \in Requests :
          /\ kind[r] \in {"goal", "tracks", "profile", "portrait", "legacy"}
          /\ ~Landed(r) /\ Landed(r)' /\ complete
          => \E q \in Requests :
                Landed(q) /\ kind[q] \in Completions /\ Overlap(r, q)
<1>1. IInv /\ [Next]_vars => [Step]_vars
    <2> SUFFICES ASSUME IInv, [Next]_vars, NEW r \in Requests, complete,
                        kind[r] \in {"goal", "tracks", "profile", "portrait", "legacy"},
                        ~Landed(r), Landed(r)'
                 PROVE  \E q \in Requests :
                           Landed(q) /\ kind[q] \in Completions /\ Overlap(r, q)
        OBVIOUS
    <2>1. pc[r] \in Running
        BY Landing DEF Running
    <2> QED
        BY <2>1 DEF IInv, CompletionOverlaps, Guarded
<1> QED
    BY <1>1, Inductive, PTL DEF Spec, LateWritesOverlap
=============================================================================
