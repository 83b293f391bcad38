-------------------------- MODULE PasswordResetProofs --------------------------
(* Proofs about PasswordReset, for any number of requests, runs, codes and  *)
(* crashes, with Redis and without.                                         *)
EXTENDS PasswordReset, FiniteSetTheorems, SequenceTheorems, TLAPS

(***************************************************************************)
(* The inductive invariant, besides the properties.                        *)
(*   MomentsPassed    no timestamp is ahead of the clock;                  *)
(*   QueueIsWaiting   the queue holds waiting jobs, each of them once;     *)
(*   RunsAreActive    a run works on an active job, and on its own;        *)
(*   OneRun           with Redis one run is going on;                      *)
(*   RowsOfSteps      a run has no row before Store and one afterwards;    *)
(*   HandedOver       a run completes when its mail was handed over;       *)
(*   NoneWhileHashing with Redis no code is good between Issue and Store;  *)
(*   ActiveIsNewest   with Redis a good code is the newest of all rows;    *)
(*   TargetsAreRows   what a reset compared with is a row, used up once    *)
(*                    the reset redeemed it;                               *)
(*   BeforeIsDone     what was answered stays answered.                    *)
(***************************************************************************)
\* The parts of TypeOK.
JobTypes ==
    /\ redis \in Modes /\ queue \in Seq(Jobs)
    /\ jobState \in [Jobs -> JobStates] /\ stalled \subseteq Jobs

RunTypes ==
    /\ pc \in [Calls -> {"new", "ended", "cut"} \union Running]
    /\ job \in [Calls -> Jobs \union {None}]

MailTypes ==
    /\ mailQueue \in Seq(Calls) /\ mailState \in [Calls -> MailStates]
    /\ mailStalled \subseteq Calls /\ mailWorker \in Calls \union {None}
    /\ accepted \in BOOLEAN /\ sends \in [Calls -> Nat]

ResetTypes ==
    /\ rpc \in [Resets -> {"new", "refused", "done", "cut"} \union Resetting]
    /\ target \in [Resets -> Calls \union {None}]
    /\ before \in [Resets -> SUBSET Resets]
    /\ password \in Resets \union {None}

IdleTypes ==
    /\ inlinePending \in Nat /\ idleWaiter \in {"none", "waiting", "resolved"}
    /\ crashes \in 0..MaxCrashes

MomentsPassed == \A o \in Calls : createdAt[o] <= clock

QueueIsWaiting ==
    \A m, n \in 1..Len(queue) :
        jobState[queue[n]] = "waiting" /\ (queue[m] = queue[n] => m = n)

RunsAreActive ==
    \A d, e \in Calls : pc[d] \in Running =>
        /\ job[d] \in Jobs /\ jobState[job[d]] = "active"
        /\ pc[e] \in Running /\ job[e] = job[d] => e = d

OneRun ==
    redis => \A d, e \in Calls : pc[d] \in Running /\ pc[e] \in Running => d = e

RowsOfSteps ==
    \A d \in Calls :
        /\ pc[d] \in {"new", "issuing", "hashing"} => createdAt[d] = 0
        /\ pc[d] \in {"mailing", "completing"} => createdAt[d] > 0

HandedOver == \A d \in Calls : pc[d] = "completing" => mailState[d] # "none"

NoneWhileHashing ==
    redis => \A d, o \in Calls : pc[d] = "hashing" => ~Active(o)

ActiveIsNewest ==
    redis => \A o, p \in Calls : Active(o) /\ p # o => createdAt[p] < createdAt[o]

TargetsAreRows ==
    \A r \in Resets :
        /\ target[r] # None => createdAt[target[r]] > 0
        /\ rpc[r] \in {"matched", "redeemed", "done"} => target[r] # None
        /\ rpc[r] \in {"redeemed", "done"} => usedAt[target[r]]
        /\ rpc[r] = "new" => target[r] = None

BeforeIsDone == \A r \in Resets : \A q \in before[r] : rpc[q] = "done"

IInv ==
    /\ TableTypeOK /\ JobTypes /\ RunTypes /\ MailTypes /\ ResetTypes /\ IdleTypes
    /\ MomentsPassed
    /\ QueueIsWaiting
    /\ RunsAreActive
    /\ OneRun
    /\ RowsOfSteps
    /\ HandedOver
    /\ NoneWhileHashing
    /\ ActiveIsNewest
    /\ TargetsAreRows
    /\ BeforeIsDone
    /\ PendingIsExact
    /\ CompletedIsHandedOver
    /\ LaterResetNewerCode

LEMMA TypesInParts ==
    TypeOK <=> TableTypeOK /\ JobTypes /\ RunTypes /\ MailTypes /\ ResetTypes /\ IdleTypes
BY DEF TypeOK, JobTypes, RunTypes, MailTypes, ResetTypes, IdleTypes

\* A job that is put back comes first.
LEMMA InFront ==
    ASSUME NEW S, NEW s \in Seq(S), NEW e \in S
    PROVE  /\ <<e>> \o s \in Seq(S)
           /\ Len(<<e>> \o s) = Len(s) + 1
           /\ \A i \in 1..Len(s) + 1 :
                  (<<e>> \o s)[i] = IF i = 1 THEN e ELSE s[i - 1]
<1>1. <<e>> \in Seq(S) /\ Len(<<e>>) = 1 /\ <<e>>[1] = e
    OBVIOUS
<1> QED
    BY <1>1, ConcatProperties

\* The deliveries that are not over.
Pending == {j \in Jobs : jobState[j] \in {"waiting", "active"}}

-----------------------------------------------------------------------------
LEMMA InitOK == Init => IInv
<1> SUFFICES ASSUME Init PROVE IInv
    OBVIOUS
<1>1. TypeOK
    <2>1. TableTypeOK /\ IdleTypes
        BY CrashBound DEF Init, TableInit, TableTypeOK, IdleTypes
    <2>2. JobTypes /\ RunTypes
        BY DEF Init, JobTypes, RunTypes, JobStates
    <2>3. MailTypes
        <3>1. mailQueue \in Seq(Calls) /\ sends \in [Calls -> Nat]
            BY EmptySeq DEF Init
        <3>2. mailState \in [Calls -> MailStates] /\ mailStalled \subseteq Calls
            BY DEF Init, MailStates
        <3>3. mailWorker \in Calls \union {None}
            BY DEF Init
        <3>4. accepted \in BOOLEAN
            BY DEF Init
        <3> QED
            BY <3>1, <3>2, <3>3, <3>4 DEF MailTypes
    <2>4. ResetTypes
        BY DEF Init, ResetTypes
    <2> QED
        BY <2>1, <2>2, <2>3, <2>4, TypesInParts
<1>2. \A d \in Calls : pc[d] = "new" /\ createdAt[d] = 0 /\ ~Active(d)
    <2> SUFFICES ASSUME NEW d \in Calls
                 PROVE  pc[d] = "new" /\ createdAt[d] = 0 /\ ~Active(d)
        OBVIOUS
    <2>1. pc[d] = "new" /\ createdAt[d] = 0
        BY DEF Init, TableInit
    <2> QED
        BY <2>1 DEF Active
<1>3. \A d \in Calls : pc[d] \notin Running /\ pc[d] \notin {"mailing", "completing"}
    BY <1>2 DEF Running
<1>4. MomentsPassed /\ QueueIsWaiting
    BY DEF Init, TableInit, MomentsPassed, QueueIsWaiting
<1>5. RunsAreActive /\ OneRun /\ RowsOfSteps /\ HandedOver
    BY <1>2, <1>3 DEF RunsAreActive, OneRun, RowsOfSteps, HandedOver
<1>6. NoneWhileHashing /\ ActiveIsNewest
    BY <1>2 DEF NoneWhileHashing, ActiveIsNewest
<1>7. TargetsAreRows /\ BeforeIsDone /\ LaterResetNewerCode
    BY DEF Init, TargetsAreRows, BeforeIsDone, LaterResetNewerCode
<1>8. PendingIsExact /\ CompletedIsHandedOver
    <2>1. \A j \in Jobs : jobState[j] = "new"
        BY DEF Init
    <2>2. Pending = {}
        BY <2>1 DEF Pending
    <2> QED
        BY <2>1, <2>2, FS_EmptySet
           DEF Init, PendingIsExact, CompletedIsHandedOver, Pending
<1> QED
    BY <1>1, <1>4, <1>5, <1>6, <1>7, <1>8, TypesInParts DEF IInv

\* A delivery that settles without Redis is one of those that are counted.
LEMMA SettlesACounted ==
    ASSUME IInv, NEW d \in Calls, Settle(d), ~redis
    PROVE  /\ job[d] \in Pending
           /\ inlinePending = Cardinality(Pending)
           /\ IsFiniteSet(Pending)
           /\ Cardinality(Pending \ {job[d]}) = inlinePending - 1
           /\ inlinePending - 1 \in Nat
<1>1. job[d] \in Pending
    BY DEF Settle, Goto, Running, IInv, RunsAreActive, Pending
<1>2. inlinePending = Cardinality(Pending)
    BY DEF IInv, PendingIsExact, Pending
<1>3. IsFiniteSet(Pending)
    BY JobsAreFinite, FS_Subset DEF Pending
<1>4. Cardinality(Pending \ {job[d]}) = Cardinality(Pending) - 1
      /\ IsFiniteSet(Pending \ {job[d]})
    BY <1>1, <1>3, FS_RemoveElement
<1>5. Cardinality(Pending \ {job[d]}) \in Nat
    BY <1>4, FS_CardinalityType
<1> QED
    BY <1>1, <1>2, <1>3, <1>4, <1>5

\* The types, part by part.
LEMMA TableKept == IInv /\ [Next]_vars => TableTypeOK'
<1> SUFFICES ASSUME IInv, [Next]_vars PROVE TableTypeOK'
    OBVIOUS
<1> USE NoneIsNoValue, NoneIsNoJob
    DEF IInv, Goto, Advance, Tick, table,
        TableTypeOK, Running
<1>1. ASSUME NEW d \in Calls, NEW x \in Codes, Issue(d, x)
      PROVE  TableTypeOK'
    BY <1>1 DEF Issue, Invalidate, VoidActive
<1>2. ASSUME NEW d \in Calls, Store(d)
      PROVE  TableTypeOK'
    BY <1>2 DEF Store, Insert
<1>3. ASSUME NEW r \in Resets, RedeemReset(r)
      PROVE  TableTypeOK'
    BY <1>3 DEF RedeemReset, MarkUsed, Unused
<1>4. CASE TimePasses
    BY <1>4 DEF TimePasses, Expire
<1>5. CASE UNCHANGED <<table>>
    BY <1>5
<1> HIDE DEF IInv, TableTypeOK, Running
<1> QED
    BY <1>1, <1>2, <1>3, <1>4, <1>5
       DEF Next, Deliver, Recover, ForgotPassword, Start, Issue, Invalidate, Store,
           Insert, Hand, SendNow, Rethrow, Settle, Release, SendOut, TakeMail, SendMail,
           SettleMail, PutBack, PutMailBack, Reset, RedeemReset, MarkUsed, RedeemLate,
           UpdatePassword, AwaitIdle, TimePasses, Expire, Crash, vars

LEMMA JobsKept == IInv /\ [Next]_vars => JobTypes'
<1> SUFFICES ASSUME IInv, [Next]_vars PROVE JobTypes'
    OBVIOUS
<1> USE NoneIsNoValue, NoneIsNoJob
    DEF IInv, Goto, jobs, JobTypes, JobStates,
        RunsAreActive, Running
<1>1. ASSUME NEW j \in Jobs, ForgotPassword(j)
      PROVE  JobTypes'
    BY <1>1, AppendProperties DEF ForgotPassword
<1>2. ASSUME NEW d \in Calls, Start(d)
      PROVE  JobTypes'
    BY <1>2, HeadTailProperties DEF Start
<1>3. ASSUME NEW d \in Calls, Settle(d)
      PROVE  JobTypes'
    BY <1>3 DEF Settle
<1>4. ASSUME NEW j \in Jobs, PutBack(j)
      PROVE  JobTypes'
    <2>1. queue' \in Seq(Jobs)
        <3>1. <<j>> \o queue \in Seq(Jobs)
            BY InFront
        <3> QED
            BY <1>4, <3>1 DEF PutBack
    <2>2. UNCHANGED redis /\ jobState' \in [Jobs -> JobStates]
        BY <1>4 DEF PutBack, Stalled
    <2>3. stalled' \subseteq Jobs
        BY <1>4 DEF PutBack
    <2> QED
        BY <2>1, <2>2, <2>3
<1>5. CASE Crash
    <2>1. CASE redis
        BY <1>5, <2>1 DEF Crash
    <2>2. CASE ~redis
        <3>1. queue' = <<>> /\ UNCHANGED <<redis, stalled>>
            BY <1>5, <2>2 DEF Crash
        <3>2. jobState' \in [Jobs -> JobStates]
            BY <1>5, <2>2 DEF Crash
        <3> QED
            BY <3>1, <3>2
    <2> QED
        BY <2>1, <2>2
<1>6. CASE UNCHANGED <<jobs>>
    BY <1>6
<1> HIDE DEF IInv, JobTypes, JobStates, RunsAreActive, Running
<1> QED
    BY <1>1, <1>2, <1>3, <1>4, <1>5, <1>6
       DEF Next, Deliver, Recover, ForgotPassword, Start, Issue, Invalidate, Store,
           Insert, Hand, SendNow, Rethrow, Settle, Release, SendOut, TakeMail, SendMail,
           SettleMail, PutBack, PutMailBack, Reset, RedeemReset, MarkUsed, RedeemLate,
           UpdatePassword, AwaitIdle, TimePasses, Expire, Crash, vars

LEMMA RunTypesKept == IInv /\ [Next]_vars => RunTypes'
<1> SUFFICES ASSUME IInv, [Next]_vars PROVE RunTypes'
    OBVIOUS
<1> USE NoneIsNoValue, NoneIsNoJob
    DEF IInv, Goto, Tick, runs, RunTypes, JobTypes,
        Running
<1>1. ASSUME NEW d \in Calls, Start(d)
      PROVE  RunTypes'
    BY <1>1 DEF Start, WorkerFree
<1>2. ASSUME NEW d \in Calls, NEW x \in Codes, Issue(d, x)
      PROVE  RunTypes'
    BY <1>2 DEF Issue, Invalidate, VoidActive
<1>3. ASSUME NEW d \in Calls, Store(d)
      PROVE  RunTypes'
    BY <1>3 DEF Store, Insert
<1>4. ASSUME NEW d \in Calls, Hand(d)
      PROVE  RunTypes'
    BY <1>4 DEF Hand, Rethrow
<1>5. ASSUME NEW d \in Calls, SendNow(d)
      PROVE  RunTypes'
    BY <1>5 DEF SendNow, Rethrow
<1>6. ASSUME NEW d \in Calls, Settle(d)
      PROVE  RunTypes'
    BY <1>6 DEF Settle
<1>7. CASE Crash
    BY <1>7 DEF Crash
<1>8. CASE UNCHANGED <<runs>>
    BY <1>8
<1> HIDE DEF IInv, RunTypes, JobTypes, Running
<1> QED
    BY <1>1, <1>2, <1>3, <1>4, <1>5, <1>6, <1>7, <1>8
       DEF Next, Deliver, Recover, ForgotPassword, Start, Issue, Invalidate, Store,
           Insert, Hand, SendNow, Rethrow, Settle, Release, SendOut, TakeMail, SendMail,
           SettleMail, PutBack, PutMailBack, Reset, RedeemReset, MarkUsed, RedeemLate,
           UpdatePassword, AwaitIdle, TimePasses, Expire, Crash, vars

LEMMA MailsKept == IInv /\ [Next]_vars => MailTypes'
<1> SUFFICES ASSUME IInv, [Next]_vars PROVE MailTypes'
    OBVIOUS
<1> USE NoneIsNoValue, NoneIsNoJob
    DEF IInv, Goto, mails, MailTypes, MailStates
<1>1. ASSUME NEW d \in Calls, Hand(d)
      PROVE  MailTypes'
    <2>1. mailQueue' \in Seq(Calls)
        <3>1. mailQueue' = Append(mailQueue, d) \/ UNCHANGED mailQueue
            BY <1>1 DEF Hand
        <3>2. mailQueue \in Seq(Calls)
            OBVIOUS
        <3> QED
            BY <3>1, <3>2, AppendProperties
    <2>2. mailState' \in [Calls -> MailStates]
        BY <1>1 DEF Hand
    <2>3. UNCHANGED <<mailStalled, mailWorker, accepted, sends>>
        BY <1>1 DEF Hand
    <2> QED
        BY <2>1, <2>2, <2>3
<1>2. ASSUME NEW d \in Calls, SendNow(d)
      PROVE  MailTypes'
    <2>1. sends' \in [Calls -> Nat]
        BY <1>2 DEF SendNow, CallProvider
    <2>2. mailState' \in [Calls -> MailStates]
        BY <1>2 DEF SendNow
    <2>3. UNCHANGED <<mailQueue, mailStalled, mailWorker, accepted>>
        BY <1>2 DEF SendNow
    <2> QED
        BY <2>1, <2>2, <2>3
<1>3. CASE SendOut
    <2>1. CASE TakeMail
        BY <1>3, <2>1, HeadTailProperties DEF TakeMail, MailWorkerFree
    <2>2. CASE SendMail
        <3>1. sends' \in [Calls -> Nat]
            BY <2>2 DEF SendMail, CallProvider
        <3>2. mailState' \in [Calls -> MailStates] /\ mailWorker' \in Calls \union {None}
            BY <2>2 DEF SendMail
        <3>3. accepted' \in BOOLEAN /\ UNCHANGED <<mailQueue, mailStalled>>
            BY <2>2 DEF SendMail
        <3> QED
            BY <3>1, <3>2, <3>3
    <2>3. CASE SettleMail
        BY <2>3 DEF SettleMail
    <2> QED
        BY <1>3, <2>1, <2>2, <2>3 DEF SendOut
<1>4. ASSUME NEW d \in Calls, PutMailBack(d)
      PROVE  MailTypes'
    <2>1. mailQueue' \in Seq(Calls)
        <3>1. <<d>> \o mailQueue \in Seq(Calls)
            BY InFront
        <3> QED
            BY <1>4, <3>1 DEF PutMailBack
    <2>2. mailState' \in [Calls -> MailStates] /\ mailStalled' \subseteq Calls
        BY <1>4 DEF PutMailBack
    <2>3. UNCHANGED <<mailWorker, accepted, sends>>
        BY <1>4 DEF PutMailBack
    <2> QED
        BY <2>1, <2>2, <2>3
<1>5. CASE Crash
    BY <1>5 DEF Crash
<1>6. CASE UNCHANGED <<mails>>
    BY <1>6
<1> HIDE DEF IInv, MailTypes, MailStates
<1> QED
    BY <1>1, <1>2, <1>3, <1>4, <1>5, <1>6
       DEF Next, Deliver, Recover, ForgotPassword, Start, Issue, Invalidate, Store,
           Insert, Hand, SendNow, Rethrow, Settle, Release, SendOut, TakeMail, SendMail,
           SettleMail, PutBack, PutMailBack, Reset, RedeemReset, MarkUsed, RedeemLate,
           UpdatePassword, AwaitIdle, TimePasses, Expire, Crash, vars

LEMMA ResetTypesKept == IInv /\ [Next]_vars => ResetTypes'
<1> SUFFICES ASSUME IInv, [Next]_vars PROVE ResetTypes'
    OBVIOUS
<1> USE NoneIsNoValue, NoneIsNoJob
    DEF IInv, Goto, Advance, resets, ResetTypes,
        Resetting
<1>1. ASSUME NEW r \in Resets, NEW x \in Codes, Reset(r, x)
      PROVE  ResetTypes'
    BY <1>1 DEF Reset, Latest
<1>2. ASSUME NEW r \in Resets, RedeemReset(r)
      PROVE  ResetTypes'
    BY <1>2 DEF RedeemReset, MarkUsed, Unused
<1>3. ASSUME NEW r \in Resets, RedeemLate(r)
      PROVE  ResetTypes'
    BY <1>3 DEF RedeemLate
<1>4. ASSUME NEW r \in Resets, UpdatePassword(r)
      PROVE  ResetTypes'
    BY <1>4 DEF UpdatePassword
<1>5. CASE Crash
    BY <1>5 DEF Crash
<1>6. CASE UNCHANGED <<resets>>
    BY <1>6
<1> HIDE DEF IInv, ResetTypes, Resetting
<1> QED
    BY <1>1, <1>2, <1>3, <1>4, <1>5, <1>6
       DEF Next, Deliver, Recover, ForgotPassword, Start, Issue, Invalidate, Store,
           Insert, Hand, SendNow, Rethrow, Settle, Release, SendOut, TakeMail, SendMail,
           SettleMail, PutBack, PutMailBack, Reset, RedeemReset, MarkUsed, RedeemLate,
           UpdatePassword, AwaitIdle, TimePasses, Expire, Crash, vars

\* The counter does not go below 0: the delivery that settles is counted.
LEMMA IdleKept == IInv /\ [Next]_vars => IdleTypes'
<1> SUFFICES ASSUME IInv, [Next]_vars PROVE IdleTypes'
    OBVIOUS
<1> USE NoneIsNoValue, NoneIsNoJob, CrashBound
    DEF IInv, Goto, idle, IdleTypes
<1>1. ASSUME NEW j \in Jobs, ForgotPassword(j)
      PROVE  IdleTypes'
    BY <1>1 DEF ForgotPassword
<1>2. ASSUME NEW d \in Calls, Settle(d)
      PROVE  IdleTypes'
    BY <1>2, SettlesACounted DEF Settle, Release, Always
<1>3. CASE AwaitIdle
    BY <1>3 DEF AwaitIdle
<1>4. CASE Crash
    BY <1>4 DEF Crash
<1>5. CASE UNCHANGED <<idle, crashes>>
    BY <1>5
<1> HIDE DEF IInv, IdleTypes
<1> QED
    BY <1>1, <1>2, <1>3, <1>4, <1>5
       DEF Next, Deliver, Recover, ForgotPassword, Start, Issue, Invalidate, Store,
           Insert, Hand, SendNow, Rethrow, Settle, Release, SendOut, TakeMail, SendMail,
           SettleMail, PutBack, PutMailBack, Reset, RedeemReset, MarkUsed, RedeemLate,
           UpdatePassword, AwaitIdle, TimePasses, Expire, Crash, vars

\* Every row was inserted by now.
LEMMA MomentsKept == IInv /\ [Next]_vars => MomentsPassed'
<1> SUFFICES ASSUME IInv, [Next]_vars PROVE MomentsPassed'
    OBVIOUS
<1> USE NoneIsNoValue, NoneIsNoJob
    DEF IInv, Goto, Tick, table, MomentsPassed,
        TableTypeOK
<1>1. ASSUME NEW d \in Calls, NEW x \in Codes, Issue(d, x)
      PROVE  MomentsPassed'
    BY <1>1 DEF Issue, Invalidate, VoidActive
<1>2. ASSUME NEW d \in Calls, Store(d)
      PROVE  MomentsPassed'
    BY <1>2 DEF Store, Insert
<1>3. CASE UNCHANGED <<clock, createdAt>>
    BY <1>3
<1> HIDE DEF IInv, MomentsPassed, TableTypeOK
<1> QED
    BY <1>1, <1>2, <1>3
       DEF Next, Deliver, Recover, ForgotPassword, Start, Issue, Invalidate, Store,
           Insert, Hand, SendNow, Rethrow, Settle, Release, SendOut, TakeMail, SendMail,
           SettleMail, PutBack, PutMailBack, Reset, RedeemReset, MarkUsed, RedeemLate,
           UpdatePassword, AwaitIdle, TimePasses, Expire, Crash, vars

\* A job waits once.
LEMMA QueueKept == IInv /\ [Next]_vars => QueueIsWaiting'
<1> SUFFICES ASSUME IInv, [Next]_vars PROVE QueueIsWaiting'
    OBVIOUS
<1> USE NoneIsNoValue, NoneIsNoJob
    DEF IInv, Goto, jobs, QueueIsWaiting, JobTypes,
        RunsAreActive, Running
<1>1. ASSUME NEW j \in Jobs, ForgotPassword(j)
      PROVE  QueueIsWaiting'
    <2>1. CASE jobState' = [jobState EXCEPT ![j] = "waiting"]
        <3>1. queue' = Append(queue, j) /\ jobState[j] = "new"
            BY <1>1, <2>1 DEF ForgotPassword, JobStates
        <3>2. Len(queue') = Len(queue) + 1 /\ Len(queue) \in Nat
            BY <3>1, AppendProperties, LenProperties
        <3>3. queue'[Len(queue) + 1] = j
            BY <3>1, AppendProperties
        <3>4. \A n \in 1..Len(queue) :
                  queue'[n] = queue[n] /\ queue[n] \in Jobs /\ queue[n] # j
            BY <3>1, AppendProperties, ElementOfSeq
        <3> QED
            BY <2>1, <3>2, <3>3, <3>4
    <2>2. CASE jobState' = [jobState EXCEPT ![j] = "lost"] /\ UNCHANGED queue
        BY <1>1, <2>2 DEF ForgotPassword
    <2> QED
        BY <1>1, <2>1, <2>2 DEF ForgotPassword
<1>2. ASSUME NEW d \in Calls, Start(d)
      PROVE  QueueIsWaiting'
    BY <1>2, HeadTailProperties DEF Start
<1>3. ASSUME NEW d \in Calls, Settle(d)
      PROVE  QueueIsWaiting'
    BY <1>3 DEF Settle
<1>4. ASSUME NEW j \in Jobs, PutBack(j)
      PROVE  QueueIsWaiting'
    <2>1. CASE j \in stalled
        BY <1>4, <2>1 DEF PutBack, Stalled
    <2>2. CASE j \notin stalled
        <3>1. queue' = <<j>> \o queue /\ jobState' = [jobState EXCEPT ![j] = "waiting"]
              /\ jobState[j] = "active"
            BY <1>4, <2>2 DEF PutBack, Stalled
        <3>2. Len(queue) \in Nat /\ \A n \in 1..Len(queue) : queue[n] \in Jobs /\ queue[n] # j
            BY <3>1, LenProperties, ElementOfSeq
        <3>3. Len(queue') = Len(queue) + 1
              /\ \A i \in 1..Len(queue) + 1 : queue'[i] = IF i = 1 THEN j ELSE queue[i - 1]
            BY <3>1, InFront
        <3> QED
            BY <3>1, <3>2, <3>3
    <2> QED
        BY <2>1, <2>2
<1>5. CASE Crash
    BY <1>5 DEF Crash
<1>6. CASE UNCHANGED <<queue, jobState>>
    BY <1>6
<1> HIDE DEF IInv, QueueIsWaiting, JobTypes, RunsAreActive, Running
<1> QED
    BY <1>1, <1>2, <1>3, <1>4, <1>5, <1>6
       DEF Next, Deliver, Recover, ForgotPassword, Start, Issue, Invalidate, Store,
           Insert, Hand, SendNow, Rethrow, Settle, Release, SendOut, TakeMail, SendMail,
           SettleMail, PutBack, PutMailBack, Reset, RedeemReset, MarkUsed, RedeemLate,
           UpdatePassword, AwaitIdle, TimePasses, Expire, Crash, vars

\* A job that starts was waiting, so no run works on it.
LEMMA RunsKept == IInv /\ [Next]_vars => RunsAreActive'
<1> SUFFICES ASSUME IInv, [Next]_vars PROVE RunsAreActive'
    OBVIOUS
<1> USE NoneIsNoValue, NoneIsNoJob
    DEF IInv, Goto, Tick, jobs, runs, RunsAreActive,
        QueueIsWaiting, JobTypes, RunTypes, Running
<1>1. ASSUME NEW j \in Jobs, ForgotPassword(j)
      PROVE  RunsAreActive'
    BY <1>1 DEF ForgotPassword
<1>2. ASSUME NEW d \in Calls, Start(d)
      PROVE  RunsAreActive'
    BY <1>2 DEF Start, WorkerFree
<1>3. ASSUME NEW d \in Calls, NEW x \in Codes, Issue(d, x)
      PROVE  RunsAreActive'
    BY <1>3 DEF Issue, Invalidate, VoidActive
<1>4. ASSUME NEW d \in Calls, Store(d)
      PROVE  RunsAreActive'
    BY <1>4 DEF Store, Insert
<1>5. ASSUME NEW d \in Calls, Hand(d)
      PROVE  RunsAreActive'
    BY <1>5 DEF Hand, Rethrow
<1>6. ASSUME NEW d \in Calls, SendNow(d)
      PROVE  RunsAreActive'
    BY <1>6 DEF SendNow, Rethrow
<1>7. ASSUME NEW d \in Calls, Settle(d)
      PROVE  RunsAreActive'
    BY <1>7 DEF Settle
<1>8. ASSUME NEW j \in Jobs, PutBack(j)
      PROVE  RunsAreActive'
    BY <1>8 DEF PutBack, Stalled
<1>9. CASE Crash
    BY <1>9 DEF Crash
<1>10. CASE UNCHANGED <<pc, job, jobState>>
    BY <1>10
<1> HIDE DEF IInv, RunsAreActive, QueueIsWaiting, JobTypes, RunTypes, Running
<1> QED
    BY <1>1, <1>2, <1>3, <1>4, <1>5, <1>6, <1>7, <1>8, <1>9, <1>10
       DEF Next, Deliver, Recover, ForgotPassword, Start, Issue, Invalidate, Store,
           Insert, Hand, SendNow, Rethrow, Settle, Release, SendOut, TakeMail, SendMail,
           SettleMail, PutBack, PutMailBack, Reset, RedeemReset, MarkUsed, RedeemLate,
           UpdatePassword, AwaitIdle, TimePasses, Expire, Crash, vars

\* The worker takes a job when it is free.
LEMMA OneRunKept == IInv /\ [Next]_vars => OneRun'
<1> SUFFICES ASSUME IInv, [Next]_vars PROVE OneRun'
    OBVIOUS
<1> USE NoneIsNoValue, NoneIsNoJob
    DEF IInv, Goto, Tick, jobs, runs, OneRun,
        RunTypes, Running
<1>1. ASSUME NEW d \in Calls, Start(d)
      PROVE  OneRun'
    BY <1>1 DEF Start, WorkerFree
<1>2. ASSUME NEW d \in Calls, NEW x \in Codes, Issue(d, x)
      PROVE  OneRun'
    BY <1>2 DEF Issue, Invalidate, VoidActive
<1>3. ASSUME NEW d \in Calls, Store(d)
      PROVE  OneRun'
    BY <1>3 DEF Store, Insert
<1>4. ASSUME NEW d \in Calls, Hand(d)
      PROVE  OneRun'
    BY <1>4 DEF Hand, Rethrow
<1>5. ASSUME NEW d \in Calls, SendNow(d)
      PROVE  OneRun'
    BY <1>5 DEF SendNow, Rethrow
<1>6. ASSUME NEW d \in Calls, Settle(d)
      PROVE  OneRun'
    BY <1>6 DEF Settle
<1>7. CASE Crash
    BY <1>7 DEF Crash
<1>8. CASE UNCHANGED <<redis, pc>>
    BY <1>8
<1> HIDE DEF IInv, OneRun, RunTypes, Running
<1> QED
    BY <1>1, <1>2, <1>3, <1>4, <1>5, <1>6, <1>7, <1>8
       DEF Next, Deliver, Recover, ForgotPassword, Start, Issue, Invalidate, Store,
           Insert, Hand, SendNow, Rethrow, Settle, Release, SendOut, TakeMail, SendMail,
           SettleMail, PutBack, PutMailBack, Reset, RedeemReset, MarkUsed, RedeemLate,
           UpdatePassword, AwaitIdle, TimePasses, Expire, Crash, vars

\* A run stores its row once.
LEMMA RowsKept == IInv /\ [Next]_vars => RowsOfSteps'
<1> SUFFICES ASSUME IInv, [Next]_vars PROVE RowsOfSteps'
    OBVIOUS
<1> USE NoneIsNoValue, NoneIsNoJob
    DEF IInv, Goto, Tick, table, runs, RowsOfSteps,
        RunTypes, TableTypeOK, Running
<1>1. ASSUME NEW d \in Calls, Start(d)
      PROVE  RowsOfSteps'
    BY <1>1 DEF Start, WorkerFree
<1>2. ASSUME NEW d \in Calls, NEW x \in Codes, Issue(d, x)
      PROVE  RowsOfSteps'
    BY <1>2 DEF Issue, Invalidate, VoidActive
<1>3. ASSUME NEW d \in Calls, Store(d)
      PROVE  RowsOfSteps'
    BY <1>3 DEF Store, Insert
<1>4. ASSUME NEW d \in Calls, Hand(d)
      PROVE  RowsOfSteps'
    BY <1>4 DEF Hand, Rethrow
<1>5. ASSUME NEW d \in Calls, SendNow(d)
      PROVE  RowsOfSteps'
    BY <1>5 DEF SendNow, Rethrow
<1>6. ASSUME NEW d \in Calls, Settle(d)
      PROVE  RowsOfSteps'
    BY <1>6 DEF Settle
<1>7. CASE Crash
    BY <1>7 DEF Crash
<1>8. CASE UNCHANGED <<pc, createdAt>>
    BY <1>8
<1> HIDE DEF IInv, RowsOfSteps, RunTypes, TableTypeOK, Running
<1> QED
    BY <1>1, <1>2, <1>3, <1>4, <1>5, <1>6, <1>7, <1>8
       DEF Next, Deliver, Recover, ForgotPassword, Start, Issue, Invalidate, Store,
           Insert, Hand, SendNow, Rethrow, Settle, Release, SendOut, TakeMail, SendMail,
           SettleMail, PutBack, PutMailBack, Reset, RedeemReset, MarkUsed, RedeemLate,
           UpdatePassword, AwaitIdle, TimePasses, Expire, Crash, vars

\* A mail that was handed over is never taken back.
LEMMA HandedKept == IInv /\ [Next]_vars => HandedOver'
<1> SUFFICES ASSUME IInv, [Next]_vars PROVE HandedOver'
    OBVIOUS
<1> USE NoneIsNoValue, NoneIsNoJob
    DEF IInv, Goto, Tick, mails, runs, HandedOver,
        RunTypes, MailTypes, Running
<1>1. ASSUME NEW d \in Calls, Start(d)
      PROVE  HandedOver'
    BY <1>1 DEF Start, WorkerFree
<1>2. ASSUME NEW d \in Calls, NEW x \in Codes, Issue(d, x)
      PROVE  HandedOver'
    BY <1>2 DEF Issue, Invalidate, VoidActive
<1>3. ASSUME NEW d \in Calls, Store(d)
      PROVE  HandedOver'
    BY <1>3 DEF Store, Insert
<1>4. ASSUME NEW d \in Calls, Hand(d)
      PROVE  HandedOver'
    BY <1>4 DEF Hand, Rethrow
<1>5. ASSUME NEW d \in Calls, SendNow(d)
      PROVE  HandedOver'
    BY <1>5 DEF SendNow, Rethrow
<1>6. ASSUME NEW d \in Calls, Settle(d)
      PROVE  HandedOver'
    BY <1>6 DEF Settle
<1>7. CASE SendOut
    BY <1>7 DEF SendOut, TakeMail, SendMail, SettleMail, MailWorkerFree
<1>8. ASSUME NEW d \in Calls, PutMailBack(d)
      PROVE  HandedOver'
    BY <1>8 DEF PutMailBack
<1>9. CASE Crash
    BY <1>9 DEF Crash
<1>10. CASE UNCHANGED <<pc, mailState>>
    BY <1>10
<1> HIDE DEF IInv, HandedOver, RunTypes, MailTypes, Running
<1> QED
    BY <1>1, <1>2, <1>3, <1>4, <1>5, <1>6, <1>7, <1>8, <1>9, <1>10
       DEF Next, Deliver, Recover, ForgotPassword, Start, Issue, Invalidate, Store,
           Insert, Hand, SendNow, Rethrow, Settle, Release, SendOut, TakeMail, SendMail,
           SettleMail, PutBack, PutMailBack, Reset, RedeemReset, MarkUsed, RedeemLate,
           UpdatePassword, AwaitIdle, TimePasses, Expire, Crash, vars

\* Issue voids every good code, and no other run stores one before this run does.
LEMMA HashingKept == IInv /\ [Next]_vars => NoneWhileHashing'
<1> SUFFICES ASSUME IInv, [Next]_vars PROVE NoneWhileHashing'
    OBVIOUS
<1> USE NoneIsNoValue, NoneIsNoJob
    DEF IInv, Goto, Advance, Tick, jobs, table, runs,
        NoneWhileHashing, OneRun, RowsOfSteps,
        RunTypes, TableTypeOK, Running, Active,
        Expired
<1>1. ASSUME NEW d \in Calls, Start(d)
      PROVE  NoneWhileHashing'
    BY <1>1 DEF Start, WorkerFree
<1>2. ASSUME NEW d \in Calls, NEW x \in Codes, Issue(d, x)
      PROVE  NoneWhileHashing'
    <2>1. \A o \in Calls : ~Active(o)'
        <3> SUFFICES ASSUME NEW o \in Calls PROVE ~Active(o)'
            OBVIOUS
        <3>1. CASE o = d
            \* Its row is not inserted yet.
            <4>1. createdAt'[d] = 0
                BY <1>2 DEF Issue, Invalidate
            <4> QED
                BY <3>1, <4>1
        <3>2. CASE o # d
            \* It is voided if it was good.
            <4>1. usedAt'[o] = (usedAt[o] \/ Active(o))
                BY <1>2 DEF Issue, Invalidate, VoidActive
            <4>2. expiresAt'[o] = expiresAt[o] /\ UNCHANGED <<createdAt, horizon>>
                BY <1>2, <3>2 DEF Issue, Invalidate
            <4> QED
                BY <4>1, <4>2
        <3> QED
            BY <3>1, <3>2
    <2> QED
        BY <2>1
<1>3. ASSUME NEW d \in Calls, Store(d)
      PROVE  NoneWhileHashing'
    BY <1>3 DEF Store, Insert
<1>4. ASSUME NEW d \in Calls, Hand(d)
      PROVE  NoneWhileHashing'
    BY <1>4 DEF Hand, Rethrow
<1>5. ASSUME NEW d \in Calls, SendNow(d)
      PROVE  NoneWhileHashing'
    BY <1>5 DEF SendNow, Rethrow
<1>6. ASSUME NEW d \in Calls, Settle(d)
      PROVE  NoneWhileHashing'
    BY <1>6 DEF Settle
<1>7. ASSUME NEW r \in Resets, RedeemReset(r)
      PROVE  NoneWhileHashing'
    BY <1>7 DEF RedeemReset, MarkUsed, Unused
<1>8. CASE TimePasses
    BY <1>8 DEF TimePasses, Expire
<1>9. CASE Crash
    BY <1>9 DEF Crash
<1>10. CASE UNCHANGED <<redis, pc, table>>
    BY <1>10
<1> HIDE DEF IInv, NoneWhileHashing, OneRun, RowsOfSteps, RunTypes, TableTypeOK,
             Running, Active, Expired
<1> QED
    BY <1>1, <1>2, <1>3, <1>4, <1>5, <1>6, <1>7, <1>8, <1>9, <1>10
       DEF Next, Deliver, Recover, ForgotPassword, Start, Issue, Invalidate, Store,
           Insert, Hand, SendNow, Rethrow, Settle, Release, SendOut, TakeMail, SendMail,
           SettleMail, PutBack, PutMailBack, Reset, RedeemReset, MarkUsed, RedeemLate,
           UpdatePassword, AwaitIdle, TimePasses, Expire, Crash, vars

\* The row that is stored is newer than all others, which are not good any more.
LEMMA NewestKept == IInv /\ [Next]_vars => ActiveIsNewest'
<1> SUFFICES ASSUME IInv, [Next]_vars PROVE ActiveIsNewest'
    OBVIOUS
<1> USE NoneIsNoValue, NoneIsNoJob
    DEF IInv, Goto, Advance, Tick, jobs, table,
        ActiveIsNewest, NoneWhileHashing,
        MomentsPassed, RowsOfSteps, TableTypeOK,
        Active, Expired
<1>1. ASSUME NEW d \in Calls, NEW x \in Codes, Issue(d, x)
      PROVE  ActiveIsNewest'
    BY <1>1 DEF Issue, Invalidate, VoidActive
<1>2. ASSUME NEW d \in Calls, Store(d)
      PROVE  ActiveIsNewest'
    BY <1>2 DEF Store, Insert
<1>3. ASSUME NEW r \in Resets, RedeemReset(r)
      PROVE  ActiveIsNewest'
    BY <1>3 DEF RedeemReset, MarkUsed, Unused
<1>4. CASE TimePasses
    BY <1>4 DEF TimePasses, Expire
<1>5. CASE UNCHANGED <<redis, table>>
    BY <1>5
<1> HIDE DEF IInv, ActiveIsNewest, NoneWhileHashing, MomentsPassed, RowsOfSteps,
             TableTypeOK, Active, Expired
<1> QED
    BY <1>1, <1>2, <1>3, <1>4, <1>5
       DEF Next, Deliver, Recover, ForgotPassword, Start, Issue, Invalidate, Store,
           Insert, Hand, SendNow, Rethrow, Settle, Release, SendOut, TakeMail, SendMail,
           SettleMail, PutBack, PutMailBack, Reset, RedeemReset, MarkUsed, RedeemLate,
           UpdatePassword, AwaitIdle, TimePasses, Expire, Crash, vars

\* A row stays what it was when a reset compared with it.
LEMMA TargetsKept == IInv /\ [Next]_vars => TargetsAreRows'
<1> SUFFICES ASSUME IInv, [Next]_vars PROVE TargetsAreRows'
    OBVIOUS
<1> USE NoneIsNoValue, NoneIsNoJob
    DEF IInv, Goto, Advance, Tick, table, resets,
        TargetsAreRows, RowsOfSteps, ResetTypes,
        TableTypeOK, Resetting, Active
<1>1. ASSUME NEW d \in Calls, NEW x \in Codes, Issue(d, x)
      PROVE  TargetsAreRows'
    BY <1>1 DEF Issue, Invalidate, VoidActive
<1>2. ASSUME NEW d \in Calls, Store(d)
      PROVE  TargetsAreRows'
    BY <1>2 DEF Store, Insert
<1>3. ASSUME NEW r \in Resets, NEW x \in Codes, Reset(r, x)
      PROVE  TargetsAreRows'
    BY <1>3 DEF Reset, Latest
<1>4. ASSUME NEW r \in Resets, RedeemReset(r)
      PROVE  TargetsAreRows'
    BY <1>4 DEF RedeemReset, MarkUsed, Unused
<1>5. ASSUME NEW r \in Resets, RedeemLate(r)
      PROVE  TargetsAreRows'
    BY <1>5 DEF RedeemLate
<1>6. ASSUME NEW r \in Resets, UpdatePassword(r)
      PROVE  TargetsAreRows'
    BY <1>6 DEF UpdatePassword
<1>7. CASE Crash
    BY <1>7 DEF Crash
<1>8. CASE UNCHANGED <<target, rpc, createdAt, usedAt>>
    BY <1>8
<1> HIDE DEF IInv, TargetsAreRows, RowsOfSteps, ResetTypes, TableTypeOK, Resetting,
             Active
<1> QED
    BY <1>1, <1>2, <1>3, <1>4, <1>5, <1>6, <1>7, <1>8
       DEF Next, Deliver, Recover, ForgotPassword, Start, Issue, Invalidate, Store,
           Insert, Hand, SendNow, Rethrow, Settle, Release, SendOut, TakeMail, SendMail,
           SettleMail, PutBack, PutMailBack, Reset, RedeemReset, MarkUsed, RedeemLate,
           UpdatePassword, AwaitIdle, TimePasses, Expire, Crash, vars

\* An answered reset stays answered, also through a crash.
LEMMA BeforeKept == IInv /\ [Next]_vars => BeforeIsDone'
<1> SUFFICES ASSUME IInv, [Next]_vars PROVE BeforeIsDone'
    OBVIOUS
<1> USE NoneIsNoValue, NoneIsNoJob
    DEF IInv, Goto, Advance, resets, BeforeIsDone,
        ResetTypes, Resetting
<1>1. ASSUME NEW r \in Resets, NEW x \in Codes, Reset(r, x)
      PROVE  BeforeIsDone'
    BY <1>1 DEF Reset, Latest
<1>2. ASSUME NEW r \in Resets, RedeemReset(r)
      PROVE  BeforeIsDone'
    BY <1>2 DEF RedeemReset, MarkUsed, Unused
<1>3. ASSUME NEW r \in Resets, RedeemLate(r)
      PROVE  BeforeIsDone'
    BY <1>3 DEF RedeemLate
<1>4. ASSUME NEW r \in Resets, UpdatePassword(r)
      PROVE  BeforeIsDone'
    BY <1>4 DEF UpdatePassword
<1>5. CASE Crash
    BY <1>5 DEF Crash
<1>6. CASE UNCHANGED <<before, rpc>>
    BY <1>6
<1> HIDE DEF IInv, BeforeIsDone, ResetTypes, Resetting
<1> QED
    BY <1>1, <1>2, <1>3, <1>4, <1>5, <1>6
       DEF Next, Deliver, Recover, ForgotPassword, Start, Issue, Invalidate, Store,
           Insert, Hand, SendNow, Rethrow, Settle, Release, SendOut, TakeMail, SendMail,
           SettleMail, PutBack, PutMailBack, Reset, RedeemReset, MarkUsed, RedeemLate,
           UpdatePassword, AwaitIdle, TimePasses, Expire, Crash, vars

\* The counter follows the deliveries that are not over.
LEMMA PendingKept == IInv /\ [Next]_vars => PendingIsExact'
<1> SUFFICES ASSUME IInv, [Next]_vars PROVE PendingIsExact'
    OBVIOUS
<1> USE NoneIsNoValue, NoneIsNoJob
    DEF IInv, Goto, jobs, idle, PendingIsExact,
        QueueIsWaiting, JobTypes, IdleTypes,
        JobStates
<1>1. ASSUME NEW j \in Jobs, ForgotPassword(j)
      PROVE  PendingIsExact'
    <2>1. IsFiniteSet(Pending) /\ j \notin Pending
        BY <1>1, JobsAreFinite, FS_Subset DEF ForgotPassword, Pending
    <2>2. CASE jobState' = [jobState EXCEPT ![j] = "waiting"]
        <3>1. Pending' = Pending \union {j}
            BY <2>2 DEF Pending
        <3>2. Cardinality(Pending') = Cardinality(Pending) + 1
            BY <2>1, <3>1, FS_AddElement
        <3> QED
            BY <1>1, <2>2, <3>2 DEF ForgotPassword, Pending
    <2>3. CASE jobState' = [jobState EXCEPT ![j] = "lost"]
        BY <1>1, <2>3 DEF ForgotPassword
    <2> QED
        BY <1>1, <2>2, <2>3 DEF ForgotPassword
<1>2. ASSUME NEW d \in Calls, Start(d)
      PROVE  PendingIsExact'
    <2>1. Head(queue) \in Jobs /\ jobState[Head(queue)] = "waiting"
        BY <1>2 DEF Start
    <2>2. Pending' = Pending
        BY <1>2, <2>1 DEF Start, Pending
    <2> QED
        BY <1>2, <2>2 DEF Start, Pending
<1>3. ASSUME NEW d \in Calls, Settle(d)
      PROVE  PendingIsExact'
    <2> SUFFICES ASSUME ~redis PROVE PendingIsExact'
        BY <1>3 DEF Settle
    <2>1. Pending' = Pending \ {job[d]}
        BY <1>3, SettlesACounted DEF Settle, Pending
    <2>2. inlinePending' = inlinePending - 1 /\ inlinePending' \in Nat
        BY <1>3, SettlesACounted DEF Settle, Release, Always
    <2>3. inlinePending' = Cardinality(Pending')
        BY <1>3, <2>1, <2>2, SettlesACounted
    <2> QED
        BY <1>3, <2>2, <2>3 DEF Settle, Release, Pending
<1>4. ASSUME NEW j \in Jobs, PutBack(j)
      PROVE  PendingIsExact'
    BY <1>4 DEF PutBack, Stalled
<1>5. CASE AwaitIdle
    BY <1>5 DEF AwaitIdle
<1>6. CASE Crash
    <2> SUFFICES ASSUME ~redis PROVE PendingIsExact'
        BY <1>6 DEF Crash
    <2>1. Pending' = {}
        BY <1>6 DEF Crash, Pending
    <2> QED
        BY <1>6, <2>1, FS_EmptySet DEF Crash, Pending
<1>7. CASE UNCHANGED <<redis, jobState, idle>>
    BY <1>7
<1> HIDE DEF IInv, PendingIsExact, QueueIsWaiting, JobTypes, IdleTypes, JobStates
<1> QED
    BY <1>1, <1>2, <1>3, <1>4, <1>5, <1>6, <1>7
       DEF Next, Deliver, Recover, ForgotPassword, Start, Issue, Invalidate, Store,
           Insert, Hand, SendNow, Rethrow, Settle, Release, SendOut, TakeMail, SendMail,
           SettleMail, PutBack, PutMailBack, Reset, RedeemReset, MarkUsed, RedeemLate,
           UpdatePassword, AwaitIdle, TimePasses, Expire, Crash, vars

\* The run that completes a job is there with its row and its mail.
LEMMA CompletedKept == IInv /\ [Next]_vars => CompletedIsHandedOver'
<1> SUFFICES ASSUME IInv, [Next]_vars PROVE CompletedIsHandedOver'
    OBVIOUS
<1> USE NoneIsNoValue, NoneIsNoJob
    DEF IInv, Goto, Tick, table, jobs, runs, mails,
        CompletedIsHandedOver, HandedOver,
        RowsOfSteps, RunsAreActive, QueueIsWaiting,
        JobTypes, RunTypes, MailTypes, TableTypeOK,
        Running
<1>1. ASSUME NEW j \in Jobs, ForgotPassword(j)
      PROVE  CompletedIsHandedOver'
    <2>1. \A k \in Jobs : jobState'[k] = "completed" => jobState[k] = "completed"
        BY <1>1 DEF ForgotPassword
    <2>2. UNCHANGED <<job, createdAt, mailState>>
        BY <1>1 DEF ForgotPassword
    <2> QED
        BY <2>1, <2>2
<1>2. ASSUME NEW d \in Calls, Start(d)
      PROVE  CompletedIsHandedOver'
    BY <1>2 DEF Start, WorkerFree
<1>3. ASSUME NEW d \in Calls, Store(d)
      PROVE  CompletedIsHandedOver'
    BY <1>3 DEF Store, Insert
<1>4. ASSUME NEW d \in Calls, Hand(d)
      PROVE  CompletedIsHandedOver'
    BY <1>4 DEF Hand, Rethrow
<1>5. ASSUME NEW d \in Calls, SendNow(d)
      PROVE  CompletedIsHandedOver'
    BY <1>5 DEF SendNow, Rethrow
<1>6. ASSUME NEW d \in Calls, Settle(d)
      PROVE  CompletedIsHandedOver'
    BY <1>6 DEF Settle
<1>7. CASE SendOut
    BY <1>7 DEF SendOut, TakeMail, SendMail, SettleMail, MailWorkerFree
<1>8. ASSUME NEW j \in Jobs, PutBack(j)
      PROVE  CompletedIsHandedOver'
    <2>1. \A k \in Jobs : jobState'[k] = "completed" => jobState[k] = "completed"
        BY <1>8 DEF PutBack, Stalled
    <2>2. UNCHANGED <<job, createdAt, mailState>>
        BY <1>8 DEF PutBack
    <2> QED
        BY <2>1, <2>2
<1>9. ASSUME NEW d \in Calls, PutMailBack(d)
      PROVE  CompletedIsHandedOver'
    BY <1>9 DEF PutMailBack
<1>10. CASE Crash
    BY <1>10 DEF Crash
<1>11. CASE UNCHANGED <<jobState, job, createdAt, mailState>>
    BY <1>11
<1> HIDE DEF IInv, CompletedIsHandedOver, HandedOver, RowsOfSteps, RunsAreActive,
             QueueIsWaiting, JobTypes, RunTypes, MailTypes, TableTypeOK, Running
<1> QED
    BY <1>1, <1>2, <1>3, <1>4, <1>5, <1>6, <1>7, <1>8, <1>9, <1>10, <1>11
       DEF Next, Deliver, Recover, ForgotPassword, Start, Issue, Invalidate, Store,
           Insert, Hand, SendNow, Rethrow, Settle, Release, SendOut, TakeMail, SendMail,
           SettleMail, PutBack, PutMailBack, Reset, RedeemReset, MarkUsed, RedeemLate,
           UpdatePassword, AwaitIdle, TimePasses, Expire, Crash, vars

\* A reset finds the newest row, and the answered ones used theirs up.
LEMMA LaterKept == IInv /\ [Next]_vars => LaterResetNewerCode'
<1> SUFFICES ASSUME IInv, [Next]_vars PROVE LaterResetNewerCode'
    OBVIOUS
<1> USE NoneIsNoValue, NoneIsNoJob
    DEF IInv, Goto, Advance, Tick, table, jobs,
        resets, LaterResetNewerCode, ActiveIsNewest,
        TargetsAreRows, BeforeIsDone, RowsOfSteps,
        ResetTypes, TableTypeOK, Active
<1>1. ASSUME NEW d \in Calls, Store(d)
      PROVE  LaterResetNewerCode'
    BY <1>1 DEF Store, Insert
<1>2. ASSUME NEW r \in Resets, NEW x \in Codes, Reset(r, x)
      PROVE  LaterResetNewerCode'
    BY <1>2 DEF Reset, Latest
<1>3. CASE UNCHANGED <<redis, target, before, createdAt>>
    BY <1>3
<1> HIDE DEF IInv, LaterResetNewerCode, ActiveIsNewest, TargetsAreRows, BeforeIsDone,
             RowsOfSteps, ResetTypes, TableTypeOK, Active
<1> QED
    BY <1>1, <1>2, <1>3
       DEF Next, Deliver, Recover, ForgotPassword, Start, Issue, Invalidate, Store,
           Insert, Hand, SendNow, Rethrow, Settle, Release, SendOut, TakeMail, SendMail,
           SettleMail, PutBack, PutMailBack, Reset, RedeemReset, MarkUsed, RedeemLate,
           UpdatePassword, AwaitIdle, TimePasses, Expire, Crash, vars

LEMMA Inductive == Spec => []IInv
<1>1. IInv /\ [Next]_vars => IInv'
    BY TableKept, JobsKept, RunTypesKept, MailsKept, ResetTypesKept, IdleKept,
       MomentsKept, QueueKept, RunsKept, OneRunKept, RowsKept, HandedKept,
       HashingKept, NewestKept, TargetsKept, BeforeKept, PendingKept, CompletedKept,
       LaterKept DEF IInv
<1> QED
    BY InitOK, <1>1, PTL DEF Spec

-----------------------------------------------------------------------------
\* The tables, the queues and the requests keep their types.
THEOREM TypeCorrect == Spec => []TypeOK
<1>1. IInv => TypeOK
    BY TypesInParts DEF IInv
<1> QED
    BY <1>1, Inductive, PTL

\* With Redis two codes are never good at once, whatever crashes and retries happen.
THEOREM CodesAreSerial == Spec => []OneActiveCode
<1>1. IInv => OneActiveCode
    <2> SUFFICES ASSUME IInv, redis, NEW o \in Calls, NEW p \in Calls,
                        Active(o), Active(p), o # p
                 PROVE  FALSE
        BY DEF OneActiveCode
    <2>1. createdAt[p] < createdAt[o] /\ createdAt[o] < createdAt[p]
        BY DEF IInv, ActiveIsNewest
    <2> QED
        BY <2>1 DEF IInv, TableTypeOK
<1> QED
    BY <1>1, Inductive, PTL

\* With Redis a reset that comes after another one redeems a newer code.
THEOREM LaterResetsAreNewer == Spec => []LaterResetNewerCode
<1>1. IInv => LaterResetNewerCode
    BY DEF IInv
<1> QED
    BY <1>1, Inductive, PTL

\* A completed job has handed its mail over.
THEOREM CompletedJobsDelivered == Spec => []CompletedIsHandedOver
<1>1. IInv => CompletedIsHandedOver
    BY DEF IInv
<1> QED
    BY <1>1, Inductive, PTL

\* Without Redis the counter is exact, and awaitIdleForTests waits for something.
THEOREM CounterIsExact == Spec => []PendingIsExact
<1>1. IInv => PendingIsExact
    BY DEF IInv
<1> QED
    BY <1>1, Inductive, PTL

-----------------------------------------------------------------------------
(***************************************************************************)
(* What recovery amounts to, and the invariant that it rests on.           *)
(***************************************************************************)
\* A mail that is still to be sent.
Due(d) == mailState[d] = "waiting" \/ (mailWorker = d /\ ~accepted)

\* The safety half of WorkSettles: work that is not over is where something takes it
\* from.  A waiting job or mail is in its queue, a callback that began has a run, and
\* what a worker holds is active, which is what recovery looks for when the worker dies.
NothingIsStranded ==
    /\ \A j \in Jobs :
          /\ jobState[j] = "waiting" => \E n \in 1..Len(queue) : queue[n] = j
          /\ jobState[j] = "active" =>
                Stalled(j) \/ \E d \in Calls : job[d] = j /\ pc[d] \in Running
    /\ \A d \in Calls :
          /\ mailState[d] = "waiting" => \E n \in 1..Len(mailQueue) : mailQueue[n] = d
          /\ mailWorker = d => mailState[d] = "active"

\* Whatever crashes happen, a job runs again only with Redis and only because a crash
\* cut its first run, which makes two runs; and the provider is
\* called twice at most for one mail, the second time only because its job was put back.
RepeatedOnce ==
    /\ \A d, e \in Calls : d # e /\ job[d] = job[e] /\ job[d] # None =>
          redis /\ job[d] \in stalled /\ (pc[d] = "cut" \/ pc[e] = "cut")
    /\ \A d, e, f \in Calls : job[d] = job[e] /\ job[e] = job[f] /\ job[d] # None =>
          d = e \/ d = f \/ e = f
    /\ \A d \in Calls : sends[d] <= 2 /\ (d \notin mailStalled => sends[d] <= 1)

WaitingIsQueued ==
    \A j \in Jobs : jobState[j] = "waiting" => \E n \in 1..Len(queue) : queue[n] = j

CallbacksRun ==
    ~redis => /\ stalled = {}
              /\ \A j \in Jobs : jobState[j] = "active" =>
                    \E d \in Calls : job[d] = j /\ pc[d] \in Running

MailIsQueued ==
    /\ \A d \in Calls : mailState[d] = "waiting" =>
          \E n \in 1..Len(mailQueue) : mailQueue[n] = d
    /\ \A m, n \in 1..Len(mailQueue) :
          mailState[mailQueue[n]] = "waiting" /\ (mailQueue[m] = mailQueue[n] => m = n)

WorkerHolds ==
    /\ mailWorker # None => mailState[mailWorker] = "active"
    /\ accepted => mailWorker # None

\* A job that waits has no run but one that was cut; an active one has none that ended.
RunsOfJobs ==
    /\ \A d \in Calls :
          /\ pc[d] = "new" => job[d] = None
          /\ job[d] # None =>
                /\ jobState[job[d]] # "new"
                /\ jobState[job[d]] = "waiting" => job[d] \in stalled /\ pc[d] = "cut"
                /\ jobState[job[d]] = "active" => pc[d] # "ended"
    /\ \A d, e \in Calls : d # e /\ job[d] = job[e] /\ job[d] # None =>
          /\ job[d] \in stalled /\ (pc[d] = "cut" \/ pc[e] = "cut")
          /\ jobState[job[d]] # "waiting"
    /\ \A d, e, f \in Calls : job[d] = job[e] /\ job[e] = job[f] /\ job[d] # None =>
          d = e \/ d = f \/ e = f

\* A run has no mail before it hands it over, and the provider was not called for it.
MailOfSteps ==
    \A d \in Calls : pc[d] \in {"new", "issuing", "hashing", "mailing"} =>
        mailState[d] = "none" /\ sends[d] = 0

MailsArrive ==
    \A d \in Calls :
        /\ sends[d] <= 2
        /\ d \notin mailStalled => sends[d] <= 1
        /\ mailState[d] = "none" => d \notin mailStalled
        /\ Due(d) => sends[d] <= 1
        /\ Due(d) /\ d \notin mailStalled => sends[d] = 0

JInv ==
    /\ WaitingIsQueued /\ CallbacksRun /\ RunsOfJobs
    /\ MailIsQueued /\ WorkerHolds /\ MailOfSteps /\ MailsArrive

\* What is put in front of a queue that it is not in is still in it once.
LEMMA FrontDistinct ==
    ASSUME NEW S, NEW s \in Seq(S), NEW e \in S
    PROVE  /\ \A n \in 1..Len(<<e>> \o s) :
                 (<<e>> \o s)[n] = e \/ \E m \in 1..Len(s) : (<<e>> \o s)[n] = s[m]
           /\ (\A n \in 1..Len(s) : s[n] # e)
                 /\ (\A m, n \in 1..Len(s) : s[m] = s[n] => m = n)
              => \A m, n \in 1..Len(<<e>> \o s) : (<<e>> \o s)[m] = (<<e>> \o s)[n] => m = n
<1> DEFINE t == <<e>> \o s
<1>1. Len(t) = Len(s) + 1 /\ Len(s) \in Nat
      /\ \A i \in 1..Len(s) + 1 : t[i] = IF i = 1 THEN e ELSE s[i - 1]
    BY InFront, LenProperties
<1> HIDE DEF t
<1>2. \A n \in 1..Len(t) : n # 1 => n - 1 \in 1..Len(s) /\ t[n] = s[n - 1]
    BY <1>1
<1>3. \A n \in 1..Len(t) : n = 1 => t[n] = e
    BY <1>1
<1>4. \A n \in 1..Len(t) : t[n] = e \/ \E m \in 1..Len(s) : t[n] = s[m]
    BY <1>2, <1>3
<1>5. ASSUME \A n \in 1..Len(s) : s[n] # e,
             \A m, n \in 1..Len(s) : s[m] = s[n] => m = n,
             NEW m \in 1..Len(t), NEW n \in 1..Len(t), t[m] = t[n]
      PROVE  m = n
    <2>1. m = 1 <=> n = 1
        BY <1>2, <1>3, <1>5
    <2>2. CASE m # 1 /\ n # 1
        <3>1. s[m - 1] = s[n - 1] /\ m - 1 \in 1..Len(s) /\ n - 1 \in 1..Len(s)
            BY <1>2, <1>5, <2>2
        <3>2. m - 1 = n - 1
            BY <1>5, <3>1
        <3> QED
            BY <3>2
    <2> QED
        BY <2>1, <2>2
<1> QED
    BY <1>4, <1>5 DEF t

\* A job that waits is appended or put in front, and leaves its queue only to become active.
LEMMA WaitingKept == IInv /\ JInv /\ [Next]_vars => WaitingIsQueued'
<1> SUFFICES ASSUME IInv, JInv, [Next]_vars PROVE WaitingIsQueued'
    OBVIOUS
<1> USE NoneIsNoValue, NoneIsNoJob
    DEF IInv, JInv, Goto, jobs, WaitingIsQueued, JobTypes, QueueIsWaiting, RunsAreActive,
        JobStates, Running
<1>1. ASSUME NEW j \in Jobs, ForgotPassword(j)
      PROVE  WaitingIsQueued'
    <2>1. CASE jobState' = [jobState EXCEPT ![j] = "waiting"]
        <3>1. queue' = Append(queue, j)
            BY <1>1, <2>1 DEF ForgotPassword
        <3>2. Len(queue') = Len(queue) + 1 /\ Len(queue) \in Nat
              /\ queue'[Len(queue) + 1] = j
              /\ \A n \in 1..Len(queue) : queue'[n] = queue[n]
            BY <3>1, AppendProperties, LenProperties
        <3> SUFFICES ASSUME NEW k \in Jobs, jobState'[k] = "waiting"
                     PROVE  \E n \in 1..Len(queue') : queue'[n] = k
            OBVIOUS
        <3>3. CASE k = j
            BY <3>2, <3>3
        <3>4. CASE k # j
            <4>1. PICK n \in 1..Len(queue) : queue[n] = k
                BY <2>1, <3>4
            <4> QED
                BY <3>2, <4>1
        <3> QED
            BY <3>3, <3>4
    <2>2. CASE jobState' = [jobState EXCEPT ![j] = "lost"] /\ UNCHANGED queue
        BY <2>2
    <2> QED
        BY <1>1, <2>1, <2>2 DEF ForgotPassword
<1>2. ASSUME NEW d \in Calls, Start(d)
      PROVE  WaitingIsQueued'
    <2>1. queue # <<>> /\ queue' = Tail(queue)
          /\ jobState' = [jobState EXCEPT ![Head(queue)] = "active"]
        BY <1>2 DEF Start
    <2>2. Len(queue') = Len(queue) - 1 /\ Len(queue) \in Nat /\ Head(queue) = queue[1]
          /\ \A n \in 1..Len(queue) - 1 : queue'[n] = queue[n + 1]
        BY <2>1, HeadTailProperties, LenProperties
    <2> SUFFICES ASSUME NEW k \in Jobs, jobState'[k] = "waiting"
                 PROVE  \E n \in 1..Len(queue') : queue'[n] = k
        OBVIOUS
    <2>3. k # Head(queue) /\ jobState[k] = "waiting"
        BY <2>1, HeadTailProperties
    <2>4. PICK n \in 1..Len(queue) : queue[n] = k
        BY <2>3
    <2>5. n - 1 \in 1..Len(queue') /\ queue'[n - 1] = queue[n]
        BY <2>2, <2>3, <2>4
    <2> QED
        BY <2>4, <2>5
<1>3. ASSUME NEW d \in Calls, Settle(d)
      PROVE  WaitingIsQueued'
    BY <1>3 DEF Settle
<1>4. ASSUME NEW j \in Jobs, PutBack(j)
      PROVE  WaitingIsQueued'
    <2>1. CASE j \in stalled
        BY <1>4, <2>1 DEF PutBack, Stalled
    <2>2. CASE j \notin stalled
        <3>1. queue' = <<j>> \o queue /\ jobState' = [jobState EXCEPT ![j] = "waiting"]
            BY <1>4, <2>2 DEF PutBack
        <3>2. Len(queue') = Len(queue) + 1 /\ Len(queue) \in Nat
              /\ \A i \in 1..Len(queue) + 1 : queue'[i] = IF i = 1 THEN j ELSE queue[i - 1]
            BY <3>1, InFront, LenProperties
        <3> SUFFICES ASSUME NEW k \in Jobs, jobState'[k] = "waiting"
                     PROVE  \E n \in 1..Len(queue') : queue'[n] = k
            OBVIOUS
        <3>3. CASE k = j
            BY <3>2, <3>3
        <3>4. CASE k # j
            <4>1. PICK n \in 1..Len(queue) : queue[n] = k
                BY <3>1, <3>4
            <4>2. n + 1 \in 1..Len(queue') /\ queue'[n + 1] = queue[n]
                BY <3>2, <4>1
            <4> QED
                BY <4>1, <4>2
        <3> QED
            BY <3>3, <3>4
    <2> QED
        BY <2>1, <2>2
<1>5. CASE Crash
    <2>1. CASE redis
        BY <1>5, <2>1 DEF Crash
    <2>2. CASE ~redis
        <3>1. \A k \in Jobs : jobState'[k] # "waiting"
            BY <1>5, <2>2 DEF Crash
        <3> QED
            BY <3>1
    <2> QED
        BY <2>1, <2>2
<1>6. CASE UNCHANGED <<queue, jobState>>
    BY <1>6
<1> HIDE DEF IInv, JInv, WaitingIsQueued, JobTypes, QueueIsWaiting, RunsAreActive,
             JobStates, Running
<1> QED
    BY <1>1, <1>2, <1>3, <1>4, <1>5, <1>6
       DEF Next, Deliver, Recover, ForgotPassword, Start, Issue, Invalidate, Store,
           Insert, Hand, SendNow, Rethrow, Settle, Release, SendOut, TakeMail, SendMail,
           SettleMail, PutBack, PutMailBack, Reset, RedeemReset, MarkUsed, RedeemLate,
           UpdatePassword, AwaitIdle, TimePasses, Expire, Crash, vars

\* Without Redis a job is active from the start of its run to the end of it.
LEMMA CallbacksKept == IInv /\ JInv /\ [Next]_vars => CallbacksRun'
<1> SUFFICES ASSUME IInv, JInv, [Next]_vars PROVE CallbacksRun'
    OBVIOUS
<1> USE NoneIsNoValue, NoneIsNoJob
    DEF IInv, JInv, Goto, jobs, runs, CallbacksRun, JobTypes, RunTypes, QueueIsWaiting,
        RunsAreActive, JobStates, Running
<1>1. ASSUME NEW j \in Jobs, ForgotPassword(j)
      PROVE  CallbacksRun'
    BY <1>1 DEF ForgotPassword
<1>2. ASSUME NEW d \in Calls, Start(d)
      PROVE  CallbacksRun'
    <2> SUFFICES ASSUME ~redis PROVE CallbacksRun'
        BY <1>2 DEF Start
    <2>1. Head(queue) \in Jobs /\ pc' = [pc EXCEPT ![d] = "issuing"] /\ pc[d] = "new"
          /\ job' = [job EXCEPT ![d] = Head(queue)] /\ UNCHANGED <<redis, stalled>>
          /\ jobState' = [jobState EXCEPT ![Head(queue)] = "active"]
        BY <1>2, HeadTailProperties DEF Start
    <2>2. ASSUME NEW k \in Jobs, jobState'[k] = "active"
          PROVE  \E e \in Calls : job'[e] = k /\ pc'[e] \in Running
        <3>1. CASE k = Head(queue)
            BY <2>1, <3>1
        <3>2. CASE k # Head(queue)
            <4>1. PICK e \in Calls : job[e] = k /\ pc[e] \in Running
                BY <2>1, <2>2, <3>2
            <4>2. e # d
                BY <2>1, <4>1
            <4> QED
                BY <2>1, <4>1, <4>2
        <3> QED
            BY <3>1, <3>2
    <2> QED
        BY <2>1, <2>2
<1>3. ASSUME NEW d \in Calls, NEW x \in Codes, Issue(d, x)
      PROVE  CallbacksRun'
    <2>1. \A e \in Calls : pc[e] \in Running => pc'[e] \in Running
        BY <1>3 DEF Issue, Invalidate
    <2> QED
        BY <1>3, <2>1 DEF Issue
<1>4. ASSUME NEW d \in Calls, Store(d)
      PROVE  CallbacksRun'
    <2>1. \A e \in Calls : pc[e] \in Running => pc'[e] \in Running
        BY <1>4 DEF Store
    <2> QED
        BY <1>4, <2>1 DEF Store
<1>5. ASSUME NEW d \in Calls, Hand(d)
      PROVE  CallbacksRun'
    <2>1. \A e \in Calls : pc[e] \in Running => pc'[e] \in Running
        BY <1>5 DEF Hand, Rethrow
    <2> QED
        BY <1>5, <2>1 DEF Hand
<1>6. ASSUME NEW d \in Calls, SendNow(d)
      PROVE  CallbacksRun'
    <2>1. \A e \in Calls : pc[e] \in Running => pc'[e] \in Running
        BY <1>6 DEF SendNow, Rethrow
    <2> QED
        BY <1>6, <2>1 DEF SendNow
<1>7. ASSUME NEW d \in Calls, Settle(d)
      PROVE  CallbacksRun'
    <2>1. job[d] \in Jobs /\ pc[d] \in Running
          /\ jobState'[job[d]] # "active" /\ UNCHANGED <<redis, stalled, job>>
        BY <1>7 DEF Settle
    <2>2. \A k \in Jobs : k # job[d] => jobState'[k] = jobState[k]
        BY <1>7 DEF Settle
    <2>3. \A e \in Calls : e # d => pc'[e] = pc[e]
        BY <1>7 DEF Settle
    <2> SUFFICES ASSUME ~redis, NEW k \in Jobs, jobState'[k] = "active"
                 PROVE  \E e \in Calls : job[e] = k /\ pc'[e] \in Running
        BY <2>1
    <2>4. PICK e \in Calls : job[e] = k /\ pc[e] \in Running
        BY <2>1, <2>2
    <2> QED
        BY <2>1, <2>3, <2>4
<1>8. ASSUME NEW j \in Jobs, PutBack(j)
      PROVE  CallbacksRun'
    BY <1>8 DEF PutBack, Stalled
<1>9. CASE Crash
    BY <1>9 DEF Crash
<1>10. CASE UNCHANGED <<redis, stalled, jobState, job, pc>>
    BY <1>10
<1> HIDE DEF IInv, JInv, CallbacksRun, JobTypes, RunTypes, QueueIsWaiting, RunsAreActive,
             JobStates, Running
<1> QED
    BY <1>1, <1>2, <1>3, <1>4, <1>5, <1>6, <1>7, <1>8, <1>9, <1>10
       DEF Next, Deliver, Recover, ForgotPassword, Start, Issue, Invalidate, Store,
           Insert, Hand, SendNow, Rethrow, Settle, Release, SendOut, TakeMail, SendMail,
           SettleMail, PutBack, PutMailBack, Reset, RedeemReset, MarkUsed, RedeemLate,
           UpdatePassword, AwaitIdle, TimePasses, Expire, Crash, vars

\* A job is started when it waits, with no run or with one that was cut.
LEMMA RunsOfJobsKept == IInv /\ JInv /\ [Next]_vars => RunsOfJobs'
<1> SUFFICES ASSUME IInv, JInv, [Next]_vars PROVE RunsOfJobs'
    OBVIOUS
<1> USE NoneIsNoValue, NoneIsNoJob
    DEF IInv, JInv, Goto, jobs, runs, RunsOfJobs, CallbacksRun, JobTypes, RunTypes,
        QueueIsWaiting, RunsAreActive, JobStates, Running
<1>1. ASSUME NEW j \in Jobs, ForgotPassword(j)
      PROVE  RunsOfJobs'
    <2>1. \A k \in Jobs : k # j => jobState'[k] = jobState[k]
        BY <1>1 DEF ForgotPassword
    <2>2. jobState[j] = "new" /\ \A e \in Calls : job[e] # j
        BY <1>1 DEF ForgotPassword
    <2>3. UNCHANGED <<pc, job, stalled>>
        BY <1>1 DEF ForgotPassword
    <2> QED
        BY <2>1, <2>2, <2>3
<1>2. ASSUME NEW d \in Calls, Start(d)
      PROVE  RunsOfJobs'
    <2> DEFINE h == Head(queue)
    <2>1. h \in Jobs /\ jobState[h] = "waiting"
        BY <1>2, HeadTailProperties DEF Start
    <2>2. pc[d] = "new" /\ job[d] = None /\ pc' = [pc EXCEPT ![d] = "issuing"]
          /\ job' = [job EXCEPT ![d] = h] /\ UNCHANGED stalled
          /\ jobState' = [jobState EXCEPT ![h] = "active"]
        BY <1>2 DEF Start
    <2> HIDE DEF h
    <2>3. \A e \in Calls : job[e] = h => h \in stalled /\ pc[e] = "cut"
        BY <2>1
    <2>4. \A e, f \in Calls : job[e] = h /\ job[f] = h => e = f
        BY <2>1, NoneIsNoJob
    <2>5. \A e \in Calls : e # d => job'[e] = job[e] /\ pc'[e] = pc[e]
        BY <2>2
    <2>6. job'[d] = h /\ pc'[d] = "issuing"
        BY <2>2
    <2>7. \A e \in Calls : pc'[e] = "new" => job'[e] = None
        BY <2>5, <2>6
    <2>8. \A e \in Calls : job'[e] # None =>
              /\ jobState'[job'[e]] # "new"
              /\ jobState'[job'[e]] = "waiting" => job'[e] \in stalled' /\ pc'[e] = "cut"
              /\ jobState'[job'[e]] = "active" => pc'[e] # "ended"
        BY <2>1, <2>2, <2>3, <2>5, <2>6
    <2>9. \A e, f \in Calls : e # f /\ job'[e] = job'[f] /\ job'[e] # None =>
              /\ job'[e] \in stalled' /\ (pc'[e] = "cut" \/ pc'[f] = "cut")
              /\ jobState'[job'[e]] # "waiting"
        BY <2>1, <2>2, <2>3, <2>5, <2>6
    <2>10. \A e, f, g \in Calls : job'[e] = job'[f] /\ job'[f] = job'[g] /\ job'[e] # None =>
               e = f \/ e = g \/ f = g
        BY <2>1, <2>4, <2>5, <2>6
    <2> QED
        BY <2>7, <2>8, <2>9, <2>10
<1>3. ASSUME NEW d \in Calls, NEW x \in Codes, Issue(d, x)
      PROVE  RunsOfJobs'
    BY <1>3 DEF Issue, Invalidate
<1>4. ASSUME NEW d \in Calls, Store(d)
      PROVE  RunsOfJobs'
    BY <1>4 DEF Store
<1>5. ASSUME NEW d \in Calls, Hand(d)
      PROVE  RunsOfJobs'
    BY <1>5 DEF Hand, Rethrow
<1>6. ASSUME NEW d \in Calls, SendNow(d)
      PROVE  RunsOfJobs'
    BY <1>6 DEF SendNow, Rethrow
<1>7. ASSUME NEW d \in Calls, Settle(d)
      PROVE  RunsOfJobs'
    <2>1. job[d] \in Jobs /\ pc[d] \in Running /\ UNCHANGED <<job, stalled>>
          /\ pc' = [pc EXCEPT ![d] = "ended"]
        BY <1>7 DEF Settle
    <2>2. jobState'[job[d]] \in {"completed", "failed"}
          /\ \A k \in Jobs : k # job[d] => jobState'[k] = jobState[k]
        BY <1>7 DEF Settle
    <2> QED
        BY <2>1, <2>2
<1>8. ASSUME NEW j \in Jobs, PutBack(j)
      PROVE  RunsOfJobs'
    <2>1. jobState[j] = "active" /\ UNCHANGED <<pc, job>>
          /\ \A e \in Calls : job[e] = j => pc[e] \notin Running
        BY <1>8 DEF PutBack, Stalled
    <2>2. \A e \in Calls : job[e] = j => pc[e] = "cut"
        BY <2>1, NoneIsNoJob
    <2>3. CASE j \in stalled
        BY <1>8, <2>1, <2>3 DEF PutBack
    <2>4. CASE j \notin stalled
        <3>1. jobState' = [jobState EXCEPT ![j] = "waiting"] /\ stalled' = stalled \union {j}
            BY <1>8, <2>4 DEF PutBack
        <3>2. \A e, f \in Calls : job[e] = j /\ job[f] = j => e = f
            BY <2>4, NoneIsNoJob
        <3> QED
            BY <2>1, <2>2, <3>1, <3>2
    <2> QED
        BY <2>3, <2>4
<1>9. CASE Crash
    <2>1. UNCHANGED <<job, stalled>>
        BY <1>9 DEF Crash
    <2>2. \A e \in Calls : pc'[e] = IF pc[e] \in Running THEN "cut" ELSE pc[e]
        BY <1>9 DEF Crash
    <2>3. \A k \in Jobs : jobState'[k] = jobState[k] \/ jobState'[k] = "lost"
        BY <1>9 DEF Crash
    <2> QED
        BY <2>1, <2>2, <2>3
<1>10. CASE UNCHANGED <<pc, job, jobState, stalled>>
    BY <1>10
<1> HIDE DEF IInv, JInv, RunsOfJobs, CallbacksRun, JobTypes, RunTypes, QueueIsWaiting,
             RunsAreActive, JobStates, Running
<1> QED
    BY <1>1, <1>2, <1>3, <1>4, <1>5, <1>6, <1>7, <1>8, <1>9, <1>10
       DEF Next, Deliver, Recover, ForgotPassword, Start, Issue, Invalidate, Store,
           Insert, Hand, SendNow, Rethrow, Settle, Release, SendOut, TakeMail, SendMail,
           SettleMail, PutBack, PutMailBack, Reset, RedeemReset, MarkUsed, RedeemLate,
           UpdatePassword, AwaitIdle, TimePasses, Expire, Crash, vars

\* A mail waits once, in its queue, and leaves it only for the worker.
LEMMA MailQueuedKept == IInv /\ JInv /\ [Next]_vars => MailIsQueued'
<1> SUFFICES ASSUME IInv, JInv, [Next]_vars PROVE MailIsQueued'
    OBVIOUS
<1> USE NoneIsNoValue, NoneIsNoJob
    DEF IInv, JInv, Goto, mails, runs, MailIsQueued, MailOfSteps, RunTypes, MailTypes,
        MailStates, Running
<1>0. ASSUME UNCHANGED <<mailQueue, mailState>>
      PROVE  MailIsQueued'
    <2> HIDE DEF IInv, MailIsQueued, MailOfSteps, RunTypes, MailTypes, MailStates, Running
    <2>1. MailIsQueued
        OBVIOUS
    <2> HIDE DEF JInv
    <2> QED
        BY <1>0, <2>1 DEF MailIsQueued
<1>1. ASSUME NEW d \in Calls, Hand(d)
      PROVE  MailIsQueued'
    <2>1. CASE UNCHANGED <<mailQueue, mailState>>
        BY <1>0, <2>1
    <2>2. CASE mailQueue' = Append(mailQueue, d) /\ mailState' = [mailState EXCEPT ![d] = "waiting"]
        <3>1. mailState[d] = "none"
            BY <1>1 DEF Hand, Rethrow
        <3>2. Len(mailQueue') = Len(mailQueue) + 1 /\ Len(mailQueue) \in Nat
              /\ mailQueue'[Len(mailQueue) + 1] = d
              /\ \A n \in 1..Len(mailQueue) :
                    mailQueue'[n] = mailQueue[n] /\ mailQueue[n] \in Calls
            <4>1. mailQueue \in Seq(Calls)
                OBVIOUS
            <4>2. \A n \in 1..Len(mailQueue) : mailQueue[n] \in Calls
                BY <4>1, ElementOfSeq
            <4> QED
                BY <2>2, <4>1, <4>2, AppendProperties, LenProperties
        <3>3. \A n \in 1..Len(mailQueue) : mailQueue[n] # d
            BY <3>1
        <3>4. ASSUME NEW e \in Calls, mailState'[e] = "waiting"
              PROVE  \E n \in 1..Len(mailQueue') : mailQueue'[n] = e
            <4>1. CASE e = d
                BY <3>2, <4>1
            <4>2. CASE e # d
                <5>1. PICK n \in 1..Len(mailQueue) : mailQueue[n] = e
                    BY <2>2, <3>4, <4>2
                <5> QED
                    BY <3>2, <5>1
            <4> QED
                BY <4>1, <4>2
        <3>5. ASSUME NEW m \in 1..Len(mailQueue'), NEW n \in 1..Len(mailQueue')
              PROVE  mailState'[mailQueue'[n]] = "waiting"
                     /\ (mailQueue'[m] = mailQueue'[n] => m = n)
            BY <2>2, <3>2, <3>3
        <3> QED
            BY <3>4, <3>5
    <2> QED
        BY <1>1, <2>1, <2>2 DEF Hand
<1>2. ASSUME NEW d \in Calls, SendNow(d)
      PROVE  MailIsQueued'
    BY <1>2 DEF SendNow
<1>3. CASE SendOut
    <2>1. CASE TakeMail
        <3>1. mailQueue # <<>> /\ mailQueue' = Tail(mailQueue)
              /\ mailState' = [mailState EXCEPT ![Head(mailQueue)] = "active"]
            BY <2>1 DEF TakeMail
        <3>2. Len(mailQueue') = Len(mailQueue) - 1 /\ Len(mailQueue) \in Nat
              /\ Len(mailQueue) # 0
              /\ Head(mailQueue) = mailQueue[1] /\ Head(mailQueue) \in Calls
              /\ \A n \in 1..Len(mailQueue) - 1 : mailQueue'[n] = mailQueue[n + 1]
            BY <3>1, HeadTailProperties, LenProperties, EmptySeq
        <3>3. ASSUME NEW e \in Calls, mailState'[e] = "waiting"
              PROVE  \E n \in 1..Len(mailQueue') : mailQueue'[n] = e
            <4>1. e # Head(mailQueue) /\ mailState[e] = "waiting"
                BY <3>1, <3>2, <3>3
            <4>2. PICK n \in 1..Len(mailQueue) : mailQueue[n] = e
                BY <4>1
            <4>3. n - 1 \in 1..Len(mailQueue') /\ mailQueue'[n - 1] = mailQueue[n]
                BY <3>2, <4>1, <4>2
            <4> QED
                BY <4>2, <4>3
        <3>4. \A n \in 1..Len(mailQueue') :
                  n + 1 \in 1..Len(mailQueue) /\ mailQueue'[n] = mailQueue[n + 1]
                  /\ mailQueue[n + 1] \in Calls
            <4>1. mailQueue \in Seq(Calls)
                OBVIOUS
            <4>2. \A n \in 1..Len(mailQueue) : mailQueue[n] \in Calls
                BY <4>1, ElementOfSeq
            <4> QED
                BY <3>2, <4>2
        <3>5. \A n \in 1..Len(mailQueue') : mailQueue'[n] # Head(mailQueue)
            BY <3>2, <3>4
        <3>6. ASSUME NEW m \in 1..Len(mailQueue'), NEW n \in 1..Len(mailQueue')
              PROVE  mailState'[mailQueue'[n]] = "waiting"
                     /\ (mailQueue'[m] = mailQueue'[n] => m = n)
            BY <3>1, <3>2, <3>4, <3>5
        <3> QED
            BY <3>3, <3>6
    <2>2. CASE SendMail \/ SettleMail
        <3>1. UNCHANGED mailQueue /\ \A e \in Calls : mailState[e] = "waiting" <=> mailState'[e] = "waiting"
            BY <2>2 DEF SendMail, SettleMail, WorkerHolds
        <3>2. \A n \in 1..Len(mailQueue) : mailQueue[n] \in Calls
            BY ElementOfSeq
        <3> QED
            BY <3>1, <3>2
    <2> QED
        BY <1>3, <2>1, <2>2 DEF SendOut
<1>4. ASSUME NEW d \in Calls, PutMailBack(d)
      PROVE  MailIsQueued'
    <2>1. mailState[d] = "active"
        BY <1>4 DEF PutMailBack
    <2>2. \A n \in 1..Len(mailQueue) : mailQueue[n] \in Calls /\ mailQueue[n] # d
        BY <2>1, ElementOfSeq
    <2>3. CASE d \in mailStalled
        <3>1. UNCHANGED mailQueue /\ mailState' = [mailState EXCEPT ![d] = "failed"]
            BY <1>4, <2>3 DEF PutMailBack
        <3> QED
            BY <2>1, <2>2, <3>1
    <2>4. CASE d \notin mailStalled
        <3>1. /\ mailQueue' = <<d>> \o mailQueue
              /\ mailState' = [mailState EXCEPT ![d] = "waiting"]
            BY <1>4, <2>4 DEF PutMailBack
        <3>2. Len(mailQueue') = Len(mailQueue) + 1 /\ Len(mailQueue) \in Nat
              /\ \A i \in 1..Len(mailQueue) + 1 :
                    mailQueue'[i] = IF i = 1 THEN d ELSE mailQueue[i - 1]
            BY <3>1, InFront, LenProperties
        <3>3. ASSUME NEW e \in Calls, mailState'[e] = "waiting"
              PROVE  \E n \in 1..Len(mailQueue') : mailQueue'[n] = e
            <4>1. CASE e = d
                BY <3>2, <4>1
            <4>2. CASE e # d
                <5>1. PICK n \in 1..Len(mailQueue) : mailQueue[n] = e
                    BY <3>1, <3>3, <4>2
                <5>2. n + 1 \in 1..Len(mailQueue') /\ mailQueue'[n + 1] = mailQueue[n]
                    BY <3>2, <5>1
                <5> QED
                    BY <5>1, <5>2
            <4> QED
                BY <4>1, <4>2
        <3>4. \A n \in 1..Len(mailQueue') :
                  mailQueue'[n] = d \/ \E m \in 1..Len(mailQueue) : mailQueue'[n] = mailQueue[m]
            BY <3>1, FrontDistinct
        <3>5. ASSUME NEW n \in 1..Len(mailQueue')
              PROVE  mailState'[mailQueue'[n]] = "waiting"
            <4>1. \A m \in 1..Len(mailQueue) : mailState[mailQueue[m]] = "waiting"
                OBVIOUS
            <4>2. mailState'[d] = "waiting" /\ \A e \in Calls : e # d => mailState'[e] = mailState[e]
                BY <3>1
            <4> HIDE DEF IInv, JInv, MailIsQueued, MailOfSteps, RunTypes, MailTypes, MailStates,
                         Running
            <4>3. CASE mailQueue'[n] = d
                BY <4>2, <4>3
            <4>4. CASE \E m \in 1..Len(mailQueue) : mailQueue'[n] = mailQueue[m]
                BY <2>2, <4>1, <4>2, <4>4
            <4> QED
                BY <3>4, <4>3, <4>4
        <3>6. \A m, n \in 1..Len(mailQueue') : mailQueue'[m] = mailQueue'[n] => m = n
            <4> HIDE DEF IInv, JInv
            <4>1. \A m, n \in 1..Len(mailQueue) : mailQueue[m] = mailQueue[n] => m = n
                BY DEF JInv
            <4> QED
                BY <2>2, <3>1, <4>1, FrontDistinct DEF IInv
        <3> QED
            BY <3>3, <3>5, <3>6
    <2> QED
        BY <2>3, <2>4
<1>5. CASE Crash
    <2>1. UNCHANGED <<mailQueue, mailState>>
        BY <1>5 DEF Crash
    <2> QED
        BY <1>0, <2>1
<1>6. CASE UNCHANGED <<mailQueue, mailState>>
    BY <1>0, <1>6
<1> HIDE DEF IInv, JInv, MailIsQueued, MailOfSteps, RunTypes, MailTypes, MailStates, Running
<1> QED
    BY <1>1, <1>2, <1>3, <1>4, <1>5, <1>6
       DEF Next, Deliver, Recover, ForgotPassword, Start, Issue, Invalidate, Store,
           Insert, Hand, SendNow, Rethrow, Settle, Release, SendOut, TakeMail, SendMail,
           SettleMail, PutBack, PutMailBack, Reset, RedeemReset, MarkUsed, RedeemLate,
           UpdatePassword, AwaitIdle, TimePasses, Expire, Crash, vars

\* The worker holds the mail that it took until it settles it or dies.
LEMMA WorkerKept == IInv /\ JInv /\ [Next]_vars => WorkerHolds'
<1> SUFFICES ASSUME IInv, JInv, [Next]_vars PROVE WorkerHolds'
    OBVIOUS
<1> USE NoneIsNoValue, NoneIsNoJob
    DEF IInv, JInv, Goto, mails, WorkerHolds, MailIsQueued, MailOfSteps, RunTypes,
        MailTypes, MailStates
<1>1. ASSUME NEW d \in Calls, Hand(d)
      PROVE  WorkerHolds'
    <2>1. mailState[d] = "none" /\ UNCHANGED <<mailWorker, accepted>>
        BY <1>1 DEF Hand, Rethrow
    <2>2. \A e \in Calls : e # d => mailState'[e] = mailState[e]
        BY <1>1 DEF Hand
    <2> QED
        BY <2>1, <2>2
<1>2. ASSUME NEW d \in Calls, SendNow(d)
      PROVE  WorkerHolds'
    <2>1. mailState[d] = "none" /\ UNCHANGED <<mailWorker, accepted>>
        BY <1>2 DEF SendNow, Rethrow
    <2>2. \A e \in Calls : e # d => mailState'[e] = mailState[e]
        BY <1>2 DEF SendNow
    <2> QED
        BY <2>1, <2>2
<1>3. CASE SendOut
    <2>1. CASE TakeMail
        BY <2>1, HeadTailProperties DEF TakeMail, MailWorkerFree
    <2>2. CASE SendMail
        BY <2>2 DEF SendMail
    <2>3. CASE SettleMail
        BY <2>3 DEF SettleMail
    <2> QED
        BY <1>3, <2>1, <2>2, <2>3 DEF SendOut
<1>4. ASSUME NEW d \in Calls, PutMailBack(d)
      PROVE  WorkerHolds'
    BY <1>4 DEF PutMailBack
<1>5. CASE Crash
    BY <1>5 DEF Crash
<1>6. CASE UNCHANGED <<mailState, mailWorker, accepted>>
    BY <1>6
<1> HIDE DEF IInv, JInv, WorkerHolds, MailIsQueued, MailOfSteps, RunTypes, MailTypes, MailStates
<1> QED
    BY <1>1, <1>2, <1>3, <1>4, <1>5, <1>6
       DEF Next, Deliver, Recover, ForgotPassword, Start, Issue, Invalidate, Store,
           Insert, Hand, SendNow, Rethrow, Settle, Release, SendOut, TakeMail, SendMail,
           SettleMail, PutBack, PutMailBack, Reset, RedeemReset, MarkUsed, RedeemLate,
           UpdatePassword, AwaitIdle, TimePasses, Expire, Crash, vars

\* A mail that is taken or put back was handed over.
LEMMA MailStepsKept == IInv /\ JInv /\ [Next]_vars => MailOfSteps'
<1> SUFFICES ASSUME IInv, JInv, [Next]_vars PROVE MailOfSteps'
    OBVIOUS
<1> USE NoneIsNoValue, NoneIsNoJob
    DEF IInv, JInv, Goto, mails, runs, MailOfSteps, WorkerHolds, MailIsQueued, RunTypes,
        MailTypes, MailStates, Running
<1>1. ASSUME NEW d \in Calls, Start(d)
      PROVE  MailOfSteps'
    BY <1>1 DEF Start
<1>2. ASSUME NEW d \in Calls, NEW x \in Codes, Issue(d, x)
      PROVE  MailOfSteps'
    BY <1>2 DEF Issue, Invalidate
<1>3. ASSUME NEW d \in Calls, Store(d)
      PROVE  MailOfSteps'
    BY <1>3 DEF Store
<1>4. ASSUME NEW d \in Calls, Hand(d)
      PROVE  MailOfSteps'
    <2>1. pc[d] = "mailing" /\ UNCHANGED sends
        BY <1>4 DEF Hand, Rethrow
    <2>2. pc'[d] \in {"completing", "failing"}
          /\ \A e \in Calls : e # d => pc'[e] = pc[e] /\ mailState'[e] = mailState[e]
        BY <1>4 DEF Hand, Rethrow
    <2> QED
        BY <2>1, <2>2
<1>5. ASSUME NEW d \in Calls, SendNow(d)
      PROVE  MailOfSteps'
    BY <1>5 DEF SendNow, Rethrow, CallProvider
<1>6. ASSUME NEW d \in Calls, Settle(d)
      PROVE  MailOfSteps'
    BY <1>6 DEF Settle
<1>7. CASE SendOut
    <2>1. UNCHANGED pc
          /\ \A e \in Calls : mailState[e] = "none" =>
                mailState'[e] = "none" /\ sends'[e] = sends[e]
        <3>1. CASE TakeMail
            <4>1. mailState[Head(mailQueue)] = "waiting" /\ Head(mailQueue) \in Calls
                BY <3>1, HeadTailProperties, LenProperties, EmptySeq DEF TakeMail
            <4> QED
                BY <3>1, <4>1 DEF TakeMail
        <3>2. CASE SendMail
            BY <3>2 DEF SendMail, CallProvider
        <3>3. CASE SettleMail
            BY <3>3 DEF SettleMail
        <3> QED
            BY <1>7, <3>1, <3>2, <3>3 DEF SendOut
    <2> QED
        BY <2>1
<1>8. ASSUME NEW d \in Calls, PutMailBack(d)
      PROVE  MailOfSteps'
    BY <1>8 DEF PutMailBack
<1>9. CASE Crash
    BY <1>9 DEF Crash
<1>10. CASE UNCHANGED <<pc, mailState, sends>>
    BY <1>10
<1> HIDE DEF IInv, JInv, MailOfSteps, WorkerHolds, MailIsQueued, RunTypes, MailTypes,
             MailStates, Running
<1> QED
    BY <1>1, <1>2, <1>3, <1>4, <1>5, <1>6, <1>7, <1>8, <1>9, <1>10
       DEF Next, Deliver, Recover, ForgotPassword, Start, Issue, Invalidate, Store,
           Insert, Hand, SendNow, Rethrow, Settle, Release, SendOut, TakeMail, SendMail,
           SettleMail, PutBack, PutMailBack, Reset, RedeemReset, MarkUsed, RedeemLate,
           UpdatePassword, AwaitIdle, TimePasses, Expire, Crash, vars

\* The provider is called once for each time that the worker takes a mail.
LEMMA ArrivalsKept == IInv /\ JInv /\ [Next]_vars => MailsArrive'
<1> SUFFICES ASSUME IInv, JInv, [Next]_vars PROVE MailsArrive'
    OBVIOUS
<1> USE NoneIsNoValue, NoneIsNoJob
    DEF IInv, JInv, Goto, mails, MailsArrive, MailOfSteps, WorkerHolds, MailIsQueued,
        RunTypes, MailTypes, MailStates, Due
<1>1. ASSUME NEW d \in Calls, Hand(d)
      PROVE  MailsArrive'
    <2>1. mailState[d] = "none" /\ sends[d] = 0 /\ UNCHANGED <<mailWorker, accepted, mailStalled, sends>>
        BY <1>1 DEF Hand, Rethrow
    <2>2. \A e \in Calls : e # d => mailState'[e] = mailState[e]
        BY <1>1 DEF Hand
    <2> QED
        BY <2>1, <2>2
<1>2. ASSUME NEW d \in Calls, SendNow(d)
      PROVE  MailsArrive'
    <2>1. mailState[d] = "none" /\ UNCHANGED <<mailWorker, accepted, mailStalled>>
        BY <1>2 DEF SendNow, Rethrow
    <2>2. sends' = [sends EXCEPT ![d] = @ + 1]
          /\ \A e \in Calls : e # d => mailState'[e] = mailState[e]
        BY <1>2 DEF SendNow, CallProvider
    <2>3. mailState'[d] \in {"none", "sent"}
        BY <1>2, <2>1 DEF SendNow
    <2>4. sends[d] = 0 /\ sends'[d] = 1 /\ mailWorker' # d
        <3>1. sends[d] = 0
            BY <1>2 DEF SendNow, Rethrow
        <3>2. sends \in [Calls -> Nat]
            OBVIOUS
        <3>3. sends'[d] = 1
            BY <2>2, <3>1, <3>2
        <3>4. mailWorker # d
            BY <2>1
        <3> QED
            BY <2>1, <3>1, <3>3, <3>4
    <2> QED
        BY <2>1, <2>2, <2>3, <2>4
<1>3. CASE TakeMail
    <2> DEFINE h == Head(mailQueue)
    <2>1. h \in Calls /\ mailState[h] = "waiting"
        BY <1>3, HeadTailProperties, LenProperties, EmptySeq DEF TakeMail
    <2>2. mailState' = [mailState EXCEPT ![h] = "active"] /\ mailWorker' = h /\ mailWorker = None
          /\ UNCHANGED <<accepted, mailStalled, sends>>
        BY <1>3 DEF TakeMail, MailWorkerFree
    <2> HIDE DEF h
    <2> QED
        BY <2>1, <2>2
<1>4. CASE SendMail
    <2>1. mailWorker \in Calls /\ mailState[mailWorker] = "active" /\ ~accepted
          /\ sends' = [sends EXCEPT ![mailWorker] = @ + 1] /\ UNCHANGED mailStalled
        BY <1>4 DEF SendMail, CallProvider
    <2>2. CASE accepted' = TRUE /\ UNCHANGED <<mailState, mailWorker>>
        BY <2>1, <2>2
    <2>3. CASE mailState' = [mailState EXCEPT ![mailWorker] = "failed"] /\ mailWorker' = None
               /\ UNCHANGED accepted
        BY <2>1, <2>3
    <2> QED
        BY <1>4, <2>2, <2>3 DEF SendMail
<1>5. CASE SettleMail
    <2>1. mailWorker \in Calls /\ mailState' = [mailState EXCEPT ![mailWorker] = "sent"]
          /\ mailState[mailWorker] = "active"
          /\ mailWorker' = None
          /\ UNCHANGED <<mailStalled, sends>>
        BY <1>5 DEF SettleMail
    <2> QED
        BY <2>1
<1>6. ASSUME NEW d \in Calls, PutMailBack(d)
      PROVE  MailsArrive'
    <2>1. mailState[d] = "active" /\ mailWorker # d /\ UNCHANGED <<mailWorker, accepted, sends>>
        BY <1>6 DEF PutMailBack
    <2>2. CASE d \in mailStalled
        BY <1>6, <2>1, <2>2 DEF PutMailBack
    <2>3. CASE d \notin mailStalled
        BY <1>6, <2>1, <2>3 DEF PutMailBack
    <2> QED
        BY <2>2, <2>3
<1>7. CASE Crash
    BY <1>7 DEF Crash
<1>8. CASE UNCHANGED <<mailState, mailWorker, accepted, mailStalled, sends>>
    BY <1>8
<1> HIDE DEF IInv, JInv, MailsArrive, MailOfSteps, WorkerHolds, MailIsQueued, RunTypes,
             MailTypes, MailStates, Due
<1> QED
    BY <1>1, <1>2, <1>3, <1>4, <1>5, <1>6, <1>7, <1>8
       DEF Next, Deliver, Recover, ForgotPassword, Start, Issue, Invalidate, Store,
           Insert, Hand, SendNow, Rethrow, Settle, Release, SendOut, TakeMail, SendMail,
           SettleMail, PutBack, PutMailBack, Reset, RedeemReset, MarkUsed, RedeemLate,
           UpdatePassword, AwaitIdle, TimePasses, Expire, Crash, vars

LEMMA InitRecovery == Init => JInv
<1> SUFFICES ASSUME Init PROVE JInv
    OBVIOUS
<1>1. \A d \in Calls : pc[d] = "new" /\ job[d] = None /\ mailState[d] = "none"
    BY DEF Init
<1>2. \A j \in Jobs : jobState[j] = "new"
    BY DEF Init
<1>3. mailQueue = <<>> /\ sends = [d \in Calls |-> 0] /\ mailWorker = None /\ ~accepted
      /\ mailStalled = {} /\ stalled = {}
    BY DEF Init
<1>4. WaitingIsQueued /\ CallbacksRun /\ RunsOfJobs
    BY <1>1, <1>2, <1>3 DEF WaitingIsQueued, CallbacksRun, RunsOfJobs
<1>5. MailIsQueued /\ WorkerHolds /\ MailOfSteps
    BY <1>1, <1>3 DEF MailIsQueued, WorkerHolds, MailOfSteps
<1>6. MailsArrive
    <2>1. \A d \in Calls : sends[d] = 0
        BY <1>3
    <2>2. \A d \in Calls : ~Due(d)
        BY <1>1, <1>3, NoneIsNoValue DEF Due
    <2>3. ASSUME NEW d \in Calls PROVE sends[d] <= 2 /\ sends[d] <= 1
        <3>1. sends[d] = 0
            BY <2>1
        <3> QED
            BY <3>1
    <2> QED
        BY <1>3, <2>2, <2>3 DEF MailsArrive
<1> QED
    BY <1>4, <1>5, <1>6 DEF JInv

LEMMA InductiveRecovery == Spec => [](IInv /\ JInv)
<1>1. IInv /\ JInv /\ [Next]_vars => JInv'
    BY WaitingKept, CallbacksKept, RunsOfJobsKept, MailQueuedKept, WorkerKept,
       MailStepsKept, ArrivalsKept DEF JInv
<1> QED
    BY InitRecovery, <1>1, Inductive, PTL DEF Spec

\* Work that is not over is where a worker, a run or the recovery finds it: nothing
\* that the liveness property waits for is out of the reach of every step.
THEOREM NoWorkStranded == Spec => []NothingIsStranded
<1>1. IInv /\ JInv => NothingIsStranded
    <2> SUFFICES ASSUME IInv, JInv PROVE NothingIsStranded
        OBVIOUS
    <2>1. ASSUME NEW j \in Jobs, jobState[j] = "active"
          PROVE  Stalled(j) \/ \E d \in Calls : job[d] = j /\ pc[d] \in Running
        BY <2>1 DEF JInv, CallbacksRun, Stalled
    <2>2. \A d \in Calls : mailWorker = d => mailState[d] = "active"
        BY NoneIsNoValue DEF JInv, WorkerHolds
    <2> QED
        BY <2>1, <2>2 DEF JInv, WaitingIsQueued, MailIsQueued, NothingIsStranded
<1> QED
    BY <1>1, InductiveRecovery, PTL

\* A crash makes a job run twice at most and its mail be sent twice at most.
THEOREM RetriesAreBounded == Spec => []RepeatedOnce
<1>1. IInv /\ JInv => RepeatedOnce
    <2> SUFFICES ASSUME IInv, JInv PROVE RepeatedOnce
        OBVIOUS
    <2>1. \A d, e \in Calls : d # e /\ job[d] = job[e] /\ job[d] # None =>
              redis /\ job[d] \in stalled /\ (pc[d] = "cut" \/ pc[e] = "cut")
        BY DEF JInv, RunsOfJobs, CallbacksRun
    <2> QED
        BY <2>1 DEF JInv, RunsOfJobs, MailsArrive, RepeatedOnce
<1> QED
    BY <1>1, InductiveRecovery, PTL

-----------------------------------------------------------------------------
(***************************************************************************)
(* What a reset is paid with, and what is final.                           *)
(***************************************************************************)
Redeemed(r) == rpc[r] \in {"redeemed", "done"}

\* The password is written only by a reset that used up a code which a run had stored,
\* and no code pays for two resets, however the resets, the runs that issue codes and
\* the crashes fall.
PasswordIsEarned ==
    /\ password # None => rpc[password] = "done"
    /\ \A r \in Resets : Redeemed(r) =>
          target[r] \in Calls /\ createdAt[target[r]] > 0 /\ usedAt[target[r]]
    /\ \A r, q \in Resets : Redeemed(r) /\ Redeemed(q) /\ target[r] = target[q] => r = q

\* A job that is over stays as it ended, it is never run again, and a mail that was
\* sent or failed for good is not sent again.
OutcomesStand ==
    /\ \A j \in Jobs :
          jobState[j] \in {"completed", "failed", "lost"} =>
              /\ jobState'[j] = jobState[j]
              /\ \A d \in Calls : job'[d] = j => job[d] = j
    /\ \A d \in Calls :
          mailState[d] \in {"sent", "failed"} =>
              /\ mailState'[d] = mailState[d]
              /\ sends'[d] = sends[d]

OutcomesAreFinal == [][OutcomesStand]_vars

\* The mail that the worker takes was waiting.
LEMMA TakenWaits ==
    IInv /\ JInv /\ TakeMail =>
        Head(mailQueue) \in Calls /\ mailState[Head(mailQueue)] = "waiting"
BY HeadTailProperties, LenProperties, EmptySeq
   DEF TakeMail, IInv, MailTypes, JInv, MailIsQueued

\* What an induction needs of it besides IInv.
EarnedBut ==
    /\ password # None => rpc[password] = "done"
    /\ \A r, q \in Resets : Redeemed(r) /\ Redeemed(q) /\ target[r] = target[q] => r = q

\* A row is marked once, by the UPDATE of one reset, and stays marked.
LEMMA EarnedKept == IInv /\ EarnedBut /\ [Next]_vars => EarnedBut'
<1> SUFFICES ASSUME IInv, EarnedBut, [Next]_vars PROVE EarnedBut'
    OBVIOUS
<1> USE NoneIsNoValue, NoneIsNoJob
    DEF IInv, Goto, Advance, Tick, runs, table, resets, Redeemed,
        TargetsAreRows, RowsOfSteps, ResetTypes, TableTypeOK, Resetting,
        EarnedBut
<1>1. ASSUME NEW d \in Calls, NEW x \in Codes, Issue(d, x)
      PROVE  EarnedBut'
    BY <1>1 DEF Issue, Invalidate, VoidActive
<1>2. ASSUME NEW d \in Calls, Store(d)
      PROVE  EarnedBut'
    BY <1>2 DEF Store, Insert
<1>3. ASSUME NEW r \in Resets, NEW x \in Codes, Reset(r, x)
      PROVE  EarnedBut'
    BY <1>3 DEF Reset, Latest
<1>4. ASSUME NEW r \in Resets, RedeemReset(r)
      PROVE  EarnedBut'
    <2>1. rpc[r] = "matched" /\ ~usedAt[target[r]] /\ target[r] \in Calls
          /\ rpc' = [rpc EXCEPT ![r] = "redeemed"] /\ UNCHANGED <<target, password>>
          /\ usedAt' = [usedAt EXCEPT ![target[r]] = TRUE]
        BY <1>4 DEF RedeemReset, MarkUsed, Unused
    <2>2. \A q \in Resets : rpc[q] \in {"redeemed", "done"} => target[q] # target[r]
        BY <2>1
    <2> QED
        BY <2>1, <2>2
<1>5. ASSUME NEW r \in Resets, RedeemLate(r)
      PROVE  EarnedBut'
    BY <1>5 DEF RedeemLate
<1>6. ASSUME NEW r \in Resets, UpdatePassword(r)
      PROVE  EarnedBut'
    BY <1>6 DEF UpdatePassword
<1>7. CASE Crash
    BY <1>7 DEF Crash
<1>8. CASE UNCHANGED <<password, rpc, target, usedAt>>
    BY <1>8
<1> HIDE DEF IInv, Goto, Advance, Redeemed, TargetsAreRows, RowsOfSteps,
             ResetTypes, TableTypeOK, Resetting, EarnedBut
<1> QED
    BY <1>1, <1>2, <1>3, <1>4, <1>5, <1>6, <1>7, <1>8
       DEF Next, Deliver, Recover, ForgotPassword, Start, Issue, Invalidate, Store,
           Insert, Hand, SendNow, Rethrow, Settle, Release, SendOut, TakeMail, SendMail,
           SettleMail, PutBack, PutMailBack, Reset, RedeemReset, MarkUsed, RedeemLate,
           UpdatePassword, AwaitIdle, TimePasses, Expire, Crash, vars

\* No step takes up a job or a mail that is over.
LEMMA OutcomesKept == IInv /\ JInv /\ [Next]_vars => OutcomesStand
<1> SUFFICES ASSUME IInv, JInv, [Next]_vars PROVE OutcomesStand
    OBVIOUS
<1> DEFINE JobsStand ==
        \A j \in Jobs : jobState[j] \in {"completed", "failed", "lost"} =>
            /\ jobState'[j] = jobState[j]
            /\ \A d \in Calls : job'[d] = j => job[d] = j
    MailsStand ==
        \A d \in Calls : mailState[d] \in {"sent", "failed"} =>
            /\ mailState'[d] = mailState[d]
            /\ sends'[d] = sends[d]
<1>1. JobsStand
    <2>1. ASSUME NEW j \in Jobs, ForgotPassword(j) PROVE JobsStand
        BY <2>1 DEF ForgotPassword, runs, IInv, JobTypes
    <2>2. ASSUME NEW d \in Calls, Start(d) PROVE JobsStand
        <3>1. Head(queue) \in Jobs /\ jobState[Head(queue)] = "waiting"
            BY <2>2, HeadTailProperties, LenProperties, EmptySeq
               DEF Start, IInv, JobTypes, QueueIsWaiting
        <3> QED
            BY <2>2, <3>1 DEF Start, IInv, JobTypes, RunTypes
    <2>3. ASSUME NEW d \in Calls, Settle(d) PROVE JobsStand
        <3>1. job[d] \in Jobs /\ jobState[job[d]] = "active"
            BY <2>3 DEF Settle, Goto, IInv, RunsAreActive, Running
        <3> QED
            BY <2>3, <3>1 DEF Settle, IInv, JobTypes
    <2>4. ASSUME NEW j \in Jobs, PutBack(j) PROVE JobsStand
        BY <2>4 DEF PutBack, Stalled, runs, IInv, JobTypes
    <2>5. CASE Crash
        BY <2>5 DEF Crash, jobs
    <2>6. CASE UNCHANGED <<jobState, job>>
        BY <2>6
    <2> HIDE DEF JobsStand
    <2> QED
        BY <2>1, <2>2, <2>3, <2>4, <2>5, <2>6
           DEF Next, Deliver, Recover, ForgotPassword, Start, Issue, Invalidate, Store,
               Insert, Hand, SendNow, Rethrow, Settle, SendOut, TakeMail, SendMail,
               SettleMail, PutBack, PutMailBack, Reset, RedeemReset, MarkUsed, RedeemLate,
               UpdatePassword, AwaitIdle, TimePasses, Expire, Crash, vars, jobs, runs
<1>2. MailsStand
    <2>1. ASSUME NEW e \in Calls, mailState[e] \notin {"sent", "failed"},
                 \A d \in Calls : d # e => mailState'[d] = mailState[d] /\ sends'[d] = sends[d]
          PROVE  MailsStand
        BY <2>1
    <2>2. CASE UNCHANGED <<mailState, sends>>
        BY <2>2
    <2> HIDE DEF MailsStand
    <2>3. ASSUME NEW d \in Calls, Hand(d) PROVE MailsStand
        <3>1. mailState[d] = "none"
            BY <2>3 DEF Hand, Rethrow, Goto, JInv, MailOfSteps
        <3>2. \A e \in Calls : e # d =>
                  mailState'[e] = mailState[e] /\ sends'[e] = sends[e]
            BY <2>3 DEF Hand, IInv, MailTypes
        <3> QED
            BY <2>1, <3>1, <3>2
    <2>4. ASSUME NEW d \in Calls, SendNow(d) PROVE MailsStand
        <3>1. mailState[d] = "none"
            BY <2>4 DEF SendNow, Rethrow, Goto, JInv, MailOfSteps
        <3>2. \A e \in Calls : e # d =>
                  mailState'[e] = mailState[e] /\ sends'[e] = sends[e]
            BY <2>4 DEF SendNow, CallProvider, IInv, MailTypes
        <3> QED
            BY <2>1, <3>1, <3>2
    <2>5. CASE TakeMail
        <3>1. Head(mailQueue) \in Calls /\ mailState[Head(mailQueue)] = "waiting"
            BY <2>5, TakenWaits
        <3>2. \A e \in Calls : e # Head(mailQueue) =>
                  mailState'[e] = mailState[e] /\ sends'[e] = sends[e]
            BY <2>5 DEF TakeMail, IInv, MailTypes
        <3> QED
            BY <2>1, <3>1, <3>2
    <2>6. CASE SendMail
        <3>1. mailWorker \in Calls /\ mailState[mailWorker] = "active"
            BY <2>6 DEF SendMail, IInv, MailTypes, JInv, WorkerHolds
        <3>2. \A e \in Calls : e # mailWorker =>
                  mailState'[e] = mailState[e] /\ sends'[e] = sends[e]
            BY <2>6 DEF SendMail, CallProvider, IInv, MailTypes
        <3> QED
            BY <2>1, <3>1, <3>2
    <2>7. CASE SettleMail
        <3>1. mailWorker \in Calls /\ mailState[mailWorker] = "active"
            BY <2>7 DEF SettleMail, IInv, MailTypes, JInv, WorkerHolds
        <3>2. \A e \in Calls : e # mailWorker =>
                  mailState'[e] = mailState[e] /\ sends'[e] = sends[e]
            BY <2>7 DEF SettleMail, IInv, MailTypes
        <3> QED
            BY <2>1, <3>1, <3>2
    <2>8. ASSUME NEW d \in Calls, PutMailBack(d) PROVE MailsStand
        <3>1. mailState[d] = "active"
            BY <2>8 DEF PutMailBack
        <3>2. \A e \in Calls : e # d =>
                  mailState'[e] = mailState[e] /\ sends'[e] = sends[e]
            BY <2>8 DEF PutMailBack, IInv, MailTypes
        <3> QED
            BY <2>1, <3>1, <3>2
    <2> QED
        BY <2>2, <2>3, <2>4, <2>5, <2>6, <2>7, <2>8
           DEF Next, Deliver, Recover, ForgotPassword, Start, Issue, Invalidate, Store,
               Insert, Hand, SendNow, Rethrow, Settle, SendOut, TakeMail, SendMail,
               SettleMail, PutBack, PutMailBack, Reset, RedeemReset, MarkUsed, RedeemLate,
               UpdatePassword, AwaitIdle, TimePasses, Expire, Crash, vars, mails
<1> QED
    BY <1>1, <1>2 DEF OutcomesStand

LEMMA InductiveEarned == Spec => [](IInv /\ EarnedBut)
<1>1. Init => EarnedBut
    BY DEF Init, EarnedBut, Redeemed
<1> QED
    BY <1>1, EarnedKept, Inductive, PTL DEF Spec

\* The password changes hands only for a code that a run stored and the reset used up,
\* and each code pays once.
THEOREM ResetsAreEarned == Spec => []PasswordIsEarned
<1>1. IInv /\ EarnedBut => PasswordIsEarned
    BY NoneIsNoValue, NoneIsNoJob
       DEF IInv, EarnedBut, PasswordIsEarned, Redeemed, TargetsAreRows, ResetTypes
<1> QED
    BY <1>1, InductiveEarned, PTL

\* No retry, recovery or late answer revises what became of a job or of a mail.
THEOREM OutcomesAreKept == Spec => OutcomesAreFinal
BY OutcomesKept, InductiveRecovery, PTL DEF OutcomesAreFinal, Spec
=============================================================================
