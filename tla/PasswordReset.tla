----------------------------- MODULE PasswordReset -----------------------------
(***************************************************************************)
(* The forgotten password of one user: forgotPassword hands a job to       *)
(* PasswordResetQueueService, a run of deliverForUser issues a code (module *)
(* OtpTable) and hands it to OutboundEmailQueueService, whose worker mails *)
(* it, and resetPassword redeems it.                                       *)
(*                                                                         *)
(* With REDIS_URL set both hand-overs are BullMQ queues: first in first    *)
(* out, one job at a time, one attempt; a job whose worker died is put     *)
(* back once and fails the second time.  Without it the jobs are callbacks *)
(* of the process, all at once, and the mail is sent by the run itself.    *)
(***************************************************************************)
EXTENDS OtpTable, Sequences, FiniteSets

CONSTANTS
    Jobs,       \* the forgotPassword requests; Calls are the runs of their jobs
    Resets,     \* the resetPassword requests
    Modes,      \* the values of Redis to look at: whether REDIS_URL is set
    MaxCrashes  \* bound on the crashes of the process

ASSUME RedisIsSetOrNot == Modes \subseteq BOOLEAN
ASSUME CrashBound == MaxCrashes \in Nat
ASSUME JobsAreFinite == IsFiniteSet(Jobs)
ASSUME NoneIsNoJob == None \notin Jobs /\ None \notin Resets

VARIABLES
    redis,         \* whether this deployment has set it
    queue,         \* the jobs of password-reset that wait, or the callbacks
    jobState,      \* where each job stands
    stalled,       \* the jobs that were put back once
    pc,            \* where each run of deliverForUser stands
    job,           \* the job that it runs
    mailQueue,     \* the rows whose mail waits in password-reset-email
    mailState,     \* where the mail of each row stands
    mailStalled,   \* the mails that were put back once
    mailWorker,    \* the mail that the email worker is busy with
    accepted,      \* whether the mail provider has taken it
    sends,         \* history: how often the mail of each row was attempted
    rpc,           \* where each resetPassword stands
    target,        \* the row whose hash it compared with
    before,        \* history: the resets that were answered when it arrived
    password,      \* the reset that wrote users.password, None for none yet
    inlinePending, \* the counter of deliveries that run without Redis
    idleWaiter,    \* where a call of awaitIdleForTests stands
    crashes

jobs == <<redis, queue, jobState, stalled>>
runs == <<pc, job>>
mails == <<mailQueue, mailState, mailStalled, mailWorker, accepted, sends>>
resets == <<rpc, target, before, password>>
idle == <<inlinePending, idleWaiter>>
vars == <<table, jobs, runs, mails, resets, idle, crashes>>

Running == {"issuing",     \* next: Issue
            "hashing",     \* next: Store
            "mailing",     \* next: Hand or SendNow
            "completing",  \* deliverForUser returned, next: Settle
            "failing"}     \* deliverForUser threw, next: Settle
JobStates == {"new", "lost", "waiting", "active", "completed", "failed"}
MailStates == {"none", "waiting", "active", "sent", "failed"}
Resetting == {"matched",   \* next: RedeemReset or RedeemLate
              "redeemed"}  \* next: UpdatePassword

TypeOK ==
    /\ TableTypeOK
    /\ redis \in Modes /\ queue \in Seq(Jobs) /\ jobState \in [Jobs -> JobStates] /\ stalled \subseteq Jobs
    /\ pc \in [Calls -> {"new", "ended", "cut"} \union Running]
    /\ job \in [Calls -> Jobs \union {None}]
    /\ mailQueue \in Seq(Calls) /\ mailState \in [Calls -> MailStates]
    /\ mailStalled \subseteq Calls /\ mailWorker \in Calls \union {None}
    /\ accepted \in BOOLEAN /\ sends \in [Calls -> Nat]
    /\ rpc \in [Resets -> {"new", "refused", "done", "cut"} \union Resetting]
    /\ target \in [Resets -> Calls \union {None}]
    /\ before \in [Resets -> SUBSET Resets]
    /\ password \in Resets \union {None}
    /\ inlinePending \in Nat
    /\ idleWaiter \in {"none", "waiting", "resolved"}
    /\ crashes \in 0..MaxCrashes

Init ==
    /\ TableInit
    /\ redis \in Modes
    /\ queue = <<>> /\ jobState = [j \in Jobs |-> "new"] /\ stalled = {}
    /\ pc = [d \in Calls |-> "new"] /\ job = [d \in Calls |-> None]
    /\ mailQueue = <<>> /\ mailState = [d \in Calls |-> "none"]
    /\ mailStalled = {} /\ mailWorker = None /\ accepted = FALSE /\ sends = [d \in Calls |-> 0]
    /\ rpc = [r \in Resets |-> "new"] /\ target = [r \in Resets |-> None]
    /\ before = [r \in Resets |-> {}] /\ password = None
    /\ inlinePending = 0 /\ idleWaiter = "none" /\ crashes = 0

Goto(d, from, to) == pc[d] = from /\ pc' = [pc EXCEPT ![d] = to]

-----------------------------------------------------------------------------
(* forgotPassword and the password-reset queue.                             *)

\* enqueue: queue.add, whose failure is only logged, or setImmediate.
ForgotPassword(j) ==
    /\ jobState[j] = "new"
    /\ \/ /\ jobState' = [jobState EXCEPT ![j] = "waiting"]
          /\ queue' = Append(queue, j)
          /\ inlinePending' = IF redis THEN inlinePending ELSE inlinePending + 1
       \/ /\ redis
          /\ jobState' = [jobState EXCEPT ![j] = "lost"]
          /\ UNCHANGED <<queue, inlinePending>>
    /\ UNCHANGED <<table, redis, stalled, runs, mails, resets, idleWaiter, crashes>>

\* The concurrency of the BullMQ worker is 1; callbacks do not wait for each other.
AlwaysFree == TRUE                                \* slip: several jobs at once
WorkerFree == redis => \A d \in Calls : pc[d] \notin Running

\* A run is known by when it starts; which of the unused names it gets is fixed.
NextRun == CHOOSE d \in Calls : pc[d] = "new"

Start(d) ==
    /\ queue # <<>> /\ WorkerFree
    /\ Goto(d, "new", "issuing") /\ d = NextRun
    /\ job' = [job EXCEPT ![d] = Head(queue)]
    /\ jobState' = [jobState EXCEPT ![Head(queue)] = "active"]
    /\ queue' = Tail(queue)
    /\ UNCHANGED <<table, redis, stalled, mails, resets, idle, crashes>>

-----------------------------------------------------------------------------
(* deliverForUser; the user row is there, nothing in the flow deletes it.   *)

Issue(d, x) ==
    /\ Goto(d, "issuing", "hashing")
    /\ Invalidate(d, x)
    /\ UNCHANGED <<jobs, job, mails, resets, idle, crashes>>

Store(d) ==
    /\ Goto(d, "hashing", "mailing")
    /\ Insert(d)
    /\ UNCHANGED <<jobs, job, mails, resets, idle, crashes>>

\* enqueuePasswordReset with Redis: the mail is queued, or queue.add throws.
Swallow(d) == Goto(d, "mailing", "completing")    \* slip: catch without rethrow
Rethrow(d) == Goto(d, "mailing", "failing")

Hand(d) ==
    /\ redis
    /\ \/ /\ Goto(d, "mailing", "completing")
          /\ mailState' = [mailState EXCEPT ![d] = "waiting"]
          /\ mailQueue' = Append(mailQueue, d)
       \/ Rethrow(d) /\ UNCHANGED <<mailQueue, mailState>>
    /\ UNCHANGED <<table, jobs, job, mailStalled, mailWorker, accepted, sends, resets, idle, crashes>>

\* One attempt to mail: at most one call of the provider, which may have taken the mail
\* although the call ends with an error or a timeout, or the process dies before it ends.
CallProvider(d) == sends' = [sends EXCEPT ![d] = @ + 1]

\* Without Redis the run calls the mail provider itself.
SendNow(d) ==
    /\ ~redis
    /\ CallProvider(d)
    /\ \/ /\ Goto(d, "mailing", "completing")
          /\ mailState' = [mailState EXCEPT ![d] = "sent"]
       \/ Rethrow(d) /\ UNCHANGED mailState
    /\ UNCHANGED <<table, jobs, job, mailQueue, mailStalled, mailWorker, accepted, resets, idle, crashes>>

\* The finally block: the counter goes down whether or not deliverForUser threw,
\* and at 0 the waiters are resolved.
OnSuccess(d) ==                                   \* slip: not in a finally block
    IF pc[d] = "completing" THEN inlinePending - 1 ELSE inlinePending
Always(d) == inlinePending - 1

Release(d) ==
    IF redis THEN UNCHANGED idle
    ELSE /\ inlinePending' = Always(d)
         /\ idleWaiter' = IF inlinePending' = 0 /\ idleWaiter = "waiting"
                          THEN "resolved" ELSE idleWaiter

\* The run is over; BullMQ moves the job to completed or, at once, to failed.
Settle(d) ==
    /\ \/ /\ Goto(d, "completing", "ended")
          /\ jobState' = [jobState EXCEPT ![job[d]] = "completed"]
       \/ /\ Goto(d, "failing", "ended")
          /\ jobState' = [jobState EXCEPT ![job[d]] = "failed"]
    /\ Release(d)
    /\ UNCHANGED <<table, redis, queue, stalled, job, mails, resets, crashes>>

\* awaitIdleForTests, without Redis.
AwaitIdle ==
    /\ ~redis /\ idleWaiter = "none"
    /\ idleWaiter' = IF inlinePending = 0 THEN "resolved" ELSE "waiting"
    /\ UNCHANGED <<table, jobs, runs, mails, resets, inlinePending, crashes>>

-----------------------------------------------------------------------------
(* The worker of password-reset-email, with Redis.                          *)

NoMailWorker == FALSE                             \* slip: no worker is started
MailWorkerFree == mailWorker = None

TakeMail ==
    /\ MailWorkerFree /\ mailQueue # <<>>
    /\ mailWorker' = Head(mailQueue)
    /\ mailQueue' = Tail(mailQueue)
    /\ mailState' = [mailState EXCEPT ![mailWorker'] = "active"]
    /\ UNCHANGED <<table, jobs, runs, mailStalled, accepted, sends, resets, idle, crashes>>

\* The mail provider takes the mail, or the call ends with an error and the job is
\* moved to failed.
SendMail ==
    /\ mailWorker # None /\ ~accepted
    /\ CallProvider(mailWorker)
    /\ \/ /\ accepted' = TRUE
          /\ UNCHANGED <<mailState, mailWorker>>
       \/ /\ mailState' = [mailState EXCEPT ![mailWorker] = "failed"]
          /\ mailWorker' = None
          /\ UNCHANGED accepted
    /\ UNCHANGED <<table, jobs, runs, mailQueue, mailStalled, resets, idle, crashes>>

SettleMail ==
    /\ accepted
    /\ accepted' = FALSE
    /\ mailState' = [mailState EXCEPT ![mailWorker] = "sent"]
    /\ mailWorker' = None
    /\ UNCHANGED <<table, jobs, runs, mailQueue, mailStalled, sends, resets, idle, crashes>>

-----------------------------------------------------------------------------
(* resetPassword: consume a code, hash the password, write it.              *)

Advance(r, from, to) == rpc[r] = from /\ rpc' = [rpc EXCEPT ![r] = to]

\* The request submits some code x, one that was mailed or any other.
Reset(r, x) ==
    /\ before' = [before EXCEPT ![r] = {q \in Resets : rpc[q] = "done"}]
    /\ \/ \E o \in Calls :
             /\ Latest(o) /\ code[o] = x
             /\ target' = [target EXCEPT ![r] = o]
             /\ Advance(r, "new", "matched")
       \/ /\ \A o \in Calls : Latest(o) => code[o] # x
          /\ Advance(r, "new", "refused")
          /\ UNCHANGED target
    /\ UNCHANGED <<table, jobs, runs, mails, password, idle, crashes>>

RedeemReset(r) ==
    /\ Advance(r, "matched", "redeemed")
    /\ Unused(target[r])
    /\ MarkUsed(target[r])
    /\ UNCHANGED <<jobs, runs, mails, target, before, password, idle, crashes>>

RedeemLate(r) ==
    /\ Advance(r, "matched", "refused")
    /\ ~Unused(target[r])
    /\ UNCHANGED <<table, jobs, runs, mails, target, before, password, idle, crashes>>

\* updatePassword, which also ends the session (module Sessions).
UpdatePassword(r) ==
    /\ Advance(r, "redeemed", "done")
    /\ password' = r
    /\ UNCHANGED <<table, jobs, runs, mails, target, before, idle, crashes>>

-----------------------------------------------------------------------------
(* Crashes, and what BullMQ does about the jobs they leave behind.          *)

TimePasses == Expire /\ UNCHANGED <<jobs, runs, mails, resets, idle, crashes>>

\* Bound: a crash leaves an unused run to every job that Redis may start again.
RunsSuffice ==
    Cardinality({j \in Jobs : \/ jobState[j] \in {"new", "waiting"}
                              \/ jobState[j] = "active" /\ j \notin stalled})
      <= Cardinality({d \in Calls : pc[d] = "new"})

\* Redis keeps the queues; callbacks, runs and requests die with the process.
Crash ==
    /\ crashes < MaxCrashes /\ (redis => RunsSuffice)
    /\ crashes' = crashes + 1
    /\ pc' = [d \in Calls |-> IF pc[d] \in Running THEN "cut" ELSE pc[d]]
    /\ rpc' = [r \in Resets |-> IF rpc[r] \in Resetting THEN "cut" ELSE rpc[r]]
    /\ mailWorker' = None /\ accepted' = FALSE
    /\ inlinePending' = 0 /\ idleWaiter' = "none"
    /\ IF redis THEN UNCHANGED jobs
       ELSE /\ queue' = <<>>
            /\ jobState' = [j \in Jobs |-> IF jobState[j] \in {"waiting", "active"}
                                          THEN "lost" ELSE jobState[j]]
            /\ UNCHANGED <<redis, stalled>>
    /\ UNCHANGED <<table, job, mailQueue, mailState, mailStalled, sends, target, before, password>>

\* An active job that no run works on: its lock is not renewed any more.
Stalled(j) ==
    /\ redis /\ jobState[j] = "active"
    /\ \A d \in Calls : job[d] = j => pc[d] \notin Running

PutBack(j) ==
    /\ Stalled(j)
    /\ IF j \in stalled
       THEN /\ jobState' = [jobState EXCEPT ![j] = "failed"]
            /\ UNCHANGED <<queue, stalled>>
       ELSE /\ jobState' = [jobState EXCEPT ![j] = "waiting"]
            /\ queue' = <<j>> \o queue
            /\ stalled' = stalled \union {j}
    /\ UNCHANGED <<table, redis, runs, mails, resets, idle, crashes>>

PutMailBack(d) ==
    /\ mailState[d] = "active" /\ mailWorker # d
    /\ IF d \in mailStalled
       THEN /\ mailState' = [mailState EXCEPT ![d] = "failed"]
            /\ UNCHANGED <<mailQueue, mailStalled>>
       ELSE /\ mailState' = [mailState EXCEPT ![d] = "waiting"]
            /\ mailQueue' = <<d>> \o mailQueue
            /\ mailStalled' = mailStalled \union {d}
    /\ UNCHANGED <<table, jobs, runs, mailWorker, accepted, sends, resets, idle, crashes>>

-----------------------------------------------------------------------------
\* What the process does by itself once there is work.
Deliver(d) ==
    \/ Start(d) \/ (\E x \in Codes : Issue(d, x)) \/ Store(d)
    \/ Hand(d) \/ SendNow(d) \/ Settle(d)

SendOut == TakeMail \/ SendMail \/ SettleMail

Recover == (\E j \in Jobs : PutBack(j)) \/ (\E d \in Calls : PutMailBack(d))

Next ==
    \/ \E j \in Jobs : ForgotPassword(j)
    \/ \E d \in Calls : Deliver(d)
    \/ SendOut \/ Recover
    \/ \E r \in Resets :
          \/ (\E x \in Codes : Reset(r, x))
          \/ RedeemReset(r) \/ RedeemLate(r) \/ UpdatePassword(r)
    \/ AwaitIdle \/ TimePasses \/ Crash

\* The event loop runs what is ready and BullMQ looks for stalled jobs every
\* half minute; nobody has to ask for a code, to use it or to crash.
Spec ==
    /\ Init /\ [][Next]_vars
    /\ WF_vars(\E d \in Calls : Deliver(d)) /\ WF_vars(SendOut) /\ WF_vars(Recover)

-----------------------------------------------------------------------------
(* What the pipeline promises.                                              *)

\* With Redis one worker issues the codes one after another: two codes are
\* never good at once, not even when a crash makes a job run twice.
OneActiveCode ==
    redis => \A o, p \in Calls : Active(o) /\ Active(p) => o = p

\* With Redis a reset that arrives after another one was answered redeems a
\* newer code than that one did: an old mail never takes back a newer reset.
LaterResetNewerCode ==
    redis => \A r \in Resets : target[r] # None =>
        \A q \in before[r] : createdAt[target[q]] < createdAt[target[r]]

\* A forgotten password is reported as handled only when a mail with a stored
\* code was handed over: to the mail queue or, without Redis, to the provider.
CompletedIsHandedOver ==
    \A j \in Jobs : jobState[j] = "completed" =>
        \E d \in Calls : job[d] = j /\ createdAt[d] > 0 /\ mailState[d] # "none"

\* Without Redis the counter is exactly the number of deliveries that are not
\* over, and awaitIdleForTests is kept waiting only while there is one.
PendingIsExact ==
    ~redis =>
        /\ inlinePending = Cardinality({j \in Jobs : jobState[j] \in {"waiting", "active"}})
        /\ idleWaiter = "waiting" => inlinePending > 0

\* Whatever crashes happen, a job that was accepted is completed or fails, a callback
\* may also be lost in a crash, and a mail that was queued is sent or fails: nothing
\* waits or is active for ever.
WorkSettles ==
    /\ \A j \in Jobs :
          jobState[j] \in {"waiting", "active"} ~> jobState[j] \in {"completed", "failed", "lost"}
    /\ \A d \in Calls : mailState[d] = "waiting" ~> mailState[d] \in {"sent", "failed"}
=============================================================================
