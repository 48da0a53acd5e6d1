------------------------------ MODULE SrwLocks ------------------------------
(***************************************************************************)
(* A slim reader/writer lock and a condition variable used with it.  The   *)
(* guest sees an opaque word; the state of the lock is a record kept by    *)
(* the emulator (srw-lock.ts).  Contending threads park on an auto-reset   *)
(* event; unlike a critical section, the thread that is woken competes for *)
(* the lock again (grantSrwOnWake), and parks again if it cannot have it.  *)
(*                                                                         *)
(* A call is atomic, and any thread that neither waits nor is suspended    *)
(* may call next.  WakeAllConditionVariable takes one step per waiter,     *)
(* during which nothing else happens.  Variable holds is what the guest    *)
(* believes.  The guest releases only what it believes to hold, in the     *)
(* mode it acquired it, and acquires only what it does not hold.           *)
(***************************************************************************)
EXTENDS ThreadQueues

CONSTANTS
    Threads,
    NoThread,       \* exclusiveOwner = 0
    Modes,          \* in which modes the guest acquires the lock
    Timeouts,       \* kinds of timeout passed to SleepConditionVariableSRW
    Suspensions,    \* does the guest suspend threads?
    Deaths          \* may a thread be terminated at any point?

ASSUME SrwConstants ==
    /\ NoThread \notin Threads
    /\ Modes \subseteq {"shared", "exclusive"}
    /\ Timeouts \subseteq {"zero", "finite", "infinite"}
    /\ Suspensions \in BOOLEAN
    /\ Deaths \in BOOLEAN

VARIABLES
    lock,           \* the SrwLockState record
    waitEvent,      \* is the lock's event signalled?
    srwQueue,       \* threads parked on the event, oldest first
    cvQueue,        \* threads parked on the condition variable, oldest first
    cvTimers,       \* those of them whose wait has a timeout
    wanted,         \* thread -> the mode it is to be granted when it is woken
    waking,         \* threads that WakeAllConditionVariable has still to wake
    status,         \* thread -> running, parked or dead
    suspended,      \* threads with a positive suspend count
    holds,          \* thread -> none, shared or exclusive, as the guest believes
    lapsed          \* threads back from a zero timeout without the lock

queueVars == <<waitEvent, srwQueue, cvQueue, cvTimers, wanted>>
vars == <<lock, queueVars, waking, status, suspended, holds, lapsed>>

FreeLock == [mode |-> "free", exclusiveOwner |-> NoThread, sharedHolders |-> {}]

Init ==
    /\ lock = FreeLock
    /\ waitEvent = FALSE
    /\ srwQueue = <<>>
    /\ cvQueue = <<>>
    /\ cvTimers = {}
    /\ wanted = [t \in Threads |-> "none"]
    /\ waking = {}
    /\ status = [t \in Threads |-> "running"]
    /\ suspended = {}
    /\ holds = [t \in Threads |-> "none"]
    /\ lapsed = {}

-----------------------------------------------------------------------------
(* The lock record.                                                        *)

Grantable(l, t, mode) ==
    CASE mode = "exclusive" -> l.mode = "free"
      [] mode = "shared" -> l.mode # "exclusive" /\ t \notin l.sharedHolders

\* tryAcquireSrwExclusive and tryAcquireSrwShared, when they succeed.
Acquired(l, t, mode) ==
    IF mode = "exclusive"
    THEN [l EXCEPT !.mode = "exclusive", !.exclusiveOwner = t]
    ELSE [l EXCEPT !.mode = "shared", !.sharedHolders = @ \cup {t}]

\* releaseSrwExclusive and releaseSrwShared: without effect for a thread that
\* is not recorded as a holder in that mode.
Released(l, t, mode) ==
    CASE mode = "exclusive" /\ l.mode = "exclusive" /\ l.exclusiveOwner = t -> FreeLock
      [] mode = "shared" /\ l.mode = "shared" /\ t \in l.sharedHolders ->
           [l EXCEPT !.sharedHolders = @ \ {t},
                     !.mode = IF l.sharedHolders = {t} THEN "free" ELSE "shared"]
      [] OTHER -> l

-----------------------------------------------------------------------------
MayCall(t) == waking = {} /\ status[t] = "running" /\ t \notin suspended

\* Does the release that leaves the lock as l free it, so that its waiters
\* are signalled?
Frees(l) == lock.mode # "free" /\ l.mode = "free"

\* Whom a release lets through: the oldest waiter that is not suspended, when
\* the lock is free now, or nobody.
Heirs(l) ==
    IF ~Frees(l) \/ FirstAwake(srwQueue, suspended) = {}
    THEN {NoThread} ELSE FirstAwake(srwQueue, suspended)

\* The lock record once the heir has been granted what it parked for.
Inherited(l, heir) == IF heir = NoThread THEN l ELSE Acquired(l, heir, wanted[heir])

\* releaseSrwAndWake: a release that frees the lock sets the event, which
\* stays signalled when all the waiters are suspended.
SignalNobody(l, heir) ==    \* mutant
    /\ srwQueue' = Without(srwQueue, heir)
    /\ UNCHANGED waitEvent

Signal(l, heir) ==
    /\ srwQueue' = Without(srwQueue, heir)
    /\ waitEvent' = IF Frees(l) /\ srwQueue # <<>>
                    THEN heir = NoThread ELSE waitEvent

\* The calls of these threads return with what they wanted; st and beliefs
\* are status and holds without that.
Return(threads, st, beliefs) ==
    /\ status' = [u \in Threads |-> IF u \in threads THEN "running" ELSE st[u]]
    /\ holds' = [u \in Threads |-> IF u \in threads THEN wanted[u] ELSE beliefs[u]]

-----------------------------------------------------------------------------
(* The calls.                                                              *)

\* AcquireSRWLock*, and TryAcquireSRWLock* when it succeeds.
Acquire(t, mode) ==
    /\ MayCall(t)
    /\ holds[t] = "none"
    /\ Grantable(lock, t, mode)
    /\ lock' = Acquired(lock, t, mode)
    /\ holds' = [holds EXCEPT ![t] = mode]
    /\ UNCHANGED <<queueVars, waking, status, suspended, lapsed>>

\* A contended acquire parks.  If the event is still signalled the caller
\* first takes the signal, to no avail.
AcquireContended(t, mode) ==
    /\ MayCall(t)
    /\ holds[t] = "none"
    /\ ~Grantable(lock, t, mode)
    /\ waitEvent' = FALSE
    /\ srwQueue' = Append(srwQueue, t)
    /\ wanted' = [wanted EXCEPT ![t] = mode]
    /\ status' = [status EXCEPT ![t] = "parked"]
    /\ UNCHANGED <<lock, cvQueue, cvTimers, waking, suspended, holds, lapsed>>

\* ReleaseSRWLock*.
Release(t) ==
    LET freed == Released(lock, t, holds[t])
    IN  /\ MayCall(t)
        /\ holds[t] # "none"
        /\ \E heir \in Heirs(freed) :
             /\ lock' = Inherited(freed, heir)
             /\ Signal(freed, heir)
             /\ Return({heir} \ {NoThread}, status, [holds EXCEPT ![t] = "none"])
        /\ lapsed' = lapsed \ {t}
        /\ UNCHANGED <<cvQueue, cvTimers, wanted, waking, suspended>>

\* SleepConditionVariableSRW: release the lock as above, then park on the
\* condition variable.
Sleep(t, timeout) ==
    LET freed == Released(lock, t, holds[t])
    IN  /\ MayCall(t)
        /\ holds[t] # "none"
        /\ timeout # "zero"
        /\ \E heir \in Heirs(freed) :
             /\ lock' = Inherited(freed, heir)
             /\ Signal(freed, heir)
             /\ Return({heir} \ {NoThread}, [status EXCEPT ![t] = "parked"],
                       [holds EXCEPT ![t] = "none"])
        /\ cvQueue' = Append(cvQueue, t)
        /\ cvTimers' = IF timeout = "finite" THEN cvTimers \cup {t} ELSE cvTimers
        /\ wanted' = [wanted EXCEPT ![t] = holds[t]]
        /\ lapsed' = lapsed \ {t}
        /\ UNCHANGED <<waking, suspended>>

\* With a zero timeout the call returns at once, whether or not it can have
\* the lock back.
SleepNotAtAll(t) ==
    LET freed == Released(lock, t, holds[t])
    IN  /\ MayCall(t)
        /\ holds[t] # "none"
        /\ \E heir \in Heirs(freed) :
             LET inherited == Inherited(freed, heir)
             IN  /\ lock' = IF Grantable(inherited, t, holds[t])
                            THEN Acquired(inherited, t, holds[t]) ELSE inherited
                 /\ lapsed' = IF Grantable(inherited, t, holds[t])
                              THEN lapsed \ {t} ELSE lapsed \cup {t}
                 /\ Signal(freed, heir)
                 /\ Return({heir} \ {NoThread}, status, holds)
        /\ UNCHANGED <<cvQueue, cvTimers, wanted, waking, suspended>>

-----------------------------------------------------------------------------
(* Wake-ups.                                                               *)

\* wakeThread, for a thread in the queue rest of which is without it: it is
\* granted the lock or parks, again, on the lock's event.
WakeUnlocked(t, rest) ==        \* mutant
    /\ srwQueue' = rest
    /\ UNCHANGED lock
    /\ Return({t}, status, holds)

Wake(t, rest) ==
    IF Grantable(lock, t, wanted[t])
    THEN /\ lock' = Acquired(lock, t, wanted[t])
         /\ srwQueue' = rest
         /\ Return({t}, status, holds)
    ELSE /\ srwQueue' = Append(rest, t)
         /\ UNCHANGED <<lock, status, holds>>

\* The wait of a sleeper on the condition variable ends, suspended or not.
WakeSleeper(t) ==
    /\ Wake(t, srwQueue)
    /\ cvQueue' = Without(cvQueue, t)
    /\ cvTimers' = cvTimers \ {t}
    /\ waking' = waking \ {t}
    /\ UNCHANGED <<waitEvent, wanted, suspended, lapsed>>

WakeConditionVariable(t) ==
    /\ MayCall(t)
    /\ cvQueue # <<>>
    /\ WakeSleeper(Head(cvQueue))

WakeAllConditionVariable(t) ==
    /\ MayCall(t)
    /\ waking' = ToSet(cvQueue)
    /\ UNCHANGED <<lock, queueVars, status, suspended, holds, lapsed>>

WakeNext ==
    /\ waking # {}
    /\ WakeSleeper(Head(cvQueue))

SleepTimesOut(t) ==
    /\ waking = {}
    /\ t \in cvTimers
    /\ WakeSleeper(t)

-----------------------------------------------------------------------------
(* Threads.                                                                *)

Suspend(t) ==
    /\ Suspensions
    /\ waking = {}
    /\ status[t] # "dead"
    /\ suspended' = suspended \cup {t}
    /\ UNCHANGED <<lock, queueVars, waking, status, holds, lapsed>>

\* The last ResumeThread: a thread parked on the lock takes the signal that
\* passed it over while it was suspended.
Resume(t) ==
    /\ waking = {}
    /\ t \in suspended
    /\ suspended' = suspended \ {t}
    /\ IF t \in ToSet(srwQueue) /\ waitEvent
       THEN /\ waitEvent' = FALSE
            /\ Wake(t, Without(srwQueue, t))
       ELSE UNCHANGED <<waitEvent, srwQueue, lock, status, holds>>
    /\ UNCHANGED <<cvQueue, cvTimers, wanted, waking, lapsed>>

\* terminateThread leaves every SRW lock as it is.
Terminate(t) ==
    /\ Deaths
    /\ waking = {}
    /\ status[t] # "dead"
    /\ status' = [status EXCEPT ![t] = "dead"]
    /\ srwQueue' = Without(srwQueue, t)
    /\ cvQueue' = Without(cvQueue, t)
    /\ cvTimers' = cvTimers \ {t}
    /\ UNCHANGED <<lock, waitEvent, wanted, waking, suspended, holds, lapsed>>

-----------------------------------------------------------------------------
Next ==
    \/ \E t \in Threads :
         \/ \E mode \in Modes : Acquire(t, mode) \/ AcquireContended(t, mode)
         \/ Release(t)
         \/ \E timeout \in Timeouts : Sleep(t, timeout)
         \/ "zero" \in Timeouts /\ SleepNotAtAll(t)
         \/ WakeConditionVariable(t) \/ WakeAllConditionVariable(t)
         \/ SleepTimesOut(t) \/ Suspend(t) \/ Resume(t) \/ Terminate(t)
    \/ WakeNext

Spec == Init /\ [][Next]_vars

-----------------------------------------------------------------------------
(* Properties.                                                             *)

LockRecords ==
    [mode : {"free", "exclusive", "shared"}, exclusiveOwner : Threads \cup {NoThread},
     sharedHolders : SUBSET Threads]

\* Every variable keeps its type.
TypeOK ==
    /\ lock \in LockRecords
    /\ waitEvent \in BOOLEAN
    /\ srwQueue \in Seq(Threads) /\ cvQueue \in Seq(Threads)
    /\ cvTimers \subseteq Threads
    /\ wanted \in [Threads -> {"none", "shared", "exclusive"}]
    /\ waking \subseteq Threads
    /\ status \in [Threads -> {"running", "parked", "dead"}]
    /\ suspended \subseteq Threads
    /\ holds \in [Threads -> {"none", "shared", "exclusive"}]
    /\ lapsed \subseteq Threads

\* What the threads hold by right: a zero timeout may return without the lock.
Entitled == [t \in Threads |-> IF t \in lapsed THEN "none" ELSE holds[t]]

(* A writer excludes every other holder, as the guest sees it: whoever     *)
(* rightly believes to hold the lock exclusively is alone with it, through *)
(* every hand-over, sleep, requeue and resume.                             *)
SrwExclusion ==
    \A t, u \in Threads : Entitled[t] = "exclusive" /\ t # u => Entitled[u] = "none"

(* The record and the guest agree on who holds the lock: a thread returns  *)
(* from AcquireSRWLock* or SleepConditionVariableSRW "only WITH the lock   *)
(* re-taken" (wakeThread), unless the timeout is zero, and nobody is       *)
(* recorded who does not know it.                                          *)
HoldersExact ==
    /\ lock.mode = "free" <=> \A t \in Threads : Entitled[t] = "none"
    /\ \A t \in Threads :
         /\ Entitled[t] = "exclusive" <=>
                lock.mode = "exclusive" /\ lock.exclusiveOwner = t
         /\ Entitled[t] = "shared" <=> lock.mode = "shared" /\ t \in lock.sharedHolders

(* Threads queued on a lock must be signalled when it is released "or they *)
(* sleep on a free lock" (SleepConditionVariableSRW): whoever is parked on *)
(* a free lock is suspended and finds the event signalled when resumed.    *)
NoSleepOnFreeLock ==
    lock.mode = "free" =>
        \A t \in ToSet(srwQueue) : t \in suspended /\ waitEvent

(* A thread waits in exactly one queue while it is parked and in none      *)
(* otherwise, although a wake-up may move it from one queue to the other.  *)
QueuesExact ==
    /\ IsInjective(srwQueue) /\ IsInjective(cvQueue)
    /\ ToSet(srwQueue) \cap ToSet(cvQueue) = {}
    /\ ToSet(srwQueue) \cup ToSet(cvQueue) = {t \in Threads : status[t] = "parked"}
    /\ cvTimers \cup waking \subseteq ToSet(cvQueue)

(* The guest releases what it acquires, and a wake-up runs to its end.     *)
FairSpec ==
    /\ Spec
    /\ WF_vars(WakeNext)
    /\ \A t \in Threads : WF_vars(Release(t))

(* Whoever parks on the lock gets it, unless something stands in its way   *)
(* again and again for ever: a suspended thread, a holder that has died,   *)
(* or readers.  (Each release grants it to the oldest waiter, and a        *)
(* sleeper that is woken queues up behind; but readers are let in while a  *)
(* writer waits, and overlapping readers may keep it for ever.)            *)
HeldByTheDead == \E u \in Threads : Entitled[u] # "none" /\ status[u] = "dead"

WaitersAcquire ==
    \A t \in Threads :
        t \in ToSet(srwQueue) ~>
            \/ t \notin ToSet(srwQueue)
            \/ suspended # {} \/ HeldByTheDead \/ lock.mode = "shared"
=============================================================================
