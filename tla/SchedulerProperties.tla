------------------------ MODULE SchedulerProperties ------------------------
(***************************************************************************)
(* What the scheduler must guarantee, over the states and steps of module  *)
(* Scheduler.  A state in which the wake-up loop is under way (~Quiet) is  *)
(* internal to one call: some invariants speak of the states at rest only. *)
(***************************************************************************)
EXTENDS Scheduler

ThreadsTypeOK ==
    /\ state \in [Threads -> States]
    /\ suspendCount \in [Threads -> 0..MaxSuspend]
    /\ priority \in [Threads -> Priorities]
    /\ waitInfo \in [Threads -> WaitInfos]
    /\ context \in [Threads -> Contexts]
    /\ apcs \in [Threads -> 0..MaxApcs]
    /\ alerted \subseteq Threads
    /\ timers \subseteq Threads
    /\ runQueue \in Seq(Threads)
    /\ bootstrap \in Seq(Threads)
    /\ current \in Threads
    /\ waiters \in Seq(Threads)

WakeTypeOK ==
    /\ scanning \in Waitables \cup {MessageQueue, NoObject}
    /\ unvisited \subseteq Threads
    /\ toWake \subseteq Waitables
    /\ pulsed \in Events \cup {NoObject}
    /\ exiting \in BOOLEAN

\* Every variable has its type: among others, no suspend count passes
\* MAXIMUM_SUSPEND_COUNT and no semaphore its maximum (suspendThread,
\* releaseSemaphore), whatever calls are nested.
TypeOK == ObjectsTypeOK /\ ThreadsTypeOK /\ WakeTypeOK

(* No lost wake-up: once a call has returned, no thread is left waiting,   *)
(* unsuspended, on objects that already satisfy its wait.  The freeze      *)
(* watchdog reports exactly such a thread as a lost or misphased wakeup    *)
(* (diagnoseWaiters).                                                      *)
NoLostWakeup ==
    Quiet => \A t \in Threads :
                state[t] = "WAITING" /\ suspendCount[t] = 0 => ~Satisfiable(t)

(* The run queue holds every READY thread exactly once and nobody else:    *)
(* suspend, terminate and the wakes keep it by hand, outside transitionTo. *)
RunQueueExact ==
    /\ ToSet(runQueue) = {t \in Threads : state[t] = "READY"}
    /\ IsInjective(runQueue)

(* Only the current thread is RUNNING, and a suspended thread is neither   *)
(* RUNNING nor READY, however its wait ended; a SUSPENDED thread always    *)
(* has a resume to come.                                                   *)
SuspendedOffCpu ==
    \A t \in Threads :
        /\ state[t] = "RUNNING" => t = current
        /\ state[t] \in {"READY", "RUNNING"} => suspendCount[t] = 0
        /\ state[t] = "SUSPENDED" => suspendCount[t] > 0

(* Every thread that may be switched to has a saved context, including one *)
(* that suspended itself while it ran and is resumed later: without one    *)
(* performSwitch refuses it for ever ("has no context").                   *)
ContextSaved ==
    \A t \in Threads :
        CASE state[t] \in {"READY", "WAITING"} -> context[t] # "none"
          [] state[t] = "SUSPENDED" -> context[t] # "none" \/ t = current
          [] OTHER -> context[t] = "none"

(* The wait engine indexes exactly the threads that wait on handles, once  *)
(* each: a stale entry would let a signal be spent on a thread that is not *)
(* waiting, a missing one would leave the thread waiting for ever.         *)
WaitersExact ==
    /\ \A t \in Threads : waitInfo[t] # NoWait <=> state[t] = "WAITING"
    /\ ToSet(waiters) = {t \in Threads : waitInfo[t].reason = "object"}
    /\ IsInjective(waiters)

(* What the scheduler believes of its threads agrees with their states,    *)
(* through nested suspensions, deaths and wake-ups: the run queue, the     *)
(* waiter index, and who may be on the CPU.                                *)
QueuesExact == RunQueueExact /\ WaitersExact /\ SuspendedOffCpu

(* A timeout timer belongs to the wait the thread is in now.  The callback *)
(* only asks whether the thread is WAITING, so a timer left over from an   *)
(* earlier wait would end a later, unrelated one.                          *)
TimersExact ==
    \A t \in Threads :
        /\ t \in timers => state[t] = "TERMINATED" \/ waitInfo[t].timed
        /\ waitInfo[t].timed => t \in timers

(* A thread in an alertable wait has no APC pending, suspended or not: the *)
(* wait ends as soon as one is queued, and none is queued before it.       *)
AlertableWaitsHaveNoApc ==
    \A t \in Threads : waitInfo[t].alertable => apcs[t] = 0

(* A mutex is owned by a live thread that holds it at least once, and by   *)
(* nobody as soon as its owner is dead, even when the mutex is granted     *)
(* while threads are being torn down.                                      *)
MutexOwnerAlive ==
    \A m \in Mutexes :
        /\ owner[m] # NoThread => Live(owner[m])
        /\ recursion[m] > 0 <=> owner[m] # NoThread

(* A suspended thread takes nothing from a signal: it neither consumes an  *)
(* auto-reset event nor owns a mutex through a wait that ends while it is  *)
(* suspended.                                                              *)
SuspendedTakesNothing ==
    [][\A t \in Threads :
          state[t] = "WAITING" /\ suspendCount'[t] > 0 /\ state'[t] # "WAITING" =>
             /\ context'[t] \notin {"object", "abandoned"}
             /\ \A m \in Mutexes : owner'[m] = t => owner[m] = t]_vars

(* Whoever next takes a mutex that its owner abandoned is told so: the     *)
(* abandoned mark goes away only together with a result WAIT_ABANDONED.    *)
AbandonmentReported ==
    [][\A m \in Mutexes :
          abandoned[m] /\ ~abandoned'[m] =>
             /\ owner'[m] # NoThread
             /\ state[owner'[m]] = "WAITING" => context'[owner'[m]] = "abandoned"]_vars

-----------------------------------------------------------------------------
(* The inductive invariant behind NoLostWakeup.                            *)

ReadyHandles(t) == {h \in ToSet(waitInfo[t].handles) : Ready(h, t, Exited)}

\* The handles whose wake-up loop has still to reach thread t.
PendingFor(t) == toWake \cup (IF t \in unvisited THEN {scanning} ELSE {})

\* A wait on handles is registered as such, and a wait for all of them was
\* made with one of the arrays of AllLists.
WaitShape ==
    \A t \in Threads :
        /\ waitInfo[t].handles # <<>> <=> waitInfo[t].reason = "object"
        /\ waitInfo[t].handles # <<>> /\ waitInfo[t].all => waitInfo[t].handles \in AllLists

\* The wake-up loops: nothing is pending at rest, and an auto-reset event is
\* never signalled together with another handle.
WakeShape ==
    /\ scanning \in {NoObject, MessageQueue} => toWake = {} /\ pulsed = NoObject
    /\ Quiet => unvisited = {}
    /\ toWake \cap AutoEvents = {}
    /\ scanning \in AutoEvents => toWake = {}

\* What is ready and waited for by t is about to be offered to it: every
\* ready handle of a wait for any, some handle of a satisfied wait for all.
Offered(t) ==
    IF waitInfo[t].all
    THEN Satisfiable(t) => ToSet(waitInfo[t].handles) \cap PendingFor(t) # {}
    ELSE ReadyHandles(t) \subseteq PendingFor(t)

WakeUnderWay ==
    \A t \in Threads : state[t] = "WAITING" /\ suspendCount[t] = 0 => Offered(t)

\* A thread that waits for a mutex it owns can still take it once more.
RecursionRoom ==
    \A t \in Threads : \A m \in Mutexes \cap ToSet(waitInfo[t].handles) :
        owner[m] = t => recursion[m] < MaxRecursion

\* The loop over the message waiters visits waiting threads only.
MessageScan ==
    scanning = MessageQueue => \A t \in unvisited : state[t] = "WAITING"

\* A thread is not suspended before it is created.
NewUnsuspended ==
    \A t \in Threads : state[t] = "NEW" => suspendCount[t] = 0

\* What holds of the threads and their queues, whatever the objects do.
ThreadInv ==
    ThreadsTypeOK /\ WaitersExact /\ RunQueueExact /\ SuspendedOffCpu /\ NewUnsuspended

\* No handle array passed with bWaitAll names an auto-reset event.
NoAutoInWaitAll == \A list \in AllLists : ToSet(list) \cap AutoEvents = {}

(* The inductive invariant: every state, those inside a wake-up loop among *)
(* them, satisfies it as long as NoAutoInWaitAll holds.                    *)
IInv ==
    /\ ObjectsTypeOK /\ ThreadInv /\ WakeTypeOK /\ RecursionRoom /\ MessageScan
    /\ WaitShape /\ WakeShape /\ WakeUnderWay

-----------------------------------------------------------------------------
(* Fairness.  The host polls the timer wheel and the switch request at     *)
(* every tick boundary, and a tick always comes: the retired-instruction   *)
(* quantum expires for a thread that computes, and a thread that blocks    *)
(* requests the switch itself.  A wake-up loop runs to its end.  A guest   *)
(* or the host can keep the CPU busy between two ticks, hence strong       *)
(* fairness for what a tick does.  No guest call is ever owed.             *)
Fairness ==
    /\ WF_vars(WakeStep)
    /\ SF_vars(PerformSwitch)
    /\ \A t \in Threads : SF_vars(TimeoutFires(t)) /\ WF_vars(TerminateNext(t))

FairSpec == Spec /\ Fairness

\* Threads that are picked before t: those of a higher priority, and those
\* created to run that have not blocked yet.
Precede(t) ==
    {u \in Threads \ {t} :
        /\ state[u] \in {"READY", "RUNNING"}
        /\ priority[u] > priority[t] \/ u \in ToSet(bootstrap)}

(* Every READY thread is eventually taken off the run queue: it runs,      *)
(* is suspended or ends.  No thread waits in the queue for ever, unless    *)
(* threads that have precedence over it keep the CPU.                      *)
ReadyThreadsRun ==
    \A t \in Threads :
        state[t] = "READY" ~> state[t] # "READY" \/ Precede(t) # {}

(* A wait with a timeout ends: whatever races with the timer, the thread   *)
(* does not wait for ever.                                                 *)
TimedWaitsEnd ==
    \A t \in Threads : waitInfo[t].timed ~> ~waitInfo[t].timed

(* ExitProcess ends every thread, through all the wake-ups it causes.      *)
ExitEndsAll ==
    exiting ~> \A t \in Threads : ~Live(t)
=============================================================================
