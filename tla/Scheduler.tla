----------------------------- MODULE Scheduler -----------------------------
(***************************************************************************)
(* The thread scheduler: thread states, the run queue, blocking waits, the *)
(* wake-ups that end them, suspension, user APCs, timeouts and the context *)
(* switch.                                                                 *)
(*                                                                         *)
(* Everything runs on one JavaScript thread, so a call is atomic.  The     *)
(* only part of a call that takes several steps here is the loop that      *)
(* visits the waiters of a signalled handle (wakeWaitingThreadsForHandle): *)
(* one step per waiter, during which no other action is enabled.           *)
(*                                                                         *)
(* Guest calls are made by the current thread while it is RUNNING; timers, *)
(* messages, I/O completions and signals may also come from the host.      *)
(***************************************************************************)
EXTENDS SyncObjects, ThreadQueues

CONSTANTS
    Main,               \* the thread the process starts with
    MaxSuspend,         \* MAXIMUM_SUSPEND_COUNT
    Priorities,         \* thread priorities a guest may set, 0 among them
    AnyLists,           \* handle arrays passed with bWaitAll = FALSE
    AllLists,           \* handle arrays passed with bWaitAll = TRUE
    Timed,              \* {TRUE}: only finite timeouts, {FALSE}: only INFINITE
    Alertable,          \* the values of bAlertable that callers pass
    MaxApcs,            \* bound: APCs queued on one thread
    Suspended,          \* {TRUE}: threads are created with CREATE_SUSPENDED
    NoObject,           \* "no handle is being signalled"
    MessageQueue        \* stands for the message queue as a wake-up source

ASSUME SchedulerConstants ==
    /\ Main \in Threads
    /\ MaxSuspend \in Nat \ {0}
    /\ Priorities \subseteq Int /\ 0 \in Priorities
    /\ \A list \in AnyLists \cup AllLists :
         list \in Seq(Waitables) /\ list # <<>> /\ IsInjective(list)
    /\ Timed \subseteq BOOLEAN /\ Alertable \subseteq BOOLEAN
    /\ Suspended \subseteq BOOLEAN
    /\ MaxApcs \in Nat
    /\ {NoObject, MessageQueue} \cap (Waitables \cup {NoThread}) = {}
    /\ NoObject # MessageQueue

VARIABLES
    state,          \* thread -> ThreadState ("NEW": not created yet)
    suspendCount,
    priority,
    waitInfo,       \* thread -> what it waits for; NoWait unless WAITING
    context,        \* thread -> its saved CPU context ("none" = null)
    apcs,           \* thread -> number of APCs in its apcQueue
    alerted,        \* threads an APC took out of a wait (alertedWaitResults)
    timers,         \* threads with an armed SLEEP_TIMEOUT timer
    runQueue,       \* READY threads in FIFO order
    bootstrap,      \* bootstrapUntilFirstWait, in insertion order
    current,        \* currentThreadId
    waiters,        \* threads registered in handleWaiters, oldest first
    scanning,       \* the handle whose waiters are being visited
    unvisited,      \* the waiters of it that are still to be visited
    toWake,         \* handles whose waiters are visited after that
    pulsed,         \* the event to reset when the visit is over (PulseEvent)
    exiting         \* ExitProcess has been called

threadVars == <<state, suspendCount, priority, waitInfo, context, apcs, alerted, timers>>
queueVars == <<runQueue, bootstrap, current, waiters>>
wakeVars == <<scanning, unvisited, toWake, pulsed>>
vars == <<objectVars, threadVars, queueVars, wakeVars, exiting>>

States == {"NEW", "READY", "RUNNING", "WAITING", "SUSPENDED", "TERMINATED"}

\* A saved context by what it holds in EAX: the result of the wait that
\* ended, or whatever it held when the thread left the CPU ("saved").
WaitResults == {"object", "abandoned", "timeout", "slept", "message", "io"}
Contexts == {"none", "saved"} \cup WaitResults

NoWait == [reason |-> "none", handles |-> <<>>, all |-> FALSE,
           timed |-> FALSE, alertable |-> FALSE, message |-> FALSE]

WaitInfos ==
    {NoWait} \cup
    [reason : {"sleep", "message", "object"},
     handles : AnyLists \cup AllLists \cup {<<>>},
     all : BOOLEAN, timed : BOOLEAN, alertable : BOOLEAN, message : BOOLEAN]

Init ==
    /\ ObjectsInit
    /\ state = [t \in Threads |-> IF t = Main THEN "RUNNING" ELSE "NEW"]
    /\ suspendCount = [t \in Threads |-> 0]
    /\ priority = [t \in Threads |-> 0]
    /\ waitInfo = [t \in Threads |-> NoWait]
    /\ context = [t \in Threads |-> "none"]
    /\ apcs = [t \in Threads |-> 0]
    /\ alerted = {}
    /\ timers = {}
    /\ runQueue = <<>>
    /\ bootstrap = <<>>
    /\ current = Main
    /\ waiters = <<>>
    /\ scanning = NoObject
    /\ unvisited = {}
    /\ toWake = {}
    /\ pulsed = NoObject
    /\ exiting = FALSE

-----------------------------------------------------------------------------
Live(t) == state[t] \notin {"NEW", "TERMINATED"}
Exited == {t \in Threads : state[t] = "TERMINATED"}

\* No wake-up loop is under way: the JavaScript thread is free.
Quiet == scanning = NoObject

HostReady == Quiet /\ ~exiting

\* The current thread executes guest code, at a call into the kernel.  A
\* thread that an APC took out of a wait runs its APCs before anything else.
GuestReady ==
    /\ HostReady
    /\ state[current] = "RUNNING"
    /\ current \notin alerted

OtherRunnable(t) == \E u \in Threads \ {t} : state[u] \in {"READY", "RUNNING"}

\* Would the wait of t be satisfied by the objects as they are?
Satisfiable(t) ==
    /\ waitInfo[t].handles # <<>>
    /\ WaitReady(waitInfo[t].handles, waitInfo[t].all, t, Exited)

HandleWaiters(h) == {t \in ToSet(waiters) : h \in ToSet(waitInfo[t].handles)}

\* Begin the wake-up of the waiters of the handles hs: mutexes first, and a
\* handle nobody waits for is not visited.
StartWake(hs) ==
    LET busy == {h \in hs : HandleWaiters(h)' # {}}
    IN  IF busy = {}
        THEN scanning' = NoObject /\ unvisited' = {} /\ toWake' = {}
        ELSE \E h \in busy :
               /\ h \in Mutexes \/ busy \cap Mutexes = {}
               /\ scanning' = h
               /\ unvisited' = HandleWaiters(h)'
               /\ toWake' = busy \ {h}

\* The wait of t is over: its timer is cancelled, it is unregistered from the
\* handles it waited for, and nothing of it is left on the thread.
EndWaitKeepingTimer(t) ==       \* mutant
    /\ UNCHANGED timers
    /\ waiters' = Without(waiters, t)
    /\ waitInfo' = [waitInfo EXCEPT ![t] = NoWait]

EndWait(t) ==
    /\ timers' = timers \ {t}
    /\ waiters' = Without(waiters, t)
    /\ waitInfo' = [waitInfo EXCEPT ![t] = NoWait]

\* Where a thread goes whose wait is over: to the end of the run queue,
\* unless it is suspended, and then it stays off the queue.
LeaveWaitSuspendedToo(t) ==     \* mutant
    /\ state' = [state EXCEPT ![t] = "READY"]
    /\ runQueue' = Append(runQueue, t)

LeaveWaitToTheFront(t) ==       \* mutant
    IF suspendCount[t] > 0
    THEN /\ state' = [state EXCEPT ![t] = "SUSPENDED"]
         /\ UNCHANGED runQueue
    ELSE /\ state' = [state EXCEPT ![t] = "READY"]
         /\ runQueue' = <<t>> \o runQueue

LeaveWait(t) ==
    IF suspendCount[t] > 0
    THEN /\ state' = [state EXCEPT ![t] = "SUSPENDED"]
         /\ UNCHANGED runQueue
    ELSE /\ state' = [state EXCEPT ![t] = "READY"]
         /\ runQueue' = Append(runQueue, t)

\* wakeThread: the wait of t ends with result r.
Wake(t, r) ==
    /\ EndWait(t)
    /\ LeaveWait(t)
    /\ context' = [context EXCEPT ![t] = r]
    /\ UNCHANGED <<suspendCount, priority, bootstrap, current>>

\* blockThread, for the current thread.
Block(info) ==
    /\ state' = [state EXCEPT ![current] = "WAITING"]
    /\ waitInfo' = [waitInfo EXCEPT ![current] = info]
    /\ context' = [context EXCEPT ![current] = "saved"]
    /\ timers' = IF info.timed THEN timers \cup {current} ELSE timers
    /\ waiters' = IF info.reason = "object" THEN Append(waiters, current) ELSE waiters
    /\ bootstrap' = Without(bootstrap, current)
    /\ UNCHANGED <<suspendCount, priority, apcs, alerted, runQueue, current>>

-----------------------------------------------------------------------------
(* The wake-up loops.                                                      *)

\* The loop over the waiters of one handle ends once an auto-reset event
\* was taken: whoever waits for it too cannot have it any more.
EndsVisit(taken) == taken \cap AutoEvents # {}

\* A suspended waiter is passed over.
PassedOverNever(t) == ~Satisfiable(t)   \* mutant

PassedOver(t) == suspendCount[t] > 0 \/ ~Satisfiable(t)

\* One turn of the loop of wakeWaitingThreadsForHandle: a waiter
\* whose wait is satisfied takes what it waited for and is woken.
VisitWaiter(t) ==
    /\ scanning \in Waitables
    /\ t \in unvisited
    /\ \E i \in DOMAIN waiters :
         /\ waiters[i] = t
         /\ \A j \in 1..(i - 1) : waiters[j] \notin unvisited
    /\ \/ /\ PassedOver(t)
          /\ unvisited' = unvisited \ {t}
          /\ UNCHANGED <<objectVars, threadVars, queueVars>>
       \/ /\ ~PassedOver(t)
          /\ \E d \in Decisions(waitInfo[t].handles, waitInfo[t].all, t, Exited) :
               /\ Consume(d.take, t)
               /\ Wake(t, d.result)
               /\ unvisited' = IF EndsVisit(d.take) THEN {}
                               ELSE unvisited \ {t}
          /\ UNCHANGED <<apcs, alerted>>
    /\ UNCHANGED <<scanning, toWake, pulsed, exiting>>

\* The loop over one handle has ended: take the next handle, or return.
\* PulseEvent resets its event on the way out.
EndVisit ==
    /\ scanning \in Waitables
    /\ unvisited \cap ToSet(waiters) = {}
    /\ IF toWake = {}
       THEN scanning' = NoObject /\ unvisited' = {} /\ toWake' = {}
       ELSE \E h \in toWake :
              /\ h \in Mutexes \/ toWake \cap Mutexes = {}
              /\ scanning' = h
              /\ unvisited' = HandleWaiters(h)
              /\ toWake' = toWake \ {h}
    /\ IF toWake = {} /\ pulsed # NoObject
       THEN UnsignalEvent(pulsed) /\ pulsed' = NoObject
       ELSE UNCHANGED <<objectVars, pulsed>>
    /\ UNCHANGED <<threadVars, queueVars, exiting>>

IsMessageWaiter(t) ==
    state[t] = "WAITING" /\ (waitInfo[t].reason = "message" \/ waitInfo[t].message)

\* One turn of the loop of wakeMessageWaiters.  A wait for all its handles
\* and a message goes on while a handle is not ready; nothing is taken.
VisitMessageWaiter(t) ==
    /\ scanning = MessageQueue
    /\ t \in unvisited
    /\ unvisited' = unvisited \ {t}
    /\ scanning' = IF unvisited' = {} THEN NoObject ELSE MessageQueue
    /\ IF waitInfo[t].all /\ waitInfo[t].handles # <<>> /\ ~Satisfiable(t)
       THEN UNCHANGED <<threadVars, queueVars>>
       ELSE Wake(t, "message") /\ UNCHANGED <<apcs, alerted>>
    /\ UNCHANGED <<objectVars, toWake, pulsed, exiting>>

-----------------------------------------------------------------------------
(* Signals.  They come from guest calls and from the host alike.           *)

SetEvent(e) ==
    /\ HostReady
    /\ SignalEvent(e)
    /\ UNCHANGED <<threadVars, queueVars, pulsed, exiting>>
    /\ StartWake({e})

ResetEvent(e) ==
    /\ HostReady
    /\ UnsignalEvent(e)
    /\ UNCHANGED <<threadVars, queueVars, wakeVars, exiting>>

PulseEvent(e) ==
    /\ HostReady
    /\ UNCHANGED <<threadVars, queueVars, exiting>>
    /\ StartWake({e})
    /\ IF HandleWaiters(e) # {}
       THEN SignalEvent(e) /\ pulsed' = e
       ELSE UnsignalEvent(e) /\ UNCHANGED pulsed

ReleaseSemaphore(s, n) ==
    /\ HostReady
    /\ AddCount(s, n)
    /\ UNCHANGED <<threadVars, queueVars, pulsed, exiting>>
    /\ StartWake({s})

ReleaseMutex(m) ==
    /\ GuestReady
    /\ UnlockMutex(m, current)
    /\ UNCHANGED <<threadVars, queueVars, pulsed, exiting>>
    /\ StartWake({m})

-----------------------------------------------------------------------------
(* Waits of the current thread.                                            *)

\* An alertable call that finds APCs queued runs them and returns
\* WAIT_IO_COMPLETION instead of blocking.
RunQueuedApcs ==
    /\ apcs' = [apcs EXCEPT ![current] = 0]
    /\ UNCHANGED <<objectVars, state, suspendCount, priority, waitInfo, context,
                   alerted, timers, queueVars>>

\* waitForObjectsWithContext and, with message, the MsgWait form of it.  A
\* wait with a zero timeout that is not satisfied changes nothing and is
\* left out.  MaxRecursion bounds what the wait may add to a mutex.
WaitForObjects(handles, all, timed, alertable, message) ==
    /\ GuestReady
    /\ \A m \in Mutexes \cap ToSet(handles) :
         owner[m] = current => recursion[m] < MaxRecursion
    /\ \/ /\ handles # <<>>
          /\ WaitReady(handles, all, current, Exited)
          /\ \E d \in Decisions(handles, all, current, Exited) : Consume(d.take, current)
          /\ UNCHANGED <<threadVars, queueVars>>
       \/ /\ handles = <<>> \/ ~WaitReady(handles, all, current, Exited)
          /\ IF alertable /\ apcs[current] > 0
             THEN RunQueuedApcs
             ELSE /\ Block([reason |-> IF handles = <<>> THEN "message" ELSE "object",
                            handles |-> handles, all |-> all, timed |-> timed,
                            alertable |-> alertable, message |-> message])
                  /\ UNCHANGED objectVars
    /\ UNCHANGED <<wakeVars, exiting>>

\* Sleep(0) gives up the CPU only when somebody else can use it.
Yield ==
    /\ GuestReady
    /\ OtherRunnable(current)
    /\ state' = [state EXCEPT ![current] = "READY"]
    /\ context' = [context EXCEPT ![current] = "saved"]
    /\ runQueue' = Append(runQueue, current)
    /\ UNCHANGED <<objectVars, suspendCount, priority, waitInfo, apcs, alerted,
                   timers, bootstrap, current, waiters, wakeVars, exiting>>

Sleep(timed, alertable) ==
    /\ GuestReady
    /\ IF alertable /\ apcs[current] > 0
       THEN RunQueuedApcs
       ELSE /\ Block([reason |-> "sleep", handles |-> <<>>, all |-> FALSE, timed |-> timed,
                      alertable |-> alertable, message |-> FALSE])
            /\ UNCHANGED objectVars
    /\ UNCHANGED <<wakeVars, exiting>>

-----------------------------------------------------------------------------
(* Other ways out of a wait.                                               *)

\* The callback of a timer only asks whether the thread still waits.
StillWaitsUnsuspended(t) == state[t] = "WAITING" /\ suspendCount[t] = 0   \* mutant

StillWaits(t) == state[t] = "WAITING"

\* A timeout timer fires; its callback wakes the thread if it still waits.
TimeoutFires(t) ==
    /\ HostReady
    /\ t \in timers
    /\ IF StillWaits(t)
       THEN Wake(t, IF waitInfo[t].reason = "sleep" THEN "slept" ELSE "timeout")
       ELSE /\ timers' = timers \ {t}
            /\ UNCHANGED <<state, suspendCount, priority, waitInfo, context, queueVars>>
    /\ UNCHANGED <<objectVars, apcs, alerted, wakeVars, exiting>>

\* wakeMessageWaiters, for one thread or for all of them.
PostMessage(targets) ==
    LET woken == {t \in targets : IsMessageWaiter(t)}
    IN  /\ HostReady
        /\ woken # {}
        /\ scanning' = MessageQueue
        /\ unvisited' = woken
        /\ UNCHANGED <<objectVars, threadVars, queueVars, toWake, pulsed, exiting>>

\* An APC for a thread in an alertable wait ends the wait at once.
TakesApcUnsuspended(t) ==   \* mutant
    /\ state[t] = "WAITING" /\ waitInfo[t].alertable /\ context[t] # "none"
    /\ suspendCount[t] = 0

TakesApc(t) == state[t] = "WAITING" /\ waitInfo[t].alertable /\ context[t] # "none"

QueueApc(t) ==
    /\ HostReady
    /\ Live(t)
    /\ apcs[t] < MaxApcs
    /\ apcs' = [apcs EXCEPT ![t] = @ + 1]
    /\ IF TakesApc(t)
       THEN Wake(t, "io") /\ alerted' = alerted \cup {t}
       ELSE UNCHANGED <<state, suspendCount, priority, waitInfo, context, alerted,
                        timers, queueVars>>
    /\ UNCHANGED <<objectVars, wakeVars, exiting>>

\* The thread is back on the CPU and runs the APCs that ended its wait.
DispatchAlertedApcs ==
    /\ HostReady
    /\ state[current] = "RUNNING"
    /\ current \in alerted
    /\ alerted' = alerted \ {current}
    /\ apcs' = [apcs EXCEPT ![current] = 0]
    /\ UNCHANGED <<objectVars, state, suspendCount, priority, waitInfo, context,
                   timers, queueVars, wakeVars, exiting>>

-----------------------------------------------------------------------------
(* Suspension.                                                             *)

MaySuspendOnceMore(t) == suspendCount[t] <= MaxSuspend    \* mutant

MaySuspend(t) == suspendCount[t] < MaxSuspend

Stop(t) ==
    /\ state' = [state EXCEPT ![t] = "SUSPENDED"]
    /\ runQueue' = Without(runQueue, t)

\* A waiting thread stays WAITING: its wait goes on underneath.
SuspendThread(t) ==
    /\ GuestReady
    /\ Live(t)
    /\ MaySuspend(t)
    /\ suspendCount' = [suspendCount EXCEPT ![t] = @ + 1]
    /\ IF state[t] \in {"READY", "RUNNING"}
       THEN Stop(t)
       ELSE UNCHANGED <<state, runQueue>>
    /\ UNCHANGED <<objectVars, priority, waitInfo, context, apcs, alerted, timers,
                   bootstrap, current, waiters, wakeVars, exiting>>

\* The signals that passed over a suspended thread may still be there when
\* it is resumed: it looks at the objects again.
ReevaluateNothing(t) ==     \* mutant
    UNCHANGED <<objectVars, state, waitInfo, context, timers, runQueue, waiters>>

ReevaluateWait(t) ==
    IF Satisfiable(t)
    THEN /\ \E d \in Decisions(waitInfo[t].handles, waitInfo[t].all, t, Exited) :
              /\ Consume(d.take, t)
              /\ context' = [context EXCEPT ![t] = d.result]
         /\ EndWait(t)
         /\ state' = [state EXCEPT ![t] = "READY"]
         /\ runQueue' = Append(runQueue, t)
    ELSE UNCHANGED <<objectVars, state, waitInfo, context, timers, runQueue, waiters>>

\* The last resume puts a stopped thread back into the run queue.
ResumeThread(t) ==
    /\ GuestReady
    /\ suspendCount[t] > 0
    /\ suspendCount' = [suspendCount EXCEPT ![t] = @ - 1]
    /\ CASE suspendCount[t] = 1 /\ state[t] = "WAITING" -> ReevaluateWait(t)
         [] suspendCount[t] = 1 /\ state[t] = "SUSPENDED" ->
              /\ state' = [state EXCEPT ![t] = "READY"]
              /\ runQueue' = Append(runQueue, t)
              /\ UNCHANGED <<objectVars, waitInfo, context, timers, waiters>>
         [] OTHER ->
              UNCHANGED <<objectVars, state, waitInfo, context, timers, runQueue, waiters>>
    /\ UNCHANGED <<priority, apcs, alerted, bootstrap, current, wakeVars, exiting>>

SetThreadPriority(t, p) ==
    /\ GuestReady
    /\ Live(t)
    /\ priority' = [priority EXCEPT ![t] = p]
    /\ UNCHANGED <<objectVars, state, suspendCount, waitInfo, context, apcs, alerted,
                   timers, queueVars, wakeVars, exiting>>

-----------------------------------------------------------------------------
(* Creation and termination.                                               *)

\* A new thread goes to the front of the run queue and keeps precedence
\* until it first blocks; created suspended it does neither.
CreateThread(t, suspended) ==
    /\ GuestReady
    /\ state[t] = "NEW"
    /\ context' = [context EXCEPT ![t] = "saved"]
    /\ IF suspended
       THEN /\ state' = [state EXCEPT ![t] = "SUSPENDED"]
            /\ suspendCount' = [suspendCount EXCEPT ![t] = 1]
            /\ UNCHANGED <<runQueue, bootstrap>>
       ELSE /\ state' = [state EXCEPT ![t] = "READY"]
            /\ runQueue' = <<t>> \o runQueue
            /\ bootstrap' = Append(bootstrap, t)
            /\ UNCHANGED suspendCount
    /\ UNCHANGED <<objectVars, priority, waitInfo, apcs, alerted, timers, current,
                   waiters, wakeVars, exiting>>

\* What the death of a thread signals: the mutexes it owns, and its handle.
SignalledByTheHandleOnly(t) == {t}     \* mutant
SignalledByDeath(t) == OwnedBy(t) \cup {t}

\* terminateThread.  A timeout timer of the thread is left armed.
Terminate(t) ==
    /\ Live(t)
    /\ state' = [state EXCEPT ![t] = "TERMINATED"]
    /\ waiters' = Without(waiters, t)
    /\ waitInfo' = [waitInfo EXCEPT ![t] = NoWait]
    /\ context' = [context EXCEPT ![t] = "none"]
    /\ apcs' = [apcs EXCEPT ![t] = 0]
    /\ alerted' = alerted \ {t}
    /\ runQueue' = Without(runQueue, t)
    /\ AbandonMutexes(t)
    /\ StartWake(SignalledByDeath(t))
    /\ UNCHANGED <<suspendCount, priority, timers, bootstrap, current, pulsed>>

\* ExitThread, TerminateThread, and the fault paths that end one thread.
TerminateThread(t) == GuestReady /\ Terminate(t) /\ UNCHANGED exiting

\* ExitProcess: every thread is terminated before anything else happens.
ExitProcess ==
    /\ GuestReady
    /\ exiting' = TRUE
    /\ UNCHANGED <<objectVars, threadVars, queueVars, wakeVars>>

TerminateNextOnCpu(t) ==    \* mutant
    Quiet /\ exiting /\ state[t] # "SUSPENDED" /\ Terminate(t) /\ UNCHANGED exiting

TerminateNext(t) == Quiet /\ exiting /\ Terminate(t) /\ UNCHANGED exiting

-----------------------------------------------------------------------------
(* The context switch.                                                     *)

\* pickNextRunnable: a bootstrap thread, else the highest priority and of
\* those the oldest; the excluded thread only when there is no other.
Pick(states, queue, excluded) ==
    LET runnable(t) == states[t] = "READY" /\ suspendCount[t] = 0
        eligible(t) == runnable(t) /\ t # excluded
        boot == {i \in DOMAIN bootstrap : eligible(bootstrap[i])}
        others == {i \in DOMAIN queue : eligible(queue[i])}
        best == {i \in others : \A j \in others :
                    \/ priority[queue[j]] < priority[queue[i]]
                    \/ priority[queue[j]] = priority[queue[i]] /\ i <= j}
    IN  CASE boot # {} -> {bootstrap[i] : i \in {k \in boot : \A j \in boot : k <= j}}
          [] boot = {} /\ others # {} -> {queue[i] : i \in best}
          [] OTHER -> {queue[i] : i \in {j \in DOMAIN queue : runnable(queue[j])}}

\* The current thread suspended itself since it was last switched to.
SelfSuspendedNever == FALSE \* mutant

SelfSuspended == state[current] = "SUSPENDED" /\ context[current] = "none"

\* performSwitch.  The context of the current thread is saved when it is
\* still RUNNING, and when it suspended itself since.
PerformSwitch ==
    LET preempted == state[current] = "RUNNING"
        states == IF preempted THEN [state EXCEPT ![current] = "READY"] ELSE state
        queue == IF preempted THEN Append(runQueue, current) ELSE runQueue
        contexts == IF preempted \/ SelfSuspended
                    THEN [context EXCEPT ![current] = "saved"] ELSE context
    IN  /\ HostReady
        /\ runQueue # <<>> \/ SelfSuspended
        /\ \/ \E next \in Pick(states, queue, current) :
                /\ contexts[next] # "none"
                /\ state' = [states EXCEPT ![next] = "RUNNING"]
                /\ context' = [contexts EXCEPT ![next] = "none"]
                /\ runQueue' = Without(queue, next)
                /\ current' = next
           \/ /\ Pick(states, queue, current) = {}
              /\ context' = contexts
              /\ UNCHANGED <<state, runQueue, current>>
        /\ UNCHANGED <<objectVars, suspendCount, priority, waitInfo, apcs, alerted,
                       timers, bootstrap, waiters, wakeVars, exiting>>

-----------------------------------------------------------------------------
WakeStep ==
    \/ \E t \in Threads : VisitWaiter(t) \/ VisitMessageWaiter(t)
    \/ EndVisit

SignalStep ==
    \/ \E e \in Events : SetEvent(e) \/ ResetEvent(e) \/ PulseEvent(e)
    \/ \E s \in Semaphores, n \in 1..MaxCount : ReleaseSemaphore(s, n)
    \/ \E m \in Mutexes : ReleaseMutex(m)

WaitStep ==
    \/ \E list \in AnyLists, timed \in Timed, alertable \in Alertable, message \in BOOLEAN :
         WaitForObjects(list, FALSE, timed, alertable, message)
    \/ \E list \in AllLists, timed \in Timed, alertable \in Alertable, message \in BOOLEAN :
         WaitForObjects(list, TRUE, timed, alertable, message)
    \/ \E timed \in Timed, alertable \in Alertable :
         WaitForObjects(<<>>, FALSE, timed, alertable, TRUE)
    \/ \E timed \in Timed, alertable \in Alertable : Sleep(timed, alertable)
    \/ Yield

ThreadStep ==
    \/ \E t \in Threads :
         \/ TimeoutFires(t) \/ QueueApc(t) \/ PostMessage({t})
         \/ SuspendThread(t) \/ ResumeThread(t)
         \/ \E suspended \in Suspended : CreateThread(t, suspended)
         \/ TerminateThread(t) \/ TerminateNext(t)
         \/ \E p \in Priorities : SetThreadPriority(t, p)
    \/ PostMessage(Threads)
    \/ DispatchAlertedApcs
    \/ ExitProcess

Next == WakeStep \/ SignalStep \/ WaitStep \/ ThreadStep \/ PerformSwitch

Spec == Init /\ [][Next]_vars
=============================================================================
