--------------------------- MODULE SchedulerProofs ---------------------------
(***************************************************************************)
(* Proofs about the scheduler for every number of threads, objects and     *)
(* handle arrays.  The thread records and their queues keep an invariant   *)
(* of their own (ThreadInv), whatever the objects do.                      *)
(***************************************************************************)
EXTENDS SchedulerProperties, ThreadQueueLemmas

-----------------------------------------------------------------------------
(* The invariant of the threads and their queues.                          *)

\* Ending the wait of a thread (wakeThread) keeps it, suspended or not.
LEMMA WakeKeepsThreads ==
    ASSUME ThreadInv, NEW t \in Threads, state[t] = "WAITING",
           NEW r \in WaitResults, Wake(t, r),
           apcs' \in [Threads -> 0..MaxApcs], alerted' \subseteq Threads
    PROVE  ThreadInv'
<1> USE DEF ThreadInv
<1>1. /\ waiters' \in Seq(Threads)
      /\ ToSet(waiters') = ToSet(waiters) \ {t}
      /\ IsInjective(waiters')
  BY WithoutSet DEF ThreadsTypeOK, WaitersExact, Wake, EndWait
<1>2. t \notin ToSet(runQueue)
  BY DEF RunQueueExact
<1>3. /\ state' \in [Threads -> States]
      /\ \A u \in Threads : u # t => state'[u] = state[u]
      /\ \/ suspendCount[t] > 0 /\ state'[t] = "SUSPENDED" /\ runQueue' = runQueue
         \/ suspendCount[t] = 0 /\ state'[t] = "READY" /\ runQueue' = Append(runQueue, t)
  <2>1. CASE suspendCount[t] > 0
    BY <2>1 DEF ThreadsTypeOK, Wake, LeaveWait, States
  <2>2. CASE ~(suspendCount[t] > 0)
    <3>1. suspendCount[t] = 0
      BY <2>2, SchedulerConstants DEF ThreadsTypeOK
    <3> QED BY <2>2, <3>1 DEF ThreadsTypeOK, Wake, LeaveWait, States
  <2> QED BY <2>1, <2>2
<1>4. /\ Append(runQueue, t) \in Seq(Threads)
      /\ ToSet(Append(runQueue, t)) = ToSet(runQueue) \cup {t}
      /\ IsInjective(Append(runQueue, t))
  BY <1>2, AppendSet DEF ThreadsTypeOK, RunQueueExact
<1>5. ThreadsTypeOK'
  BY <1>1, <1>3, <1>4 DEF ThreadsTypeOK, Wake, EndWait, WaitInfos, Contexts
<1>6. WaitersExact'
  BY <1>1, <1>3 DEF ThreadsTypeOK, WaitersExact, Wake, EndWait, NoWait
<1>7. RunQueueExact'
  BY <1>3, <1>4 DEF RunQueueExact
<1>8. SuspendedOffCpu' /\ NewUnsuspended'
  BY <1>3 DEF SuspendedOffCpu, NewUnsuspended, Wake
<1> QED BY <1>5, <1>6, <1>7, <1>8

\* The current thread blocks (blockThread): it leaves the CPU, registers
\* with the objects it waits for, and loses its bootstrap precedence.
LEMMA BlockKeepsThreads ==
    ASSUME ThreadInv, state[current] = "RUNNING",
           NEW info \in WaitInfos, info.reason # "none", Block(info)
    PROVE  ThreadInv'
<1> USE DEF ThreadInv
<1>1. bootstrap' \in Seq(Threads)
  BY WithoutSet DEF ThreadsTypeOK, Block
<1>2. current \notin ToSet(waiters) /\ current \notin ToSet(runQueue)
  <2>1. waitInfo[current] = NoWait
    BY DEF ThreadsTypeOK, WaitersExact
  <2>2. waitInfo[current].reason # "object"
    BY <2>1 DEF NoWait
  <2> QED BY <2>2 DEF WaitersExact, RunQueueExact
<1>3. /\ Append(waiters, current) \in Seq(Threads)
      /\ ToSet(Append(waiters, current)) = ToSet(waiters) \cup {current}
      /\ IsInjective(Append(waiters, current))
  BY <1>2, AppendSet DEF ThreadsTypeOK, WaitersExact
<1>4. ThreadsTypeOK'
  BY <1>1, <1>3 DEF ThreadsTypeOK, Block, States, Contexts
<1>5. WaitersExact'
  BY <1>3 DEF ThreadsTypeOK, WaitersExact, Block, NoWait
<1>6. RunQueueExact'
  BY <1>2 DEF ThreadsTypeOK, RunQueueExact, Block
<1>7. SuspendedOffCpu' /\ NewUnsuspended'
  BY DEF ThreadsTypeOK, SuspendedOffCpu, NewUnsuspended, Block
<1> QED BY <1>4, <1>5, <1>6, <1>7

\* Sleep(0) puts the current thread at the end of the run queue.
LEMMA YieldKeepsThreads ==
    ASSUME ThreadInv, Yield
    PROVE  ThreadInv'
<1> USE DEF ThreadInv
<1>1. state[current] = "RUNNING" /\ current \in Threads
  BY DEF Yield, GuestReady, ThreadsTypeOK
<1>2. current \notin ToSet(runQueue)
  BY <1>1 DEF RunQueueExact
<1>3. /\ Append(runQueue, current) \in Seq(Threads)
      /\ ToSet(Append(runQueue, current)) = ToSet(runQueue) \cup {current}
      /\ IsInjective(Append(runQueue, current))
  BY <1>1, <1>2, AppendSet DEF ThreadsTypeOK, RunQueueExact
<1>4. ThreadsTypeOK'
  BY <1>3 DEF ThreadsTypeOK, Yield, States, Contexts
<1>5. WaitersExact'
  BY <1>1 DEF ThreadsTypeOK, WaitersExact, Yield
<1>6. RunQueueExact'
  BY <1>1, <1>3 DEF ThreadsTypeOK, RunQueueExact, Yield
<1>7. SuspendedOffCpu' /\ NewUnsuspended'
  BY <1>1 DEF ThreadsTypeOK, SuspendedOffCpu, NewUnsuspended, Yield
<1> QED BY <1>4, <1>5, <1>6, <1>7

\* Suspension takes a thread off the run queue, or leaves its wait alone.
LEMMA SuspendKeepsThreads ==
    ASSUME ThreadInv, NEW t \in Threads, SuspendThread(t)
    PROVE  ThreadInv'
<1> USE DEF ThreadInv
<1>1. suspendCount[t] + 1 \in 0..MaxSuspend
  BY SchedulerConstants DEF ThreadsTypeOK, SuspendThread, MaySuspend
<1>2. CASE state[t] \in {"READY", "RUNNING"}
  <2>1. /\ runQueue' \in Seq(Threads)
        /\ ToSet(runQueue') = ToSet(runQueue) \ {t}
        /\ IsInjective(runQueue')
    BY <1>2, WithoutSet DEF ThreadsTypeOK, RunQueueExact, SuspendThread, Stop
  <2>2. ThreadsTypeOK'
    BY <1>1, <1>2, <2>1 DEF ThreadsTypeOK, SuspendThread, Stop, States
  <2>3. WaitersExact'
    BY <1>2 DEF ThreadsTypeOK, WaitersExact, SuspendThread, Stop
  <2>4. RunQueueExact'
    BY <1>2, <2>1 DEF ThreadsTypeOK, RunQueueExact, SuspendThread, Stop
  <2>5. SuspendedOffCpu' /\ NewUnsuspended'
    BY <1>1, <1>2, SchedulerConstants, SMTT(20)
       DEF ThreadsTypeOK, SuspendedOffCpu, NewUnsuspended, SuspendThread, Stop
  <2> QED BY <2>2, <2>3, <2>4, <2>5
<1>3. CASE state[t] \notin {"READY", "RUNNING"}
  <2>1. UNCHANGED <<state, runQueue, waiters, waitInfo, current>>
    BY <1>3 DEF SuspendThread
  <2>2. ThreadsTypeOK'
    BY <1>1, <2>1 DEF ThreadsTypeOK, SuspendThread
  <2>3. WaitersExact' /\ RunQueueExact'
    BY <2>1 DEF WaitersExact, RunQueueExact
  <2>4. SuspendedOffCpu' /\ NewUnsuspended'
    BY <1>1, <1>3, <2>1, SchedulerConstants
       DEF ThreadsTypeOK, SuspendedOffCpu, NewUnsuspended, SuspendThread, Live
  <2> QED BY <2>2, <2>3, <2>4
<1> QED BY <1>2, <1>3

\* The last resume makes a thread READY whose wait is over, and only then.
LEMMA ResumeKeepsThreads ==
    ASSUME ThreadInv, NEW t \in Threads, ResumeThread(t)
    PROVE  ThreadInv'
<1> USE DEF ThreadInv
<1> DEFINE Queued == /\ state' = [state EXCEPT ![t] = "READY"]
                     /\ runQueue' = Append(runQueue, t)
<1>1. suspendCount[t] - 1 \in 0..MaxSuspend
  <2>1. suspendCount[t] \in 0..MaxSuspend /\ suspendCount[t] > 0
    BY DEF ThreadsTypeOK, ResumeThread
  <2> QED BY <2>1, SchedulerConstants
<1>2. /\ suspendCount' = [suspendCount EXCEPT ![t] = @ - 1]
      /\ UNCHANGED <<priority, apcs, alerted, bootstrap, current>>
      /\ suspendCount[t] > 0
  BY DEF ResumeThread
<1>3. \/ /\ UNCHANGED <<state, waitInfo, context, timers, runQueue, waiters>>
         /\ ~(suspendCount[t] = 1 /\ state[t] = "SUSPENDED")
      \/ /\ suspendCount[t] = 1 /\ state[t] = "SUSPENDED" /\ Queued
         /\ UNCHANGED <<waitInfo, context, timers, waiters>>
      \/ /\ suspendCount[t] = 1 /\ state[t] = "WAITING" /\ Queued /\ EndWait(t)
         /\ \E r \in {"object", "abandoned"} : context' = [context EXCEPT ![t] = r]
  <2>1. CASE suspendCount[t] = 1 /\ state[t] = "WAITING"
    <3>1. ReevaluateWait(t)
      BY <2>1 DEF ResumeThread
    <3>2. \A d \in Decisions(waitInfo[t].handles, waitInfo[t].all, t, Exited) :
             d.result \in {"object", "abandoned"}
      BY DEF Decisions, Decision
    <3> QED BY <2>1, <3>1, <3>2 DEF ReevaluateWait
  <2>2. CASE suspendCount[t] = 1 /\ state[t] = "SUSPENDED"
    BY <2>2 DEF ResumeThread
  <2>3. CASE ~(suspendCount[t] = 1 /\ state[t] \in {"WAITING", "SUSPENDED"})
    BY <2>3 DEF ResumeThread
  <2> QED BY <2>1, <2>2, <2>3
<1>4. CASE /\ UNCHANGED <<state, waitInfo, context, timers, runQueue, waiters>>
           /\ ~(suspendCount[t] = 1 /\ state[t] = "SUSPENDED")
  <2>1. ThreadsTypeOK' /\ WaitersExact' /\ RunQueueExact'
    BY <1>1, <1>2, <1>4 DEF ThreadsTypeOK, WaitersExact, RunQueueExact
  <2>2. SuspendedOffCpu' /\ NewUnsuspended'
    BY <1>1, <1>2, <1>4 DEF ThreadsTypeOK, SuspendedOffCpu, NewUnsuspended
  <2> QED BY <2>1, <2>2
<1>5. ASSUME Queued, state[t] \in {"WAITING", "SUSPENDED"}
      PROVE  /\ runQueue' \in Seq(Threads)
             /\ ToSet(runQueue') = ToSet(runQueue) \cup {t}
             /\ IsInjective(runQueue')
  <2>1. t \notin ToSet(runQueue)
    BY <1>5 DEF RunQueueExact
  <2> QED BY <1>5, <2>1, AppendSet DEF ThreadsTypeOK, RunQueueExact
<1>6. CASE /\ suspendCount[t] = 1 /\ state[t] = "SUSPENDED" /\ Queued
           /\ UNCHANGED <<waitInfo, context, timers, waiters>>
  <2>1. ThreadsTypeOK'
    BY <1>1, <1>2, <1>5, <1>6 DEF ThreadsTypeOK, States
  <2>2. WaitersExact'
    BY <1>6 DEF ThreadsTypeOK, WaitersExact
  <2>3. RunQueueExact'
    BY <1>5, <1>6 DEF ThreadsTypeOK, RunQueueExact
  <2>4. SuspendedOffCpu' /\ NewUnsuspended'
    BY <1>2, <1>6 DEF ThreadsTypeOK, SuspendedOffCpu, NewUnsuspended
  <2> QED BY <2>1, <2>2, <2>3, <2>4
<1>7. CASE /\ suspendCount[t] = 1 /\ state[t] = "WAITING" /\ Queued /\ EndWait(t)
           /\ \E r \in {"object", "abandoned"} : context' = [context EXCEPT ![t] = r]
  <2>1. /\ waiters' \in Seq(Threads)
        /\ ToSet(waiters') = ToSet(waiters) \ {t}
        /\ IsInjective(waiters')
    BY <1>7, WithoutSet DEF ThreadsTypeOK, WaitersExact, EndWait
  <2>2. ThreadsTypeOK'
    <3>1. context' \in [Threads -> Contexts]
      BY <1>7 DEF ThreadsTypeOK, Contexts, WaitResults
    <3> QED BY <1>1, <1>2, <1>5, <1>7, <2>1, <3>1
            DEF ThreadsTypeOK, EndWait, WaitInfos, States
  <2>3. WaitersExact'
    BY <1>7, <2>1 DEF ThreadsTypeOK, WaitersExact, EndWait, NoWait
  <2>4. RunQueueExact'
    BY <1>5, <1>7 DEF ThreadsTypeOK, RunQueueExact
  <2>5. SuspendedOffCpu' /\ NewUnsuspended'
    BY <1>2, <1>7 DEF ThreadsTypeOK, SuspendedOffCpu, NewUnsuspended
  <2> QED BY <2>2, <2>3, <2>4, <2>5
<1> QED BY <1>3, <1>4, <1>6, <1>7

\* A thread is created READY at the front of the run queue, or SUSPENDED.
LEMMA CreateKeepsThreads ==
    ASSUME ThreadInv, NEW t \in Threads, NEW suspended \in BOOLEAN, CreateThread(t, suspended)
    PROVE  ThreadInv'
<1> USE DEF ThreadInv
<1>1. state[t] = "NEW" /\ suspendCount[t] = 0
  BY DEF CreateThread, NewUnsuspended
<1>2. t \notin ToSet(runQueue)
  BY <1>1 DEF RunQueueExact
<1>3. 1 \in 0..MaxSuspend
  BY SchedulerConstants
<1>4. CASE suspended
  <2>1. ThreadsTypeOK'
    BY <1>3, <1>4 DEF ThreadsTypeOK, CreateThread, States, Contexts
  <2>2. WaitersExact' /\ RunQueueExact'
    BY <1>1, <1>4 DEF ThreadsTypeOK, WaitersExact, RunQueueExact, CreateThread
  <2>3. SuspendedOffCpu' /\ NewUnsuspended'
    <3>1. /\ \A u \in Threads : state'[u] = IF u = t THEN "SUSPENDED" ELSE state[u]
          /\ \A u \in Threads : suspendCount'[u] = IF u = t THEN 1 ELSE suspendCount[u]
          /\ current' = current
      BY <1>4 DEF ThreadsTypeOK, CreateThread
    <3> QED BY <3>1 DEF SuspendedOffCpu, NewUnsuspended
  <2> QED BY <2>1, <2>2, <2>3
<1>5. CASE ~suspended
  <2>1. /\ context' = [context EXCEPT ![t] = "saved"]
        /\ state' = [state EXCEPT ![t] = "READY"]
        /\ runQueue' = <<t>> \o runQueue
        /\ bootstrap' = Append(bootstrap, t)
        /\ UNCHANGED <<suspendCount, priority, waitInfo, apcs, alerted, timers, current, waiters>>
    BY <1>5 DEF CreateThread
  <2>2. /\ <<t>> \o runQueue \in Seq(Threads)
        /\ ToSet(<<t>> \o runQueue) = ToSet(runQueue) \cup {t}
        /\ IsInjective(<<t>> \o runQueue)
    <3>1. runQueue \in Seq(Threads) /\ IsInjective(runQueue)
      BY DEF ThreadsTypeOK, RunQueueExact
    <3> QED BY <1>2, <3>1, FrontSet
  <2>3. bootstrap' \in Seq(Threads)
    BY <2>1 DEF ThreadsTypeOK
  <2>4. runQueue' \in Seq(Threads)
    BY <2>1, <2>2
  <2>5. /\ \A u \in Threads : state'[u] = IF u = t THEN "READY" ELSE state[u]
        /\ state' \in [Threads -> States] /\ context' \in [Threads -> Contexts]
    BY <2>1 DEF ThreadsTypeOK, States, Contexts
  <2>6. ThreadsTypeOK'
    BY <2>1, <2>3, <2>4, <2>5 DEF ThreadsTypeOK
  <2>7. WaitersExact'
    BY <1>1, <2>1, <2>5 DEF WaitersExact
  <2>8. RunQueueExact'
    BY <2>1, <2>2, <2>5 DEF RunQueueExact
  <2>9. SuspendedOffCpu' /\ NewUnsuspended'
    BY <1>1, <2>1, <2>5 DEF SuspendedOffCpu, NewUnsuspended
  <2> QED BY <2>6, <2>7, <2>8, <2>9
<1> QED BY <1>4, <1>5

\* A thread that dies leaves every queue and every wait (terminateThread).
LEMMA TerminateKeepsThreads ==
    ASSUME ThreadInv, NEW t \in Threads, Terminate(t)
    PROVE  ThreadInv'
<1> USE DEF ThreadInv
<1>1. /\ runQueue' \in Seq(Threads)
      /\ ToSet(runQueue') = ToSet(runQueue) \ {t}
      /\ IsInjective(runQueue')
  BY WithoutSet DEF ThreadsTypeOK, RunQueueExact, Terminate
<1>2. /\ waiters' \in Seq(Threads)
      /\ ToSet(waiters') = ToSet(waiters) \ {t}
      /\ IsInjective(waiters')
  BY WithoutSet DEF ThreadsTypeOK, WaitersExact, Terminate
<1>3. ThreadsTypeOK'
  BY <1>1, <1>2, SchedulerConstants, SMTT(20)
     DEF ThreadsTypeOK, Terminate, WaitInfos, States, Contexts
<1>4. WaitersExact'
  BY <1>2 DEF ThreadsTypeOK, WaitersExact, Terminate, NoWait
<1>5. RunQueueExact'
  BY <1>1 DEF ThreadsTypeOK, RunQueueExact, Terminate
<1>6. SuspendedOffCpu' /\ NewUnsuspended'
  BY DEF ThreadsTypeOK, SuspendedOffCpu, NewUnsuspended, Terminate
<1> QED BY <1>3, <1>4, <1>5, <1>6

\* pickNextRunnable returns READY threads that are not suspended.
LEMMA PickReady ==
    ASSUME ThreadsTypeOK, NEW states, NEW queue \in Seq(Threads), NEW excluded,
           NEW next \in Pick(states, queue, excluded)
    PROVE  next \in Threads /\ states[next] = "READY" /\ suspendCount[next] = 0
<1>1. (\E i \in DOMAIN bootstrap : next = bootstrap[i]) \/ (\E i \in DOMAIN queue : next = queue[i])
  BY DEF Pick
<1>2. next \in Threads
  BY <1>1 DEF ThreadsTypeOK
<1> QED BY <1>2 DEF Pick

\* A context switch moves the current thread back to the queue, unless it
\* has left it already, and one READY thread out of it (performSwitch).
LEMMA SwitchKeepsThreads ==
    ASSUME ThreadInv, PerformSwitch
    PROVE  ThreadInv'
<1> USE DEF ThreadInv
<1> DEFINE preempted == state[current] = "RUNNING"
           states == IF preempted THEN [state EXCEPT ![current] = "READY"] ELSE state
           queue == IF preempted THEN Append(runQueue, current) ELSE runQueue
           contexts == IF preempted \/ SelfSuspended
                       THEN [context EXCEPT ![current] = "saved"] ELSE context
<1>1. /\ current \in Threads
      /\ states \in [Threads -> States]
      /\ contexts \in [Threads -> Contexts]
  BY DEF ThreadsTypeOK, States, Contexts
<1>2. /\ queue \in Seq(Threads)
      /\ ToSet(queue) = {t \in Threads : states[t] = "READY"}
      /\ IsInjective(queue)
  <2>1. CASE preempted
    <3>1. current \notin ToSet(runQueue)
      BY <2>1 DEF RunQueueExact
    <3>2. /\ queue \in Seq(Threads)
          /\ ToSet(queue) = ToSet(runQueue) \cup {current}
          /\ IsInjective(queue)
      BY <1>1, <2>1, <3>1, AppendSet DEF ThreadsTypeOK, RunQueueExact
    <3>3. \A t \in Threads : states[t] = IF t = current THEN "READY" ELSE state[t]
      BY <1>1, <2>1 DEF ThreadsTypeOK
    <3> QED BY <1>1, <3>2, <3>3 DEF RunQueueExact
  <2>2. CASE ~preempted
    BY <2>2 DEF ThreadsTypeOK, RunQueueExact
  <2> QED BY <2>1, <2>2
<1>3. /\ \A t \in Threads : states[t] # "RUNNING"
      /\ \A t \in Threads : states[t] = "READY" => suspendCount[t] = 0
      /\ \A t \in Threads : states[t] = "SUSPENDED" => suspendCount[t] > 0
      /\ \A t \in Threads : states[t] = "NEW" => suspendCount[t] = 0
      /\ \A t \in Threads : states[t] = "WAITING" <=> state[t] = "WAITING"
  BY <1>1 DEF ThreadsTypeOK, SuspendedOffCpu, NewUnsuspended
<1>4. UNCHANGED <<suspendCount, priority, waitInfo, apcs, alerted, timers, bootstrap, waiters>>
  BY DEF PerformSwitch
<1>5. CASE UNCHANGED <<state, runQueue, current>> /\ context' = contexts
  BY <1>1, <1>4, <1>5
     DEF ThreadsTypeOK, WaitersExact, RunQueueExact, SuspendedOffCpu, NewUnsuspended
<1>6. ASSUME NEW next \in Pick(states, queue, current),
             state' = [states EXCEPT ![next] = "RUNNING"],
             context' = [contexts EXCEPT ![next] = "none"],
             runQueue' = Without(queue, next),
             current' = next
      PROVE  ThreadInv'
  <2> HIDE DEF states, queue, contexts
  <2>1. next \in Threads /\ states[next] = "READY" /\ suspendCount[next] = 0
    BY <1>2, PickReady
  <2>2. /\ runQueue' \in Seq(Threads)
        /\ ToSet(runQueue') = ToSet(queue) \ {next}
        /\ IsInjective(runQueue')
    BY <1>2, <1>6, WithoutSet
  <2>3. ThreadsTypeOK'
    BY <1>1, <1>4, <1>6, <2>1, <2>2 DEF ThreadsTypeOK, States, Contexts
  <2>4. WaitersExact'
    BY <1>1, <1>3, <1>4, <1>6, <2>1 DEF WaitersExact
  <2>5. RunQueueExact'
    BY <1>1, <1>2, <1>6, <2>2 DEF RunQueueExact
  <2>6. SuspendedOffCpu' /\ NewUnsuspended'
    BY <1>1, <1>3, <1>4, <1>6, <2>1 DEF SuspendedOffCpu, NewUnsuspended
  <2> QED BY <2>3, <2>4, <2>5, <2>6
<1> QED BY <1>5, <1>6 DEF PerformSwitch

\* Steps that touch neither a thread nor a queue, apart from the APC queues.
LEMMA ApcsKeepThreads ==
    ASSUME ThreadInv, UNCHANGED <<state, suspendCount, waitInfo, context, timers, queueVars>>,
           priority' \in [Threads -> Priorities],
           apcs' \in [Threads -> 0..MaxApcs], alerted' \subseteq Threads
    PROVE  ThreadInv'
BY DEF ThreadInv, ThreadsTypeOK, WaitersExact, RunQueueExact, SuspendedOffCpu,
       NewUnsuspended, queueVars

\* Only a registered, hence waiting, thread is visited by the wake-up loop.
LEMMA RegisteredWaits ==
    ASSUME ThreadInv, NEW t \in ToSet(waiters)
    PROVE  t \in Threads /\ state[t] = "WAITING" /\ waitInfo[t].reason = "object"
<1>1. t \in Threads /\ waitInfo[t].reason = "object"
  BY DEF ThreadInv, WaitersExact
<1> QED BY <1>1 DEF ThreadInv, WaitersExact, NoWait

\* A turn of the loop over the waiters of a handle wakes one of them or
\* passes it over (wakeWaitingThreadsForHandle).
LEMMA VisitKeepsThreads ==
    ASSUME ThreadInv, NEW t \in Threads, VisitWaiter(t)
    PROVE  ThreadInv'
<1>1. CASE UNCHANGED <<threadVars, queueVars>>
  BY <1>1, ApcsKeepThreads DEF threadVars, ThreadInv, ThreadsTypeOK
<1>2. CASE \E d \in Decisions(waitInfo[t].handles, waitInfo[t].all, t, Exited) :
             Wake(t, d.result) /\ UNCHANGED <<apcs, alerted>>
  <2>1. t \in ToSet(waiters)
    BY DEF VisitWaiter, ToSet
  <2>2. state[t] = "WAITING"
    BY <2>1, RegisteredWaits
  <2>3. PICK r \in {"object", "abandoned"} : Wake(t, r) /\ UNCHANGED <<apcs, alerted>>
    BY <1>2 DEF Decisions, Decision
  <2> QED BY <2>2, <2>3, WakeKeepsThreads DEF WaitResults, ThreadInv, ThreadsTypeOK
<1> QED BY <1>1, <1>2 DEF VisitWaiter

\* The handle arrays a guest passes make well-formed waits.
LEMMA WaitInfosClosed ==
    ASSUME NEW reason \in {"sleep", "message", "object"},
           NEW handles \in AnyLists \cup AllLists \cup {<<>>},
           NEW all \in BOOLEAN, NEW timed \in BOOLEAN, NEW alertable \in BOOLEAN,
           NEW message \in BOOLEAN
    PROVE  /\ [reason |-> reason, handles |-> handles, all |-> all, timed |-> timed,
               alertable |-> alertable, message |-> message] \in WaitInfos
BY DEF WaitInfos

\* A wait of the current thread takes its handles at once, runs its APCs or
\* blocks (waitForObjectsWithContext).
LEMMA WaitKeepsThreads ==
    ASSUME ThreadInv, NEW handles \in AnyLists \cup AllLists \cup {<<>>},
           NEW all \in BOOLEAN, NEW timed \in BOOLEAN, NEW alertable \in BOOLEAN,
           NEW message \in BOOLEAN,
           WaitForObjects(handles, all, timed, alertable, message)
    PROVE  ThreadInv'
<1> DEFINE info == [reason |-> IF handles = <<>> THEN "message" ELSE "object",
                    handles |-> handles, all |-> all, timed |-> timed,
                    alertable |-> alertable, message |-> message]
<1>1. state[current] = "RUNNING"
  BY DEF WaitForObjects, GuestReady
<1>2. info \in WaitInfos /\ info.reason # "none"
  BY WaitInfosClosed
<1>3. CASE UNCHANGED <<threadVars, queueVars>>
  BY <1>3, ApcsKeepThreads DEF threadVars, ThreadInv, ThreadsTypeOK
<1>4. CASE RunQueuedApcs
  <2>1. apcs' \in [Threads -> 0..MaxApcs] /\ priority' = priority /\ alerted' = alerted
    BY <1>4, SchedulerConstants DEF RunQueuedApcs, ThreadInv, ThreadsTypeOK
  <2> QED BY <1>4, <2>1, ApcsKeepThreads DEF RunQueuedApcs, ThreadInv, ThreadsTypeOK
<1>5. CASE Block(info)
  <2> HIDE DEF info
  <2> QED BY <1>1, <1>2, <1>5, BlockKeepsThreads
<1> QED BY <1>3, <1>4, <1>5 DEF WaitForObjects

\* Sleep runs the queued APCs of an alertable caller, or blocks it
\* (sleepWithContext).
LEMMA SleepKeepsThreads ==
    ASSUME ThreadInv, NEW timed \in BOOLEAN, NEW alertable \in BOOLEAN, Sleep(timed, alertable)
    PROVE  ThreadInv'
<1> DEFINE info == [reason |-> "sleep", handles |-> <<>>, all |-> FALSE, timed |-> timed,
                    alertable |-> alertable, message |-> FALSE]
<1>1. state[current] = "RUNNING"
  BY DEF Sleep, GuestReady
<1>2. info \in WaitInfos /\ info.reason # "none"
  BY WaitInfosClosed
<1>3. CASE RunQueuedApcs
  <2>1. apcs' \in [Threads -> 0..MaxApcs] /\ priority' = priority /\ alerted' = alerted
    BY <1>3, SchedulerConstants DEF RunQueuedApcs, ThreadInv, ThreadsTypeOK
  <2> QED BY <1>3, <2>1, ApcsKeepThreads DEF RunQueuedApcs, ThreadInv, ThreadsTypeOK
<1>4. CASE Block(info)
  <2> HIDE DEF info
  <2> QED BY <1>1, <1>2, <1>4, BlockKeepsThreads
<1> QED BY <1>3, <1>4 DEF Sleep

\* A timer wakes a thread that still waits, and nobody else (blockThread).
LEMMA TimeoutKeepsThreads ==
    ASSUME ThreadInv, NEW t \in Threads, TimeoutFires(t)
    PROVE  ThreadInv'
<1>1. apcs' \in [Threads -> 0..MaxApcs] /\ alerted' \subseteq Threads
  BY DEF ThreadInv, ThreadsTypeOK, TimeoutFires
<1>2. CASE StillWaits(t)
  <2>1. PICK r \in {"slept", "timeout"} : Wake(t, r)
    BY <1>2 DEF TimeoutFires
  <2> QED BY <1>1, <1>2, <2>1, WakeKeepsThreads DEF StillWaits, WaitResults
<1>3. CASE ~StillWaits(t)
  BY <1>1, <1>3 DEF TimeoutFires, ThreadInv, ThreadsTypeOK, WaitersExact, RunQueueExact,
                    SuspendedOffCpu, NewUnsuspended, queueVars
<1> QED BY <1>2, <1>3

\* An APC ends an alertable wait and leaves any other thread where it is
\* (wakeAlertableThreadForApc).
LEMMA ApcKeepsThreads ==
    ASSUME ThreadInv, NEW t \in Threads, QueueApc(t)
    PROVE  ThreadInv'
<1>1. apcs' \in [Threads -> 0..MaxApcs]
  BY SchedulerConstants DEF ThreadInv, ThreadsTypeOK, QueueApc
<1>2. CASE TakesApc(t)
  <2>1. Wake(t, "io") /\ alerted' = alerted \cup {t}
    BY <1>2 DEF QueueApc
  <2>2. alerted' \subseteq Threads
    BY <2>1 DEF ThreadInv, ThreadsTypeOK
  <2> QED BY <1>1, <1>2, <2>1, <2>2, WakeKeepsThreads DEF TakesApc, WaitResults
<1>3. CASE ~TakesApc(t)
  BY <1>1, <1>3, ApcsKeepThreads DEF QueueApc, ThreadInv, ThreadsTypeOK
<1> QED BY <1>2, <1>3

\* A turn of the loop over the message waiters wakes one of them or lets it
\* wait on (wakeMessageWaiters).
LEMMA MessageKeepsThreads ==
    ASSUME ThreadInv, MessageScan, NEW t \in Threads, VisitMessageWaiter(t)
    PROVE  ThreadInv'
<1>1. state[t] = "WAITING"
  BY DEF VisitMessageWaiter, MessageScan
<1>2. CASE UNCHANGED <<threadVars, queueVars>>
  BY <1>2, ApcsKeepThreads DEF threadVars, ThreadInv, ThreadsTypeOK
<1>3. CASE Wake(t, "message") /\ UNCHANGED <<apcs, alerted>>
  BY <1>1, <1>3, WakeKeepsThreads DEF WaitResults, ThreadInv, ThreadsTypeOK
<1> QED BY <1>2, <1>3 DEF VisitMessageWaiter

\* Every step keeps the thread records and their queues consistent.
LEMMA StepKeepsThreads ==
    ASSUME ThreadInv, MessageScan, [Next]_vars
    PROVE  ThreadInv'
<1>1. CASE UNCHANGED <<threadVars, queueVars>>
  BY <1>1, ApcsKeepThreads DEF threadVars, ThreadInv, ThreadsTypeOK
<1>2. CASE WakeStep
  <2>1. EndVisit => UNCHANGED <<threadVars, queueVars>>
    BY DEF EndVisit
  <2> QED BY <1>1, <1>2, <2>1, VisitKeepsThreads, MessageKeepsThreads DEF WakeStep
<1>3. CASE SignalStep
  <2>1. UNCHANGED <<threadVars, queueVars>>
    BY <1>3 DEF SignalStep, SetEvent, ResetEvent, PulseEvent, ReleaseSemaphore, ReleaseMutex
  <2> QED BY <1>1, <2>1
<1>4. CASE WaitStep
  <2>1. CASE \E list \in AnyLists, timed \in Timed, alertable \in Alertable, message \in BOOLEAN :
               WaitForObjects(list, FALSE, timed, alertable, message)
    BY <2>1, WaitKeepsThreads, SchedulerConstants
  <2>2. CASE \E list \in AllLists, timed \in Timed, alertable \in Alertable, message \in BOOLEAN :
               WaitForObjects(list, TRUE, timed, alertable, message)
    BY <2>2, WaitKeepsThreads, SchedulerConstants
  <2>3. CASE \E timed \in Timed, alertable \in Alertable :
               WaitForObjects(<<>>, FALSE, timed, alertable, TRUE)
    BY <2>3, WaitKeepsThreads, SchedulerConstants
  <2>4. CASE \E timed \in Timed, alertable \in Alertable : Sleep(timed, alertable)
    BY <2>4, SleepKeepsThreads, SchedulerConstants
  <2>5. CASE Yield
    BY <2>5, YieldKeepsThreads
  <2> QED BY <1>4, <2>1, <2>2, <2>3, <2>4, <2>5 DEF WaitStep
<1>5. CASE ThreadStep
  <2>1. CASE \E targets : PostMessage(targets)
    BY <1>1, <2>1 DEF PostMessage
  <2>2. CASE ExitProcess
    BY <1>1, <2>2 DEF ExitProcess
  <2>3. CASE DispatchAlertedApcs
    <3>1. apcs' \in [Threads -> 0..MaxApcs] /\ priority' = priority /\ alerted' \subseteq alerted
      BY <2>3, SchedulerConstants DEF DispatchAlertedApcs, ThreadInv, ThreadsTypeOK
    <3> QED BY <2>3, <3>1, ApcsKeepThreads DEF DispatchAlertedApcs, ThreadInv, ThreadsTypeOK
  <2>4. CASE \E t \in Threads, p \in Priorities : SetThreadPriority(t, p)
    <3>1. /\ priority' \in [Threads -> Priorities]
          /\ UNCHANGED <<state, suspendCount, waitInfo, context, apcs, alerted, timers, queueVars>>
      BY <2>4 DEF SetThreadPriority, ThreadInv, ThreadsTypeOK
    <3> QED BY <3>1, ApcsKeepThreads DEF ThreadInv, ThreadsTypeOK
  <2>5. CASE \E t \in Threads : TimeoutFires(t) \/ QueueApc(t)
    BY <2>5, TimeoutKeepsThreads, ApcKeepsThreads
  <2>6. CASE \E t \in Threads : SuspendThread(t) \/ ResumeThread(t)
    BY <2>6, SuspendKeepsThreads, ResumeKeepsThreads
  <2>7. CASE \E t \in Threads, suspended \in Suspended : CreateThread(t, suspended)
    BY <2>7, CreateKeepsThreads, SchedulerConstants
  <2>8. CASE \E t \in Threads : TerminateThread(t) \/ TerminateNext(t)
    BY <2>8, TerminateKeepsThreads DEF TerminateThread, TerminateNext
  <2> QED BY <1>5, <2>1, <2>2, <2>3, <2>4, <2>5, <2>6, <2>7, <2>8 DEF ThreadStep
<1>6. CASE PerformSwitch
  BY <1>6, SwitchKeepsThreads
<1>7. CASE UNCHANGED vars
  BY <1>1, <1>7 DEF vars
<1> QED BY <1>2, <1>3, <1>4, <1>5, <1>6, <1>7 DEF Next

-----------------------------------------------------------------------------
(* The objects, and the bound on the recursion of a mutex.                 *)

\* What a wait takes (consumeWait): types are kept, and only the taker
\* gains a mutex or a level of recursion.
LEMMA ConsumeKeepsObjects ==
    ASSUME ObjectsTypeOK, NEW t \in Threads, NEW taken, Consume(taken, t),
           \A m \in Mutexes \cap taken : owner[m] = t => recursion[m] < MaxRecursion
    PROVE  /\ ObjectsTypeOK'
           /\ \A m \in Mutexes : \/ owner'[m] = t
                                 \/ owner'[m] = owner[m] /\ recursion'[m] = recursion[m]
<1>1. ObjectsTypeOK'
  BY SyncConstants DEF Consume, ObjectsTypeOK
<1>2. ASSUME NEW m \in Mutexes
      PROVE  owner'[m] = t \/ (owner'[m] = owner[m] /\ recursion'[m] = recursion[m])
  BY DEF Consume
<1> QED BY <1>1, <1>2

\* No thread waits for more, and no mutex is taken.
LEMMA RoomShrinks ==
    ASSUME RecursionRoom, ObjectsTypeOK, ObjectsTypeOK',
           \A u \in Threads : waitInfo'[u] \in {waitInfo[u], NoWait},
           \A m \in Mutexes : \/ owner'[m] = NoThread
                              \/ owner'[m] = owner[m] /\ recursion'[m] <= recursion[m]
    PROVE  RecursionRoom'
<1> SUFFICES ASSUME NEW u \in Threads, NEW m \in Mutexes, m \in ToSet(waitInfo'[u].handles),
                    owner'[m] = u
             PROVE  recursion'[m] < MaxRecursion
  BY DEF RecursionRoom
<1>1. owner[m] = u /\ recursion'[m] <= recursion[m]
  BY SyncConstants
<1>2. m \in ToSet(waitInfo[u].handles)
  BY DEF NoWait, ToSet
<1>3. recursion[m] < MaxRecursion
  BY <1>1, <1>2 DEF RecursionRoom
<1> QED BY <1>1, <1>3, SyncConstants DEF ObjectsTypeOK

\* A thread that waits for nothing may take mutexes.
LEMMA RoomGranted ==
    ASSUME RecursionRoom, NEW t \in Threads, waitInfo'[t] = NoWait,
           \A u \in Threads \ {t} : waitInfo'[u] = waitInfo[u],
           \A m \in Mutexes : \/ owner'[m] = t
                              \/ owner'[m] = owner[m] /\ recursion'[m] = recursion[m]
    PROVE  RecursionRoom'
<1> SUFFICES ASSUME NEW u \in Threads, NEW m \in Mutexes, m \in ToSet(waitInfo'[u].handles),
                    owner'[m] = u
             PROVE  recursion'[m] < MaxRecursion
  BY DEF RecursionRoom
<1>1. u # t
  BY DEF NoWait, ToSet
<1> QED BY <1>1 DEF RecursionRoom

\* A wait takes handles it names only.
LEMMA DecisionsTake ==
    ASSUME NEW handles, NEW all, NEW t, NEW d \in Decisions(handles, all, t, Exited)
    PROVE  d.take \subseteq ToSet(handles)
BY DEF Decisions, Decision, ToSet

\* Every step keeps the objects typed, and leaves room for the mutexes that
\* a wait may still take.
LEMMA StepKeepsObjects ==
    ASSUME ObjectsTypeOK, ThreadInv, WakeTypeOK, RecursionRoom, MessageScan, [Next]_vars
    PROVE  ObjectsTypeOK' /\ RecursionRoom'
<1>1. CASE UNCHANGED objectVars /\ \A u \in Threads : waitInfo'[u] \in {waitInfo[u], NoWait}
  <2>1. ObjectsTypeOK' /\ \A m \in Mutexes : owner'[m] = owner[m] /\ recursion'[m] <= recursion[m]
    BY <1>1, SyncConstants DEF ObjectsTypeOK, objectVars
  <2> QED BY <1>1, <2>1, RoomShrinks
<1>2. ASSUME NEW t \in Threads, VisitWaiter(t)
      PROVE  ObjectsTypeOK' /\ RecursionRoom'
  <2>1. CASE UNCHANGED <<objectVars, threadVars>>
    BY <1>1, <2>1 DEF threadVars
  <2>2. CASE \E d \in Decisions(waitInfo[t].handles, waitInfo[t].all, t, Exited) :
               Consume(d.take, t) /\ Wake(t, d.result)
    <3>1. PICK d \in Decisions(waitInfo[t].handles, waitInfo[t].all, t, Exited) :
             Consume(d.take, t) /\ Wake(t, d.result)
      BY <2>2
    <3>2. \A m \in Mutexes \cap d.take : owner[m] = t => recursion[m] < MaxRecursion
      BY DecisionsTake DEF RecursionRoom
    <3>3. waitInfo'[t] = NoWait /\ \A u \in Threads \ {t} : waitInfo'[u] = waitInfo[u]
      BY <3>1 DEF Wake, EndWait, ThreadInv, ThreadsTypeOK
    <3>4. /\ ObjectsTypeOK'
          /\ \A m \in Mutexes : \/ owner'[m] = t
                                \/ owner'[m] = owner[m] /\ recursion'[m] = recursion[m]
      BY <3>1, <3>2, ConsumeKeepsObjects
    <3> QED BY <3>3, <3>4, RoomGranted
  <2> QED BY <1>2, <2>1, <2>2 DEF VisitWaiter
<1>3. CASE \E t \in Threads : VisitMessageWaiter(t) \/ TimeoutFires(t) \/ QueueApc(t)
  <2>1. UNCHANGED objectVars
    BY <1>3 DEF VisitMessageWaiter, TimeoutFires, QueueApc
  <2>2. UNCHANGED waitInfo \/ \E t \in Threads : waitInfo' = [waitInfo EXCEPT ![t] = NoWait]
    BY <1>3 DEF VisitMessageWaiter, TimeoutFires, QueueApc, Wake, EndWait, threadVars
  <2>3. \A u \in Threads : waitInfo'[u] \in {waitInfo[u], NoWait}
    BY <2>2 DEF ThreadInv, ThreadsTypeOK
  <2> QED BY <1>1, <2>1, <2>3
<1>4. CASE EndVisit \/ SignalStep
  <2>1. UNCHANGED waitInfo
    BY <1>4 DEF EndVisit, SignalStep, SetEvent, ResetEvent, PulseEvent, ReleaseSemaphore,
                ReleaseMutex, threadVars
  <2>2. \/ UNCHANGED objectVars
        \/ \E e \in Events : SignalEvent(e) \/ UnsignalEvent(e)
        \/ \E s \in Semaphores, n \in 1..MaxCount : AddCount(s, n)
        \/ \E m \in Mutexes : UnlockMutex(m, current)
    BY <1>4 DEF EndVisit, SignalStep, SetEvent, ResetEvent, PulseEvent, ReleaseSemaphore,
                ReleaseMutex, WakeTypeOK
  <2>3. CASE \E e \in Events : SignalEvent(e) \/ UnsignalEvent(e)
    <3>1. ObjectsTypeOK' /\ UNCHANGED <<owner, recursion>>
      BY <2>3 DEF ObjectsTypeOK, SignalEvent, UnsignalEvent
    <3>2. \A m \in Mutexes : recursion'[m] <= recursion[m]
      BY <3>1, SyncConstants DEF ObjectsTypeOK
    <3> QED BY <2>1, <3>1, <3>2, RoomShrinks
  <2>4. CASE \E s \in Semaphores, n \in 1..MaxCount : AddCount(s, n)
    <3>1. ObjectsTypeOK' /\ UNCHANGED <<owner, recursion>>
      BY <2>4, SyncConstants DEF ObjectsTypeOK, AddCount
    <3>2. \A m \in Mutexes : recursion'[m] <= recursion[m]
      BY <3>1, SyncConstants DEF ObjectsTypeOK
    <3> QED BY <2>1, <3>1, <3>2, RoomShrinks
  <2>5. CASE \E m \in Mutexes : UnlockMutex(m, current)
    <3>1. PICK m \in Mutexes : UnlockMutex(m, current)
      BY <2>5
    <3>2. /\ recursion' \in [Mutexes -> 0..MaxRecursion]
          /\ \A n \in Mutexes : recursion'[n] <= recursion[n]
      BY <3>1, SyncConstants DEF ObjectsTypeOK, UnlockMutex
    <3>3. /\ owner' \in [Mutexes -> Threads \cup {NoThread}]
          /\ \A n \in Mutexes : owner'[n] \in {owner[n], NoThread}
      BY <3>1 DEF ObjectsTypeOK, UnlockMutex, ThreadInv, ThreadsTypeOK
    <3>4. ObjectsTypeOK'
      BY <3>1, <3>2, <3>3 DEF ObjectsTypeOK, UnlockMutex
    <3> QED BY <2>1, <3>2, <3>3, <3>4, RoomShrinks
  <2> QED BY <1>1, <2>1, <2>2, <2>3, <2>4, <2>5
<1>5. ASSUME NEW handles, NEW all, NEW timed, NEW alertable, NEW message,
             WaitForObjects(handles, all, timed, alertable, message)
      PROVE  ObjectsTypeOK' /\ RecursionRoom'
  <2>1. current \in Threads /\ waitInfo[current] = NoWait
    BY <1>5 DEF WaitForObjects, GuestReady, ThreadInv, ThreadsTypeOK, WaitersExact
  <2>2. \A m \in Mutexes \cap ToSet(handles) : owner[m] = current => recursion[m] < MaxRecursion
    BY <1>5 DEF WaitForObjects
  <2>3. CASE /\ \E d \in Decisions(handles, all, current, Exited) : Consume(d.take, current)
             /\ UNCHANGED threadVars
    <3>1. PICK d \in Decisions(handles, all, current, Exited) : Consume(d.take, current)
      BY <2>3
    <3>2. \A m \in Mutexes \cap d.take : owner[m] = current => recursion[m] < MaxRecursion
      BY <2>2, DecisionsTake
    <3>3. UNCHANGED waitInfo
      BY <2>3 DEF threadVars
    <3>4. /\ ObjectsTypeOK'
          /\ \A m \in Mutexes : \/ owner'[m] = current
                                \/ owner'[m] = owner[m] /\ recursion'[m] = recursion[m]
      BY <2>1, <3>1, <3>2, ConsumeKeepsObjects
    <3> QED BY <2>1, <3>3, <3>4, RoomGranted
  <2>4. CASE RunQueuedApcs
    BY <1>1, <2>4 DEF RunQueuedApcs
  <2>5. ASSUME NEW info, info.handles = handles, Block(info), UNCHANGED objectVars
        PROVE  ObjectsTypeOK' /\ RecursionRoom'
    <3>1. ObjectsTypeOK' /\ UNCHANGED <<owner, recursion>>
      BY <2>5 DEF ObjectsTypeOK, objectVars
    <3>2. \A u \in Threads : waitInfo'[u] = IF u = current THEN info ELSE waitInfo[u]
      BY <2>5 DEF Block, ThreadInv, ThreadsTypeOK
    <3> QED BY <2>2, <2>5, <3>1, <3>2 DEF RecursionRoom
  <2> QED BY <1>5, <2>3, <2>4, <2>5 DEF WaitForObjects
<1>6. CASE Yield \/ PerformSwitch \/ ExitProcess \/ DispatchAlertedApcs \/ UNCHANGED vars
  BY <1>1, <1>6 DEF Yield, PerformSwitch, ExitProcess, DispatchAlertedApcs, vars, threadVars
<1>7. ASSUME NEW timed, NEW alertable, Sleep(timed, alertable)
      PROVE  ObjectsTypeOK' /\ RecursionRoom'
  <2>1. CASE RunQueuedApcs
    BY <1>1, <2>1 DEF RunQueuedApcs
  <2>2. CASE /\ waitInfo' = [waitInfo EXCEPT ![current] =
                    [reason |-> "sleep", handles |-> <<>>, all |-> FALSE, timed |-> timed,
                     alertable |-> alertable, message |-> FALSE]]
             /\ UNCHANGED objectVars
    <3>1. ObjectsTypeOK' /\ UNCHANGED <<owner, recursion>>
      BY <2>2 DEF ObjectsTypeOK, objectVars
    <3>2. \A u \in Threads : waitInfo'[u].handles \in {waitInfo[u].handles, <<>>}
      BY <2>2 DEF ThreadInv, ThreadsTypeOK
    <3> QED BY <3>1, <3>2 DEF RecursionRoom, ToSet
  <2> QED BY <1>7, <2>1, <2>2 DEF Sleep, Block
<1>8. CASE \E targets : PostMessage(targets)
  BY <1>1, <1>8 DEF PostMessage, threadVars
<1>9. CASE \E t \in Threads : \/ SuspendThread(t)
                              \/ \E suspended : CreateThread(t, suspended)
                              \/ \E p : SetThreadPriority(t, p)
  BY <1>1, <1>9 DEF SuspendThread, CreateThread, SetThreadPriority
<1>10. ASSUME NEW t \in Threads, ResumeThread(t)
       PROVE  ObjectsTypeOK' /\ RecursionRoom'
  <2>1. CASE UNCHANGED <<objectVars, waitInfo>>
    BY <1>1, <2>1
  <2>2. CASE ReevaluateWait(t) /\ Satisfiable(t)
    <3>1. PICK d \in Decisions(waitInfo[t].handles, waitInfo[t].all, t, Exited) :
             Consume(d.take, t)
      BY <2>2 DEF ReevaluateWait
    <3>2. \A m \in Mutexes \cap d.take : owner[m] = t => recursion[m] < MaxRecursion
      BY DecisionsTake DEF RecursionRoom
    <3>3. waitInfo'[t] = NoWait /\ \A u \in Threads \ {t} : waitInfo'[u] = waitInfo[u]
      BY <2>2 DEF ReevaluateWait, EndWait, ThreadInv, ThreadsTypeOK
    <3>4. /\ ObjectsTypeOK'
          /\ \A m \in Mutexes : \/ owner'[m] = t
                                \/ owner'[m] = owner[m] /\ recursion'[m] = recursion[m]
      BY <3>1, <3>2, ConsumeKeepsObjects
    <3> QED BY <3>3, <3>4, RoomGranted
  <2>3. CASE ReevaluateWait(t) /\ ~Satisfiable(t)
    BY <2>1, <2>3 DEF ReevaluateWait
  <2> QED BY <1>10, <2>1, <2>2, <2>3 DEF ResumeThread
<1>11. ASSUME NEW t \in Threads, TerminateThread(t) \/ TerminateNext(t)
       PROVE  ObjectsTypeOK' /\ RecursionRoom'
  <2>1. AbandonMutexes(t) /\ waitInfo' = [waitInfo EXCEPT ![t] = NoWait]
    BY <1>11 DEF TerminateThread, TerminateNext, Terminate
  <2>2. /\ ObjectsTypeOK'
        /\ \A m \in Mutexes : \/ owner'[m] = NoThread
                              \/ owner'[m] = owner[m] /\ recursion'[m] = recursion[m]
    BY <2>1, SyncConstants DEF AbandonMutexes, OwnedBy, ObjectsTypeOK
  <2>3. \A m \in Mutexes : recursion'[m] <= recursion[m] \/ owner'[m] = NoThread
    BY <2>2, SyncConstants DEF ObjectsTypeOK
  <2>4. \A u \in Threads : waitInfo'[u] \in {waitInfo[u], NoWait}
    BY <2>1 DEF ThreadInv, ThreadsTypeOK
  <2> QED BY <2>2, <2>3, <2>4, RoomShrinks
<1> QED
  BY <1>2, <1>3, <1>4, <1>5, <1>6, <1>7, <1>8, <1>9, <1>10, <1>11
     DEF Next, WakeStep, WaitStep, ThreadStep

-----------------------------------------------------------------------------
(* The wake-up loops.                                                      *)

\* Starting the wake-up of some handles visits registered threads only, and
\* never the message queue.
LEMMA StartWakeTypes ==
    ASSUME NEW hs \in SUBSET Waitables, StartWake(hs), waiters' \in Seq(Threads)
    PROVE  /\ scanning' \in Waitables \cup {NoObject}
           /\ unvisited' \subseteq Threads
           /\ toWake' \subseteq hs
<1>1. \A h : HandleWaiters(h)' \subseteq Threads
  BY DEF HandleWaiters, ToSet
<1> QED BY <1>1 DEF StartWake

\* The two kinds of loop are told apart by what is being visited.
LEMMA Sources == /\ MessageQueue \notin Waitables
                 /\ NoObject \notin Waitables
                 /\ NoObject # MessageQueue
BY SchedulerConstants

\* The loops visit threads and waitable handles only, and the loop over the
\* message waiters visits threads that wait.
LEMMA StepKeepsWakes ==
    ASSUME ThreadInv, WakeTypeOK, MessageScan, [Next]_vars, ThreadInv'
    PROVE  WakeTypeOK' /\ MessageScan'
<1>1. waiters' \in Seq(Threads)
  BY DEF ThreadInv, ThreadsTypeOK
<1>2. CASE /\ scanning # MessageQueue
           /\ UNCHANGED <<pulsed, exiting>>
           /\ \E hs \in SUBSET Waitables : StartWake(hs)
  BY <1>1, <1>2, StartWakeTypes, Sources DEF WakeTypeOK, MessageScan
<1>3. CASE Quiet /\ UNCHANGED <<scanning, unvisited, toWake>> /\ pulsed' = pulsed /\ exiting' \in BOOLEAN
  BY <1>3, Sources DEF WakeTypeOK, MessageScan, Quiet
<1>4. ASSUME NEW t \in Threads, VisitWaiter(t) PROVE WakeTypeOK' /\ MessageScan'
  <2>1. /\ unvisited' \subseteq unvisited
        /\ UNCHANGED <<scanning, toWake, pulsed, exiting>> /\ scanning \in Waitables
    BY <1>4 DEF VisitWaiter
  <2> QED BY <2>1, Sources DEF WakeTypeOK, MessageScan
<1>5. CASE EndVisit
  <2>1. \A h : HandleWaiters(h) \subseteq Threads
    BY DEF HandleWaiters, ToSet, ThreadInv, ThreadsTypeOK
  <2>2. scanning' \in Waitables \cup {NoObject} /\ unvisited' \subseteq Threads /\ toWake' \subseteq toWake
    BY <1>5, <2>1 DEF EndVisit, WakeTypeOK
  <2>3. pulsed' \in {pulsed, NoObject} /\ exiting' = exiting
    BY <1>5 DEF EndVisit
  <2> QED BY <2>2, <2>3, Sources DEF WakeTypeOK, MessageScan
<1>6. ASSUME NEW t \in Threads, VisitMessageWaiter(t) PROVE WakeTypeOK' /\ MessageScan'
  <2>1. /\ unvisited' = unvisited \ {t} /\ scanning' \in {NoObject, MessageQueue}
        /\ UNCHANGED <<toWake, pulsed, exiting>> /\ scanning = MessageQueue
    BY <1>6 DEF VisitMessageWaiter
  <2>2. \A u \in Threads \ {t} : state'[u] = state[u]
    BY <1>6 DEF VisitMessageWaiter, Wake, LeaveWait, threadVars, ThreadInv, ThreadsTypeOK
  <2>3. \A u \in unvisited' : state'[u] = "WAITING"
    BY <2>1, <2>2 DEF MessageScan, WakeTypeOK
  <2> QED BY <2>1, <2>3 DEF WakeTypeOK, MessageScan
<1>7. CASE SignalStep
  <2>1. \A e \in Events : {e} \in SUBSET Waitables /\ e \in Events
    BY DEF Waitables, Objects
  <2>2. CASE \E e \in Events : SetEvent(e)
    BY <1>2, <2>1, <2>2, Sources DEF SetEvent, HostReady, Quiet
  <2>3. CASE \E e \in Events : ResetEvent(e)
    BY <1>3, <2>3 DEF ResetEvent, HostReady, wakeVars, WakeTypeOK
  <2>4. ASSUME NEW e \in Events, PulseEvent(e) PROVE WakeTypeOK' /\ MessageScan'
    <3>1. StartWake({e}) /\ exiting' = exiting /\ pulsed' \in {pulsed, e}
      BY <2>4 DEF PulseEvent
    <3> QED BY <1>1, <2>1, <3>1, StartWakeTypes, Sources DEF WakeTypeOK, MessageScan
  <2>5. CASE \E s \in Semaphores, n \in 1..MaxCount : ReleaseSemaphore(s, n)
    BY <1>2, <2>5, Sources DEF ReleaseSemaphore, HostReady, Quiet, Waitables, Objects
  <2>6. CASE \E m \in Mutexes : ReleaseMutex(m)
    BY <1>2, <2>6, Sources DEF ReleaseMutex, GuestReady, HostReady, Quiet, Waitables, Objects
  <2> QED BY <1>7, <2>2, <2>3, <2>4, <2>5, <2>6 DEF SignalStep
<1>8. CASE WaitStep \/ PerformSwitch \/ DispatchAlertedApcs \/ ExitProcess
  BY <1>3, <1>8 DEF WaitStep, WaitForObjects, Sleep, Yield, PerformSwitch, DispatchAlertedApcs,
                    ExitProcess, GuestReady, HostReady, wakeVars, WakeTypeOK
<1>9. ASSUME NEW targets \in SUBSET Threads, PostMessage(targets) PROVE WakeTypeOK' /\ MessageScan'
  BY <1>9, Sources DEF PostMessage, IsMessageWaiter, WakeTypeOK, MessageScan, threadVars
<1>10. CASE \E t \in Threads : \/ TimeoutFires(t) \/ QueueApc(t)
                               \/ SuspendThread(t) \/ ResumeThread(t)
                               \/ \E suspended : CreateThread(t, suspended)
                               \/ \E p : SetThreadPriority(t, p)
  BY <1>3, <1>10 DEF TimeoutFires, QueueApc, SuspendThread, ResumeThread, CreateThread,
                     SetThreadPriority, GuestReady, HostReady, wakeVars, WakeTypeOK
<1>11. CASE \E t \in Threads : TerminateThread(t) \/ TerminateNext(t)
  <2>1. PICK t \in Threads : TerminateThread(t) \/ TerminateNext(t)
    BY <1>11
  <2>2. SignalledByDeath(t) \in SUBSET Waitables
    BY DEF SignalledByDeath, OwnedBy, Waitables, Objects
  <2>3. StartWake(SignalledByDeath(t)) /\ UNCHANGED <<pulsed, exiting>> /\ Quiet
    BY <2>1 DEF TerminateThread, TerminateNext, Terminate, GuestReady, HostReady
  <2> QED BY <1>2, <2>2, <2>3, Sources DEF Quiet
<1>12. CASE UNCHANGED vars
  BY <1>12 DEF vars, wakeVars, threadVars, WakeTypeOK, MessageScan
<1> QED
  BY <1>4, <1>5, <1>6, <1>7, <1>8, <1>9, <1>10, <1>11, <1>12
     DEF Next, WakeStep, ThreadStep

-----------------------------------------------------------------------------
TypeInv == ObjectsTypeOK /\ ThreadInv /\ WakeTypeOK /\ RecursionRoom /\ MessageScan

\* The process starts with one running thread, free mutexes and empty queues.
LEMMA InitTypes == Init => TypeInv
<1> SUFFICES ASSUME Init PROVE TypeInv
  OBVIOUS
<1>1. ObjectsTypeOK
  BY SyncConstants DEF Init, ObjectsInit, ObjectsTypeOK
<1>2. ThreadsTypeOK
  BY SchedulerConstants DEF Init, ThreadsTypeOK, States, Contexts, WaitInfos
<1>3. WaitersExact /\ RunQueueExact
  BY SchedulerConstants DEF Init, WaitersExact, RunQueueExact, NoWait, ToSet, IsInjective
<1>4. SuspendedOffCpu /\ NewUnsuspended
  BY DEF Init, SuspendedOffCpu, NewUnsuspended
<1>5. WakeTypeOK /\ MessageScan
  BY Sources DEF Init, WakeTypeOK, MessageScan
<1>6. RecursionRoom
  BY DEF Init, RecursionRoom, NoWait, ToSet
<1> QED BY <1>1, <1>2, <1>3, <1>4, <1>5, <1>6 DEF TypeInv, ThreadInv

\* The three parts of the invariant together.
LEMMA StepKeepsTypes == TypeInv /\ [Next]_vars => TypeInv'
BY StepKeepsThreads, StepKeepsObjects, StepKeepsWakes DEF TypeInv

(* Type correctness of the scheduler: no count leaves its range, whatever  *)
(* the interleaving of guest calls, host signals and wake-up loops.        *)
THEOREM TypeCorrect == Spec => []TypeOK
<1>1. TypeInv => TypeOK
  BY DEF TypeInv, ThreadInv, TypeOK
<1> QED BY <1>1, InitTypes, StepKeepsTypes, PTL DEF Spec

(* A thread is READY exactly when it is in the run queue, once; no waiter  *)
(* is missing from the index of the wait engine or left in it; a suspended *)
(* thread is off the CPU, and a SUSPENDED one has a resume to come.        *)
THEOREM QueuesAgree == Spec => []QueuesExact
<1>1. TypeInv => QueuesExact
  BY DEF TypeInv, ThreadInv, QueuesExact
<1> QED BY <1>1, InitTypes, StepKeepsTypes, PTL DEF Spec

-----------------------------------------------------------------------------
(* Timers, saved contexts, APC queues and the owners of mutexes.           *)

\* What the record of a thread says of its timer, its context and its APCs.
RecordInv == TimersExact /\ ContextSaved /\ AlertableWaitsHaveNoApc

\* A thread waits exactly while its wait information says so.
LEMMA OnlyWaitersWait ==
    ASSUME ThreadInv, NEW t \in Threads, state[t] # "WAITING"
    PROVE  waitInfo[t] = NoWait /\ ~waitInfo[t].timed /\ ~waitInfo[t].alertable
BY DEF ThreadInv, WaitersExact, NoWait

\* A step that leaves the thread records alone, and adds no APC to an
\* alertable wait.
LEMMA RecordsUnchanged ==
    ASSUME RecordInv, UNCHANGED <<state, waitInfo, context, timers, current>>,
           \A t \in Threads : waitInfo[t].alertable => apcs'[t] \in {apcs[t], 0}
    PROVE  RecordInv'
<1>1. TimersExact'
  BY DEF RecordInv, TimersExact
<1>2. ContextSaved'
  BY DEF RecordInv, ContextSaved
<1>3. AlertableWaitsHaveNoApc'
  BY DEF RecordInv, AlertableWaitsHaveNoApc
<1> QED BY <1>1, <1>2, <1>3 DEF RecordInv

\* Only the record of t changes.
OthersKept(t) ==
    \A u \in Threads \ {t} :
        /\ state'[u] = state[u] /\ waitInfo'[u] = waitInfo[u]
        /\ context'[u] = context[u] /\ apcs'[u] = apcs[u]
        /\ u \in timers' <=> u \in timers

\* It is enough to look at the record that changes.
LEMMA OneRecordChanges ==
    ASSUME RecordInv, NEW t \in Threads, OthersKept(t), UNCHANGED current,
           t \in timers' => state'[t] = "TERMINATED" \/ waitInfo'[t].timed,
           waitInfo'[t].timed => t \in timers',
           CASE state'[t] \in {"READY", "WAITING"} -> context'[t] # "none"
             [] state'[t] = "SUSPENDED" -> context'[t] # "none" \/ t = current
             [] OTHER -> context'[t] = "none",
           waitInfo'[t].alertable => apcs'[t] = 0
    PROVE  RecordInv'
<1>1. TimersExact'
  BY DEF RecordInv, TimersExact, OthersKept
<1>2. ContextSaved'
  BY DEF RecordInv, ContextSaved, OthersKept
<1>3. AlertableWaitsHaveNoApc'
  BY DEF RecordInv, AlertableWaitsHaveNoApc, OthersKept
<1> QED BY <1>1, <1>2, <1>3 DEF RecordInv

\* The end of a wait cancels its timer and saves its result (wakeThread).
LEMMA WakeKeepsRecords ==
    ASSUME ThreadInv, RecordInv, NEW t \in Threads, NEW r \in WaitResults, Wake(t, r),
           \A u \in Threads \ {t} : apcs'[u] = apcs[u]
    PROVE  RecordInv'
<1>1. /\ state'[t] \in {"READY", "SUSPENDED"} /\ context'[t] = r /\ waitInfo'[t] = NoWait
      /\ t \notin timers' /\ OthersKept(t) /\ UNCHANGED current
  BY DEF ThreadInv, ThreadsTypeOK, Wake, EndWait, LeaveWait, OthersKept
<1> QED BY <1>1, OneRecordChanges DEF NoWait, WaitResults

\* A wait that blocks arms its timer, and is not alertable with APCs queued.
LEMMA BlockKeepsRecords ==
    ASSUME ThreadInv, RecordInv, state[current] = "RUNNING", NEW info \in WaitInfos,
           Block(info), info.alertable => apcs[current] = 0
    PROVE  RecordInv'
<1>1. current \in Threads /\ current \notin timers
  BY OnlyWaitersWait DEF ThreadInv, ThreadsTypeOK, RecordInv, TimersExact
<1>2. /\ state'[current] = "WAITING" /\ context'[current] = "saved"
      /\ waitInfo'[current] = info /\ apcs'[current] = apcs[current]
      /\ current \in timers' <=> info.timed
      /\ OthersKept(current) /\ current' = current
  BY <1>1 DEF ThreadInv, ThreadsTypeOK, Block, OthersKept
<1> QED BY <1>1, <1>2, OneRecordChanges

\* An alertable call runs the queued APCs instead of blocking.
LEMMA ApcsRunKeepRecords ==
    ASSUME ThreadInv, RecordInv, RunQueuedApcs
    PROVE  RecordInv'
<1>1. \A t \in Threads : apcs'[t] \in {apcs[t], 0}
  BY DEF RunQueuedApcs, ThreadInv, ThreadsTypeOK
<1> QED BY <1>1, RecordsUnchanged DEF RunQueuedApcs, queueVars

LEMMA WaitKeepsRecords ==
    ASSUME ThreadInv, RecordInv, NEW handles \in AnyLists \cup AllLists \cup {<<>>},
           NEW all \in BOOLEAN, NEW timed \in BOOLEAN, NEW alertable \in BOOLEAN,
           NEW message \in BOOLEAN,
           WaitForObjects(handles, all, timed, alertable, message)
    PROVE  RecordInv'
<1> DEFINE info == [reason |-> IF handles = <<>> THEN "message" ELSE "object",
                    handles |-> handles, all |-> all, timed |-> timed,
                    alertable |-> alertable, message |-> message]
<1>1. state[current] = "RUNNING" /\ current \in Threads
  BY DEF WaitForObjects, GuestReady, ThreadInv, ThreadsTypeOK
<1>2. info \in WaitInfos /\ info.alertable = alertable
  BY WaitInfosClosed
<1>3. CASE UNCHANGED <<threadVars, queueVars>>
  BY <1>3, RecordsUnchanged DEF threadVars, queueVars
<1>4. CASE RunQueuedApcs
  BY <1>4, ApcsRunKeepRecords
<1>5. CASE ~(alertable /\ apcs[current] > 0) /\ Block(info)
  <2> HIDE DEF info
  <2>1. alertable => apcs[current] = 0
    BY <1>1, <1>5, SchedulerConstants DEF ThreadInv, ThreadsTypeOK
  <2> QED BY <1>1, <1>2, <1>5, <2>1, BlockKeepsRecords
<1> QED BY <1>3, <1>4, <1>5 DEF WaitForObjects

LEMMA SleepKeepsRecords ==
    ASSUME ThreadInv, RecordInv, NEW timed \in BOOLEAN, NEW alertable \in BOOLEAN,
           Sleep(timed, alertable)
    PROVE  RecordInv'
<1> DEFINE info == [reason |-> "sleep", handles |-> <<>>, all |-> FALSE, timed |-> timed,
                    alertable |-> alertable, message |-> FALSE]
<1>1. state[current] = "RUNNING" /\ current \in Threads
  BY DEF Sleep, GuestReady, ThreadInv, ThreadsTypeOK
<1>2. info \in WaitInfos /\ info.alertable = alertable
  BY WaitInfosClosed
<1>3. CASE RunQueuedApcs
  BY <1>3, ApcsRunKeepRecords
<1>4. CASE ~(alertable /\ apcs[current] > 0) /\ Block(info)
  <2> HIDE DEF info
  <2>1. alertable => apcs[current] = 0
    BY <1>1, <1>4, SchedulerConstants DEF ThreadInv, ThreadsTypeOK
  <2> QED BY <1>1, <1>2, <1>4, <2>1, BlockKeepsRecords
<1> QED BY <1>3, <1>4 DEF Sleep

LEMMA YieldKeepsRecords ==
    ASSUME ThreadInv, RecordInv, Yield
    PROVE  RecordInv'
<1>1. current \in Threads /\ state[current] = "RUNNING"
  BY DEF Yield, GuestReady, ThreadInv, ThreadsTypeOK
<1>2. current \notin timers
  BY <1>1, OnlyWaitersWait DEF RecordInv, TimersExact
<1>3. /\ state'[current] = "READY" /\ context'[current] = "saved"
      /\ waitInfo'[current] = NoWait /\ current \notin timers'
      /\ OthersKept(current) /\ current' = current
  BY <1>1, <1>2, OnlyWaitersWait DEF ThreadInv, ThreadsTypeOK, Yield, OthersKept
<1> QED BY <1>1, <1>3, OneRecordChanges DEF NoWait

\* A timer that fires is gone, whether it ends the wait or not.
LEMMA TimeoutKeepsRecords ==
    ASSUME ThreadInv, RecordInv, NEW t \in Threads, TimeoutFires(t)
    PROVE  RecordInv'
<1>1. CASE StillWaits(t)
  <2>1. PICK r \in {"slept", "timeout"} : Wake(t, r)
    BY <1>1 DEF TimeoutFires
  <2> QED BY <2>1, WakeKeepsRecords DEF TimeoutFires, WaitResults
<1>2. CASE ~StillWaits(t)
  <2>1. waitInfo[t] = NoWait /\ ~waitInfo[t].timed /\ ~waitInfo[t].alertable
    BY <1>2, OnlyWaitersWait DEF StillWaits
  <2>2. /\ UNCHANGED <<state, waitInfo, context, apcs, current>>
        /\ timers' = timers \ {t} /\ OthersKept(t)
    BY <1>2 DEF TimeoutFires, queueVars, OthersKept
  <2> QED BY <2>1, <2>2, OneRecordChanges DEF RecordInv, ContextSaved
<1> QED BY <1>1, <1>2

\* An APC is left in the queue only of a thread that is not in an alertable
\* wait: such a thread has a context, and the APC ends its wait.
LEMMA ApcKeepsRecords ==
    ASSUME ThreadInv, RecordInv, NEW t \in Threads, QueueApc(t)
    PROVE  RecordInv'
<1>1. \A u \in Threads \ {t} : apcs'[u] = apcs[u]
  BY DEF QueueApc, ThreadInv, ThreadsTypeOK
<1>2. CASE TakesApc(t)
  <2>1. Wake(t, "io")
    BY <1>2 DEF QueueApc
  <2> QED BY <1>1, <2>1, WakeKeepsRecords DEF WaitResults
<1>3. CASE ~TakesApc(t)
  <2>1. ~waitInfo[t].alertable
    BY <1>3, OnlyWaitersWait DEF TakesApc, RecordInv, ContextSaved
  <2>2. UNCHANGED <<state, waitInfo, context, timers, current>>
    BY <1>3 DEF QueueApc, queueVars
  <2> QED BY <1>1, <2>1, <2>2, RecordsUnchanged
<1> QED BY <1>2, <1>3

\* A thread that suspends itself has no context until it is switched out.
LEMMA SuspendKeepsRecords ==
    ASSUME ThreadInv, RecordInv, NEW t \in Threads, SuspendThread(t)
    PROVE  RecordInv'
<1>1. CASE state[t] \in {"READY", "RUNNING"}
  <2>1. waitInfo[t] = NoWait /\ ~waitInfo[t].timed /\ ~waitInfo[t].alertable /\ t \notin timers
    BY <1>1, OnlyWaitersWait DEF RecordInv, TimersExact
  <2>2. state[t] = "RUNNING" => t = current
    BY DEF ThreadInv, SuspendedOffCpu
  <2>3. state[t] = "READY" => context[t] # "none"
    BY DEF RecordInv, ContextSaved
  <2>4. /\ state'[t] = "SUSPENDED" /\ UNCHANGED <<waitInfo, context, apcs, timers, current>>
        /\ OthersKept(t)
    BY <1>1 DEF SuspendThread, Stop, ThreadInv, ThreadsTypeOK, OthersKept
  <2> QED BY <1>1, <2>1, <2>2, <2>3, <2>4, OneRecordChanges
<1>2. CASE state[t] \notin {"READY", "RUNNING"}
  BY <1>2, RecordsUnchanged DEF SuspendThread
<1> QED BY <1>1, <1>2

\* The last resume finds a saved context, since the resumer is the one on
\* the CPU.
LEMMA ResumeKeepsRecords ==
    ASSUME ThreadInv, RecordInv, NEW t \in Threads, ResumeThread(t)
    PROVE  RecordInv'
<1>1. state[current] = "RUNNING" /\ current' = current /\ apcs' = apcs
  BY DEF ResumeThread, GuestReady
<1>2. CASE UNCHANGED <<state, waitInfo, context, timers>>
  BY <1>1, <1>2, RecordsUnchanged
<1>3. CASE /\ state[t] = "SUSPENDED" /\ state' = [state EXCEPT ![t] = "READY"]
           /\ UNCHANGED <<waitInfo, context, timers>>
  <2>1. waitInfo[t] = NoWait /\ ~waitInfo[t].timed /\ ~waitInfo[t].alertable /\ t \notin timers
    BY <1>3, OnlyWaitersWait DEF RecordInv, TimersExact
  <2>2. context[t] # "none"
    BY <1>1, <1>3 DEF RecordInv, ContextSaved
  <2>3. state'[t] = "READY" /\ OthersKept(t)
    BY <1>1, <1>3 DEF ThreadInv, ThreadsTypeOK, OthersKept
  <2> QED BY <1>1, <1>3, <2>1, <2>2, <2>3, OneRecordChanges
<1>4. CASE /\ EndWait(t) /\ state' = [state EXCEPT ![t] = "READY"]
           /\ \E r \in {"object", "abandoned"} : context' = [context EXCEPT ![t] = r]
  <2>1. /\ state'[t] = "READY" /\ context'[t] # "none" /\ waitInfo'[t] = NoWait
        /\ t \notin timers' /\ OthersKept(t)
    BY <1>1, <1>4 DEF EndWait, ThreadInv, ThreadsTypeOK, OthersKept
  <2> QED BY <1>1, <2>1, OneRecordChanges DEF NoWait
<1>5. CASE suspendCount[t] = 1 /\ state[t] = "WAITING"
  <2>1. ReevaluateWait(t)
    BY <1>5 DEF ResumeThread
  <2>2. \A d \in Decisions(waitInfo[t].handles, waitInfo[t].all, t, Exited) :
           d.result \in {"object", "abandoned"}
    BY DEF Decisions, Decision
  <2> QED BY <1>2, <1>4, <2>1, <2>2 DEF ReevaluateWait
<1>6. CASE ~(suspendCount[t] = 1 /\ state[t] = "WAITING")
  BY <1>2, <1>3, <1>6 DEF ResumeThread
<1> QED BY <1>5, <1>6

LEMMA CreateKeepsRecords ==
    ASSUME ThreadInv, RecordInv, NEW t \in Threads, NEW suspended \in BOOLEAN,
           CreateThread(t, suspended)
    PROVE  RecordInv'
<1>1. waitInfo[t] = NoWait /\ ~waitInfo[t].timed /\ ~waitInfo[t].alertable /\ t \notin timers
  BY OnlyWaitersWait DEF CreateThread, RecordInv, TimersExact
<1>2. /\ state'[t] \in {"READY", "SUSPENDED"} /\ context'[t] = "saved"
      /\ UNCHANGED <<waitInfo, apcs, timers, current>> /\ OthersKept(t)
  BY DEF CreateThread, ThreadInv, ThreadsTypeOK, OthersKept
<1> QED BY <1>1, <1>2, OneRecordChanges

\* The timer of a thread that dies stays armed, and finds it dead.
LEMMA TerminateKeepsRecords ==
    ASSUME ThreadInv, RecordInv, NEW t \in Threads, Terminate(t)
    PROVE  RecordInv'
<1>1. /\ state'[t] = "TERMINATED" /\ context'[t] = "none" /\ waitInfo'[t] = NoWait
      /\ UNCHANGED <<timers, current>> /\ OthersKept(t)
  BY DEF Terminate, ThreadInv, ThreadsTypeOK, OthersKept
<1> QED BY <1>1, OneRecordChanges DEF NoWait

\* A set of positions of a queue that is not empty has a best one: of highest
\* priority, and the first of those.
LEMMA BestExists ==
    ASSUME ThreadsTypeOK, NEW queue \in Seq(Threads), NEW others \in SUBSET DOMAIN queue,
           others # {}
    PROVE  \E i \in others : \A j \in others :
              \/ priority[queue[j]] < priority[queue[i]]
              \/ priority[queue[j]] = priority[queue[i]] /\ i <= j
<1> DEFINE Better(i, j) == \/ priority[queue[j]] < priority[queue[i]]
                           \/ priority[queue[j]] = priority[queue[i]] /\ i <= j
           Best(n) == \E i \in others : i <= n /\ \A j \in others : j <= n => Better(i, j)
           Bad == {n \in Nat : (\E i \in others : i <= n) /\ ~Best(n)}
<1>1. /\ \A i \in others : i \in Nat \ {0} /\ i <= Len(queue)
      /\ \A i \in others : priority[queue[i]] \in Int
  <2>1. \A i \in others : i \in 1..Len(queue) /\ queue[i] \in Threads
    OBVIOUS
  <2>2. \A t \in Threads : priority[t] \in Int
    BY SchedulerConstants DEF ThreadsTypeOK
  <2>3. Len(queue) \in Nat
    OBVIOUS
  <2> HIDE DEF Bad, Best, Better
  <2> QED BY <2>1, <2>2, <2>3
<1>2. Bad = {}
  <2> SUFFICES ASSUME Bad # {} PROVE FALSE
    OBVIOUS
  <2>1. PICK n \in Bad : \A m \in Bad : n <= m
    <3> HIDE DEF Bad
    <3>1. Bad \in SUBSET Nat
      BY DEF Bad
    <3> QED BY <3>1, SmallestOf
  <2>2. n \in Nat \ {0}
    BY <1>1, <2>1
  <2>3. n - 1 \in Nat /\ n - 1 \notin Bad
    <3> HIDE DEF Bad
    <3> QED BY <2>1, <2>2
  <2>4. CASE ~\E i \in others : i <= n - 1
    <3>1. \A i \in others : i <= n => i = n
      BY <1>1, <2>2, <2>4
    <3>2. PICK i \in others : i <= n
      BY <2>1
    <3>3. i = n /\ Better(i, i)
      BY <1>1, <3>1, <3>2
    <3> QED BY <2>1, <3>1, <3>2, <3>3
  <2>5. CASE Best(n - 1)
    <3>1. PICK i \in others : i <= n - 1 /\ \A j \in others : j <= n - 1 => Better(i, j)
      BY <2>5
    <3>2. i \in Nat /\ i <= n
      BY <1>1, <2>2, <3>1
    <3>3. \A j \in others : j <= n => j <= n - 1 \/ j = n
      BY <1>1, <2>2
    <3>4. CASE n \in others /\ priority[queue[i]] < priority[queue[n]]
      <4>1. ASSUME NEW j \in others, j <= n - 1 PROVE Better(n, j)
        <5>1. Better(i, j)
          BY <3>1, <4>1
        <5>2. /\ priority[queue[i]] \in Int /\ priority[queue[j]] \in Int
              /\ priority[queue[n]] \in Int
          BY <1>1, <3>4
        <5> HIDE DEF Bad, Best
        <5> QED BY <3>4, <5>1, <5>2
      <4>2. Better(n, n)
        <5> HIDE DEF Bad, Best
        <5> QED BY <2>2
      <4>3. \A j \in others : j <= n => Better(n, j)
        <5> HIDE DEF Bad, Best, Better
        <5> QED BY <3>3, <4>1, <4>2
      <4> QED BY <2>1, <2>2, <3>4, <4>3
    <3>5. CASE ~(n \in others /\ priority[queue[i]] < priority[queue[n]])
      <4>1. n \in others => Better(i, n)
        <5> HAVE n \in others
        <5>1. priority[queue[i]] \in Int /\ priority[queue[n]] \in Int
          BY <1>1
        <5> HIDE DEF Bad, Best
        <5> QED BY <2>2, <3>2, <3>5, <5>1
      <4>2. \A j \in others : j <= n => Better(i, j)
        BY <3>1, <3>3, <4>1
      <4> QED BY <2>1, <3>2, <4>2
    <3> QED BY <3>4, <3>5
  <2>6. (\E i \in others : i <= n - 1) => Best(n - 1)
    BY <2>3
  <2> QED BY <2>4, <2>5, <2>6
<1>3. Best(Len(queue))
  <2>1. Len(queue) \in Nat /\ \E i \in others : i <= Len(queue)
    BY <1>1
  <2> HIDE DEF Best
  <2> QED BY <1>2, <2>1
<1> QED BY <1>1, <1>3

\* pickNextRunnable finds a thread if there is a runnable one in the queue.
LEMMA PickFinds ==
    ASSUME ThreadsTypeOK, NEW states, NEW queue \in Seq(Threads), NEW excluded,
           NEW k \in DOMAIN queue, states[queue[k]] = "READY", suspendCount[queue[k]] = 0
    PROVE  Pick(states, queue, excluded) # {}
<1> DEFINE eligible(t) == states[t] = "READY" /\ suspendCount[t] = 0 /\ t # excluded
           boot == {i \in DOMAIN bootstrap : eligible(bootstrap[i])}
           others == {i \in DOMAIN queue : eligible(queue[i])}
<1>1. CASE boot # {}
  <2>1. boot \in SUBSET Nat
    <3>1. DOMAIN bootstrap = 1..Len(bootstrap)
      BY DEF ThreadsTypeOK
    <3> QED BY <3>1
  <2>2. PICK m \in boot : \A j \in boot : m <= j
    BY <1>1, <2>1, SmallestOf
  <2> QED BY <1>1, <2>2 DEF Pick
<1>2. CASE boot = {} /\ others # {}
  <2>1. PICK i \in others : \A j \in others :
           \/ priority[queue[j]] < priority[queue[i]]
           \/ priority[queue[j]] = priority[queue[i]] /\ i <= j
    <3> HIDE DEF others
    <3>1. others \in SUBSET DOMAIN queue
      BY DEF others
    <3> QED BY <1>2, <3>1, BestExists
  <2> QED BY <1>2, <2>1 DEF Pick
<1>3. CASE boot = {} /\ others = {}
  BY <1>3 DEF Pick
<1> QED BY <1>1, <1>2, <1>3

\* A switch saves the context of the thread it leaves, if that is not saved
\* yet, and loads that of the next.
LEMMA SwitchKeepsRecords ==
    ASSUME ThreadInv, RecordInv, PerformSwitch
    PROVE  RecordInv'
<1> DEFINE preempted == state[current] = "RUNNING"
           states == IF preempted THEN [state EXCEPT ![current] = "READY"] ELSE state
           queue == IF preempted THEN Append(runQueue, current) ELSE runQueue
           contexts == IF preempted \/ SelfSuspended
                       THEN [context EXCEPT ![current] = "saved"] ELSE context
<1>1. /\ current \in Threads
      /\ states \in [Threads -> States] /\ contexts \in [Threads -> Contexts]
      /\ queue \in Seq(Threads)
  BY DEF ThreadInv, ThreadsTypeOK, States, Contexts
<1>2. UNCHANGED <<waitInfo, apcs, timers>>
  BY DEF PerformSwitch
<1>3. \A t \in Threads :
        CASE states[t] \in {"READY", "WAITING", "SUSPENDED"} -> contexts[t] # "none"
          [] OTHER -> contexts[t] = "none"
  <2>1. CASE preempted
    BY <1>1, <2>1 DEF ThreadInv, ThreadsTypeOK, SuspendedOffCpu, RecordInv, ContextSaved, SelfSuspended
  <2>2. CASE ~preempted /\ SelfSuspended
    BY <1>1, <2>2 DEF ThreadInv, ThreadsTypeOK, SuspendedOffCpu, RecordInv, ContextSaved, SelfSuspended
  <2>3. CASE ~preempted /\ ~SelfSuspended
    BY <1>1, <2>3 DEF ThreadInv, ThreadsTypeOK, SuspendedOffCpu, RecordInv, ContextSaved, SelfSuspended
  <2> QED BY <2>1, <2>2, <2>3
<1>4. \A t \in Threads : states[t] = "TERMINATED" <=> state[t] = "TERMINATED"
  BY <1>1 DEF ThreadInv, ThreadsTypeOK
<1>5. CASE /\ UNCHANGED <<state, current>> /\ context' = contexts
           /\ Pick(states, queue, current) = {}
  <2>1. CASE ~preempted
    <3>1. ContextSaved'
      BY <1>3, <1>5, <2>1 DEF ContextSaved, SuspendedOffCpu, ThreadInv
    <3> QED BY <1>2, <1>5, <3>1 DEF RecordInv, TimersExact, AlertableWaitsHaveNoApc
  <2>2. CASE preempted
    <3>1. Len(queue) \in DOMAIN queue /\ queue[Len(queue)] = current
      BY <1>1, <2>2 DEF ThreadInv, ThreadsTypeOK
    <3>2. states[current] = "READY" /\ suspendCount[current] = 0
      BY <1>1, <2>2 DEF ThreadInv, ThreadsTypeOK, SuspendedOffCpu
    <3> HIDE DEF states, queue, contexts
    <3> QED BY <1>1, <1>5, <3>1, <3>2, PickFinds DEF ThreadInv
  <2> QED BY <2>1, <2>2
<1>6. ASSUME NEW next \in Pick(states, queue, current),
             state' = [states EXCEPT ![next] = "RUNNING"],
             context' = [contexts EXCEPT ![next] = "none"]
      PROVE  RecordInv'
  <2> HIDE DEF states, queue, contexts
  <2>1. next \in Threads /\ states[next] = "READY"
    BY <1>1, PickReady DEF ThreadInv
  <2>2. TimersExact'
    BY <1>1, <1>2, <1>4, <1>6, <2>1 DEF RecordInv, TimersExact
  <2>3. ContextSaved'
    BY <1>1, <1>3, <1>6, <2>1 DEF ContextSaved
  <2> QED BY <1>2, <2>2, <2>3 DEF RecordInv, AlertableWaitsHaveNoApc
<1> QED BY <1>5, <1>6 DEF PerformSwitch

\* Every step keeps the records right.
LEMMA StepKeepsRecords ==
    ASSUME ThreadInv, MessageScan, RecordInv, [Next]_vars
    PROVE  RecordInv'
<1>1. CASE UNCHANGED <<threadVars, queueVars>>
  BY <1>1, RecordsUnchanged DEF threadVars, queueVars
<1>2. CASE WakeStep
  <2>1. EndVisit => UNCHANGED <<threadVars, queueVars>>
    BY DEF EndVisit
  <2>2. ASSUME NEW t \in Threads, VisitWaiter(t)
        PROVE  RecordInv'
    <3>1. CASE \E d \in Decisions(waitInfo[t].handles, waitInfo[t].all, t, Exited) :
                 Wake(t, d.result) /\ UNCHANGED <<apcs, alerted>>
      <4>1. PICK r \in {"object", "abandoned"} : Wake(t, r) /\ UNCHANGED apcs
        BY <3>1 DEF Decisions, Decision
      <4> QED BY <4>1, WakeKeepsRecords DEF WaitResults
    <3> QED BY <1>1, <2>2, <3>1 DEF VisitWaiter
  <2>3. ASSUME NEW t \in Threads, VisitMessageWaiter(t)
        PROVE  RecordInv'
    <3>1. CASE Wake(t, "message") /\ UNCHANGED apcs
      BY <3>1, WakeKeepsRecords DEF WaitResults
    <3> QED BY <1>1, <2>3, <3>1 DEF VisitMessageWaiter
  <2> QED BY <1>1, <1>2, <2>1, <2>2, <2>3 DEF WakeStep
<1>3. CASE SignalStep
  <2>1. UNCHANGED <<threadVars, queueVars>>
    BY <1>3 DEF SignalStep, SetEvent, ResetEvent, PulseEvent, ReleaseSemaphore, ReleaseMutex
  <2> QED BY <1>1, <2>1
<1>4. CASE WaitStep
  <2>1. CASE \E list \in AnyLists, timed \in Timed, alertable \in Alertable, message \in BOOLEAN :
               WaitForObjects(list, FALSE, timed, alertable, message)
    BY <2>1, WaitKeepsRecords, SchedulerConstants
  <2>2. CASE \E list \in AllLists, timed \in Timed, alertable \in Alertable, message \in BOOLEAN :
               WaitForObjects(list, TRUE, timed, alertable, message)
    BY <2>2, WaitKeepsRecords, SchedulerConstants
  <2>3. CASE \E timed \in Timed, alertable \in Alertable :
               WaitForObjects(<<>>, FALSE, timed, alertable, TRUE)
    BY <2>3, WaitKeepsRecords, SchedulerConstants
  <2>4. CASE \E timed \in Timed, alertable \in Alertable : Sleep(timed, alertable)
    BY <2>4, SleepKeepsRecords, SchedulerConstants
  <2>5. CASE Yield
    BY <2>5, YieldKeepsRecords
  <2> QED BY <1>4, <2>1, <2>2, <2>3, <2>4, <2>5 DEF WaitStep
<1>5. CASE ThreadStep
  <2>1. CASE (\E targets : PostMessage(targets)) \/ ExitProcess
    BY <1>1, <2>1 DEF PostMessage, ExitProcess
  <2>2. CASE DispatchAlertedApcs
    <3>1. \A t \in Threads : apcs'[t] \in {apcs[t], 0}
      BY <2>2 DEF DispatchAlertedApcs, ThreadInv, ThreadsTypeOK
    <3> QED BY <2>2, <3>1, RecordsUnchanged DEF DispatchAlertedApcs, queueVars
  <2>3. CASE \E t \in Threads, p \in Priorities : SetThreadPriority(t, p)
    BY <2>3, RecordsUnchanged DEF SetThreadPriority, queueVars
  <2>4. CASE \E t \in Threads : TimeoutFires(t) \/ QueueApc(t)
    BY <2>4, TimeoutKeepsRecords, ApcKeepsRecords
  <2>5. CASE \E t \in Threads : SuspendThread(t) \/ ResumeThread(t)
    BY <2>5, SuspendKeepsRecords, ResumeKeepsRecords
  <2>6. CASE \E t \in Threads, suspended \in Suspended : CreateThread(t, suspended)
    BY <2>6, CreateKeepsRecords, SchedulerConstants
  <2>7. CASE \E t \in Threads : TerminateThread(t) \/ TerminateNext(t)
    BY <2>7, TerminateKeepsRecords DEF TerminateThread, TerminateNext
  <2> QED BY <1>5, <2>1, <2>2, <2>3, <2>4, <2>5, <2>6, <2>7 DEF ThreadStep
<1>6. CASE PerformSwitch
  BY <1>6, SwitchKeepsRecords
<1>7. CASE UNCHANGED vars
  BY <1>1, <1>7 DEF vars
<1> QED BY <1>2, <1>3, <1>4, <1>5, <1>6, <1>7 DEF Next

LEMMA InitRecords == Init => RecordInv
BY SchedulerConstants DEF Init, RecordInv, TimersExact, ContextSaved, AlertableWaitsHaveNoApc, NoWait

LEMMA RecordsKept == TypeInv /\ RecordInv /\ [Next]_vars => (TypeInv /\ RecordInv)'
<1> SUFFICES ASSUME TypeInv, RecordInv, [Next]_vars PROVE TypeInv' /\ RecordInv'
  OBVIOUS
<1>1. TypeInv'
  BY StepKeepsTypes
<1>2. RecordInv'
  BY StepKeepsRecords DEF TypeInv
<1> QED BY <1>1, <1>2

(* A timer belongs to the wait its thread is in: no timer armed for an     *)
(* earlier wait can end a later one, and no timed wait lacks its timer     *)
(* (blockThread, wakeThread, terminateThread).                             *)
THEOREM TimersBelong == Spec => []TimersExact
<1>1. RecordInv => TimersExact
  BY DEF RecordInv
<1> QED BY <1>1, InitTypes, InitRecords, RecordsKept, PTL DEF Spec

(* performSwitch finds a saved context for every thread it may pick, also  *)
(* for one that suspended itself.                                          *)
THEOREM ContextsSaved == Spec => []ContextSaved
<1>1. RecordInv => ContextSaved
  BY DEF RecordInv
<1> QED BY <1>1, InitTypes, InitRecords, RecordsKept, PTL DEF Spec

(* No thread sits in an alertable wait with an APC queued                  *)
(* (wakeAlertableThreadForApc), suspended or not.                          *)
THEOREM ApcsDelivered == Spec => []AlertableWaitsHaveNoApc
<1>1. RecordInv => AlertableWaitsHaveNoApc
  BY DEF RecordInv
<1> QED BY <1>1, InitTypes, InitRecords, RecordsKept, PTL DEF Spec

-----------------------------------------------------------------------------
(* The owners of mutexes.                                                  *)

\* Nothing happens to the mutexes, and nobody dies.
LEMMA MutexesUnchanged ==
    ASSUME MutexOwnerAlive, ObjectsTypeOK, UNCHANGED <<owner, recursion>>,
           \A t \in Threads : Live(t) => Live(t)'
    PROVE  MutexOwnerAlive'
BY DEF MutexOwnerAlive, ObjectsTypeOK

\* A live thread takes what it waited for.
LEMMA ConsumeKeepsMutexes ==
    ASSUME MutexOwnerAlive, ObjectsTypeOK, NEW t \in Threads, NEW taken, Consume(taken, t),
           Live(t), \A u \in Threads : Live(u) => Live(u)'
    PROVE  MutexOwnerAlive'
<1> SUFFICES ASSUME NEW m \in Mutexes
             PROVE  /\ owner'[m] # NoThread => Live(owner[m])'
                    /\ recursion'[m] > 0 <=> owner'[m] # NoThread
  BY DEF MutexOwnerAlive
<1>1. /\ recursion[m] \in Nat /\ owner[m] \in Threads \cup {NoThread}
      /\ owner[m] # NoThread => Live(owner[m])
      /\ recursion[m] > 0 <=> owner[m] # NoThread
  BY SyncConstants DEF ObjectsTypeOK, MutexOwnerAlive
<1>2. CASE m \in taken /\ owner[m] = NoThread
  <2>0. owner[m] # t
    BY <1>2, SyncConstants
  <2>a. owner'[m] = t
    BY <1>2 DEF Consume
  <2>b. recursion'[m] = 1
    BY <1>2, <2>0 DEF Consume
  <2>1. owner'[m] = t /\ recursion'[m] = 1
    BY <2>a, <2>b
  <2>2. state'[t] \notin {"NEW", "TERMINATED"} /\ t # NoThread
    BY SyncConstants DEF Live
  <2>3. state'[owner'[m]] \notin {"NEW", "TERMINATED"}
    BY <2>1, <2>2
  <2> QED BY <2>1, <2>2, <2>3 DEF Live
<1>3. CASE m \in taken /\ owner[m] = t
  <2>1. owner'[m] = t /\ recursion'[m] = recursion[m] + 1
    BY <1>3, SyncConstants DEF Consume
  <2> QED BY <1>1, <2>1, SyncConstants DEF Live
<1>4. CASE m \notin taken \/ owner[m] \notin {NoThread, t}
  <2>1. owner'[m] = owner[m] /\ recursion'[m] = recursion[m]
    BY <1>4 DEF Consume
  <2> QED BY <1>1, <2>1 DEF Live
<1> QED BY <1>2, <1>3, <1>4

\* The last release of a mutex frees it (releaseMutex).
LEMMA UnlockKeepsMutexes ==
    ASSUME MutexOwnerAlive, ObjectsTypeOK, NEW m \in Mutexes, NEW t \in Threads,
           UnlockMutex(m, t), UNCHANGED state
    PROVE  MutexOwnerAlive'
<1>1. /\ recursion[m] \in Nat \ {0} /\ owner[m] = t /\ Live(t)
      /\ recursion'[m] = recursion[m] - 1
      /\ owner'[m] = IF recursion'[m] = 0 THEN NoThread ELSE t
  BY SyncConstants DEF MutexOwnerAlive, ObjectsTypeOK, UnlockMutex
<1>2. \A n \in Mutexes \ {m} : owner'[n] = owner[n] /\ recursion'[n] = recursion[n]
  BY DEF ObjectsTypeOK, UnlockMutex
<1>3. \A u : Live(u)' <=> Live(u)
  BY DEF Live
<1> QED BY <1>1, <1>2, <1>3, SyncConstants DEF MutexOwnerAlive

\* A thread that dies gives its mutexes up (releaseAllMutexesForThread).
LEMMA TerminateKeepsMutexes ==
    ASSUME ThreadInv, MutexOwnerAlive, ObjectsTypeOK, NEW t \in Threads, Terminate(t)
    PROVE  MutexOwnerAlive'
<1>1. \A u \in Threads \ {t} : Live(u) => Live(u)'
  BY DEF Terminate, Live, ThreadInv, ThreadsTypeOK
<1>2. \A m \in Mutexes :
        IF owner[m] = t THEN owner'[m] = NoThread /\ recursion'[m] = 0
                        ELSE owner'[m] = owner[m] /\ recursion'[m] = recursion[m]
  BY DEF Terminate, AbandonMutexes, OwnedBy
<1> QED BY <1>1, <1>2, SyncConstants DEF MutexOwnerAlive, ObjectsTypeOK

\* Every step keeps the owners alive.
LEMMA StepKeepsMutexes ==
    ASSUME TypeInv, MutexOwnerAlive, [Next]_vars
    PROVE  MutexOwnerAlive'
<1> USE DEF TypeInv
<1>1. CASE UNCHANGED <<state, owner, recursion>>
  BY <1>1, MutexesUnchanged DEF Live
<1>2. CASE \E t \in Threads : TerminateThread(t) \/ TerminateNext(t)
  BY <1>2, TerminateKeepsMutexes DEF TerminateThread, TerminateNext
<1>3. ASSUME NEW t \in Threads, Live(t), NEW r \in {"READY", "WAITING", "SUSPENDED"},
             state' = [state EXCEPT ![t] = r]
      PROVE  \A u \in Threads : Live(u) => Live(u)'
  BY <1>3 DEF Live, ThreadInv, ThreadsTypeOK
<1>4. ASSUME NEW t \in Threads, VisitWaiter(t)
      PROVE  MutexOwnerAlive'
  <2>1. Live(t)
    <3>1. t \in ToSet(waiters)
      BY <1>4 DEF VisitWaiter, ToSet
    <3> QED BY <3>1, RegisteredWaits DEF Live
  <2>2. CASE UNCHANGED <<objectVars, threadVars>>
    BY <1>1, <2>2 DEF objectVars, threadVars
  <2>3. CASE \E d \in Decisions(waitInfo[t].handles, waitInfo[t].all, t, Exited) :
               Consume(d.take, t) /\ Wake(t, d.result)
    <3>1. PICK d : Consume(d.take, t) /\ Wake(t, d.result)
      BY <2>3
    <3>2. \A u \in Threads : Live(u) => Live(u)'
      BY <1>3, <2>1, <3>1 DEF Wake, LeaveWait
    <3> QED BY <2>1, <3>1, <3>2, ConsumeKeepsMutexes
  <2> QED BY <1>4, <2>2, <2>3 DEF VisitWaiter
<1>5. ASSUME NEW t \in Threads, VisitMessageWaiter(t) \/ TimeoutFires(t) \/ QueueApc(t)
      PROVE  MutexOwnerAlive'
  <2>1. UNCHANGED <<owner, recursion>>
    BY <1>5 DEF VisitMessageWaiter, TimeoutFires, QueueApc, objectVars
  <2>2. CASE UNCHANGED state
    BY <1>1, <2>1, <2>2
  <2>3. CASE state[t] = "WAITING" /\ \E r \in WaitResults : Wake(t, r)
    <3>1. \A u \in Threads : Live(u) => Live(u)'
      BY <1>3, <2>3 DEF Wake, LeaveWait, Live
    <3> QED BY <2>1, <3>1, MutexesUnchanged
  <2>4. VisitMessageWaiter(t) => state[t] = "WAITING"
    BY DEF VisitMessageWaiter, MessageScan
  <2> QED BY <1>5, <2>2, <2>3, <2>4
          DEF VisitMessageWaiter, TimeoutFires, QueueApc, StillWaits, TakesApc, WaitResults,
              threadVars
<1>6. CASE EndVisit \/ SignalStep
  <2>1. CASE \E m \in Mutexes : ReleaseMutex(m)
    <3>1. current \in Threads
      BY DEF ThreadInv, ThreadsTypeOK
    <3> QED BY <2>1, <3>1, UnlockKeepsMutexes DEF ReleaseMutex, threadVars
  <2>2. CASE ~\E m \in Mutexes : ReleaseMutex(m)
    <3>1. UNCHANGED <<state, owner, recursion>>
      BY <1>6, <2>2 DEF EndVisit, SignalStep, SetEvent, ResetEvent, PulseEvent, ReleaseSemaphore,
                        SignalEvent, UnsignalEvent, AddCount, objectVars, threadVars
    <3> QED BY <1>1, <3>1
  <2> QED BY <2>1, <2>2
<1>7. current \in Threads /\ (state[current] = "RUNNING" => Live(current))
  BY DEF ThreadInv, ThreadsTypeOK, Live
<1>8. ASSUME NEW handles, NEW all, NEW timed, NEW alertable, NEW message,
             WaitForObjects(handles, all, timed, alertable, message)
      PROVE  MutexOwnerAlive'
  <2>1. state[current] = "RUNNING"
    BY <1>8 DEF WaitForObjects, GuestReady
  <2>2. CASE UNCHANGED state /\ \E taken : Consume(taken, current)
    <3>1. \A u \in Threads : Live(u) => Live(u)'
      BY <2>2 DEF Live
    <3> QED BY <1>7, <2>1, <2>2, <3>1, ConsumeKeepsMutexes
  <2>3. CASE RunQueuedApcs
    BY <1>1, <2>3 DEF RunQueuedApcs, objectVars
  <2>4. ASSUME NEW info, Block(info), UNCHANGED objectVars
        PROVE  MutexOwnerAlive'
    <3>1. \A u \in Threads : Live(u) => Live(u)'
      BY <1>3, <1>7, <2>1, <2>4 DEF Block
    <3> QED BY <2>4, <3>1, MutexesUnchanged DEF objectVars
  <2> QED BY <1>8, <2>2, <2>3, <2>4 DEF WaitForObjects, threadVars
<1>9. ASSUME NEW timed, NEW alertable, Sleep(timed, alertable)
      PROVE  MutexOwnerAlive'
  <2>1. state[current] = "RUNNING"
    BY <1>9 DEF Sleep, GuestReady
  <2>2. CASE RunQueuedApcs
    BY <1>1, <2>2 DEF RunQueuedApcs, objectVars
  <2>3. CASE state' = [state EXCEPT ![current] = "WAITING"] /\ UNCHANGED objectVars
    <3>1. \A u \in Threads : Live(u) => Live(u)'
      BY <1>3, <1>7, <2>1, <2>3
    <3> QED BY <2>3, <3>1, MutexesUnchanged DEF objectVars
  <2> QED BY <1>9, <2>2, <2>3 DEF Sleep, Block
<1>10. CASE Yield
  <2>1. \A u \in Threads : Live(u) => Live(u)'
    BY <1>3, <1>7, <1>10 DEF Yield, GuestReady
  <2> QED BY <1>10, <2>1, MutexesUnchanged DEF Yield, objectVars
<1>11. CASE ExitProcess \/ DispatchAlertedApcs \/ (\E targets : PostMessage(targets))
            \/ (\E t \in Threads : \E p : SetThreadPriority(t, p))
  BY <1>1, <1>11
     DEF ExitProcess, DispatchAlertedApcs, PostMessage, SetThreadPriority, objectVars, threadVars
<1>12. CASE \E t \in Threads : SuspendThread(t)
  <2>1. PICK t \in Threads : SuspendThread(t)
    BY <1>12
  <2>2. UNCHANGED <<owner, recursion>> /\ Live(t)
    BY <2>1 DEF SuspendThread, objectVars
  <2>3. \A u \in Threads : Live(u) => Live(u)'
    <3>1. UNCHANGED state \/ state' = [state EXCEPT ![t] = "SUSPENDED"]
      BY <2>1 DEF SuspendThread, Stop
    <3> QED BY <1>3, <2>2, <3>1 DEF Live
  <2> QED BY <2>2, <2>3, MutexesUnchanged
<1>13. ASSUME NEW t \in Threads, ResumeThread(t)
       PROVE  MutexOwnerAlive'
  <2>1. CASE UNCHANGED <<objectVars, state>>
    BY <1>1, <2>1 DEF objectVars
  <2>2. CASE /\ Live(t) /\ state' = [state EXCEPT ![t] = "READY"]
             /\ UNCHANGED objectVars \/ \E taken : Consume(taken, t)
    <3>1. \A u \in Threads : Live(u) => Live(u)'
      BY <1>3, <2>2
    <3> QED BY <2>2, <3>1, MutexesUnchanged, ConsumeKeepsMutexes DEF objectVars
  <2>3. state[t] \in {"WAITING", "SUSPENDED"} => Live(t)
    BY DEF Live
  <2> QED BY <1>13, <2>1, <2>2, <2>3 DEF ResumeThread, ReevaluateWait
<1>14. CASE \E t \in Threads : \E suspended : CreateThread(t, suspended)
  <2>1. PICK t \in Threads : \E suspended : CreateThread(t, suspended)
    BY <1>14
  <2>2. UNCHANGED <<owner, recursion>> /\ \E r \in {"READY", "SUSPENDED"} : state' = [state EXCEPT ![t] = r]
    BY <2>1 DEF CreateThread, objectVars
  <2>3. \A u \in Threads : Live(u) => Live(u)'
    BY <2>2 DEF Live, ThreadInv, ThreadsTypeOK
  <2> QED BY <2>2, <2>3, MutexesUnchanged
<1>15. CASE PerformSwitch
  <2>1. UNCHANGED <<owner, recursion>>
    BY <1>15 DEF PerformSwitch, objectVars
  <2>2. \A u \in Threads : Live(u) => Live(u)'
    <3> DEFINE states == IF state[current] = "RUNNING" THEN [state EXCEPT ![current] = "READY"] ELSE state
    <3>1. \A u \in Threads : Live(u) => states[u] \notin {"NEW", "TERMINATED"}
      BY <1>7 DEF Live, ThreadInv, ThreadsTypeOK
    <3>2. states \in [Threads -> States]
      BY DEF ThreadInv, ThreadsTypeOK, States
    <3>3. UNCHANGED state \/ \E next : state' = [states EXCEPT ![next] = "RUNNING"]
      BY <1>15 DEF PerformSwitch
    <3> HIDE DEF states
    <3> QED BY <3>1, <3>2, <3>3 DEF Live
  <2> QED BY <2>1, <2>2, MutexesUnchanged
<1>16. CASE UNCHANGED vars
  BY <1>1, <1>16 DEF vars, objectVars, threadVars
<1> QED
  BY <1>2, <1>4, <1>5, <1>6, <1>8, <1>9, <1>10, <1>11, <1>12, <1>13, <1>14, <1>15, <1>16
     DEF Next, WakeStep, WaitStep, ThreadStep

(* A mutex is owned by a live thread and held at least once, or free, also *)
(* in the middle of a teardown (releaseAllMutexesForThread).               *)
THEOREM OwnersAlive == Spec => []MutexOwnerAlive
<1>1. Init => MutexOwnerAlive
  BY SyncConstants DEF Init, ObjectsInit, MutexOwnerAlive
<1>2. TypeInv /\ MutexOwnerAlive /\ [Next]_vars => (TypeInv /\ MutexOwnerAlive)'
  BY StepKeepsTypes, StepKeepsMutexes
<1> QED BY <1>1, <1>2, InitTypes, PTL DEF Spec

-----------------------------------------------------------------------------
(* No wake-up is lost, as long as no wait for all names an auto-reset      *)
(* event (NoAutoInWaitAll; with one, run MCWaitAllAuto shows the loss).    *)
(* The argument: whatever a waiter may take is either taken or still to be *)
(* offered to it by the loop that is under way (WakeUnderWay), and at rest *)
(* no loop is under way.                                                   *)

\* Handles in hs apart, nothing becomes ready for u in this step.
NotReadier(u, hs) ==
    \A h \in Waitables : Ready(h, u, Exited)' => Ready(h, u, Exited) \/ h \in hs

-----------------------------------------------------------------------------
(* What each operation makes ready, for a thread that waits.               *)

\* A wait that is granted to one thread makes nothing ready for another
\* (consumeWait).
LEMMA ConsumeNotReadier ==
    ASSUME NEW t \in Threads, NEW u \in Threads \ {t}, NEW taken, Consume(taken, t),
           Exited' = Exited, ObjectsTypeOK
    PROVE  NotReadier(u, {})
<1> SUFFICES ASSUME NEW h \in Waitables, Ready(h, u, Exited)'
             PROVE  Ready(h, u, Exited)
  BY DEF NotReadier
<1>1. CASE h \in Events /\ EventReady(h)'
  BY <1>1 DEF Consume, EventReady, Ready, Events, ObjectsTypeOK
<1>2. CASE h \in Semaphores /\ count'[h] > 0
  BY <1>2, SyncConstants DEF Consume, Ready, ObjectsTypeOK
<1>3. CASE h \in Mutexes /\ owner'[h] \in {NoThread, u}
  BY <1>3, SyncConstants DEF Consume, Ready
<1>4. CASE h \in Threads /\ h \in Exited'
  BY <1>4 DEF Ready
<1> QED BY <1>1, <1>2, <1>3, <1>4 DEF Ready

\* Setting an event makes ready that event only, resetting it nothing.
LEMMA SignalNotReadier ==
    ASSUME ObjectsTypeOK, NEW u \in Threads, NEW e \in Events, Exited' = Exited
    PROVE  /\ SignalEvent(e) => NotReadier(u, {e})
           /\ UnsignalEvent(e) => NotReadier(u, {})
<1>1. ASSUME SignalEvent(e), NEW h \in Waitables, Ready(h, u, Exited)', h # e
      PROVE  Ready(h, u, Exited)
  BY <1>1 DEF SignalEvent, EventReady, Ready, ObjectsTypeOK, Events
<1>2. ASSUME UnsignalEvent(e), NEW h \in Waitables, Ready(h, u, Exited)'
      PROVE  Ready(h, u, Exited)
  BY <1>2 DEF UnsignalEvent, EventReady, Ready, ObjectsTypeOK, Events
<1> QED BY <1>1, <1>2 DEF NotReadier

\* Releasing a semaphore, or a mutex another thread owns, makes ready that
\* object only.
LEMMA ReleaseNotReadier ==
    ASSUME ObjectsTypeOK, NEW u \in Threads, Exited' = Exited
    PROVE  /\ \A s \in Semaphores : \A n : AddCount(s, n) => NotReadier(u, {s})
           /\ \A m \in Mutexes, t \in Threads \ {u} : UnlockMutex(m, t) => NotReadier(u, {m})
<1>1. ASSUME NEW s \in Semaphores, NEW n, AddCount(s, n), NEW h \in Waitables,
             Ready(h, u, Exited)', h # s
      PROVE  Ready(h, u, Exited)
  BY <1>1 DEF AddCount, EventReady, Ready, ObjectsTypeOK
<1>2. ASSUME NEW m \in Mutexes, NEW t \in Threads \ {u}, UnlockMutex(m, t),
             NEW h \in Waitables, Ready(h, u, Exited)', h # m
      PROVE  Ready(h, u, Exited)
  BY <1>2 DEF UnlockMutex, EventReady, Ready, ObjectsTypeOK
<1> QED BY <1>1, <1>2 DEF NotReadier

\* The death of a thread makes ready the mutexes it owned and its handle
\* (releaseAllMutexesForThread).
LEMMA DeathNotReadier ==
    ASSUME ObjectsTypeOK, NEW t \in Threads, NEW u \in Threads, AbandonMutexes(t),
           Exited' = Exited \cup {t}
    PROVE  NotReadier(u, SignalledByDeath(t))
BY DEF NotReadier, AbandonMutexes, SignalledByDeath, OwnedBy, EventReady, Ready, ObjectsTypeOK

\* Where the objects are left alone nothing becomes ready.
LEMMA SameNotReadier ==
    ASSUME UNCHANGED objectVars, Exited' = Exited, NEW u
    PROVE  NotReadier(u, {})
BY DEF NotReadier, Ready, EventReady, objectVars

-----------------------------------------------------------------------------
(* What is offered to a waiter stays offered.                              *)

\* The arrays a thread may wait on name waitable objects.
LEMMA HandlesWaitable ==
    ASSUME ThreadInv, NEW u \in Threads
    PROVE  ToSet(waitInfo[u].handles) \subseteq Waitables
<1>1. waitInfo[u] \in WaitInfos
  BY DEF ThreadInv, ThreadsTypeOK
<1>2. \A list \in AnyLists \cup AllLists \cup {<<>>} : ToSet(list) \subseteq Waitables
  BY SchedulerConstants DEF ToSet
<1> QED BY <1>1, <1>2 DEF WaitInfos, NoWait

\* A thread whose wait is not satisfied has been offered all there is.
LEMMA UnsatisfiedOffered ==
    ASSUME NEW u \in Threads, ~Satisfiable(u)
    PROVE  Offered(u)
<1>1. CASE waitInfo[u].all
  BY <1>1 DEF Offered
<1>2. CASE ~waitInfo[u].all
  <2>1. ASSUME NEW h \in ReadyHandles(u) PROVE FALSE
    <3>1. PICK i \in DOMAIN waitInfo[u].handles : waitInfo[u].handles[i] = h
      BY DEF ReadyHandles, ToSet
    <3>2. waitInfo[u].handles # <<>>
      BY <3>1
    <3> QED BY <1>2, <3>1, <3>2 DEF Satisfiable, WaitReady, ReadyHandles
  <2> QED BY <1>2, <2>1 DEF Offered
<1> QED BY <1>1, <1>2

\* A handle that is ready after the step is pending, or it was ready before
\* and is pending still if it was.
LEMMA OfferedKept ==
    ASSUME NEW u \in Threads, Offered(u), waitInfo'[u] = waitInfo[u],
           \A h \in ToSet(waitInfo[u].handles) :
              Ready(h, u, Exited)' =>
                 \/ h \in PendingFor(u)'
                 \/ Ready(h, u, Exited) /\ (h \in PendingFor(u) => h \in PendingFor(u)')
    PROVE  Offered(u)'
<1> DEFINE hs == waitInfo[u].handles
<1>1. CASE waitInfo[u].all
  <2> SUFFICES ASSUME Satisfiable(u)', ToSet(hs) \cap PendingFor(u)' = {}
               PROVE  FALSE
    BY <1>1 DEF Offered
  <2>1. hs # <<>> /\ \A i \in DOMAIN hs : Ready(hs[i], u, Exited)'
    BY <1>1 DEF Satisfiable, WaitReady
  <2>2. \A i \in DOMAIN hs : hs[i] \in ToSet(hs)
    BY DEF ToSet
  <2>3. \A i \in DOMAIN hs : Ready(hs[i], u, Exited)
    BY <2>1, <2>2
  <2>4. Satisfiable(u)
    BY <1>1, <2>1, <2>3 DEF Satisfiable, WaitReady
  <2>5. PICK h \in ToSet(hs) : h \in PendingFor(u)
    BY <1>1, <2>4 DEF Offered
  <2>6. Ready(h, u, Exited)'
    BY <2>1 DEF ToSet
  <2> QED BY <2>5, <2>6
<1>2. CASE ~waitInfo[u].all
  BY <1>2 DEF Offered, ReadyHandles
<1> QED BY <1>1, <1>2

\* A step that makes nothing ready and leaves the loops alone.
LEMMA CalmStep ==
    ASSUME ThreadInv, NEW u \in Threads, Offered(u), waitInfo'[u] = waitInfo[u],
           NotReadier(u, {}), UNCHANGED wakeVars
    PROVE  Offered(u)'
<1>1. PendingFor(u)' = PendingFor(u)
  BY DEF PendingFor, wakeVars
<1> QED BY <1>1, HandlesWaitable, OfferedKept DEF NotReadier

\* A signal given while no loop runs starts a loop that reaches every
\* waiter of what it made ready.
LEMMA QuietWake ==
    ASSUME ThreadInv, WakeShape, Quiet, NEW hs, StartWake(hs),
           NEW u \in Threads, Offered(u), waitInfo'[u] = waitInfo[u],
           waitInfo[u].handles # <<>> => u \in ToSet(waiters'), NotReadier(u, hs)
    PROVE  Offered(u)'
<1>1. PendingFor(u) = {}
  BY DEF WakeShape, Quiet, PendingFor
<1>2. ASSUME NEW h \in ToSet(waitInfo[u].handles), h \in hs
      PROVE  h \in PendingFor(u)'
  <2>1. u \in HandleWaiters(h)'
    BY <1>2 DEF HandleWaiters, ToSet
  <2>2. \/ h = scanning' /\ unvisited' = HandleWaiters(h)'
        \/ h \in toWake'
    BY <1>2, <2>1 DEF StartWake
  <2> QED BY <2>1, <2>2 DEF PendingFor
<1> QED BY <1>1, <1>2, HandlesWaitable, OfferedKept DEF NotReadier

-----------------------------------------------------------------------------
(* The shape of the waits and of the loops.                                *)

\* A wait begins in the shape the caller gave it and ends as NoWait; nothing
\* changes it in between.
LEMMA StepKeepsWaitShape ==
    ASSUME TypeInv, WaitShape, [Next]_vars
    PROVE  WaitShape'
<1> DEFINE Shaped(info) ==
             /\ info.handles # <<>> <=> info.reason = "object"
             /\ info.handles # <<>> /\ info.all => info.handles \in AllLists
<1>1. ThreadsTypeOK /\ current \in Threads /\ Shaped(NoWait)
  BY DEF TypeInv, ThreadInv, ThreadsTypeOK, NoWait
<1>2. \/ UNCHANGED waitInfo
      \/ \E t \in Threads : \E info : waitInfo' = [waitInfo EXCEPT ![t] = info] /\ Shaped(info)
  <2>1. CASE WakeStep
    BY <1>1, <2>1 DEF WakeStep, VisitWaiter, VisitMessageWaiter, EndVisit, Wake, EndWait, threadVars
  <2>2. CASE SignalStep \/ PerformSwitch \/ UNCHANGED vars
    BY <2>2 DEF SignalStep, SetEvent, ResetEvent, PulseEvent, ReleaseSemaphore, ReleaseMutex,
                PerformSwitch, vars, threadVars
  <2>3. CASE WaitStep
    <3>1. ASSUME NEW handles, NEW all \in BOOLEAN, NEW timed, NEW alertable, NEW message,
                 WaitForObjects(handles, all, timed, alertable, message),
                 all => handles \in AllLists
          PROVE  \/ UNCHANGED waitInfo
                 \/ \E t \in Threads : \E info :
                       waitInfo' = [waitInfo EXCEPT ![t] = info] /\ Shaped(info)
      BY <1>1, <3>1 DEF WaitForObjects, RunQueuedApcs, Block, threadVars
    <3>2. ASSUME NEW timed, NEW alertable, Sleep(timed, alertable)
          PROVE  \/ UNCHANGED waitInfo
                 \/ \E t \in Threads : \E info :
                       waitInfo' = [waitInfo EXCEPT ![t] = info] /\ Shaped(info)
      BY <1>1, <3>2 DEF Sleep, RunQueuedApcs, Block
    <3>3. CASE Yield
      BY <3>3 DEF Yield
    <3> QED BY <2>3, <3>1, <3>2, <3>3 DEF WaitStep
  <2>4. CASE ThreadStep
    BY <1>1, <2>4 DEF ThreadStep, TimeoutFires, QueueApc, PostMessage, SuspendThread,
                      ResumeThread, ReevaluateWait, CreateThread, TerminateThread,
                      TerminateNext, Terminate, SetThreadPriority, DispatchAlertedApcs,
                      ExitProcess, Wake, EndWait, threadVars
  <2> QED BY <2>1, <2>2, <2>3, <2>4 DEF Next
<1>3. \A u \in Threads : Shaped(waitInfo'[u])
  BY <1>1, <1>2 DEF WaitShape, ThreadsTypeOK
<1> QED BY <1>3 DEF WaitShape

\* A loop that starts at rest, for handles among which an auto-reset event
\* is alone, has the shape of a loop.
LEMMA StartShape ==
    ASSUME NEW hs \in SUBSET Waitables, StartWake(hs),
           hs \cap AutoEvents = {} \/ \E e \in AutoEvents : hs = {e}
    PROVE  /\ toWake' \cap AutoEvents = {}
           /\ scanning' \in AutoEvents => toWake' = {}
           /\ scanning' = NoObject => unvisited' = {} /\ toWake' = {}
           /\ scanning' # MessageQueue
BY Sources DEF StartWake

\* Every signal starts such a loop; PulseEvent alone asks for a reset at its
\* end, and only if a loop runs.
LEMMA StepKeepsWakeShape ==
    ASSUME TypeInv, WakeShape, [Next]_vars
    PROVE  WakeShape'
<1>1. CASE UNCHANGED wakeVars
  BY <1>1 DEF WakeShape, Quiet, wakeVars
<1>2. ASSUME NEW hs \in SUBSET Waitables, Quiet, StartWake(hs), pulsed' = pulsed,
             hs \cap AutoEvents = {} \/ \E e \in AutoEvents : hs = {e}
      PROVE  WakeShape'
  BY <1>2, StartShape DEF WakeShape, Quiet
<1>3. CASE WakeStep
  <2>1. CASE \E t \in Threads : VisitWaiter(t)
    BY <2>1, Sources DEF VisitWaiter, WakeShape, Quiet
  <2>2. CASE \E t \in Threads : VisitMessageWaiter(t)
    BY <2>2, Sources DEF VisitMessageWaiter, WakeShape, Quiet
  <2>3. CASE EndVisit
    <3>1. toWake \subseteq Waitables
      BY DEF TypeInv, WakeTypeOK
    <3>2. CASE toWake = {}
      BY <2>3, <3>2, Sources DEF EndVisit, WakeShape, Quiet
    <3>3. CASE toWake # {}
      BY <2>3, <3>1, <3>3, Sources DEF EndVisit, WakeShape, Quiet
    <3> QED BY <3>2, <3>3
  <2> QED BY <1>3, <2>1, <2>2, <2>3 DEF WakeStep
<1>4. CASE SignalStep
  <2>1. \A e \in Events : /\ {e} \in SUBSET Waitables
                          /\ {e} \cap AutoEvents = {} \/ \E f \in AutoEvents : {e} = {f}
    BY DEF Waitables, Objects
  <2>2. CASE \E e \in Events : SetEvent(e)
    BY <1>2, <2>1, <2>2 DEF SetEvent, HostReady
  <2>3. CASE \E e \in Events : ResetEvent(e)
    BY <1>1, <2>3 DEF ResetEvent
  <2>4. ASSUME NEW e \in Events, PulseEvent(e) PROVE WakeShape'
    <3>1. CASE HandleWaiters(e) = {}
      BY <1>2, <2>1, <2>4, <3>1 DEF PulseEvent, HostReady
    <3>2. CASE HandleWaiters(e) # {}
      <4>1. HandleWaiters(e)' = HandleWaiters(e)
        BY <2>4 DEF PulseEvent, HandleWaiters, queueVars, threadVars
      <4>2. scanning' = e /\ toWake' = {}
        BY <2>4, <3>2, <4>1 DEF PulseEvent, StartWake
      <4>3. e \in Waitables
        BY <2>1
      <4> QED BY <4>2, <4>3, Sources DEF WakeShape, Quiet
    <3> QED BY <3>1, <3>2
  <2>5. CASE \E x \in Semaphores, n \in 1..MaxCount : ReleaseSemaphore(x, n)
    <3>1. \A x \in Semaphores : {x} \in SUBSET Waitables /\ {x} \cap AutoEvents = {}
      BY SyncConstants DEF Waitables, Objects, Events
    <3> QED BY <1>2, <2>5, <3>1 DEF ReleaseSemaphore, HostReady
  <2>6. CASE \E m \in Mutexes : ReleaseMutex(m)
    <3>1. \A m \in Mutexes : {m} \in SUBSET Waitables /\ {m} \cap AutoEvents = {}
      BY SyncConstants DEF Waitables, Objects, Events
    <3> QED BY <1>2, <2>6, <3>1 DEF ReleaseMutex, GuestReady, HostReady
  <2> QED BY <1>4, <2>2, <2>3, <2>4, <2>5, <2>6 DEF SignalStep
<1>5. CASE WaitStep \/ PerformSwitch \/ UNCHANGED vars
  BY <1>1, <1>5 DEF WaitStep, WaitForObjects, Sleep, Yield, PerformSwitch, vars, wakeVars
<1>6. CASE ThreadStep
  <2>1. CASE \E targets : PostMessage(targets)
    BY <2>1, Sources DEF PostMessage, HostReady, WakeShape, Quiet
  <2>2. CASE \E t \in Threads : TerminateThread(t) \/ TerminateNext(t)
    <3>1. PICK t \in Threads : TerminateThread(t) \/ TerminateNext(t)
      BY <2>2
    <3>2. /\ SignalledByDeath(t) \in SUBSET Waitables
          /\ SignalledByDeath(t) \cap AutoEvents = {}
      BY SyncConstants DEF SignalledByDeath, OwnedBy, Waitables, Objects, Events
    <3> QED BY <1>2, <3>1, <3>2
            DEF TerminateThread, TerminateNext, Terminate, GuestReady, HostReady
  <2>3. CASE ~(\E targets : PostMessage(targets)) /\
             ~(\E t \in Threads : TerminateThread(t) \/ TerminateNext(t))
    BY <1>1, <1>6, <2>3
       DEF ThreadStep, TimeoutFires, QueueApc, SuspendThread, ResumeThread, CreateThread,
           SetThreadPriority, DispatchAlertedApcs, ExitProcess
  <2> QED BY <2>1, <2>2, <2>3
<1> QED BY <1>3, <1>4, <1>5, <1>6 DEF Next

-----------------------------------------------------------------------------
(* The wake-up under way.                                                  *)

WakeInv == WaitShape /\ WakeShape /\ WakeUnderWay

\* A thread that waits on handles before and after a step is registered with
\* them, and its wait is the same one.
LEMMA StillWaiting ==
    ASSUME TypeInv, TypeInv', WaitShape, NEW u \in Threads,
           state'[u] = "WAITING", waitInfo'[u] = waitInfo[u]
    PROVE  waitInfo[u].handles # <<>> => u \in ToSet(waiters) /\ u \in ToSet(waiters')
BY DEF TypeInv, ThreadInv, WaitersExact, WaitShape

\* One turn of the loop over the waiters of a handle: the waiter it reaches
\* is passed over because it can take nothing, or takes its handles; when
\* the loop ends early, on an auto-reset event, nothing of it is left.
LEMMA VisitKeepsOffers ==
    ASSUME TypeInv, TypeInv', WakeInv, NoAutoInWaitAll, NEW t \in Threads, VisitWaiter(t)
    PROVE  WakeUnderWay'
<1> SUFFICES ASSUME NEW u \in Threads, state'[u] = "WAITING", suspendCount'[u] = 0
             PROVE  Offered(u)'
  BY DEF WakeUnderWay
<1>1. /\ UNCHANGED <<scanning, toWake>>
      /\ t \in unvisited /\ unvisited' \subseteq unvisited
      /\ scanning \in Waitables
      /\ ObjectsTypeOK /\ ThreadsTypeOK /\ ThreadInv
  BY DEF VisitWaiter, TypeInv, ThreadInv
<1>2. CASE /\ PassedOver(t)
           /\ unvisited' = unvisited \ {t}
           /\ UNCHANGED <<objectVars, threadVars, queueVars>>
  <2>1. UNCHANGED <<state, waitInfo, suspendCount>> /\ Exited' = Exited
    BY <1>2 DEF threadVars, Exited
  <2>2. Offered(u)
    BY <2>1 DEF WakeInv, WakeUnderWay
  <2>3. CASE u = t
    <3>1. ~Satisfiable(u)
      BY <1>2, <2>1, <2>3 DEF PassedOver
    <3>2. ~Satisfiable(u)'
      BY <1>2, <2>1, <3>1 DEF Satisfiable, WaitReady, Ready, EventReady, objectVars
    <3> QED BY <3>2, UnsatisfiedOffered, PTL
  <2>4. CASE u # t
    <3>1. PendingFor(u)' = PendingFor(u)
      BY <1>1, <1>2, <2>4 DEF PendingFor
    <3>2. NotReadier(u, {})
      BY <1>2, <2>1, SameNotReadier
    <3> QED BY <1>1, <2>1, <2>2, <3>1, <3>2, HandlesWaitable, OfferedKept DEF NotReadier
  <2> QED BY <2>3, <2>4
<1>3. ASSUME ~PassedOver(t),
             NEW d \in Decisions(waitInfo[t].handles, waitInfo[t].all, t, Exited),
             Consume(d.take, t), Wake(t, d.result),
             unvisited' = IF EndsVisit(d.take) THEN {} ELSE unvisited \ {t}
      PROVE  Offered(u)'
  <2>1. /\ Satisfiable(t) /\ suspendCount[t] = 0
    BY <1>1, <1>3, SchedulerConstants DEF PassedOver, ThreadsTypeOK
  <2>2. state[t] = "WAITING"
    <3>1. waitInfo[t] # NoWait
      BY <2>1 DEF Satisfiable, NoWait
    <3> QED BY <1>1, <3>1 DEF ThreadInv, WaitersExact
  <2>3. state'[t] \in {"READY", "SUSPENDED"} /\ \A v \in Threads \ {t} : state'[v] = state[v]
    BY <1>1, <1>3 DEF Wake, LeaveWait, ThreadsTypeOK
  <2>4. u # t /\ Exited' = Exited
    BY <2>2, <2>3 DEF Exited
  <2>5. waitInfo'[u] = waitInfo[u] /\ Offered(u)
    BY <1>1, <1>3, <2>3, <2>4 DEF Wake, EndWait, WakeInv, WakeUnderWay, ThreadsTypeOK
  <2>6. NotReadier(u, {})
    BY <1>1, <1>3, <2>4, ConsumeNotReadier
  <2>7. CASE ~EndsVisit(d.take)
    <3>1. PendingFor(u)' = PendingFor(u)
      BY <1>1, <1>3, <2>4, <2>7 DEF PendingFor
    <3> QED BY <1>1, <2>5, <2>6, <3>1, HandlesWaitable, OfferedKept DEF NotReadier
  <2>8. CASE EndsVisit(d.take)
    <3>1. PICK g \in AutoEvents : g \in d.take
      BY <2>8 DEF EndsVisit
    <3>2. g \in ToSet(waitInfo[t].handles)
      BY <3>1, DecisionsTake
    <3>3. ~waitInfo[t].all
      <4>1. waitInfo[t].handles # <<>>
        BY <2>1 DEF Satisfiable
      <4> QED BY <3>1, <3>2, <4>1 DEF NoAutoInWaitAll, WakeInv, WaitShape
    <3>4. d.take \subseteq ReadyHandles(t)
      BY <1>3, <3>3 DEF Decisions, Decision, ReadyHandles, ToSet
    <3>5. g \in PendingFor(t)
      BY <2>1, <2>2, <3>1, <3>3, <3>4 DEF WakeInv, WakeUnderWay, Offered
    <3>6. g = scanning /\ toWake = {}
      BY <3>1, <3>5 DEF PendingFor, WakeInv, WakeShape
    <3>7. ~Ready(g, u, Exited)'
      BY <1>1, <1>3, <3>1, <3>6, SyncConstants
         DEF Consume, Ready, EventReady, Events, Objects, ObjectsTypeOK
    <3>8. PendingFor(u) \subseteq {g}
      BY <3>6 DEF PendingFor
    <3> QED BY <1>1, <2>5, <2>6, <3>7, <3>8, HandlesWaitable, OfferedKept DEF NotReadier
  <2> QED BY <2>7, <2>8
<1> QED BY <1>2, <1>3 DEF VisitWaiter

\* The loop goes on with the next handle, which every waiter of it is then
\* offered; at the end of the last one nothing is pending any more.
LEMMA EndVisitKeepsOffers ==
    ASSUME TypeInv, TypeInv', WakeInv, EndVisit
    PROVE  WakeUnderWay'
<1> SUFFICES ASSUME NEW u \in Threads, state'[u] = "WAITING", suspendCount'[u] = 0
             PROVE  Offered(u)'
  BY DEF WakeUnderWay
<1>1. UNCHANGED <<state, waitInfo, suspendCount, waiters>> /\ Exited' = Exited
  BY DEF EndVisit, threadVars, queueVars, Exited
<1>2. Offered(u) /\ ThreadInv /\ ObjectsTypeOK
  BY <1>1 DEF WakeInv, WakeUnderWay, TypeInv
<1>3. NotReadier(u, {})
  <2>1. UNCHANGED objectVars \/ \E e \in Events : UnsignalEvent(e)
    BY DEF EndVisit, TypeInv, WakeTypeOK
  <2> QED BY <1>1, <1>2, <2>1, SameNotReadier, SignalNotReadier
<1>4. ASSUME NEW h \in ToSet(waitInfo[u].handles), h \in PendingFor(u)
      PROVE  h \in PendingFor(u)'
  <2>1. u \in ToSet(waiters)
    <3>1. waitInfo[u].handles # <<>>
      BY <1>4 DEF ToSet
    <3> QED BY <1>1, <3>1, StillWaiting DEF WakeInv
  <2>2. h \in toWake
    BY <1>4, <2>1 DEF PendingFor, EndVisit
  <2>3. u \in HandleWaiters(h)
    BY <1>4, <2>1 DEF HandleWaiters
  <2>4. PICK g \in toWake : scanning' = g /\ unvisited' = HandleWaiters(g) /\ toWake' = toWake \ {g}
    BY <2>2 DEF EndVisit
  <2> QED BY <2>2, <2>3, <2>4 DEF PendingFor
<1> QED BY <1>1, <1>2, <1>3, <1>4, HandlesWaitable, OfferedKept DEF NotReadier

\* The loop over the message waiters concerns no handle.
LEMMA MessageVisitKeepsOffers ==
    ASSUME TypeInv, WakeInv, NEW t \in Threads, VisitMessageWaiter(t)
    PROVE  WakeUnderWay'
<1> SUFFICES ASSUME NEW u \in Threads, state'[u] = "WAITING", suspendCount'[u] = 0
             PROVE  Offered(u)'
  BY DEF WakeUnderWay
<1>1. /\ scanning = MessageQueue /\ state[t] = "WAITING"
      /\ UNCHANGED objectVars /\ ThreadsTypeOK /\ ThreadInv
  BY DEF VisitMessageWaiter, TypeInv, ThreadInv, MessageScan
<1>2. /\ Exited' = Exited /\ suspendCount[u] = 0
      /\ state[u] = "WAITING" /\ waitInfo'[u] = waitInfo[u]
  BY <1>1 DEF VisitMessageWaiter, Wake, EndWait, LeaveWait, Exited, threadVars, ThreadsTypeOK
<1>3. Offered(u) /\ NotReadier(u, {})
  BY <1>1, <1>2, SameNotReadier DEF WakeInv, WakeUnderWay
<1>4. ToSet(waitInfo[u].handles) \cap PendingFor(u) = {}
  <2>1. PendingFor(u) \subseteq {MessageQueue}
    BY <1>1 DEF PendingFor, WakeInv, WakeShape
  <2> QED BY <1>1, <2>1, HandlesWaitable, Sources
<1> QED BY <1>1, <1>2, <1>3, <1>4, HandlesWaitable, OfferedKept DEF NotReadier

\* A signal is offered to every thread that waits for it.
LEMMA SignalKeepsOffers ==
    ASSUME TypeInv, TypeInv', WakeInv, SignalStep
    PROVE  WakeUnderWay'
<1> SUFFICES ASSUME NEW u \in Threads, state'[u] = "WAITING", suspendCount'[u] = 0
             PROVE  Offered(u)'
  BY DEF WakeUnderWay
<1>1. /\ UNCHANGED <<threadVars, queueVars>> /\ Quiet
      /\ ObjectsTypeOK /\ ThreadInv /\ WakeShape
  BY DEF SignalStep, SetEvent, ResetEvent, PulseEvent, ReleaseSemaphore, ReleaseMutex,
         GuestReady, HostReady, TypeInv, WakeInv
<1>2. UNCHANGED <<state, waitInfo, suspendCount, waiters>> /\ Exited' = Exited
  BY <1>1 DEF threadVars, queueVars, Exited
<1>3. /\ Offered(u) /\ waitInfo'[u] = waitInfo[u]
      /\ waitInfo[u].handles # <<>> => u \in ToSet(waiters')
  BY <1>2, StillWaiting DEF WakeInv, WakeUnderWay
<1>4. ASSUME NEW e \in Events, SetEvent(e) PROVE Offered(u)'
  <2>1. StartWake({e}) /\ NotReadier(u, {e})
    BY <1>1, <1>2, <1>4, SignalNotReadier DEF SetEvent
  <2> QED BY <1>1, <1>3, <2>1, QuietWake
<1>5. ASSUME NEW e \in Events, ResetEvent(e) PROVE Offered(u)'
  <2>1. UNCHANGED wakeVars /\ NotReadier(u, {})
    BY <1>1, <1>2, <1>5, SignalNotReadier DEF ResetEvent
  <2> QED BY <1>1, <1>3, <2>1, CalmStep
<1>6. ASSUME NEW e \in Events, PulseEvent(e) PROVE Offered(u)'
  <2>1. StartWake({e}) /\ (SignalEvent(e) \/ UnsignalEvent(e))
    BY <1>6 DEF PulseEvent
  <2>2. NotReadier(u, {e})
    BY <1>1, <1>2, <2>1, SignalNotReadier DEF NotReadier
  <2> QED BY <1>1, <1>3, <2>1, <2>2, QuietWake
<1>7. ASSUME NEW x \in Semaphores, NEW n \in 1..MaxCount, ReleaseSemaphore(x, n)
      PROVE  Offered(u)'
  <2>1. StartWake({x}) /\ NotReadier(u, {x})
    BY <1>1, <1>2, <1>7, ReleaseNotReadier DEF ReleaseSemaphore
  <2> QED BY <1>1, <1>3, <2>1, QuietWake
<1>8. ASSUME NEW m \in Mutexes, ReleaseMutex(m) PROVE Offered(u)'
  <2>1. current \in Threads \ {u}
    BY <1>2, <1>8 DEF ReleaseMutex, GuestReady, TypeInv, ThreadInv, ThreadsTypeOK
  <2>2. StartWake({m}) /\ NotReadier(u, {m})
    BY <1>1, <1>2, <1>8, <2>1, ReleaseNotReadier DEF ReleaseMutex
  <2> QED BY <1>1, <1>3, <2>2, QuietWake
<1> QED BY <1>4, <1>5, <1>6, <1>7, <1>8 DEF SignalStep

\* The death of a thread is offered to whoever waits for its mutexes or for
\* the thread itself.
LEMMA DeathKeepsOffers ==
    ASSUME TypeInv, TypeInv', WakeInv, Quiet, NEW t \in Threads, Terminate(t)
    PROVE  WakeUnderWay'
<1> SUFFICES ASSUME NEW u \in Threads, state'[u] = "WAITING", suspendCount'[u] = 0
             PROVE  Offered(u)'
  BY DEF WakeUnderWay
<1>1. /\ ObjectsTypeOK /\ ThreadsTypeOK /\ ThreadInv /\ WakeShape
      /\ AbandonMutexes(t) /\ StartWake(SignalledByDeath(t)) /\ UNCHANGED suspendCount
      /\ state' = [state EXCEPT ![t] = "TERMINATED"]
      /\ waitInfo' = [waitInfo EXCEPT ![t] = NoWait]
  BY DEF TypeInv, ThreadInv, WakeInv, Terminate
<1>2. u # t /\ state[u] = "WAITING" /\ waitInfo'[u] = waitInfo[u] /\ Exited' = Exited \cup {t}
  BY <1>1 DEF ThreadsTypeOK, Exited
<1>3. /\ Offered(u)
      /\ waitInfo[u].handles # <<>> => u \in ToSet(waiters')
  BY <1>1, <1>2, StillWaiting DEF WakeInv, WakeUnderWay
<1>4. NotReadier(u, SignalledByDeath(t))
  BY <1>1, <1>2, DeathNotReadier
<1> QED BY <1>1, <1>2, <1>3, <1>4, QuietWake

\* A step that leaves objects and loops alone offers nothing new to a thread
\* that waits on.
LEMMA CalmKeepsOffers ==
    ASSUME TypeInv, WakeInv, UNCHANGED <<objectVars, wakeVars>>, Exited' = Exited,
           NEW u \in Threads, state[u] = "WAITING", suspendCount[u] = 0,
           waitInfo'[u] = waitInfo[u]
    PROVE  Offered(u)'
<1>1. Offered(u) /\ ThreadInv /\ NotReadier(u, {})
  BY SameNotReadier DEF WakeInv, WakeUnderWay, TypeInv
<1> QED BY <1>1, CalmStep

\* The current thread blocks only on what does not satisfy its wait.
LEMMA WaitKeepsOffers ==
    ASSUME TypeInv, WakeInv, NEW handles, NEW all, NEW timed, NEW alertable, NEW message,
           WaitForObjects(handles, all, timed, alertable, message)
    PROVE  WakeUnderWay'
<1> SUFFICES ASSUME NEW u \in Threads, state'[u] = "WAITING", suspendCount'[u] = 0
             PROVE  Offered(u)'
  BY DEF WakeUnderWay
<1>1. /\ ObjectsTypeOK /\ ThreadsTypeOK /\ ThreadInv /\ UNCHANGED wakeVars
      /\ current \in Threads /\ state[current] = "RUNNING"
  BY DEF TypeInv, ThreadInv, ThreadsTypeOK, WaitForObjects, GuestReady
<1>2. CASE /\ \E d \in Decisions(handles, all, current, Exited) : Consume(d.take, current)
           /\ UNCHANGED threadVars
  <2>1. /\ state[u] = "WAITING" /\ suspendCount[u] = 0 /\ u # current
        /\ waitInfo'[u] = waitInfo[u] /\ Exited' = Exited
    BY <1>1, <1>2 DEF threadVars, Exited
  <2>2. Offered(u) /\ NotReadier(u, {})
    BY <1>1, <1>2, <2>1, ConsumeNotReadier DEF WakeInv, WakeUnderWay
  <2> QED BY <1>1, <2>1, <2>2, CalmStep
<1>3. CASE RunQueuedApcs
  <2>1. UNCHANGED <<objectVars, state, suspendCount, waitInfo>> /\ Exited' = Exited
    BY <1>3 DEF RunQueuedApcs, Exited
  <2> QED BY <1>1, <2>1, CalmKeepsOffers
<1>4. ASSUME NEW info, info.handles = handles, info.all = all, Block(info), UNCHANGED objectVars,
             handles = <<>> \/ ~WaitReady(handles, all, current, Exited)
      PROVE  Offered(u)'
  <2>1. /\ Exited' = Exited /\ UNCHANGED suspendCount
        /\ waitInfo'[u] = IF u = current THEN info ELSE waitInfo[u]
        /\ u # current => state[u] = "WAITING"
    BY <1>1, <1>4 DEF Block, Exited, ThreadsTypeOK
  <2>2. CASE u = current
    <3>1. ~Satisfiable(u)'
      BY <1>4, <2>1, <2>2 DEF Satisfiable, WaitReady, Ready, EventReady, objectVars
    <3> QED BY <3>1, UnsatisfiedOffered, PTL
  <2>3. CASE u # current
    BY <1>1, <1>4, <2>1, <2>3, CalmKeepsOffers
  <2> QED BY <2>2, <2>3
<1> QED BY <1>2, <1>3, <1>4 DEF WaitForObjects

\* A sleep waits for no object.
LEMMA SleepKeepsOffers ==
    ASSUME TypeInv, WakeInv, NEW timed, NEW alertable, Sleep(timed, alertable)
    PROVE  WakeUnderWay'
<1> SUFFICES ASSUME NEW u \in Threads, state'[u] = "WAITING", suspendCount'[u] = 0
             PROVE  Offered(u)'
  BY DEF WakeUnderWay
<1>1. /\ ThreadsTypeOK /\ UNCHANGED <<objectVars, wakeVars, suspendCount>>
      /\ current \in Threads /\ state[current] = "RUNNING"
  BY DEF TypeInv, ThreadInv, ThreadsTypeOK, Sleep, GuestReady, RunQueuedApcs, Block
<1>2. /\ Exited' = Exited
      /\ u # current => state[u] = "WAITING" /\ waitInfo'[u] = waitInfo[u]
      /\ u = current => waitInfo'[u].handles = <<>>
  BY <1>1 DEF Sleep, RunQueuedApcs, Block, Exited, ThreadsTypeOK
<1>3. CASE u = current
  <2>1. ~Satisfiable(u)'
    BY <1>2, <1>3 DEF Satisfiable
  <2> QED BY <2>1, UnsatisfiedOffered, PTL
<1>4. CASE u # current
  BY <1>1, <1>2, <1>4, CalmKeepsOffers
<1> QED BY <1>3, <1>4

\* A thread whose last suspension ends looks at the objects again, and waits
\* on only if they do not satisfy its wait (reevaluateWaitAfterResume).
LEMMA ResumeKeepsOffers ==
    ASSUME TypeInv, WakeInv, NEW t \in Threads, ResumeThread(t)
    PROVE  WakeUnderWay'
<1> SUFFICES ASSUME NEW u \in Threads, state'[u] = "WAITING", suspendCount'[u] = 0
             PROVE  Offered(u)'
  BY DEF WakeUnderWay
<1>1. /\ ObjectsTypeOK /\ ThreadsTypeOK /\ ThreadInv /\ UNCHANGED wakeVars
      /\ suspendCount' = [suspendCount EXCEPT ![t] = @ - 1]
  BY DEF TypeInv, ThreadInv, ResumeThread
<1>2. CASE ReevaluateWait(t) /\ Satisfiable(t) /\ state[t] = "WAITING"
  <2>1. /\ u # t /\ state[u] = "WAITING" /\ suspendCount[u] = 0
        /\ waitInfo'[u] = waitInfo[u] /\ Exited' = Exited
    BY <1>1, <1>2 DEF ReevaluateWait, EndWait, Exited, ThreadsTypeOK
  <2>2. NotReadier(u, {})
    BY <1>1, <1>2, <2>1, ConsumeNotReadier DEF ReevaluateWait
  <2>3. Offered(u)
    BY <2>1 DEF WakeInv, WakeUnderWay
  <2> QED BY <1>1, <2>1, <2>2, <2>3, CalmStep
<1>3. CASE /\ UNCHANGED <<objectVars, waitInfo>>
           /\ \/ UNCHANGED state
              \/ state[t] = "SUSPENDED" /\ state' = [state EXCEPT ![t] = "READY"]
           /\ suspendCount[t] = 1 /\ state[t] = "WAITING" => ~Satisfiable(t)
  <2>1. state[u] = "WAITING" /\ Exited' = Exited
    BY <1>1, <1>3 DEF Exited, ThreadsTypeOK
  <2>2. CASE suspendCount[u] = 0
    BY <1>1, <1>3, <2>1, <2>2, CalmKeepsOffers
  <2>3. CASE suspendCount[u] # 0
    <3>1. u = t /\ suspendCount[t] = 1
      BY <1>1, <2>3, SchedulerConstants DEF ThreadsTypeOK
    <3>2. ~Satisfiable(u)
      BY <1>3, <2>1, <3>1
    <3>3. ~Satisfiable(u)'
      BY <1>3, <2>1, <3>2 DEF Satisfiable, WaitReady, Ready, EventReady, objectVars
    <3> QED BY <3>3, UnsatisfiedOffered, PTL
  <2> QED BY <2>2, <2>3
<1>4. CASE suspendCount[t] = 1 /\ state[t] = "WAITING"
  <2>1. ReevaluateWait(t)
    BY <1>4 DEF ResumeThread
  <2> QED BY <1>2, <1>3, <1>4, <2>1 DEF ReevaluateWait
<1>5. CASE suspendCount[t] = 1 /\ state[t] = "SUSPENDED"
  BY <1>3, <1>5 DEF ResumeThread
<1>6. CASE ~(suspendCount[t] = 1 /\ state[t] \in {"WAITING", "SUSPENDED"})
  BY <1>3, <1>6 DEF ResumeThread
<1> QED BY <1>4, <1>5, <1>6

\* Every other step leaves the objects and the loops alone and puts no
\* thread into a wait.
LEMMA OtherStepsKeepOffers ==
    ASSUME TypeInv, WakeInv,
           \/ Yield \/ PerformSwitch \/ ExitProcess \/ DispatchAlertedApcs \/ UNCHANGED vars
           \/ \E t \in Threads : \/ TimeoutFires(t) \/ QueueApc(t) \/ SuspendThread(t)
                                 \/ \E suspended : CreateThread(t, suspended)
                                 \/ \E p : SetThreadPriority(t, p)
    PROVE  WakeUnderWay'
<1> SUFFICES ASSUME NEW u \in Threads, state'[u] = "WAITING", suspendCount'[u] = 0
             PROVE  Offered(u)'
  BY DEF WakeUnderWay
<1> DEFINE Kept == /\ UNCHANGED <<objectVars, wakeVars>> /\ Exited' = Exited
                   /\ state[u] = "WAITING" /\ suspendCount[u] = 0 /\ waitInfo'[u] = waitInfo[u]
<1>1. ThreadsTypeOK /\ current \in Threads
  BY DEF TypeInv, ThreadInv, ThreadsTypeOK
<1>2. CASE ExitProcess \/ DispatchAlertedApcs \/ UNCHANGED vars \/
           \E t \in Threads : \E p : SetThreadPriority(t, p)
  <2> Kept
    BY <1>2 DEF ExitProcess, DispatchAlertedApcs, SetThreadPriority, vars, threadVars, Exited
  <2> QED BY CalmKeepsOffers
<1>3. CASE Yield
  <2> Kept
    BY <1>1, <1>3 DEF Yield, GuestReady, Exited, ThreadsTypeOK
  <2> QED BY CalmKeepsOffers
<1>4. CASE PerformSwitch
  <2> DEFINE states == IF state[current] = "RUNNING"
                       THEN [state EXCEPT ![current] = "READY"] ELSE state
             queue == IF state[current] = "RUNNING"
                      THEN Append(runQueue, current) ELSE runQueue
  <2>1. /\ UNCHANGED <<objectVars, wakeVars, waitInfo, suspendCount>>
        /\ \/ state' = state
           \/ \E next \in Pick(states, queue, current) :
                 state' = [states EXCEPT ![next] = "RUNNING"]
    BY <1>4 DEF PerformSwitch
  <2>2. queue \in Seq(Threads) /\ states \in [Threads -> States]
    BY <1>1 DEF ThreadsTypeOK, States
  <2>3. \A v \in Threads : states[v] # state[v] => state[v] = "RUNNING" /\ states[v] = "READY"
    BY <1>1 DEF ThreadsTypeOK
  <2> HIDE DEF states, queue
  <2>4. \A v \in Threads : \/ state'[v] = state[v]
                           \/ {state[v], state'[v]} \subseteq {"READY", "RUNNING"}
    BY <1>1, <2>1, <2>2, <2>3, PickReady
  <2> Kept
    BY <1>1, <2>1, <2>4 DEF Exited
  <2> QED BY CalmKeepsOffers
<1>5. ASSUME NEW t \in Threads, TimeoutFires(t) \/ QueueApc(t)
      PROVE  Offered(u)'
  <2>1. /\ UNCHANGED <<objectVars, wakeVars, suspendCount>>
        /\ \/ UNCHANGED <<state, waitInfo>>
           \/ /\ state[t] = "WAITING"
              /\ waitInfo' = [waitInfo EXCEPT ![t] = NoWait]
              /\ \E s \in {"READY", "SUSPENDED"} : state' = [state EXCEPT ![t] = s]
    BY <1>5 DEF TimeoutFires, StillWaits, QueueApc, TakesApc, Wake, LeaveWait, EndWait
  <2> Kept
    BY <1>1, <2>1 DEF Exited, ThreadsTypeOK
  <2> QED BY CalmKeepsOffers
<1>6. ASSUME NEW t \in Threads, SuspendThread(t)
      PROVE  Offered(u)'
  <2>1. /\ UNCHANGED <<objectVars, wakeVars, waitInfo>>
        /\ suspendCount' = [suspendCount EXCEPT ![t] = @ + 1]
        /\ \/ UNCHANGED state
           \/ state[t] \in {"READY", "RUNNING"} /\ state' = [state EXCEPT ![t] = "SUSPENDED"]
    BY <1>6 DEF SuspendThread, Stop
  <2>2. u # t
    BY <1>1, <2>1, SchedulerConstants DEF ThreadsTypeOK
  <2> Kept
    BY <1>1, <2>1, <2>2 DEF Exited, ThreadsTypeOK
  <2> QED BY CalmKeepsOffers
<1>7. ASSUME NEW t \in Threads, NEW suspended, CreateThread(t, suspended)
      PROVE  Offered(u)'
  <2>1. /\ UNCHANGED <<objectVars, wakeVars, waitInfo>> /\ state[t] = "NEW"
        /\ \E s \in {"READY", "SUSPENDED"} : state' = [state EXCEPT ![t] = s]
        /\ suspendCount' \in {suspendCount, [suspendCount EXCEPT ![t] = 1]}
    BY <1>7 DEF CreateThread
  <2> Kept
    BY <1>1, <2>1 DEF Exited, ThreadsTypeOK
  <2> QED BY CalmKeepsOffers
<1> QED BY <1>2, <1>3, <1>4, <1>5, <1>6, <1>7

\* Without waits for all that name an auto-reset event, every step keeps
\* the wake-up under way.
LEMMA StepKeepsWakeInv ==
    ASSUME NoAutoInWaitAll, TypeInv, TypeInv', WakeInv, [Next]_vars
    PROVE  WakeInv'
<1> SUFFICES WakeUnderWay'
  BY StepKeepsWaitShape, StepKeepsWakeShape DEF WakeInv
<1>1. CASE WakeStep
  BY <1>1, VisitKeepsOffers, EndVisitKeepsOffers, MessageVisitKeepsOffers DEF WakeStep
<1>2. CASE SignalStep
  BY <1>2, SignalKeepsOffers
<1>3. CASE WaitStep
  BY <1>3, WaitKeepsOffers, SleepKeepsOffers, OtherStepsKeepOffers DEF WaitStep
<1>4. CASE \E t \in Threads : TerminateThread(t) \/ TerminateNext(t)
  BY <1>4, DeathKeepsOffers DEF TerminateThread, TerminateNext, GuestReady, HostReady
<1>5. CASE \E targets : PostMessage(targets)
  <2>1. /\ UNCHANGED <<objectVars, threadVars>> /\ Exited' = Exited
        /\ WakeShape /\ Quiet /\ ThreadInv
    BY <1>5 DEF PostMessage, HostReady, threadVars, Exited, WakeInv, TypeInv
  <2>2. ASSUME NEW u \in Threads, state'[u] = "WAITING", suspendCount'[u] = 0
        PROVE  Offered(u)'
    <3>1. Offered(u) /\ waitInfo'[u] = waitInfo[u] /\ NotReadier(u, {})
      BY <2>1, <2>2, SameNotReadier DEF WakeInv, WakeUnderWay, threadVars
    <3>2. PendingFor(u) = {}
      BY <2>1 DEF PendingFor, WakeShape, Quiet
    <3> QED BY <2>1, <3>1, <3>2, HandlesWaitable, OfferedKept DEF NotReadier
  <2> QED BY <2>2 DEF WakeUnderWay
<1>6. CASE \E t \in Threads : ResumeThread(t)
  BY <1>6, ResumeKeepsOffers
<1>7. CASE PerformSwitch \/ UNCHANGED vars
  BY <1>7, OtherStepsKeepOffers
<1>8. CASE ThreadStep
  BY <1>4, <1>5, <1>6, <1>8, OtherStepsKeepOffers DEF ThreadStep
<1> QED BY <1>1, <1>2, <1>3, <1>7, <1>8 DEF Next

\* Nobody waits when the process starts.
LEMMA InitOffers == Init => WakeInv
<1> SUFFICES ASSUME Init PROVE WakeInv
  OBVIOUS
<1>1. WaitShape /\ WakeShape
  BY Sources DEF Init, WaitShape, WakeShape, Quiet, NoWait
<1>2. \A t \in Threads : state[t] # "WAITING"
  BY DEF Init
<1> QED BY <1>1, <1>2 DEF WakeInv, WakeUnderWay

(* The inductive invariant holds in every state of the scheduler, those in *)
(* the middle of a wake-up loop included (wakeWaitingThreadsForHandle,     *)
(* wakeMessageWaiters), provided no bWaitAll array names an auto-reset     *)
(* event.                                                                  *)
THEOREM OffersComplete == NoAutoInWaitAll => (Spec => []IInv)
<1> SUFFICES ASSUME NoAutoInWaitAll PROVE Spec => []IInv
  OBVIOUS
<1>1. Init => TypeInv /\ WakeInv
  BY InitTypes, InitOffers
<1>2. TypeInv /\ WakeInv /\ [Next]_vars => (TypeInv /\ WakeInv)'
  BY StepKeepsTypes, StepKeepsWakeInv
<1>3. TypeInv /\ WakeInv => IInv
  BY DEF TypeInv, WakeInv, IInv
<1> QED BY <1>1, <1>2, <1>3, PTL DEF Spec

(* No wake-up is lost: when a call has returned, no thread is left         *)
(* WAITING, unsuspended, on objects that satisfy its wait, whatever was    *)
(* signalled, suspended, resumed, terminated or timed out before           *)
(* (wakeWaitingThreadsForHandle, reevaluateWaitAfterResume, blockThread).  *)
THEOREM NoWakeupLost == NoAutoInWaitAll => (Spec => []NoLostWakeup)
<1> SUFFICES ASSUME NoAutoInWaitAll PROVE Spec => []NoLostWakeup
  OBVIOUS
<1>1. IInv => NoLostWakeup
  <2> SUFFICES ASSUME IInv, Quiet, NEW t \in Threads, state[t] = "WAITING",
                      suspendCount[t] = 0, Satisfiable(t)
               PROVE  FALSE
    BY DEF NoLostWakeup
  <2>1. Offered(t) /\ PendingFor(t) = {}
    BY DEF IInv, WakeUnderWay, WakeShape, Quiet, PendingFor
  <2>2. ~waitInfo[t].all
    BY <2>1 DEF Offered
  <2>3. PICK i \in DOMAIN waitInfo[t].handles : Ready(waitInfo[t].handles[i], t, Exited)
    BY <2>2 DEF Satisfiable, WaitReady
  <2>4. waitInfo[t].handles[i] \in ReadyHandles(t)
    BY <2>3 DEF ReadyHandles, ToSet
  <2> QED BY <2>1, <2>2, <2>4 DEF Offered
<1> QED BY <1>1, OffersComplete, PTL

-----------------------------------------------------------------------------
(* What a wait that ends takes, step by step.                              *)

\* A thread whose wait ends while it is suspended was not given what it
\* waited for: the wake-up loop passes it over, and the re-check of the last
\* resume comes when it is suspended no longer.
LEMMA SuspendedTakes ==
    ASSUME TypeInv, [Next]_vars, NEW u \in Threads,
           state[u] = "WAITING", suspendCount'[u] > 0, state'[u] # "WAITING"
    PROVE  /\ context'[u] \notin {"object", "abandoned"}
           /\ \A m \in Mutexes : owner'[m] = u => owner[m] = u
<1> USE DEF TypeInv, ThreadInv, ThreadsTypeOK
<1>1. ASSUME NEW t \in Threads \ {u}, NEW new,
             state' = state \/ state' = [state EXCEPT ![t] = new]
      PROVE  FALSE
  BY <1>1
<1>2. state' # state
  OBVIOUS
<1>3. ASSUME NEW t \in Threads, NEW r, Wake(t, r)
      PROVE  t = u /\ suspendCount[u] > 0 /\ context'[u] = r
  <2>1. t = u
    BY <1>1, <1>3 DEF Wake, LeaveWait
  <2> QED BY <1>3, <2>1 DEF Wake
<1>4. ASSUME NEW t \in Threads, VisitWaiter(t) PROVE FALSE
  <2>1. PICK r : ~PassedOver(t) /\ Wake(t, r)
    BY <1>2, <1>4 DEF VisitWaiter, threadVars
  <2> QED BY <1>3, <2>1 DEF PassedOver
<1>5. CASE \E t \in Threads : VisitMessageWaiter(t) \/ TimeoutFires(t) \/ QueueApc(t)
  <2>1. PICK t \in Threads : VisitMessageWaiter(t) \/ TimeoutFires(t) \/ QueueApc(t)
    BY <1>5
  <2>2. UNCHANGED owner
    BY <2>1 DEF VisitMessageWaiter, TimeoutFires, QueueApc, objectVars
  <2>3. PICK r \in {"message", "slept", "timeout", "io"} : Wake(t, r)
    BY <1>2, <2>1 DEF VisitMessageWaiter, TimeoutFires, QueueApc, threadVars
  <2> QED BY <1>3, <2>2, <2>3
<1>6. EndVisit \/ SignalStep => FALSE
  BY <1>2 DEF EndVisit, SignalStep, SetEvent, ResetEvent, PulseEvent, ReleaseSemaphore,
              ReleaseMutex, threadVars
<1>7. WaitStep => FALSE
  <2> SUFFICES ASSUME WaitStep PROVE FALSE
    OBVIOUS
  <2>1. /\ state[current] = "RUNNING"
        /\ \/ UNCHANGED state
           \/ state' = [state EXCEPT ![current] = "WAITING"]
           \/ state' = [state EXCEPT ![current] = "READY"]
    <3>1. ASSUME NEW handles, NEW all, NEW timed, NEW alertable, NEW message,
                 WaitForObjects(handles, all, timed, alertable, message)
          PROVE  /\ state[current] = "RUNNING"
                 /\ UNCHANGED state \/ state' = [state EXCEPT ![current] = "WAITING"]
      BY <3>1 DEF WaitForObjects, GuestReady, Block, RunQueuedApcs, threadVars
    <3>2. ASSUME NEW timed, NEW alertable, Sleep(timed, alertable)
          PROVE  /\ state[current] = "RUNNING"
                 /\ UNCHANGED state \/ state' = [state EXCEPT ![current] = "WAITING"]
      BY <3>2 DEF Sleep, GuestReady, Block, RunQueuedApcs
    <3>3. CASE Yield
      BY <3>3 DEF Yield, GuestReady
    <3> QED BY <3>1, <3>2, <3>3 DEF WaitStep
  <2> QED BY <1>1, <2>1
<1>8. ASSUME NEW t \in Threads,
             \/ SuspendThread(t)
             \/ \E suspended \in Suspended : CreateThread(t, suspended)
      PROVE  FALSE
  <2>1. t # u
    BY <1>2, <1>8 DEF SuspendThread, CreateThread
  <2> QED BY <1>1, <1>8, <2>1 DEF SuspendThread, CreateThread, Stop
<1>9. ASSUME NEW t \in Threads, ResumeThread(t) PROVE FALSE
  <2>1. /\ suspendCount' = [suspendCount EXCEPT ![t] = @ - 1]
        /\ \/ state' = state
           \/ suspendCount[t] = 1 /\ state' = [state EXCEPT ![t] = "READY"]
    BY <1>9 DEF ResumeThread, ReevaluateWait
  <2>2. t = u /\ suspendCount[u] = 1
    BY <1>1, <1>2, <2>1
  <2> QED BY <2>1, <2>2
<1>10. ASSUME NEW t \in Threads, Terminate(t)
       PROVE  /\ context'[u] \notin {"object", "abandoned"}
              /\ \A m \in Mutexes : owner'[m] = u => owner[m] = u
  <2>1. t = u
    BY <1>1, <1>10 DEF Terminate
  <2>2. context'[u] = "none"
    BY <1>10, <2>1 DEF Terminate
  <2>3. \A m \in Mutexes : owner'[m] \in {owner[m], NoThread}
    BY <1>10 DEF Terminate, AbandonMutexes
  <2> QED BY <2>2, <2>3, SyncConstants
<1>11. ASSUME NEW t \in Threads,
              PostMessage({t}) \/ \E p \in Priorities : SetThreadPriority(t, p)
       PROVE  FALSE
  BY <1>2, <1>11 DEF PostMessage, SetThreadPriority, threadVars
<1>12. PostMessage(Threads) \/ DispatchAlertedApcs \/ ExitProcess => FALSE
  BY <1>2 DEF PostMessage, DispatchAlertedApcs, ExitProcess, threadVars
<1>13. PerformSwitch => FALSE
  <2> SUFFICES ASSUME PerformSwitch PROVE FALSE
    OBVIOUS
  <2> DEFINE states == IF state[current] = "RUNNING" THEN [state EXCEPT ![current] = "READY"]
                       ELSE state
             queue == IF state[current] = "RUNNING" THEN Append(runQueue, current)
                      ELSE runQueue
  <2>1. states \in [Threads -> States] /\ states[u] = "WAITING" /\ queue \in Seq(Threads)
    BY DEF States
  <2>2. PICK next \in Pick(states, queue, current) : state' = [states EXCEPT ![next] = "RUNNING"]
    BY <1>2 DEF PerformSwitch
  <2> HIDE DEF states, queue
  <2>3. states[next] = "READY"
    BY <2>1, PickReady
  <2> QED BY <2>1, <2>2, <2>3
<1>14. UNCHANGED vars => FALSE
  BY <1>2 DEF vars, threadVars
<1> QED
  BY <1>4, <1>5, <1>6, <1>7, <1>8, <1>9, <1>10, <1>11, <1>12, <1>13, <1>14
     DEF Next, WakeStep, ThreadStep, TerminateThread, TerminateNext

(* A thread whose wait ends while it is suspended, by a timeout, a message,*)
(* an APC or its death, has consumed no signal and owns no mutex that it   *)
(* did not own (wakeWaitingThreadsForHandle, resumeThread).                *)
THEOREM SuspendedGetNothing == Spec => SuspendedTakesNothing
<1>1. TypeInv /\ [Next]_vars =>
        [\A t \in Threads :
            state[t] = "WAITING" /\ suspendCount'[t] > 0 /\ state'[t] # "WAITING" =>
               /\ context'[t] \notin {"object", "abandoned"}
               /\ \A m \in Mutexes : owner'[m] = t => owner[m] = t]_vars
  BY SuspendedTakes
<1> QED BY <1>1, InitTypes, StepKeepsTypes, PTL DEF Spec, SuspendedTakesNothing

\* A wait takes what is ready for it only, and says so if a mutex among it
\* was abandoned.
LEMMA DecisionsReady ==
    ASSUME NEW handles, NEW all, NEW t, WaitReady(handles, all, t, Exited),
           NEW d \in Decisions(handles, all, t, Exited)
    PROVE  /\ \A h \in d.take : Ready(h, t, Exited)
           /\ d.result = IF \E m \in Mutexes \cap d.take : abandoned[m] THEN "abandoned" ELSE "object"
<1>1. CASE all
  BY <1>1 DEF Decisions, Decision, WaitReady, ToSet
<1>2. CASE ~all
  BY <1>2 DEF Decisions, Decision
<1> QED BY <1>1, <1>2

\* The taker of an abandoned mutex owns it.
LEMMA TakenIsOwned ==
    ASSUME NEW t \in Threads, NEW taken, Consume(taken, t),
           \A h \in taken : Ready(h, t, Exited),
           NEW m \in Mutexes, abandoned[m], ~abandoned'[m]
    PROVE  m \in taken /\ owner'[m] = t
<1>1. m \in taken
  BY DEF Consume
<1>2. owner[m] \in {NoThread, t}
  BY <1>1, SyncConstants DEF Ready, Objects, Events
<1>3. owner'[m] = IF m \in taken /\ owner[m] = NoThread THEN t ELSE owner[m]
  BY DEF Consume
<1> QED BY <1>1, <1>2, <1>3

\* Only a wait that takes a mutex clears its abandoned mark, and a wait that
\* was blocked ends with WAIT_ABANDONED then.
LEMMA AbandonedTaken ==
    ASSUME TypeInv, [Next]_vars, NEW m \in Mutexes, abandoned[m], ~abandoned'[m]
    PROVE  /\ owner'[m] # NoThread
           /\ state[owner'[m]] = "WAITING" => context'[owner'[m]] = "abandoned"
<1> USE DEF TypeInv, ThreadInv, ThreadsTypeOK, ObjectsTypeOK
<1>1. abandoned' # abandoned
  OBVIOUS
<1>2. ASSUME NEW t \in Threads, VisitWaiter(t)
      PROVE  owner'[m] = t /\ context'[t] = "abandoned"
  <2>1. ~PassedOver(t)
    BY <1>1, <1>2 DEF VisitWaiter, objectVars
  <2>2. PICK d \in Decisions(waitInfo[t].handles, waitInfo[t].all, t, Exited) :
           Consume(d.take, t) /\ Wake(t, d.result)
    BY <1>2, <2>1 DEF VisitWaiter
  <2>3. /\ \A h \in d.take : Ready(h, t, Exited)
        /\ d.result = IF \E n \in Mutexes \cap d.take : abandoned[n] THEN "abandoned" ELSE "object"
    BY <2>1, DecisionsReady DEF PassedOver, Satisfiable
  <2>4. m \in d.take /\ owner'[m] = t
    BY <2>2, <2>3, TakenIsOwned
  <2> QED BY <2>2, <2>3, <2>4 DEF Wake
<1>3. ASSUME NEW t \in Threads, ResumeThread(t)
      PROVE  owner'[m] = t /\ context'[t] = "abandoned"
  <2>1. Satisfiable(t) /\ ReevaluateWait(t)
    BY <1>1, <1>3 DEF ResumeThread, ReevaluateWait, objectVars
  <2>2. PICK d \in Decisions(waitInfo[t].handles, waitInfo[t].all, t, Exited) :
           Consume(d.take, t) /\ context' = [context EXCEPT ![t] = d.result]
    BY <2>1 DEF ReevaluateWait
  <2>3. /\ \A h \in d.take : Ready(h, t, Exited)
        /\ d.result = IF \E n \in Mutexes \cap d.take : abandoned[n] THEN "abandoned" ELSE "object"
    BY <2>1, DecisionsReady DEF Satisfiable
  <2>4. m \in d.take /\ owner'[m] = t
    BY <2>2, <2>3, TakenIsOwned
  <2> QED BY <2>2, <2>3, <2>4
<1>4. ASSUME NEW handles, NEW all, NEW timed, NEW alertable, NEW message,
             WaitForObjects(handles, all, timed, alertable, message)
      PROVE  owner'[m] = current /\ state[current] = "RUNNING"
  <2>1. WaitReady(handles, all, current, Exited)
        /\ \E d \in Decisions(handles, all, current, Exited) : Consume(d.take, current)
    BY <1>1, <1>4 DEF WaitForObjects, RunQueuedApcs, objectVars
  <2>2. PICK d \in Decisions(handles, all, current, Exited) : Consume(d.take, current)
    BY <2>1
  <2>3. \A h \in d.take : Ready(h, current, Exited)
    BY <2>1, DecisionsReady
  <2> QED BY <1>4, <2>2, <2>3, TakenIsOwned DEF WaitForObjects, GuestReady
<1>5. ASSUME NEW t \in Threads, Terminate(t) PROVE FALSE
  BY <1>5 DEF Terminate, AbandonMutexes
<1>6. EndVisit \/ SignalStep => FALSE
  BY <1>1 DEF EndVisit, SignalStep, SetEvent, ResetEvent, PulseEvent, ReleaseSemaphore,
              ReleaseMutex, SignalEvent, UnsignalEvent, AddCount, UnlockMutex, objectVars
<1>7. ASSUME NEW t \in Threads,
             \/ VisitMessageWaiter(t) \/ TimeoutFires(t) \/ QueueApc(t) \/ PostMessage({t})
             \/ SuspendThread(t) \/ \E suspended \in Suspended : CreateThread(t, suspended)
             \/ \E p \in Priorities : SetThreadPriority(t, p)
      PROVE  FALSE
  BY <1>1, <1>7 DEF VisitMessageWaiter, TimeoutFires, QueueApc, PostMessage, SuspendThread,
                    CreateThread, SetThreadPriority, objectVars
<1>8. \/ PostMessage(Threads) \/ DispatchAlertedApcs \/ ExitProcess \/ PerformSwitch
      \/ Yield \/ \E timed, alertable : Sleep(timed, alertable)
      => FALSE
  BY <1>1 DEF PostMessage, DispatchAlertedApcs, ExitProcess, PerformSwitch, Yield, Sleep,
              RunQueuedApcs, objectVars
<1>9. UNCHANGED vars => FALSE
  BY <1>1 DEF vars, objectVars
<1> QED
  <2>1. \/ \E t \in Threads : owner'[m] = t /\ context'[t] = "abandoned"
        \/ owner'[m] = current /\ state[current] = "RUNNING"
    BY <1>2, <1>3, <1>4, <1>5, <1>6, <1>7, <1>8, <1>9
       DEF Next, WakeStep, WaitStep, ThreadStep, TerminateThread, TerminateNext
  <2> QED BY <2>1, SyncConstants

(* Whoever takes a mutex that was abandoned owns it, and is told so if it  *)
(* had to wait (checkWait, consumeWait).                                   *)
THEOREM AbandonmentTold == Spec => AbandonmentReported
<1>1. TypeInv /\ [Next]_vars =>
        [\A m \in Mutexes :
            abandoned[m] /\ ~abandoned'[m] =>
               /\ owner'[m] # NoThread
               /\ state[owner'[m]] = "WAITING" => context'[owner'[m]] = "abandoned"]_vars
  BY AbandonedTaken
<1> QED BY <1>1, InitTypes, StepKeepsTypes, PTL DEF Spec, AbandonmentReported
=============================================================================
