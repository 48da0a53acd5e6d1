---------------------------- MODULE SyncObjects ----------------------------
(***************************************************************************)
(* The waitable objects of the kernel (SyncObjectManager): auto-reset and  *)
(* manual-reset events, semaphores, mutexes, and the threads themselves,   *)
(* whose handle is signalled once the thread has exited.  A wait is        *)
(* decided in two steps, as in the code: checkWait looks at the objects    *)
(* and changes nothing, consumeWait then takes what the decision names.    *)
(* A handle is the object it denotes: aliases and closed handles are not   *)
(* part of this module.                                                    *)
(***************************************************************************)
EXTENDS Naturals, Sequences, SequencesExt

CONSTANTS
    Threads,        \* thread records, also the waitable thread handles
    NoThread,       \* the null owner
    AutoEvents,     \* events created with manualReset = FALSE
    ManualEvents,   \* events created with manualReset = TRUE
    Semaphores,
    Mutexes,
    MaxCount,       \* lMaximumCount of every semaphore
    MaxRecursion    \* bound: how often an owner re-acquires its mutex

Events == AutoEvents \cup ManualEvents
Objects == Events \cup Semaphores \cup Mutexes
Waitables == Objects \cup Threads

ASSUME SyncConstants ==
    /\ MaxCount \in Nat \ {0}
    /\ MaxRecursion \in Nat \ {0}
    /\ NoThread \notin Threads
    /\ AutoEvents \cap ManualEvents = {}
    /\ Events \cap Semaphores = {}
    /\ Mutexes \cap (Events \cup Semaphores) = {}
    /\ Threads \cap Objects = {}

VARIABLES
    signaled,       \* event -> its signaled flag
    pendingWake,    \* manual-reset event -> its pendingWake flag
    count,          \* semaphore -> its count
    owner,          \* mutex -> ownerThreadId, or NoThread
    recursion,      \* mutex -> recursion
    abandoned       \* mutex -> abandoned: its owner died holding it

objectVars == <<signaled, pendingWake, count, owner, recursion, abandoned>>

ObjectsTypeOK ==
    /\ signaled \in [Events -> BOOLEAN]
    /\ pendingWake \in [ManualEvents -> BOOLEAN]
    /\ count \in [Semaphores -> 0..MaxCount]
    /\ owner \in [Mutexes -> Threads \cup {NoThread}]
    /\ recursion \in [Mutexes -> 0..MaxRecursion]
    /\ abandoned \in [Mutexes -> BOOLEAN]

\* Objects are created unsignalled or signalled, mutexes free; the guest
\* reaches every other state by the operations below.
ObjectsInit ==
    /\ signaled \in [Events -> BOOLEAN]
    /\ pendingWake = [e \in ManualEvents |-> FALSE]
    /\ count \in [Semaphores -> 0..MaxCount]
    /\ owner = [m \in Mutexes |-> NoThread]
    /\ recursion = [m \in Mutexes |-> 0]
    /\ abandoned = [m \in Mutexes |-> FALSE]

-----------------------------------------------------------------------------
(* checkWait: may thread t pass a wait on these handles?  exited is the    *)
(* set of threads that have terminated.                                    *)

EventReady(e) == signaled[e] \/ (e \in ManualEvents /\ pendingWake[e])

Ready(h, t, exited) ==
    \/ h \in Events /\ EventReady(h)
    \/ h \in Semaphores /\ count[h] > 0
    \/ h \in Mutexes /\ owner[h] \in {NoThread, t}
    \/ h \in Threads /\ h \in exited

WaitReady(handles, all, t, exited) ==
    IF all THEN \A i \in DOMAIN handles : Ready(handles[i], t, exited)
           ELSE \E i \in DOMAIN handles : Ready(handles[i], t, exited)

\* Mutant of Decision: an abandoned mutex is taken like any other.
DecisionSilent(taken) == [take |-> taken, result |-> "object"]

\* A decision: which handles the wait takes, and whether it reports
\* WAIT_OBJECT_0 or WAIT_ABANDONED.
Decision(taken) ==
    [take |-> taken,
     result |-> IF \E m \in Mutexes \cap taken : abandoned[m]
                THEN "abandoned" ELSE "object"]

\* A wait for all takes every handle, a wait for any the first ready one.
Decisions(handles, all, t, exited) ==
    IF all THEN {Decision(ToSet(handles))}
    ELSE {Decision({handles[i]}) : i \in
             {j \in DOMAIN handles :
                /\ Ready(handles[j], t, exited)
                /\ \A k \in 1..(j - 1) : ~Ready(handles[k], t, exited)}}

\* consumeWait: thread t takes the handles of a decision.
Consume(taken, t) ==
    /\ signaled' = [e \in Events |-> signaled[e] /\ e \notin (taken \cap AutoEvents)]
    /\ pendingWake' = [e \in ManualEvents |-> pendingWake[e] /\ e \notin taken]
    /\ count' = [s \in Semaphores |->
                   IF s \in taken /\ count[s] > 0 THEN count[s] - 1 ELSE count[s]]
    /\ abandoned' = [m \in Mutexes |-> abandoned[m] /\ m \notin taken]
    /\ owner' = [m \in Mutexes |->
                   IF m \in taken /\ owner[m] = NoThread THEN t ELSE owner[m]]
    /\ recursion' = [m \in Mutexes |->
                       CASE m \in taken /\ owner[m] = NoThread -> 1
                         [] m \in taken /\ owner[m] = t -> recursion[m] + 1
                         [] OTHER -> recursion[m]]

-----------------------------------------------------------------------------
(* The operations on one object, without the wake-ups that follow them.    *)

SignalEvent(e) ==
    /\ signaled' = [signaled EXCEPT ![e] = TRUE]
    /\ pendingWake' = [f \in ManualEvents |-> pendingWake[f] \/ f = e]
    /\ UNCHANGED <<count, owner, recursion, abandoned>>

UnsignalEvent(e) ==
    /\ signaled' = [signaled EXCEPT ![e] = FALSE]
    /\ pendingWake' = [f \in ManualEvents |-> pendingWake[f] /\ f # e]
    /\ UNCHANGED <<count, owner, recursion, abandoned>>

\* Refused when the count would pass the maximum.
AddCount(s, n) ==
    /\ n > 0
    /\ count[s] + n <= MaxCount
    /\ count' = [count EXCEPT ![s] = @ + n]
    /\ UNCHANGED <<signaled, pendingWake, owner, recursion, abandoned>>

\* Refused unless t is the owner; the last release frees the mutex.
UnlockMutex(m, t) ==
    /\ owner[m] = t
    /\ recursion' = [recursion EXCEPT ![m] = IF @ > 0 THEN @ - 1 ELSE 0]
    /\ owner' = [owner EXCEPT ![m] = IF recursion'[m] = 0 THEN NoThread ELSE t]
    /\ UNCHANGED <<signaled, pendingWake, count, abandoned>>

OwnedBy(t) == {m \in Mutexes : owner[m] = t}

AbandonMutexesKeepingCount(t) ==    \* mutant
    /\ owner' = [m \in Mutexes |-> IF m \in OwnedBy(t) THEN NoThread ELSE owner[m]]
    /\ abandoned' = [m \in Mutexes |-> abandoned[m] \/ m \in OwnedBy(t)]
    /\ UNCHANGED <<signaled, pendingWake, count, recursion>>

\* releaseAllMutexesForThread: a dying thread abandons what it owns.
AbandonMutexes(t) ==
    /\ owner' = [m \in Mutexes |-> IF m \in OwnedBy(t) THEN NoThread ELSE owner[m]]
    /\ recursion' = [m \in Mutexes |-> IF m \in OwnedBy(t) THEN 0 ELSE recursion[m]]
    /\ abandoned' = [m \in Mutexes |-> abandoned[m] \/ m \in OwnedBy(t)]
    /\ UNCHANGED <<signaled, pendingWake, count>>
=============================================================================
