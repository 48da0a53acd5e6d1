-------------------------- MODULE CriticalSections --------------------------
(***************************************************************************)
(* A Win32 critical section and a condition variable used with it, as the  *)
(* kernel32 thunks and the scheduler implement them.  The section lives in *)
(* guest memory (OwningThread, RecursionCount); contending threads park on *)
(* an auto-reset event, the LockSemaphore, and whoever ends their wait     *)
(* writes them into the section: ownership is handed over, it is not       *)
(* competed for.  A section found with an owner whose thread record is     *)
(* gone is reset, and its event forgotten with whoever waits on it.        *)
(*                                                                         *)
(* A call is atomic.  Any thread that neither waits nor is suspended may   *)
(* be the next to call, since the tick boundary preempts between any two   *)
(* calls.  Variable inside is what the guest program believes: how often   *)
(* the thread entered without having left.  The guest is well behaved: it  *)
(* leaves only what it entered, and sleeps on the condition variable only  *)
(* inside the section.                                                     *)
(***************************************************************************)
EXTENDS ThreadQueues

CONSTANTS
    Threads,
    NoThread,       \* OwningThread = 0
    Guests          \* the guest programs: the threads one has, how often a thread
                    \* enters without leaving, whether it suspends threads, and the
                    \* timeouts with which it calls SleepConditionVariableCS

ASSUME CsConstants ==
    /\ NoThread \notin Threads
    /\ Guests \subseteq [threads : SUBSET Threads, recursion : Nat \ {0}, suspends : BOOLEAN,
                        sleeps : SUBSET {"zero", "finite", "infinite"}]

VARIABLES
    guest,          \* the guest program
    csOwner,        \* OwningThread
    csRecursion,    \* RecursionCount
    csTracked,      \* the owner the scheduler has noted (criticalSectionOwners)
    lockSemaphore,  \* is the event at CS+16 signalled?
    csQueue,        \* threads parked on the event, oldest first
    forgotten,      \* earlier events of the section that threads are still parked on
    cvQueue,        \* threads parked on the condition variable, oldest first
    cvTimers,       \* those of them whose wait has a timeout
    status,         \* thread -> running, parked, stranded or dead
    suspended,      \* threads with a positive suspend count
    inside,         \* thread -> Enters that returned, less Leaves
    crashed         \* the fatal guard has been reported

ownership == <<csOwner, csRecursion, csTracked>>
csVars == <<ownership, lockSemaphore, csQueue, forgotten>>
cvVars == <<cvQueue, cvTimers>>
vars == <<guest, csVars, cvVars, status, suspended, inside, crashed>>

Init ==
    /\ guest \in Guests
    /\ csOwner = NoThread
    /\ csRecursion = 0
    /\ csTracked = NoThread
    /\ lockSemaphore = FALSE
    /\ csQueue = <<>>
    /\ forgotten = {}
    /\ cvQueue = <<>>
    /\ cvTimers = {}
    /\ status = [t \in Threads |-> "running"]
    /\ suspended = {}
    /\ inside = [t \in Threads |-> 0]
    /\ crashed = FALSE

-----------------------------------------------------------------------------
MayCall(t) == ~crashed /\ status[t] = "running" /\ t \notin suspended

Dead == {t \in Threads : status[t] = "dead"}

\* Whom the event lets through when it is set: the oldest waiter that is not
\* suspended, or nobody.
Heirs(queue) ==
    IF FirstAwake(queue, suspended) = {} THEN {NoThread} ELSE FirstAwake(queue, suspended)

\* The section after it was given up to heir, with these threads waiting.
\* With suspended waiters only, the event stays signalled and the section
\* keeps the owner that gave it up.
OwnershipPassesToNobody(heir, queue) ==     \* mutant
    csOwner' = NoThread /\ csRecursion' = 0 /\ csTracked' = NoThread

OwnershipPasses(heir, queue) ==
    /\ csOwner' = CASE heir # NoThread -> heir
                    [] heir = NoThread /\ queue = <<>> -> NoThread
                    [] heir = NoThread /\ queue # <<>> -> csOwner
    /\ csRecursion' = IF heir = NoThread THEN 0 ELSE 1
    /\ csTracked' = CASE heir # NoThread -> heir
                      [] heir = NoThread /\ csTracked = csOwner -> NoThread
                      [] heir = NoThread /\ csTracked # csOwner -> csTracked

HeirLeavesSignalled(heir, queue) ==     \* mutant
    /\ csQueue' = Without(queue, heir)
    /\ lockSemaphore' = IF queue = <<>> THEN lockSemaphore ELSE TRUE

HeirLeaves(heir, queue) ==
    /\ csQueue' = Without(queue, heir)
    /\ lockSemaphore' = IF queue = <<>> THEN lockSemaphore ELSE heir = NoThread

\* The calls of these threads return, inside the section; st and beliefs are
\* status and inside without that.
Return(threads, st, beliefs) ==
    /\ status' = [u \in Threads |-> IF u \in threads THEN "running" ELSE st[u]]
    /\ inside' = [u \in Threads |-> IF u \in threads THEN beliefs[u] + 1 ELSE beliefs[u]]

\* The section is written as held once by t.
Take(t) == csOwner' = t /\ csRecursion' = 1 /\ csTracked' = t

\* Those of the events that threads are still parked on.
InUse(events) == {e \in events : e.waiters # {}}

-----------------------------------------------------------------------------
(* The calls.                                                              *)

\* EnterCriticalSection, on its fast path: a free section or the caller's.
EnterUncontended(t) ==
    /\ MayCall(t)
    /\ inside[t] < guest.recursion
    /\ csOwner \in {NoThread, t}
    /\ csOwner' = t
    /\ csRecursion' = IF csOwner = t THEN csRecursion + 1 ELSE 1
    /\ csTracked' = IF csOwner = t THEN csTracked ELSE t
    /\ inside' = [inside EXCEPT ![t] = @ + 1]
    /\ UNCHANGED <<lockSemaphore, csQueue, forgotten, cvVars, status, suspended, crashed>>

\* The owner died and left the section to suspended waiters.  Its Thread
\* record is reaped at some later boundary; that changes nothing else here,
\* so whether it has happened is left open: a call finds the owner dead
\* (StealFromDead) or unknown (RecoverFromReaped).
StealFromDead(t) ==
    /\ MayCall(t)
    /\ inside[t] < guest.recursion
    /\ csOwner \in Dead
    /\ Take(t)
    /\ inside' = [inside EXCEPT ![t] = @ + 1]
    /\ UNCHANGED <<lockSemaphore, csQueue, forgotten, cvVars, status, suspended, crashed>>

\* Enter and TryEnter of a section whose owner is unknown reset it first.
\* The event stays, with its waiters, but the section knows it no more.  If
\* the scheduler has an owner on note, that is taken for corruption; it has
\* one only if an owner was written past these calls (NotedOwner).
RecoverFromReaped(t) ==
    /\ MayCall(t)
    /\ inside[t] < guest.recursion
    /\ csOwner \in Dead
    /\ IF csTracked = NoThread
       THEN /\ forgotten' = forgotten \cup
                   InUse({[waiters |-> ToSet(csQueue), signalled |-> lockSemaphore]})
            /\ csQueue' = <<>>
            /\ lockSemaphore' = FALSE
            /\ Take(t)
            /\ inside' = [inside EXCEPT ![t] = @ + 1]
            /\ UNCHANGED crashed
       ELSE /\ crashed' = TRUE
            /\ UNCHANGED <<csVars, inside>>
    /\ UNCHANGED <<cvVars, status, suspended>>

\* The section is another thread's: park.  If the event is still signalled
\* the caller takes the section at once, and yet the thunk sends it to the
\* spin loop as if it were parked: it never returns from the call.
EnterContended(t) ==
    /\ MayCall(t)
    /\ inside[t] < guest.recursion
    /\ csOwner \in Threads \ (Dead \cup {t})
    /\ IF lockSemaphore
       THEN /\ lockSemaphore' = FALSE
            /\ Take(t)
            /\ status' = [status EXCEPT ![t] = "stranded"]
            /\ UNCHANGED csQueue
       ELSE /\ status' = [status EXCEPT ![t] = "parked"]
            /\ csQueue' = Append(csQueue, t)
            /\ UNCHANGED <<ownership, lockSemaphore>>
    /\ UNCHANGED <<forgotten, cvVars, suspended, inside, crashed>>

\* TryEnterCriticalSection, when it succeeds; a refusal changes nothing.  A
\* section that is the caller's with recursion 0 is first normalised to 1.
TryEnter(t) ==
    /\ MayCall(t)
    /\ inside[t] < guest.recursion
    /\ csOwner \in {NoThread, t}
    /\ csOwner' = t
    /\ csRecursion' = CASE csOwner = t /\ csRecursion > 0 -> csRecursion + 1
                        [] csOwner = t /\ csRecursion = 0 -> 2
                        [] csOwner # t -> 1
    /\ csTracked' = IF csOwner = t THEN csTracked ELSE t
    /\ inside' = [inside EXCEPT ![t] = @ + 1]
    /\ UNCHANGED <<lockSemaphore, csQueue, forgotten, cvVars, status, suspended, crashed>>

\* LeaveCriticalSection.  Leaving a section that another thread owns is
\* reported as a fatal guard, and the guest is stopped.
LeaveForeign(t) ==
    /\ MayCall(t)
    /\ inside[t] > 0
    /\ csOwner \notin {NoThread, t}
    /\ crashed' = TRUE
    /\ UNCHANGED <<csVars, cvVars, status, suspended, inside>>

LeaveInner(t) ==
    /\ MayCall(t)
    /\ inside[t] > 0
    /\ csOwner \in {NoThread, t}
    /\ csRecursion > 1
    /\ csRecursion' = csRecursion - 1
    /\ inside' = [inside EXCEPT ![t] = @ - 1]
    /\ UNCHANGED <<csOwner, csTracked, lockSemaphore, csQueue, forgotten, cvVars, status,
                   suspended, crashed>>

LeaveOuter(t) ==
    /\ MayCall(t)
    /\ inside[t] > 0
    /\ csOwner \in {NoThread, t}
    /\ csRecursion <= 1
    /\ \E heir \in Heirs(csQueue) :
         /\ OwnershipPasses(heir, csQueue)
         /\ HeirLeaves(heir, csQueue)
         /\ Return({heir} \ {NoThread}, status, [inside EXCEPT ![t] = @ - 1])
    /\ UNCHANGED <<forgotten, cvVars, suspended, crashed>>

\* DeleteCriticalSection and InitializeCriticalSection, of a section nobody
\* uses: unlocked, and without its event.
Reinitialize(t) ==
    /\ MayCall(t)
    /\ \A u \in Threads \ Dead : inside[u] = 0 /\ status[u] = "running"
    /\ csOwner' = NoThread
    /\ csRecursion' = 0
    /\ csTracked' = NoThread
    /\ lockSemaphore' = FALSE
    /\ UNCHANGED <<csQueue, forgotten, cvVars, status, suspended, inside, crashed>>

-----------------------------------------------------------------------------
(* The condition variable.                                                 *)

\* SleepConditionVariableCS: give the section up, if it is the caller's, and
\* park on the condition variable.  With a zero timeout the caller takes the
\* section back at once.
Park(t, timeout) ==
    /\ cvQueue' = Append(cvQueue, t)
    /\ cvTimers' = IF timeout = "finite" THEN cvTimers \cup {t} ELSE cvTimers

Sleep(t, timeout) ==
    /\ MayCall(t)
    /\ inside[t] = 1
    /\ csOwner \in {NoThread, t}
    /\ \E heir \in Heirs(csQueue) :
         /\ HeirLeaves(heir, csQueue)
         /\ IF timeout = "zero"
            THEN /\ Take(t)
                 /\ Return({heir} \ {NoThread}, status, inside)
                 /\ UNCHANGED cvVars
            ELSE /\ OwnershipPasses(heir, csQueue)
                 /\ Return({heir} \ {NoThread}, [status EXCEPT ![t] = "parked"],
                           [inside EXCEPT ![t] = 0])
                 /\ Park(t, timeout)
    /\ UNCHANGED <<forgotten, suspended, crashed>>

SleepOutside(t, timeout) ==
    /\ MayCall(t)
    /\ inside[t] = 1
    /\ csOwner \notin {NoThread, t}
    /\ IF timeout = "zero"
       THEN Take(t) /\ UNCHANGED <<cvVars, status, inside>>
       ELSE /\ Return({}, [status EXCEPT ![t] = "parked"], [inside EXCEPT ![t] = 0])
            /\ Park(t, timeout)
            /\ UNCHANGED ownership
    /\ UNCHANGED <<lockSemaphore, csQueue, forgotten, suspended, crashed>>

\* Each of the woken threads takes the section in turn, without a look at
\* its owner: the last of them is written as the owner.
WakeSleepers(woken, rest) ==
    /\ Take(Last(woken))
    /\ Return(ToSet(woken), status, inside)
    /\ cvQueue' = rest
    /\ cvTimers' = cvTimers \ ToSet(woken)
    /\ UNCHANGED <<lockSemaphore, csQueue, forgotten, suspended, crashed>>

\* WakeConditionVariable and WakeAllConditionVariable: suspended or not.
WakeConditionVariable(t) ==
    /\ MayCall(t)
    /\ cvQueue # <<>>
    /\ WakeSleepers(<<Head(cvQueue)>>, Without(cvQueue, Head(cvQueue)))

WakeAllConditionVariable(t) ==
    /\ MayCall(t)
    /\ cvQueue # <<>>
    /\ WakeSleepers(cvQueue, <<>>)

SleepTimesOut(t) ==
    /\ ~crashed
    /\ t \in cvTimers
    /\ WakeSleepers(<<t>>, Without(cvQueue, t))

-----------------------------------------------------------------------------
(* Threads.                                                                *)

Suspend(t) ==
    /\ guest.suspends
    /\ ~crashed
    /\ t \notin Dead \cup suspended
    /\ suspended' = suspended \cup {t}
    /\ UNCHANGED <<csVars, cvVars, status, inside, crashed>>

\* The last ResumeThread: a parked thread looks at its event again, and if
\* that is signalled takes the section, whoever owns it now, and whether the
\* section still knows the event or not.
ResumeOnEvent(t) ==
    /\ t \in ToSet(csQueue) /\ lockSemaphore
    /\ lockSemaphore' = FALSE
    /\ csQueue' = Without(csQueue, t)
    /\ UNCHANGED forgotten

ResumeOnForgotten(t) ==
    \E e \in forgotten :
        /\ t \in e.waiters /\ e.signalled
        /\ forgotten' = (forgotten \ {e}) \cup
               InUse({[waiters |-> e.waiters \ {t}, signalled |-> FALSE]})
        /\ UNCHANGED <<lockSemaphore, csQueue>>

ResumeParked(t) ==
    /\ ~crashed
    /\ t \in suspended
    /\ suspended' = suspended \ {t}
    /\ ResumeOnEvent(t) \/ ResumeOnForgotten(t)
    /\ Take(t)
    /\ Return({t}, status, inside)
    /\ UNCHANGED <<cvVars, crashed>>

Resume(t) ==
    /\ ~crashed
    /\ t \in suspended
    /\ ~(t \in ToSet(csQueue) /\ lockSemaphore)
    /\ \A e \in forgotten : ~(t \in e.waiters /\ e.signalled)
    /\ suspended' = suspended \ {t}
    /\ UNCHANGED <<csVars, cvVars, status, inside, crashed>>

ForgottenWithout(t) == InUse({[e EXCEPT !.waiters = @ \ {t}] : e \in forgotten})

\* terminateThread: a section the thread owns is handed over as by Leave.
TerminateKeepingSection(t) ==     \* mutant
    /\ ~crashed
    /\ t \notin Dead
    /\ csQueue' = Without(csQueue, t)
    /\ status' = [status EXCEPT ![t] = "dead"]
    /\ inside' = [inside EXCEPT ![t] = 0]
    /\ UNCHANGED <<ownership, lockSemaphore>>
    /\ forgotten' = ForgottenWithout(t)
    /\ cvQueue' = Without(cvQueue, t)
    /\ cvTimers' = cvTimers \ {t}
    /\ suspended' = suspended \ {t}
    /\ UNCHANGED crashed

Terminate(t) ==
    LET queue == Without(csQueue, t)
        dead == [status EXCEPT ![t] = "dead"]
        beliefs == [inside EXCEPT ![t] = 0]
    IN  /\ ~crashed
        /\ t \notin Dead
        /\ IF csOwner = t
           THEN \E heir \in Heirs(queue) :
                  /\ OwnershipPasses(heir, queue)
                  /\ HeirLeaves(heir, queue)
                  /\ Return({heir} \ {NoThread}, dead, beliefs)
           ELSE /\ csQueue' = queue
                /\ status' = dead
                /\ inside' = beliefs
                /\ UNCHANGED <<ownership, lockSemaphore>>
        /\ forgotten' = ForgottenWithout(t)
        /\ cvQueue' = Without(cvQueue, t)
        /\ cvTimers' = cvTimers \ {t}
        /\ suspended' = suspended \ {t}
        /\ UNCHANGED crashed

-----------------------------------------------------------------------------
Next ==
    /\ UNCHANGED guest
    /\ \E t \in guest.threads :
        \/ EnterUncontended(t) \/ StealFromDead(t) \/ RecoverFromReaped(t)
        \/ EnterContended(t) \/ TryEnter(t)
        \/ LeaveForeign(t) \/ LeaveInner(t) \/ LeaveOuter(t) \/ Reinitialize(t)
        \/ \E timeout \in guest.sleeps : Sleep(t, timeout) \/ SleepOutside(t, timeout)
        \/ WakeConditionVariable(t) \/ WakeAllConditionVariable(t) \/ SleepTimesOut(t)
        \/ Suspend(t) \/ ResumeParked(t) \/ Resume(t) \/ Terminate(t)

Spec == Init /\ [][Next]_vars

-----------------------------------------------------------------------------
(* Properties.                                                             *)

\* Every variable keeps its type: no queue holds a thread twice, and who is
\* queued is parked.
TypeOK ==
    /\ guest \in Guests
    /\ csOwner \in Threads \cup {NoThread}
    /\ csRecursion \in Nat
    /\ csTracked \in Threads \cup {NoThread}
    /\ lockSemaphore \in BOOLEAN
    /\ csQueue \in Seq(Threads) /\ cvQueue \in Seq(Threads)
    /\ forgotten \subseteq [waiters : SUBSET Threads, signalled : BOOLEAN]
    /\ cvTimers \subseteq Threads
    /\ status \in [Threads -> {"running", "parked", "stranded", "dead"}]
    /\ suspended \subseteq Threads
    /\ inside \in [Threads -> Nat]
    /\ crashed \in BOOLEAN

\* A guest that neither suspends threads nor uses the condition variable.
PlainGuest == ~guest.suspends /\ guest.sleeps = {}

(* Mutual exclusion, as the guest sees it: at most one thread is between   *)
(* an Enter that returned and its Leave, whatever is preempted, handed     *)
(* over or killed in between.  Suspensions and the condition variable      *)
(* break it.                                                               *)
CsExclusion ==
    PlainGuest => \A t, u \in Threads : inside[t] > 0 /\ inside[u] > 0 => t = u

(* The section in guest memory says what the guest believes: who is inside *)
(* is the owner, as often as it entered, so that its last Leave gives the  *)
(* section up and an earlier one does not, and no Leave finds the section  *)
(* owned by somebody else.                                                 *)
OwnerIsInside ==
    PlainGuest => \A t \in Threads :
        inside[t] > 0 => csOwner = t /\ csRecursion = inside[t]

(* Nobody is left parked on a section that is free or whose owner is dead, *)
(* except suspended threads, and those find the event signalled when they  *)
(* are resumed ("boot deadlock", releaseAllCriticalSectionsForThread).     *)
(* Whoever waits on an event that the section forgot when its owner was    *)
(* reaped is suspended too and finds it signalled - until one of them has  *)
(* taken the section: the others are lost (normalizeCriticalSectionState). *)
NoSleepOnFreeSection ==
    /\ csOwner \in Dead \cup {NoThread} =>
           \A t \in ToSet(csQueue) : t \in suspended /\ lockSemaphore
    /\ \A e \in forgotten : e.signalled => e.waiters \subseteq suspended

\* The owner on note is the owner in guest memory, and never a dead one.
NotedOwner ==
    /\ csTracked \in {NoThread, csOwner}
    /\ csOwner \in Dead => csTracked = NoThread

\* The threads parked on events that the section forgot.
ParkedOnForgotten == UNION {e.waiters : e \in forgotten}

(* A thread waits in exactly one queue while it is parked and in none      *)
(* otherwise: a stale entry would be handed a section it did not ask for.  *)
QueuesExact ==
    /\ IsInjective(csQueue) /\ IsInjective(cvQueue)
    /\ ToSet(csQueue) \cap ToSet(cvQueue) = {}
    /\ ParkedOnForgotten \cap (ToSet(csQueue) \cup ToSet(cvQueue)) = {}
    /\ \A e, f \in forgotten : e # f => e.waiters \cap f.waiters = {}
    /\ ToSet(csQueue) \cup ToSet(cvQueue) \cup ParkedOnForgotten
           = {t \in Threads : status[t] = "parked"}
    /\ cvTimers \subseteq ToSet(cvQueue)

(* LeaveCriticalSection never finds the section owned by somebody else,    *)
(* since the guest leaves only what it entered: its fatal guard "owner     *)
(* mismatch" is an assertion about the hand-over, not about the guest.     *)
NoOwnerMismatch == ~crashed

(* EnterCriticalSection returns when it takes the section: "blocked ===    *)
(* true: thread is WAITING" (EnterCriticalSection).  True as long as no    *)
(* thread is suspended: a Leave that finds suspended waiters only leaves   *)
(* the event signalled, and the next contended Enter is stranded.          *)
EnterReturns == ~guest.suspends => \A t \in Threads : status[t] # "stranded"

(* The guest leaves what it entered: a thread inside that is not killed    *)
(* makes its last Leave some day.  Strong fairness, since it may also      *)
(* enter again and again before it does.                                   *)
FairSpec ==
    /\ Spec
    /\ \A t \in Threads : /\ WF_vars(LeaveInner(t) /\ UNCHANGED guest)
                         /\ SF_vars(LeaveOuter(t) /\ UNCHANGED guest)

(* Whoever parks on the section gets it, or is killed: ownership is handed *)
(* over in order, and no newcomer overtakes a waiter.                      *)
WaitersEnter ==
    \A t \in Threads : PlainGuest /\ t \in ToSet(csQueue) ~> t \notin ToSet(csQueue)
=============================================================================
