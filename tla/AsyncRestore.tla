---------------------------- MODULE AsyncRestore ----------------------------
(***************************************************************************)
(* Asynchronous calls of guest threads: a thread whose call is answered by *)
(* a JavaScript promise is parked, and the answer is put into its          *)
(* registers at a safe point.  The thunk dispatcher keeps the calls and    *)
(* the answers, the scheduler the threads; threads are suspended, resumed, *)
(* terminated and reaped meanwhile.                                        *)
(*                                                                         *)
(* A turn of the JavaScript thread is atomic, so no guest code and no      *)
(* promise runs between its steps: `stage' says how far the turn is.       *)
(* READY threads are a set, any of which a switch may pick; their order is *)
(* Scheduler's.  Answers are a set too: they are looked up by thread, and  *)
(* their order only decides that of the READY threads.  Callback chains    *)
(* and suspended frames, which resume a thread in other ways, are left     *)
(* out, and the return address and stack pointer of a call are taken to be *)
(* valid.                                                                  *)
(***************************************************************************)
EXTENDS Naturals

CONSTANTS
    Threads,            \* thread ids, given out in order and never twice
    Main,               \* the thread the process starts with
    Stacks,             \* blocks of memory for the stacks of other threads
    MainStack,          \* the stack of the main thread, which the loader made
    NoStack,
    MaxSuspend,         \* bound: suspensions of one thread at a time
    MaxGeneration,      \* bound: a thread makes no call beyond this generation
    MaxSuspensions      \* bound: successful SuspendThread calls of a run

ASSUME AsyncConstants ==
    /\ Threads \subseteq Nat /\ Main \in Threads
    /\ \A t \in Threads : Main <= t
    /\ {MainStack, NoStack} \cap Stacks = {} /\ MainStack # NoStack
    /\ MaxSuspend \in Nat \ {0}
    /\ MaxGeneration \in Nat
    /\ MaxSuspensions \in Nat

VARIABLES
    state,          \* thread -> ThreadState; "NEW" and "GONE" have no record
    suspendCount,
    generation,     \* thread -> asyncParkGeneration
    context,        \* thread -> where its saved context stands, "none" = null
    stack,          \* thread -> the stack it owns
    current,        \* currentThreadId
    eip,            \* where the CPU stands: at the park loop or in guest code
    switchRequested,
    inFlight,       \* activeAsyncThunks: calls whose promise is unsettled
    pending,        \* pendingAsyncRestores: answers not yet applied
    stage,          \* what the JavaScript thread is in the middle of
    suspensions,    \* SuspendThread calls so far
    awaiting        \* thread -> the call its guest code waits in

schedulerVars == <<state, suspendCount, generation, context, stack, current, eip,
                   switchRequested>>
vars == <<schedulerVars, inFlight, pending, stage, suspensions, awaiting>>

States == {"NEW", "READY", "RUNNING", "WAITING", "SUSPENDED", "TERMINATED", "GONE"}
Places == {"code", "spin"}

\* "guest": the engine runs, or promises settle between two slices; "thunk":
\* a call of the guest has been served and its boundary is due; "tick" and
\* "boundary": completions were polled and the rest is due; "idle": the
\* engine is stopped until the host resumes it.
Stages == {"guest", "thunk", "tick", "boundary", "idle"}

Calls == [thread : Threads, generation : Nat, stack : Stacks \cup {MainStack}]
NoCall == 0

Init ==
    /\ state = [t \in Threads |-> IF t = Main THEN "RUNNING" ELSE "NEW"]
    /\ suspendCount = [t \in Threads |-> 0]
    /\ generation = [t \in Threads |-> 0]
    /\ context = [t \in Threads |-> "none"]
    /\ stack = [t \in Threads |-> IF t = Main THEN MainStack ELSE NoStack]
    /\ current = Main
    /\ eip = "code"
    /\ switchRequested = FALSE
    /\ inFlight = {}
    /\ pending = {}
    /\ stage = "guest"
    /\ suspensions = 0
    /\ awaiting = [t \in Threads |-> NoCall]

-----------------------------------------------------------------------------
Live(t) == state[t] \notin {"NEW", "TERMINATED", "GONE"}
Ready == {t \in Threads : state[t] = "READY"}
FreeStacks == Stacks \ {stack[t] : t \in Threads}

\* Guest code of the current thread is about to make a call.
GuestReady == stage = "guest" /\ state[current] = "RUNNING" /\ eip = "code"

CallsOf(t) == {c \in inFlight \cup pending : c.thread = t}

ParkAtTheCall(t) == context' = [context EXCEPT ![t] = "code"]   \* mutant

\* The saved context of a parked thread stands at the park loop, where the
\* redirected return of the stub lands.
ParkContext(t) == context' = [context EXCEPT ![t] = "spin"]

\* markThreadAsyncParked, on the RUNNING current thread.
MarkAsyncParked ==
    /\ state' = [state EXCEPT ![current] = "WAITING"]
    /\ generation' = [generation EXCEPT ![current] = @ + 1]
    /\ ParkContext(current)
    /\ eip' = "spin"

-----------------------------------------------------------------------------
(* Guest calls.                                                            *)

\* The guest makes a call that is answered by a promise.  The boundary of
\* such a call does nothing.
CallAsync ==
    /\ GuestReady
    /\ generation[current] < MaxGeneration
    /\ MarkAsyncParked
    /\ inFlight' = inFlight \cup {[thread |-> current,
                                   generation |-> generation[current] + 1,
                                   stack |-> stack[current]]}
    /\ awaiting' = [awaiting EXCEPT ![current] = generation[current] + 1]
    /\ UNCHANGED <<suspendCount, stack, current, switchRequested, pending, stage,
                   suspensions>>

\* Any other call of the guest, as far as this module tells them apart.
OtherCall ==
    /\ GuestReady
    /\ stage' = "thunk"
    /\ UNCHANGED <<schedulerVars, inFlight, pending, suspensions, awaiting>>

MaySuspend(t) == suspendCount[t] < MaxSuspend

\* A parked thread becomes SUSPENDED; its answer waits for it in `pending'.
\* Another thread can be suspended on the fast path, which has no boundary.
SuspendThread(t) ==
    /\ GuestReady
    /\ Live(t)
    /\ MaySuspend(t)
    /\ suspensions < MaxSuspensions
    /\ suspensions' = suspensions + 1
    /\ suspendCount' = [suspendCount EXCEPT ![t] = @ + 1]
    /\ state' = [state EXCEPT ![t] = "SUSPENDED"]
    /\ switchRequested' = (switchRequested \/ t = current)
    /\ stage' \in IF t = current THEN {"thunk"} ELSE {"guest", "thunk"}
    /\ UNCHANGED <<generation, context, stack, current, eip, inFlight, pending, awaiting>>

ResumeThread(t) ==
    /\ GuestReady
    /\ suspendCount[t] > 0
    /\ suspendCount' = [suspendCount EXCEPT ![t] = @ - 1]
    /\ IF suspendCount[t] = 1 /\ state[t] = "SUSPENDED"
       THEN /\ state' = [state EXCEPT ![t] = "READY"]
            /\ switchRequested' = TRUE
       ELSE UNCHANGED <<state, switchRequested>>
    /\ stage' = "thunk"
    /\ UNCHANGED <<generation, context, stack, current, eip, inFlight, pending,
                   suspensions, awaiting>>

\* ExitThread and TerminateThread.  The promise of a call in flight cannot be
\* cancelled.
TerminateThread(t) ==
    /\ GuestReady
    /\ Live(t)
    /\ state' = [state EXCEPT ![t] = "TERMINATED"]
    /\ context' = [context EXCEPT ![t] = "none"]
    /\ switchRequested' = (switchRequested \/ t = current)
    /\ stage' = "thunk"
    /\ UNCHANGED <<suspendCount, generation, stack, current, eip, inFlight, pending,
                   suspensions, awaiting>>

\* A thread gets a stack that is free; which one makes no difference.
CreateThread(t) ==
    /\ GuestReady
    /\ state[t] = "NEW"
    /\ \A u \in Threads : u < t => state[u] # "NEW"
    /\ FreeStacks # {}
    /\ stack' = [stack EXCEPT ![t] = CHOOSE s \in FreeStacks : TRUE]
    /\ state' = [state EXCEPT ![t] = "READY"]
    /\ context' = [context EXCEPT ![t] = "code"]
    /\ stage' = "thunk"
    /\ UNCHANGED <<suspendCount, generation, current, eip, switchRequested, inFlight,
                   pending, suspensions, awaiting>>

-----------------------------------------------------------------------------
(* The dispatcher: promises settle, answers are applied.                   *)

\* The promise of c is fulfilled or rejected; either way an answer is queued.
Complete(c) ==
    /\ stage \in {"guest", "idle"}
    /\ c \in inFlight
    /\ inFlight' = inFlight \ {c}
    /\ pending' = pending \cup {c}
    /\ UNCHANGED <<schedulerVars, stage, suspensions, awaiting>>

ValidUnlessSuspended(c) ==  \* mutant
    Live(c.thread) /\ state[c.thread] # "SUSPENDED" /\ c.generation = generation[c.thread]

\* validateAsyncRestoreTarget.  An answer that is not valid is dropped.
Valid(c) == Live(c.thread) /\ c.generation = generation[c.thread]

Kept == {c \in pending : Valid(c)}

WokenNone(ts) == state      \* mutant

\* wakeThreadForAsyncCompletion and wakeThread, for the threads of answers.
Woken(ts) ==
    [t \in Threads |-> IF t \in ts /\ state[t] = "WAITING"
                       THEN IF suspendCount[t] > 0 THEN "SUSPENDED" ELSE "READY"
                       ELSE state[t]]

Others == {c.thread : c \in Kept} \ {current}

OwnWhoever == Kept          \* mutant

\* indexOfPendingRestoreForThread(currentTid).
Own == {c \in Kept : c.thread = current}

LeftAfter(c) == Kept \ {c}

\* Phase 2 of tryApplyPendingAsyncRestoreAtSafePoint: the answer c is put into
\* the registers of the current thread, whose guest code goes on.  If it is
\* not the answer to the call it waits in, `awaiting' is left at a generation
\* that no call has.
Apply(c) ==
    LET readied == Woken(Others \cup {current})
    IN  /\ pending' = LeftAfter(c)
        /\ generation' = [generation EXCEPT ![current] = @ + 1]
        /\ awaiting' = [awaiting EXCEPT ![current] =
             IF c.thread = current /\ c.generation = @
             THEN NoCall ELSE generation[current] + 1]
        /\ state' = [readied EXCEPT ![current] = IF @ = "READY" THEN "RUNNING" ELSE @]
        /\ context' = [context EXCEPT ![current] =
             IF readied[current] = "READY" THEN "none" ELSE @]
        /\ eip' = "code"
        /\ switchRequested' = (switchRequested \/ \E t \in Others : readied[t] # state[t])

\* Phase 1 alone: answers that nobody can take are dropped, the threads of
\* the others are readied.
ReadyOthers ==
    /\ Own = {}
    /\ pending' = Kept
    /\ state' = Woken(Others)
    /\ switchRequested' =
         (switchRequested \/ \E t \in Others : state'[t] \in {"READY", "RUNNING"})
    /\ UNCHANGED <<generation, awaiting, context, eip>>

-----------------------------------------------------------------------------
(* The scheduler: boundaries and switches.                                 *)

\* performSwitch, to the given thread.
SwitchTo(next) ==
    LET leaves == state[current] = "RUNNING"
        saves == leaves \/ (state[current] = "SUSPENDED" /\ context[current] = "none")
        states == IF leaves THEN [state EXCEPT ![current] = "READY"] ELSE state
        contexts == IF saves THEN [context EXCEPT ![current] = eip] ELSE context
    IN  /\ states[next] = "READY" /\ suspendCount[next] = 0
        /\ next = current => Ready \subseteq {current}
        /\ contexts[next] # "none"
        /\ state' = [states EXCEPT ![next] = "RUNNING"]
        /\ context' = [contexts EXCEPT ![next] = "none"]
        /\ eip' = contexts[next]
        /\ current' = next

\* performSwitch when nothing is runnable: a thread that suspended itself
\* leaves its code for the park loop.
SwitchToNothing ==
    /\ Ready = {}
    /\ state[current] # "RUNNING"
    /\ IF state[current] = "SUSPENDED"
       THEN /\ context' = IF context[current] = "none"
                          THEN [context EXCEPT ![current] = eip] ELSE context
            /\ eip' = "spin"
       ELSE UNCHANGED <<context, eip>>
    /\ UNCHANGED <<state, current>>

Switch == SwitchToNothing \/ \E next \in Threads : SwitchTo(next)

\* onThunkBoundary polls for answers first and ends there if one was applied.
ThunkBoundary ==
    /\ stage = "thunk"
    /\ \/ (\E c \in Own : Apply(c)) /\ stage' = "guest"
       \/ ReadyOthers /\ stage' = "boundary"
    /\ UNCHANGED <<suspendCount, stack, current, inFlight, suspensions>>

ReapableUnlessAnswered ==   \* mutant
    {t \in Threads : /\ state[t] = "TERMINATED" /\ t # current
                     /\ \A c \in pending : c.thread # t}

\* Dead threads whose record may be dropped.  The stack is given back first,
\* and is kept while the thread is current or has a call that is not over;
\* the main thread's stack is not the scheduler's to give back.
Reapable ==
    {t \in Threads : /\ state[t] = "TERMINATED" /\ t # current
                     /\ t = Main \/ CallsOf(t) = {}}

\* reapTerminatedThreads, unless that was done a moment ago.
ReapTerminated ==
    /\ stage = "boundary"
    /\ Reapable # {}
    /\ state' = [t \in Threads |-> IF t \in Reapable THEN "GONE" ELSE state[t]]
    /\ stack' = [t \in Threads |-> IF t \in Reapable \ {Main} THEN NoStack ELSE stack[t]]
    /\ UNCHANGED <<suspendCount, generation, context, current, eip, switchRequested,
                   inFlight, pending, stage, suspensions, awaiting>>

\* A switch is made when one was requested or the quantum is over.
FinishBoundary ==
    /\ stage = "boundary"
    /\ \/ Switch /\ (switchRequested \/ Ready # {}) /\ switchRequested' = FALSE
       \/ ~switchRequested /\ UNCHANGED <<state, context, current, eip, switchRequested>>
    /\ stage' = "guest"
    /\ UNCHANGED <<suspendCount, generation, stack, inFlight, pending, suspensions, awaiting>>

\* preemptAtTickBoundary.
TickBoundary ==
    /\ stage = "guest"
    /\ \/ (\E c \in Own : Apply(c)) /\ stage' = "guest"
       \/ ReadyOthers /\ stage' = "tick"
    /\ UNCHANGED <<suspendCount, stack, current, inFlight, suspensions>>

MustSwitch ==
    \/ state[current] # "RUNNING"
    \/ eip = "spin"
    \/ switchRequested

\* Another thread can run: switch at once if the current one cannot, is at
\* the park loop, or a switch was requested, and at the end of its quantum.
TickSwitch(next) ==
    /\ stage = "tick"
    /\ Ready # {}
    /\ SwitchTo(next)
    /\ switchRequested' = FALSE
    /\ stage' = "guest"
    /\ UNCHANGED <<suspendCount, generation, stack, inFlight, pending, suspensions, awaiting>>

TickContinue ==
    /\ stage = "tick"
    /\ IF Ready # {} THEN ~MustSwitch ELSE state[current] = "RUNNING" /\ eip = "code"
    /\ stage' = "guest"
    /\ UNCHANGED <<schedulerVars, inFlight, pending, suspensions, awaiting>>

\* No other thread can run and the current one does not: the engine stops.
\* A thread that is RUNNING at the park loop is parked (again) if there is
\* any answer, whoever it is for.
TickYield ==
    /\ stage = "tick"
    /\ Ready = {}
    /\ \/ /\ state[current] # "RUNNING"
          /\ UNCHANGED schedulerVars
       \/ /\ state[current] = "RUNNING" /\ eip = "spin"
          /\ IF pending # {}
             THEN /\ MarkAsyncParked
                  /\ UNCHANGED <<suspendCount, stack, current, switchRequested>>
             ELSE UNCHANGED schedulerVars
    /\ stage' = "idle"
    /\ UNCHANGED <<inFlight, pending, suspensions, awaiting>>

\* The idle timer, or an answer that is queued, resumes: answers are polled,
\* and the engine restarts if there is something to run.
ResumeFromYield ==
    /\ stage = "idle"
    /\ (\E c \in Own : Apply(c)) \/ ReadyOthers
    /\ stage' = IF /\ state'[current] \in {"WAITING", "SUSPENDED"}
                   /\ \A t \in Threads : state'[t] # "READY"
                THEN "idle" ELSE "guest"
    /\ UNCHANGED <<suspendCount, stack, current, inFlight, suspensions>>

-----------------------------------------------------------------------------
GuestCall ==
    \/ CallAsync
    \/ OtherCall
    \/ \E t \in Threads :
         SuspendThread(t) \/ ResumeThread(t) \/ TerminateThread(t) \/ CreateThread(t)

Boundary ==
    \/ ThunkBoundary \/ ReapTerminated \/ FinishBoundary
    \/ TickBoundary \/ TickContinue \/ TickYield \/ ResumeFromYield
    \/ \E next \in Threads : TickSwitch(next)

Next == GuestCall \/ (\E c \in inFlight : Complete(c)) \/ Boundary

Spec == Init /\ [][Next]_vars
-----------------------------------------------------------------------------
(* Properties.                                                             *)

\* Type correctness.
TypeOK ==
    /\ state \in [Threads -> States]
    /\ suspendCount \in [Threads -> 0..MaxSuspend]
    /\ generation \in [Threads -> Nat]
    /\ context \in [Threads -> Places \cup {"none"}]
    /\ stack \in [Threads -> Stacks \cup {MainStack, NoStack}]
    /\ current \in Threads
    /\ eip \in Places
    /\ switchRequested \in BOOLEAN
    /\ inFlight \in SUBSET Calls
    /\ pending \in SUBSET Calls
    /\ stage \in Stages
    /\ suspensions \in 0..MaxSuspensions
    /\ awaiting \in [Threads -> Nat]

\* Guest code goes on only with the answer to the call it made: not with that
\* of another thread or an earlier call, whatever the order in which answers
\* come and whoever is on the CPU then, and not without one after a switch
\* back or a suspension (the park loop is all it executes).
NoRunAhead ==
    \A t \in Threads : Live(t) /\ awaiting[t] # NoCall =>
        IF state[t] = "RUNNING" THEN current = t /\ eip = "spin" ELSE context[t] = "spin"

\* The safety net has parked t a second time, under a new generation.
ParkedTwice(t) == awaiting[t] # generation[t]

\* The answer a thread waits for is still to come, or queued and valid: it
\* is not lost to a suspension, to other answers or to a thread that dies.
\* A thread that the safety net parked twice is excepted: its answer will
\* be taken for a stale one.
NoLostAnswer ==
    \A t \in Threads : Live(t) /\ awaiting[t] # NoCall /\ ~ParkedTwice(t) =>
        \E c \in CallsOf(t) : c.generation = generation[t]

\* The safety net re-parks a thread found at the park loop "when there is a
\* matching pending async restore", and an answer "cannot be lost" by what
\* happens to its thread: without the exception of NoLostAnswer, the answer a
\* thread waits for is never lost.
NoAnswerLost ==
    \A t \in Threads : Live(t) /\ awaiting[t] # NoCall =>
        \E c \in CallsOf(t) : c.generation = generation[t]

\* "A parked thread has at most one outstanding async syscall": a second
\* record would make the look-up by thread ambiguous.
OneOutstanding ==
    /\ inFlight \cap pending = {}
    /\ \A c, d \in inFlight \cup pending : c.thread = d.thread => c = d

\* A handler that is still at work holds pointers into the stack of its
\* caller: the caller keeps that stack, also when it is dead, and no stack
\* has two owners.  Nor is the stack given back that the CPU stands on.
StacksHeld ==
    /\ \A c \in inFlight : stack[c.thread] = c.stack
    /\ \A t, u \in Threads : stack[t] = stack[u] => t = u \/ stack[t] = NoStack
    /\ stack[current] # NoStack

\* Promises settle, tick boundaries keep coming, the idle timer ends, and a
\* READY thread gets its turn.
Fairness ==
    /\ \A t \in Threads : []<>(\A c \in inFlight : c.thread # t)
    /\ []<>(stage \in {"tick", "idle"})
    /\ WF_vars(ResumeFromYield)
    /\ \A t \in Threads : []<>(state[t] # "READY")

FairSpec == Spec /\ Fairness

\* No thread waits for ever in a call: it goes on with its answer, unless it
\* stays suspended, is dead, or was parked twice.
CallsEnd ==
    \A t \in Threads :
        []<>(awaiting[t] = NoCall \/ ~Live(t) \/ suspendCount[t] > 0 \/ ParkedTwice(t))
=============================================================================
