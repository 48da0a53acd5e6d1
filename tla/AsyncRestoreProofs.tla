------------------------- MODULE AsyncRestoreProofs -------------------------
(***************************************************************************)
(* The answers of asynchronous calls, for any number of threads, stacks    *)
(* and calls: guest code goes on with its own answer only, no answer is    *)
(* lost unless the safety net parked the thread twice, and no stack is     *)
(* given away while a handler or the CPU uses it.                          *)
(*                                                                         *)
(* The records of the dispatcher and those of the scheduler must agree:    *)
(* an answer of a thread that lives is the one its guest code waits for,   *)
(* and a thread whose code waits for nothing has no call.                  *)
(***************************************************************************)
EXTENDS AsyncRestore, TLAPS

\* A thread that is not created yet has nothing; one on the CPU is current.
ThreadsPlaced ==
    /\ state[current] \notin {"NEW", "GONE"}
    /\ \A t \in Threads :
         /\ state[t] = "RUNNING" => t = current
         /\ state[t] = "NEW" => awaiting[t] = NoCall
         /\ state[t] \notin {"NEW", "GONE"} => stack[t] # NoStack
         /\ awaiting[t] <= generation[t]

\* The call of a thread that lives is the one its guest code waits in.
CallsMatch ==
    \A c \in inFlight \cup pending :
        /\ c.generation # NoCall
        /\ state[c.thread] # "NEW"
        /\ Live(c.thread) => awaiting[c.thread] = c.generation

IInv ==
    /\ TypeOK
    /\ ThreadsPlaced
    /\ CallsMatch
    /\ OneOutstanding
    /\ NoRunAhead
    /\ NoLostAnswer
    /\ StacksHeld

-----------------------------------------------------------------------------
(* The start, and the turns that only move the JavaScript thread on.       *)

LEMMA Starts == Init => IInv
<1> SUFFICES ASSUME Init PROVE IInv
  OBVIOUS
<1> USE AsyncConstants DEF Init, AsyncConstants
<1>1. TypeOK
  <2>1. /\ state \in [Threads -> States]
        /\ context \in [Threads -> Places \cup {"none"}]
        /\ stack \in [Threads -> Stacks \cup {MainStack, NoStack}]
    BY DEF States
  <2>2. /\ suspendCount \in [Threads -> 0..MaxSuspend]
        /\ suspensions \in 0..MaxSuspensions
    OBVIOUS
  <2>3. generation \in [Threads -> Nat] /\ awaiting \in [Threads -> Nat]
    BY DEF NoCall
  <2>4. eip \in Places /\ stage \in Stages
    BY DEF Places, Stages
  <2> QED
    BY <2>1, <2>2, <2>3, <2>4 DEF TypeOK
<1>2. ThreadsPlaced /\ CallsMatch /\ OneOutstanding
  BY DEF ThreadsPlaced, CallsMatch, OneOutstanding, NoCall
<1>3. NoRunAhead /\ NoLostAnswer
  BY DEF NoRunAhead, NoLostAnswer
<1>4. StacksHeld
  BY DEF StacksHeld
<1> QED
  BY <1>1, <1>2, <1>3, <1>4 DEF IInv

\* Everything but the stage and the request for a switch stays.
LEMMA TurnKeeps ==
    ASSUME IInv, stage' \in Stages, switchRequested' \in BOOLEAN,
           UNCHANGED <<state, suspendCount, generation, context, stack, current, eip,
                       inFlight, pending, suspensions, awaiting>>
    PROVE  IInv'
<1>1. TypeOK' /\ ThreadsPlaced' /\ CallsMatch'
  BY DEF IInv, TypeOK, ThreadsPlaced, CallsMatch, Live
<1>2. OneOutstanding' /\ StacksHeld'
  BY DEF IInv, OneOutstanding, StacksHeld
<1>3. NoRunAhead' /\ NoLostAnswer'
  BY DEF IInv, NoRunAhead, NoLostAnswer, ParkedTwice, CallsOf, Live
<1> QED
  BY <1>1, <1>2, <1>3 DEF IInv

-----------------------------------------------------------------------------
(* Guest calls.                                                            *)

\* Guest code that goes on waits for nothing, so its thread has no call.
LEMMA GuestHasNoCall ==
    ASSUME IInv, GuestReady
    PROVE  awaiting[current] = NoCall /\ CallsOf(current) = {}
<1>1. current \in Threads /\ Live(current)
  BY DEF IInv, TypeOK, GuestReady, Live
<1>2. awaiting[current] = NoCall
  BY <1>1 DEF IInv, NoRunAhead, GuestReady
<1> QED
  BY <1>1, <1>2 DEF IInv, CallsMatch, CallsOf

LEMMA CallAsyncKeeps == IInv /\ CallAsync => IInv'
<1> SUFFICES ASSUME IInv, CallAsync PROVE IInv'
  OBVIOUS
<1> DEFINE call == [thread |-> current, generation |-> generation[current] + 1,
                    stack |-> stack[current]]
<1>1. TypeOK /\ GuestReady
  BY DEF IInv, CallAsync
<1>2. /\ state' = [state EXCEPT ![current] = "WAITING"]
      /\ generation' = [generation EXCEPT ![current] = @ + 1]
      /\ context' = [context EXCEPT ![current] = "spin"]
      /\ eip' = "spin"
      /\ inFlight' = inFlight \cup {call}
      /\ awaiting' = [awaiting EXCEPT ![current] = generation[current] + 1]
      /\ UNCHANGED <<suspendCount, stack, current, switchRequested, pending, stage,
                     suspensions>>
  BY DEF CallAsync, MarkAsyncParked, ParkContext
<1>3. awaiting[current] = NoCall /\ CallsOf(current) = {}
  BY GuestHasNoCall, <1>1
<1>4. current \in Threads /\ stack[current] \in Stacks \cup {MainStack}
  BY <1>1 DEF IInv, TypeOK, StacksHeld
<1>5. call \in Calls
  BY <1>1, <1>4 DEF TypeOK, Calls
<1>6. TypeOK'
  BY <1>1, <1>2, <1>4, <1>5 DEF TypeOK, States, Places
<1>7. ThreadsPlaced'
  BY <1>1, <1>2, <1>4 DEF IInv, ThreadsPlaced, TypeOK
<1>8. CallsMatch'
  BY <1>1, <1>2, <1>3, <1>4 DEF IInv, CallsMatch, CallsOf, TypeOK, Live, NoCall, Calls, GuestReady
<1>9. OneOutstanding'
  BY <1>2, <1>3 DEF IInv, OneOutstanding, CallsOf
<1>10. NoRunAhead'
  BY <1>1, <1>2, <1>4 DEF IInv, NoRunAhead, TypeOK, Live, ThreadsPlaced
<1>11. NoLostAnswer'
  <2> SUFFICES ASSUME NEW t \in Threads, awaiting'[t] # NoCall, Live(t)', ~ParkedTwice(t)'
               PROVE  \E c \in CallsOf(t)' : c.generation = generation'[t]
    BY DEF NoLostAnswer
  <2>1. CASE t = current
    <3>1. call \in inFlight' /\ call.thread = t
      BY <1>2, <2>1
    <3>2. call.generation = generation'[t]
      BY <1>1, <1>2, <1>4, <2>1 DEF TypeOK
    <3> QED
      BY <3>1, <3>2 DEF CallsOf
  <2>2. CASE t # current
    <3>1. PICK c \in CallsOf(t) : c.generation = generation[t]
      BY <1>1, <1>2, <1>4, <2>2 DEF IInv, NoLostAnswer, TypeOK, Live, ParkedTwice
    <3>2. c \in CallsOf(t)' /\ generation'[t] = generation[t]
      BY <1>1, <1>2, <1>4, <2>2, <3>1 DEF CallsOf, TypeOK
    <3> QED
      BY <3>1, <3>2
  <2> QED
    BY <2>1, <2>2
<1>12. StacksHeld'
  BY <1>2 DEF IInv, StacksHeld
<1> QED
  BY <1>6, <1>7, <1>8, <1>9, <1>10, <1>11, <1>12 DEF IInv

\* A thread other than the current one is stopped, resumed or ended where it
\* stands; the current one where its code stands.
LEMMA StateChangeKeeps ==
    ASSUME IInv, NEW t \in Threads,
           state' \in [Threads -> States], context' \in [Threads -> Places \cup {"none"}],
           suspendCount' \in [Threads -> 0..MaxSuspend], suspensions' \in 0..MaxSuspensions,
           switchRequested' \in BOOLEAN, stage' \in Stages,
           UNCHANGED <<generation, stack, current, eip, inFlight, pending, awaiting>>,
           \A u \in Threads \ {t} : state'[u] = state[u] /\ context'[u] = context[u],
           state[t] \notin {"NEW", "GONE"}, state'[t] \notin {"NEW", "GONE", "RUNNING"},
           Live(t)' => Live(t) /\ context'[t] = context[t],
           Live(t)' => awaiting[t] = NoCall \/ state[t] # "RUNNING"
    PROVE  IInv'
<1>1. TypeOK' /\ ThreadsPlaced'
  BY DEF IInv, TypeOK, ThreadsPlaced
<1>2. CallsMatch'
  BY DEF IInv, TypeOK, CallsMatch, Live, Calls
<1>3. OneOutstanding' /\ StacksHeld'
  BY DEF IInv, OneOutstanding, StacksHeld
<1>4. NoRunAhead'
  BY DEF IInv, NoRunAhead, Live
<1>5. NoLostAnswer'
  BY DEF IInv, NoLostAnswer, Live, CallsOf, ParkedTwice
<1> QED
  BY <1>1, <1>2, <1>3, <1>4, <1>5 DEF IInv

LEMMA SuspendThreadKeeps ==
    ASSUME IInv, NEW t \in Threads, SuspendThread(t)
    PROVE  IInv'
<1>1. state[current] = "RUNNING" /\ awaiting[current] = NoCall
  BY GuestHasNoCall DEF SuspendThread, GuestReady
<1>2. state[t] = "RUNNING" => t = current
  BY DEF IInv, ThreadsPlaced
<1>3. /\ state' \in [Threads -> States]
      /\ suspendCount' \in [Threads -> 0..MaxSuspend] /\ suspensions' \in 0..MaxSuspensions
      /\ switchRequested' \in BOOLEAN /\ stage' \in Stages
  <2>1. suspendCount[t] \in 0..MaxSuspend /\ suspensions \in 0..MaxSuspensions
    BY DEF IInv, TypeOK
  <2>2. suspendCount[t] + 1 \in 0..MaxSuspend /\ suspensions + 1 \in 0..MaxSuspensions
    BY <2>1, AsyncConstants DEF SuspendThread, MaySuspend, AsyncConstants
  <2> QED
    BY <2>2 DEF IInv, TypeOK, SuspendThread, States, Stages
<1>4. state[t] \notin {"NEW", "GONE"} /\ state'[t] = "SUSPENDED" /\ Live(t)
  BY DEF IInv, TypeOK, SuspendThread, Live
<1> QED
  BY <1>1, <1>2, <1>3, <1>4, StateChangeKeeps DEF SuspendThread, IInv, TypeOK

LEMMA ResumeThreadKeeps ==
    ASSUME IInv, NEW t \in Threads, ResumeThread(t)
    PROVE  IInv'
<1>1. suspendCount' \in [Threads -> 0..MaxSuspend] /\ stage' \in Stages
  <2>1. suspendCount[t] - 1 \in 0..MaxSuspend
    BY AsyncConstants DEF IInv, TypeOK, ResumeThread, AsyncConstants
  <2> QED
    BY <2>1 DEF IInv, TypeOK, ResumeThread, Stages
<1>2. CASE suspendCount[t] = 1 /\ state[t] = "SUSPENDED"
  <2>1. state' = [state EXCEPT ![t] = "READY"] /\ switchRequested' = TRUE
    BY <1>2 DEF ResumeThread
  <2>2. state' \in [Threads -> States] /\ state'[t] = "READY" /\ Live(t)
    BY <1>2, <2>1 DEF IInv, TypeOK, States, Live
  <2> QED
    BY <1>1, <1>2, <2>1, <2>2, StateChangeKeeps DEF ResumeThread, IInv, TypeOK
<1>3. CASE ~(suspendCount[t] = 1 /\ state[t] = "SUSPENDED")
  <2>1. UNCHANGED <<state, switchRequested, generation, context, stack, current, eip,
                    inFlight, pending, suspensions, awaiting>>
    BY <1>3 DEF ResumeThread
  <2>2. TypeOK' /\ ThreadsPlaced' /\ CallsMatch'
    BY <1>1, <2>1 DEF IInv, TypeOK, ThreadsPlaced, CallsMatch, Live
  <2>3. OneOutstanding' /\ StacksHeld' /\ NoRunAhead'
    BY <2>1 DEF IInv, OneOutstanding, StacksHeld, NoRunAhead, Live
  <2>4. NoLostAnswer'
    BY <2>1 DEF IInv, NoLostAnswer, ParkedTwice, CallsOf, Live
  <2> QED
    BY <2>2, <2>3, <2>4 DEF IInv
<1> QED
  BY <1>2, <1>3

LEMMA TerminateThreadKeeps ==
    ASSUME IInv, NEW t \in Threads, TerminateThread(t)
    PROVE  IInv'
<1>1. state' \in [Threads -> States] /\ context' \in [Threads -> Places \cup {"none"}]
  BY DEF IInv, TypeOK, TerminateThread, States
<1>2. state[t] \notin {"NEW", "GONE"} /\ state'[t] = "TERMINATED" /\ ~Live(t)'
  BY DEF IInv, TypeOK, TerminateThread, Live
<1>3. switchRequested' \in BOOLEAN /\ stage' \in Stages
  BY DEF IInv, TypeOK, TerminateThread, Stages
<1> QED
  BY <1>1, <1>2, <1>3, StateChangeKeeps DEF TerminateThread, IInv, TypeOK

\* A new thread has no call, and gets a stack that nobody has.
LEMMA CreateThreadKeeps ==
    ASSUME IInv, NEW t \in Threads, CreateThread(t)
    PROVE  IInv'
<1> DEFINE s == CHOOSE x \in FreeStacks : TRUE
<1>1. /\ state[t] = "NEW"
      /\ stack' = [stack EXCEPT ![t] = s]
      /\ state' = [state EXCEPT ![t] = "READY"]
      /\ context' = [context EXCEPT ![t] = "code"]
      /\ UNCHANGED <<suspendCount, generation, current, eip, switchRequested, inFlight,
                     pending, suspensions, awaiting>>
      /\ stage' = "thunk"
  BY DEF CreateThread
<1>2. s \in Stacks /\ \A u \in Threads : stack[u] # s
  <2>1. s \in FreeStacks
    BY DEF CreateThread
  <2> QED
    BY <2>1 DEF FreeStacks
<1>3. s # NoStack
  BY <1>2, AsyncConstants DEF AsyncConstants
<1>4. t # current /\ awaiting[t] = NoCall /\ \A c \in inFlight \cup pending : c.thread # t
  BY <1>1 DEF IInv, ThreadsPlaced, CallsMatch
<1> HIDE DEF s
<1>5. TypeOK' /\ ThreadsPlaced'
  BY <1>1, <1>2, <1>3, <1>4 DEF IInv, TypeOK, ThreadsPlaced, States, Places, Stages
<1>6. CallsMatch'
  BY <1>1, <1>4 DEF IInv, TypeOK, CallsMatch, Live, Calls
<1>7. OneOutstanding' /\ NoRunAhead'
  BY <1>1, <1>4 DEF IInv, TypeOK, OneOutstanding, NoRunAhead, Live
<1>8. NoLostAnswer'
  BY <1>1, <1>4 DEF IInv, TypeOK, NoLostAnswer, Live, ParkedTwice, CallsOf
<1>9. StacksHeld'
  BY <1>1, <1>2, <1>3, <1>4 DEF IInv, TypeOK, StacksHeld, Calls
<1> QED
  BY <1>5, <1>6, <1>7, <1>8, <1>9 DEF IInv

-----------------------------------------------------------------------------
(* Answers.                                                                *)

LEMMA CompleteKeeps ==
    ASSUME IInv, NEW c \in inFlight, Complete(c)
    PROVE  IInv'
<1>1. /\ inFlight' = inFlight \ {c} /\ pending' = pending \cup {c}
      /\ inFlight' \cup pending' = inFlight \cup pending
      /\ UNCHANGED <<state, suspendCount, generation, context, stack, current, eip,
                     switchRequested, stage, suspensions, awaiting>>
  BY DEF Complete, schedulerVars
<1>2. TypeOK' /\ ThreadsPlaced'
  BY <1>1 DEF IInv, TypeOK, ThreadsPlaced
<1>3. CallsMatch'
  BY <1>1 DEF IInv, CallsMatch, Live
<1>4. OneOutstanding' /\ StacksHeld'
  BY <1>1 DEF IInv, OneOutstanding, StacksHeld
<1>5. NoRunAhead' /\ NoLostAnswer'
  BY <1>1 DEF IInv, NoRunAhead, NoLostAnswer, Live, ParkedTwice, CallsOf
<1> QED
  BY <1>2, <1>3, <1>4, <1>5 DEF IInv

\* Readying threads moves none of them onto the CPU or into the grave.
LEMMA WokenStates ==
    ASSUME IInv, NEW ts
    PROVE  /\ Woken(ts) \in [Threads -> States]
           /\ \A t \in Threads :
                /\ Woken(ts)[t] = state[t] \/ Woken(ts)[t] \in {"READY", "SUSPENDED"}
                /\ Woken(ts)[t] \in {"NEW", "TERMINATED", "GONE", "RUNNING"}
                     <=> state[t] \in {"NEW", "TERMINATED", "GONE", "RUNNING"}
  BY DEF IInv, TypeOK, Woken, States

\* Dropping answers that are not valid takes none that is waited for.
LEMMA ReadyOthersKeeps ==
    ASSUME IInv, ReadyOthers, stage' \in Stages,
           UNCHANGED <<suspendCount, stack, current, inFlight, suspensions>>
    PROVE  IInv'
<1>1. /\ pending' \subseteq pending /\ pending' = Kept
      /\ state' = Woken(Others)
      /\ UNCHANGED <<generation, awaiting, context, eip>>
  BY DEF ReadyOthers, Kept
<1>2. /\ state' \in [Threads -> States]
      /\ \A t \in Threads :
           /\ state'[t] = state[t] \/ state'[t] \in {"READY", "SUSPENDED"}
           /\ state'[t] \in {"NEW", "TERMINATED", "GONE", "RUNNING"}
                <=> state[t] \in {"NEW", "TERMINATED", "GONE", "RUNNING"}
  BY <1>1, WokenStates
<1>3. switchRequested' \in BOOLEAN
  BY DEF ReadyOthers, IInv, TypeOK
<1>4. TypeOK' /\ ThreadsPlaced'
  BY <1>1, <1>2, <1>3 DEF IInv, TypeOK, ThreadsPlaced
<1>5. CallsMatch'
  BY <1>1, <1>2 DEF IInv, TypeOK, CallsMatch, Live, Calls
<1>6. OneOutstanding' /\ StacksHeld'
  BY <1>1 DEF IInv, OneOutstanding, StacksHeld
<1>7. NoRunAhead'
  BY <1>1, <1>2 DEF IInv, NoRunAhead, Live
<1>8. NoLostAnswer'
  <2> SUFFICES ASSUME NEW t \in Threads, awaiting[t] # NoCall, Live(t)', ~ParkedTwice(t)
               PROVE  \E c \in CallsOf(t)' : c.generation = generation[t]
    BY <1>1 DEF NoLostAnswer, ParkedTwice
  <2>1. Live(t)
    BY <1>2 DEF Live
  <2>2. PICK c \in CallsOf(t) : c.generation = generation[t]
    BY <2>1 DEF IInv, NoLostAnswer
  <2> QED
    BY <1>1, <2>1, <2>2 DEF CallsOf, Kept, Valid
<1> QED
  BY <1>4, <1>5, <1>6, <1>7, <1>8 DEF IInv

\* The answer that is applied is the one the current thread waits for.
LEMMA ApplyKeeps ==
    ASSUME IInv, NEW c \in Own, Apply(c), stage' \in Stages,
           UNCHANGED <<suspendCount, stack, current, inFlight, suspensions>>
    PROVE  IInv'
<1> DEFINE readied == Woken(Others \cup {current})
<1>1. /\ pending' = Kept \ {c}
      /\ generation' = [generation EXCEPT ![current] = @ + 1]
      /\ awaiting' = [awaiting EXCEPT ![current] =
            IF c.thread = current /\ c.generation = awaiting[current]
            THEN NoCall ELSE generation[current] + 1]
      /\ state' = [readied EXCEPT ![current] =
            IF readied[current] = "READY" THEN "RUNNING" ELSE readied[current]]
      /\ context' = [context EXCEPT ![current] =
            IF readied[current] = "READY" THEN "none" ELSE context[current]]
      /\ eip' = "code"
      /\ switchRequested' \in BOOLEAN
  BY DEF Apply, LeftAfter, IInv, TypeOK
<1>2. /\ readied \in [Threads -> States]
      /\ \A t \in Threads :
           /\ readied[t] = state[t] \/ readied[t] \in {"READY", "SUSPENDED"}
           /\ readied[t] \in {"NEW", "TERMINATED", "GONE", "RUNNING"}
                <=> state[t] \in {"NEW", "TERMINATED", "GONE", "RUNNING"}
  BY WokenStates
<1> HIDE DEF readied
<1>3. c \in pending /\ c.thread = current /\ Live(current) /\ current \in Threads
  BY DEF Own, Kept, Valid, IInv, TypeOK
<1>4. awaiting' = [awaiting EXCEPT ![current] = NoCall]
  BY <1>1, <1>3 DEF IInv, CallsMatch
<1>5. /\ state' \in [Threads -> States]
      /\ state'[current] \notin {"NEW", "TERMINATED", "GONE"}
      /\ \A t \in Threads \ {current} : state'[t] = readied[t] /\ context'[t] = context[t]
  BY <1>1, <1>2, <1>3 DEF IInv, TypeOK, Live, States
<1>6. TypeOK' /\ ThreadsPlaced'
  BY <1>1, <1>2, <1>3, <1>4, <1>5
     DEF IInv, TypeOK, ThreadsPlaced, Places, Kept, NoCall
<1>7. \A d \in inFlight \cup Kept : d # c => d.thread # current
  BY <1>3 DEF IInv, OneOutstanding, Kept
<1>8. CallsMatch'
  BY <1>1, <1>2, <1>3, <1>4, <1>5, <1>7
     DEF IInv, TypeOK, CallsMatch, OneOutstanding, Live, Calls, Kept
<1>9. OneOutstanding' /\ StacksHeld'
  BY <1>1 DEF IInv, OneOutstanding, StacksHeld, Kept
<1>10. NoRunAhead'
  BY <1>2, <1>3, <1>4, <1>5 DEF IInv, TypeOK, NoRunAhead, Live, ThreadsPlaced
<1>11. NoLostAnswer'
  <2> SUFFICES ASSUME NEW t \in Threads, awaiting'[t] # NoCall, Live(t)', ~ParkedTwice(t)'
               PROVE  \E d \in CallsOf(t)' : d.generation = generation'[t]
    BY DEF NoLostAnswer
  <2>1. t # current /\ awaiting'[t] = awaiting[t] /\ generation'[t] = generation[t]
    BY <1>1, <1>3, <1>4 DEF IInv, TypeOK
  <2>2. Live(t)
    BY <1>2, <1>5, <2>1 DEF Live
  <2>3. PICK d \in CallsOf(t) : d.generation = generation[t]
    BY <2>1, <2>2 DEF IInv, NoLostAnswer, ParkedTwice
  <2> QED
    BY <1>1, <1>3, <2>1, <2>2, <2>3 DEF CallsOf, Kept, Valid
<1> QED
  BY <1>6, <1>8, <1>9, <1>10, <1>11 DEF IInv

-----------------------------------------------------------------------------
(* Switches and boundaries.                                                *)

\* A thread that leaves the CPU at the park loop is saved there, and one that
\* comes back stands where it was saved.
LEMMA SwitchToKeeps ==
    ASSUME IInv, NEW next \in Threads, SwitchTo(next),
           stage' \in Stages, switchRequested' \in BOOLEAN,
           UNCHANGED <<suspendCount, generation, stack, inFlight, pending, suspensions, awaiting>>
    PROVE  IInv'
<1> DEFINE leaves == state[current] = "RUNNING"
           saves == leaves \/ (state[current] = "SUSPENDED" /\ context[current] = "none")
           states == IF leaves THEN [state EXCEPT ![current] = "READY"] ELSE state
           contexts == IF saves THEN [context EXCEPT ![current] = eip] ELSE context
<1>1. /\ states[next] = "READY" /\ contexts[next] # "none"
      /\ state' = [states EXCEPT ![next] = "RUNNING"]
      /\ context' = [contexts EXCEPT ![next] = "none"]
      /\ eip' = contexts[next]
      /\ current' = next
  BY DEF SwitchTo
<1>2. /\ states \in [Threads -> States] /\ contexts \in [Threads -> Places \cup {"none"}]
      /\ \A t \in Threads :
           /\ states[t] # "RUNNING"
           /\ states[t] \in {"NEW", "TERMINATED", "GONE"} <=> state[t] \in {"NEW", "TERMINATED", "GONE"}
           /\ states[t] = "NEW" <=> state[t] = "NEW"
           /\ states[t] = "GONE" <=> state[t] = "GONE"
  BY DEF IInv, TypeOK, ThreadsPlaced, States, Places
<1>3. \A t \in Threads : Live(t) /\ awaiting[t] # NoCall => contexts[t] = "spin"
  BY DEF IInv, TypeOK, NoRunAhead, ThreadsPlaced, Live
<1> HIDE DEF states, contexts
<1>4. \A t \in Threads : /\ Live(t)' <=> Live(t)
                         /\ state'[t] = "NEW" <=> state[t] = "NEW"
                         /\ state'[t] = "GONE" <=> state[t] = "GONE"
                         /\ state'[t] = "RUNNING" <=> t = next
  BY <1>1, <1>2 DEF Live
<1>5. TypeOK'
  BY <1>1, <1>2 DEF IInv, TypeOK, States, Places
<1>6. ThreadsPlaced'
  BY <1>1, <1>2, <1>4 DEF IInv, TypeOK, ThreadsPlaced
<1>7. CallsMatch' /\ OneOutstanding'
  BY <1>4 DEF IInv, TypeOK, CallsMatch, OneOutstanding, Calls
<1>8. NoRunAhead'
  BY <1>1, <1>2, <1>3, <1>4 DEF NoRunAhead
<1>9. NoLostAnswer'
  BY <1>4 DEF IInv, NoLostAnswer, ParkedTwice, CallsOf
<1>10. StacksHeld'
  BY <1>1, <1>2, <1>4 DEF IInv, ThreadsPlaced, StacksHeld
<1> QED
  BY <1>5, <1>6, <1>7, <1>8, <1>9, <1>10 DEF IInv

LEMMA SwitchToNothingKeeps ==
    ASSUME IInv, SwitchToNothing,
           stage' \in Stages, switchRequested' \in BOOLEAN,
           UNCHANGED <<suspendCount, generation, stack, inFlight, pending, suspensions, awaiting>>
    PROVE  IInv'
<1>1. /\ UNCHANGED <<state, current>> /\ state[current] # "RUNNING"
      /\ eip' \in Places
      /\ context' \in [Threads -> Places \cup {"none"}]
      /\ \A t \in Threads : context[t] # "none" => context'[t] = context[t]
  BY DEF SwitchToNothing, IInv, TypeOK, Places
<1>2. TypeOK' /\ ThreadsPlaced' /\ CallsMatch'
  BY <1>1 DEF IInv, TypeOK, ThreadsPlaced, CallsMatch, Live
<1>3. OneOutstanding' /\ StacksHeld'
  BY <1>1 DEF IInv, OneOutstanding, StacksHeld
<1>4. NoRunAhead'
  BY <1>1 DEF IInv, NoRunAhead, ThreadsPlaced, Live
<1>5. NoLostAnswer'
  BY <1>1 DEF IInv, NoLostAnswer, ParkedTwice, CallsOf, Live
<1> QED
  BY <1>2, <1>3, <1>4, <1>5 DEF IInv

LEMMA ReapTerminatedKeeps == IInv /\ ReapTerminated => IInv'
<1> SUFFICES ASSUME IInv, ReapTerminated PROVE IInv'
  OBVIOUS
<1>1. /\ state' = [t \in Threads |-> IF t \in Reapable THEN "GONE" ELSE state[t]]
      /\ stack' = [t \in Threads |-> IF t \in Reapable \ {Main} THEN NoStack ELSE stack[t]]
      /\ UNCHANGED <<suspendCount, generation, context, current, eip, switchRequested,
                     inFlight, pending, stage, suspensions, awaiting>>
  BY DEF ReapTerminated
<1>2. \A t \in Reapable : /\ t \in Threads /\ state[t] = "TERMINATED" /\ t # current
                          /\ t = Main \/ CallsOf(t) = {}
  BY DEF Reapable
<1>3. current \in Threads /\ current \notin Reapable
  BY <1>2 DEF IInv, TypeOK
<1>4. \A t \in Threads : Live(t)' <=> Live(t)
  BY <1>1, <1>2 DEF Live
<1>5. TypeOK' /\ ThreadsPlaced'
  BY <1>1, <1>2, <1>3 DEF IInv, TypeOK, ThreadsPlaced, States
<1>6. CallsMatch' /\ OneOutstanding'
  BY <1>1, <1>2, <1>4 DEF IInv, TypeOK, CallsMatch, OneOutstanding, Calls
<1>7. NoRunAhead' /\ NoLostAnswer'
  BY <1>1, <1>2, <1>4 DEF IInv, NoRunAhead, NoLostAnswer, ParkedTwice, CallsOf, Live
<1>8. StacksHeld'
  <2>1. \A c \in inFlight : c.thread \in Threads /\ c.thread \notin Reapable \ {Main}
    BY <1>2 DEF IInv, TypeOK, Calls, CallsOf
  <2> QED
    BY <1>1, <1>3, <2>1 DEF IInv, StacksHeld
<1> QED
  BY <1>5, <1>6, <1>7, <1>8 DEF IInv

\* The safety net parks a thread again under a new generation.
LEMMA TickYieldKeeps == IInv /\ TickYield => IInv'
<1> SUFFICES ASSUME IInv, TickYield PROVE IInv'
  OBVIOUS
<1>0. stage' \in Stages /\ UNCHANGED <<inFlight, pending, suspensions, awaiting>>
  BY DEF TickYield, Stages
<1>1. CASE UNCHANGED schedulerVars
  BY <1>0, <1>1, TurnKeeps DEF schedulerVars, IInv, TypeOK
<1>2. CASE /\ state[current] = "RUNNING" /\ eip = "spin" /\ MarkAsyncParked
           /\ UNCHANGED <<suspendCount, stack, current, switchRequested>>
  <2>1. /\ state' = [state EXCEPT ![current] = "WAITING"]
        /\ generation' = [generation EXCEPT ![current] = @ + 1]
        /\ context' = [context EXCEPT ![current] = "spin"]
        /\ eip' = "spin"
        /\ current \in Threads
    BY <1>2 DEF MarkAsyncParked, ParkContext, IInv, TypeOK
  <2>2. \A t \in Threads : Live(t)' <=> Live(t)
    BY <1>2, <2>1 DEF Live, IInv, TypeOK
  <2>3. TypeOK' /\ ThreadsPlaced'
    BY <1>0, <1>2, <2>1 DEF IInv, TypeOK, ThreadsPlaced, States, Places
  <2>4. CallsMatch' /\ OneOutstanding' /\ StacksHeld'
    BY <1>0, <1>2, <2>1, <2>2
       DEF IInv, TypeOK, CallsMatch, OneOutstanding, StacksHeld, Calls
  <2>5. NoRunAhead'
    BY <1>0, <1>2, <2>1, <2>2 DEF IInv, TypeOK, NoRunAhead, ThreadsPlaced
  <2>6. NoLostAnswer'
    <3> SUFFICES ASSUME NEW t \in Threads, awaiting[t] # NoCall, Live(t)', ~ParkedTwice(t)'
                 PROVE  \E c \in CallsOf(t) : c.generation = generation'[t]
      BY <1>0 DEF NoLostAnswer, CallsOf
    <3>1. CASE t = current
      BY <1>0, <2>1, <3>1 DEF IInv, TypeOK, ThreadsPlaced, ParkedTwice
    <3>2. CASE t # current
      BY <1>0, <2>1, <2>2, <3>2 DEF IInv, TypeOK, NoLostAnswer, ParkedTwice
    <3> QED
      BY <3>1, <3>2
  <2> QED
    BY <2>3, <2>4, <2>5, <2>6 DEF IInv
<1> QED
  BY <1>0, <1>1, <1>2 DEF TickYield

LEMMA FinishBoundaryKeeps == IInv /\ FinishBoundary => IInv'
<1> SUFFICES ASSUME IInv, FinishBoundary PROVE IInv'
  OBVIOUS
<1>1. /\ stage' \in Stages
      /\ UNCHANGED <<suspendCount, generation, stack, inFlight, pending, suspensions, awaiting>>
      /\ switchRequested' \in BOOLEAN
  BY DEF FinishBoundary, Stages, IInv, TypeOK
<1>2. CASE Switch
  <2>1. CASE SwitchToNothing
    BY <1>1, <2>1, SwitchToNothingKeeps
  <2>2. ASSUME NEW next \in Threads, SwitchTo(next) PROVE IInv'
    BY <1>1, <2>2, SwitchToKeeps
  <2> QED
    BY <1>2, <2>1, <2>2 DEF Switch
<1>3. CASE UNCHANGED <<state, context, current, eip, switchRequested>>
  BY <1>1, <1>3, TurnKeeps
<1> QED
  BY <1>2, <1>3 DEF FinishBoundary

\* A poll applies the current thread's answer, or else readies the others.
LEMMA PollKeeps ==
    ASSUME IInv, (\E c \in Own : Apply(c)) \/ ReadyOthers, stage' \in Stages,
           UNCHANGED <<suspendCount, stack, current, inFlight, suspensions>>
    PROVE  IInv'
BY ApplyKeeps, ReadyOthersKeeps

-----------------------------------------------------------------------------
(* Every step, and the theorems.                                           *)

LEMMA StepKeeps == IInv /\ [Next]_vars => IInv'
<1> SUFFICES ASSUME IInv, [Next]_vars PROVE IInv'
  OBVIOUS
<1>1. CASE CallAsync
  BY <1>1, CallAsyncKeeps
<1>2. CASE OtherCall
  BY <1>2, TurnKeeps DEF OtherCall, schedulerVars, Stages, IInv, TypeOK
<1>3. ASSUME NEW t \in Threads, SuspendThread(t) PROVE IInv'
  BY <1>3, SuspendThreadKeeps
<1>4. ASSUME NEW t \in Threads, ResumeThread(t) PROVE IInv'
  BY <1>4, ResumeThreadKeeps
<1>5. ASSUME NEW t \in Threads, TerminateThread(t) PROVE IInv'
  BY <1>5, TerminateThreadKeeps
<1>6. ASSUME NEW t \in Threads, CreateThread(t) PROVE IInv'
  BY <1>6, CreateThreadKeeps
<1>7. ASSUME NEW c \in inFlight, Complete(c) PROVE IInv'
  BY <1>7, CompleteKeeps
<1>8. CASE ThunkBoundary \/ TickBoundary \/ ResumeFromYield
  BY <1>8, PollKeeps DEF ThunkBoundary, TickBoundary, ResumeFromYield, Stages
<1>9. CASE ReapTerminated
  BY <1>9, ReapTerminatedKeeps
<1>10. CASE FinishBoundary
  BY <1>10, FinishBoundaryKeeps
<1>11. CASE TickContinue
  BY <1>11, TurnKeeps DEF TickContinue, schedulerVars, Stages, IInv, TypeOK
<1>12. CASE TickYield
  BY <1>12, TickYieldKeeps
<1>13. ASSUME NEW next \in Threads, TickSwitch(next) PROVE IInv'
  BY <1>13, SwitchToKeeps DEF TickSwitch, Stages
<1>14. CASE UNCHANGED vars
  BY <1>14, TurnKeeps DEF vars, schedulerVars, IInv, TypeOK
<1> QED
  BY <1>1, <1>2, <1>3, <1>4, <1>5, <1>6, <1>7, <1>8, <1>9, <1>10, <1>11, <1>12, <1>13, <1>14
     DEF Next, GuestCall, Boundary

\* The inductive invariant holds for ever.
THEOREM RecordsAgree == Spec => []IInv
BY Starts, StepKeeps, PTL DEF Spec

\* Guest code goes on only with the answer to the call it made.
THEOREM OwnAnswerOnly == Spec => []NoRunAhead
<1>1. IInv => NoRunAhead
  BY DEF IInv
<1> QED
  BY <1>1, RecordsAgree, PTL

\* A thread has at most one call whose answer is still to be applied.
THEOREM OneCallEach == Spec => []OneOutstanding
<1>1. IInv => OneOutstanding
  BY DEF IInv
<1> QED
  BY <1>1, RecordsAgree, PTL

\* An answer is to come, or queued and valid, for each thread that waits for
\* one and was not parked twice.
THEOREM AnswersKept == Spec => []NoLostAnswer
<1>1. IInv => NoLostAnswer
  BY DEF IInv
<1> QED
  BY <1>1, RecordsAgree, PTL

\* No stack has two owners, or is given away under a handler or the CPU.
THEOREM StacksStay == Spec => []StacksHeld
<1>1. IInv => StacksHeld
  BY DEF IInv
<1> QED
  BY <1>1, RecordsAgree, PTL

\* Every variable keeps its type.
THEOREM AsyncTypeCorrect == Spec => []TypeOK
<1>1. IInv => TypeOK
  BY DEF IInv
<1> QED
  BY <1>1, RecordsAgree, PTL
=============================================================================
