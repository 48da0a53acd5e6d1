------------------------ MODULE CriticalSectionProofs ------------------------
(***************************************************************************)
(* What holds of a critical section for any number of threads.  SectionInv *)
(* joins the types, the exactness of the queues and the freedom from lost  *)
(* hand-overs; it is inductive.  Mutual exclusion needs, beyond it, that   *)
(* no thread is suspended and that the condition variable is not used, and *)
(* is proved from BeliefInv.                                               *)
(***************************************************************************)
EXTENDS CriticalSections, ThreadQueueLemmas

SectionInv == TypeOK /\ QueuesExact /\ NoSleepOnFreeSection

-----------------------------------------------------------------------------
(* The hand-over.                                                          *)

LEMMA WaitersAreThreads ==
    ASSUME NEW queue \in Seq(Threads)
    PROVE  ToSet(queue) \subseteq Threads
BY DEF ToSet

LEMMA ParkedAreThreads ==
    ASSUME NEW events \in SUBSET [waiters : SUBSET Threads, signalled : BOOLEAN]
    PROVE  UNION {e.waiters : e \in events} \subseteq Threads
OBVIOUS

\* QueuesExact, thread by thread.
LEMMA QueuesPointwise ==
    ASSUME TypeOK
    PROVE  QueuesExact <=>
             /\ IsInjective(csQueue) /\ IsInjective(cvQueue)
             /\ \A t \in Threads : ~(t \in ToSet(csQueue) /\ t \in ToSet(cvQueue))
             /\ \A t \in ParkedOnForgotten : t \notin ToSet(csQueue) /\ t \notin ToSet(cvQueue)
             /\ \A e, f \in forgotten : e # f => e.waiters \cap f.waiters = {}
             /\ \A t \in Threads : status[t] = "parked" <=>
                    t \in ToSet(csQueue) \/ t \in ToSet(cvQueue) \/ t \in ParkedOnForgotten
             /\ cvTimers \subseteq ToSet(cvQueue)
<1>1. ToSet(csQueue) \subseteq Threads /\ ToSet(cvQueue) \subseteq Threads
  BY DEF TypeOK, ToSet
<1>2. ParkedOnForgotten \subseteq Threads
  BY DEF TypeOK, ParkedOnForgotten
<1> QED BY <1>1, <1>2 DEF QueuesExact

\* The heir of a queue is a waiter that is not suspended; there is none only
\* if all the waiters are suspended.
LEMMA HeirIsAwake ==
    ASSUME NEW queue \in Seq(Threads), NEW heir \in Heirs(queue)
    PROVE  /\ heir # NoThread => heir \in ToSet(queue) \ suspended
           /\ heir = NoThread => ToSet(queue) \subseteq suspended
<1>1. /\ FirstAwake(queue, suspended) \subseteq ToSet(queue) \ suspended
      /\ FirstAwake(queue, suspended) = {} => ToSet(queue) \subseteq suspended
  BY FirstAwakeIsAwake
<1>2. ToSet(queue) \subseteq Threads
  BY DEF ToSet
<1>3. NoThread \notin Threads
  BY CsConstants
<1> QED BY <1>1, <1>2, <1>3 DEF Heirs

\* Setting the event takes the heir, and only the heir, out of the queue; an
\* event nobody could take stays signalled.
LEMMA HeirLeavesQueue ==
    ASSUME NEW queue \in Seq(Threads), IsInjective(queue), NEW heir \in Heirs(queue),
           lockSemaphore \in BOOLEAN, HeirLeaves(heir, queue)
    PROVE  /\ csQueue' \in Seq(Threads) /\ IsInjective(csQueue')
           /\ ToSet(csQueue') = ToSet(queue) \ {heir}
           /\ lockSemaphore' \in BOOLEAN
           /\ heir = NoThread /\ ToSet(csQueue') # {} => lockSemaphore'
<1>1. /\ csQueue' \in Seq(Threads) /\ IsInjective(csQueue')
      /\ ToSet(csQueue') = ToSet(queue) \ {heir}
  BY WithoutSet DEF HeirLeaves
<1>2. lockSemaphore' \in BOOLEAN
  BY DEF HeirLeaves
<1>3. ASSUME heir = NoThread, ToSet(csQueue') # {} PROVE lockSemaphore'
  <2>1. queue # <<>>
    BY <1>1, <1>3, HeadInQueue
  <2> QED BY <1>3, <2>1 DEF HeirLeaves
<1> QED BY <1>1, <1>2, <1>3

\* Whoever owns the section after a hand-over was waiting for it, unless
\* only suspended threads were, and those will find the event signalled.
LEMMA HandOver ==
    ASSUME NEW queue \in Seq(Threads), IsInjective(queue), NEW heir \in Heirs(queue),
           lockSemaphore \in BOOLEAN, csOwner \in Threads \cup {NoThread},
           csTracked \in Threads \cup {NoThread},
           HeirLeaves(heir, queue), OwnershipPasses(heir, queue)
    PROVE  /\ csOwner' \in Threads \cup {NoThread} /\ csRecursion' \in Nat
           /\ csTracked' \in Threads \cup {NoThread}
           /\ heir # NoThread => csOwner' = heir /\ csRecursion' = 1
           /\ heir = NoThread => \A t \in ToSet(csQueue') : t \in suspended /\ lockSemaphore'
<1>1. /\ heir # NoThread => heir \in ToSet(queue) \ suspended
      /\ heir = NoThread => ToSet(queue) \subseteq suspended
  BY HeirIsAwake
<1>2. ToSet(queue) \subseteq Threads
  BY DEF ToSet
<1>3. /\ ToSet(csQueue') = ToSet(queue) \ {heir}
      /\ heir = NoThread /\ ToSet(csQueue') # {} => lockSemaphore'
  BY HeirLeavesQueue
<1>4. /\ csOwner' \in Threads \cup {NoThread} /\ csRecursion' \in Nat
      /\ csTracked' \in Threads \cup {NoThread}
      /\ heir # NoThread => csOwner' = heir /\ csRecursion' = 1
  BY <1>1, <1>2 DEF OwnershipPasses
<1> QED BY <1>1, <1>3, <1>4

\* The waiters on the condition variable that are woken own the section, the
\* last of them as far as the section says.
LEMMA SleepersWoken ==
    ASSUME SectionInv, UNCHANGED guest,
           NEW woken \in Seq(Threads), woken # <<>>, ToSet(woken) \subseteq ToSet(cvQueue),
           NEW rest \in Seq(Threads), IsInjective(rest),
           ToSet(rest) = ToSet(cvQueue) \ ToSet(woken),
           WakeSleepers(woken, rest)
    PROVE  SectionInv'
<1>1. Last(woken) \in ToSet(woken)
  BY DEF Last, ToSet
<1>2. /\ csOwner' = Last(woken) /\ csRecursion' = 1 /\ csTracked' = Last(woken)
      /\ status' = [u \in Threads |-> IF u \in ToSet(woken) THEN "running" ELSE status[u]]
      /\ inside' = [u \in Threads |-> IF u \in ToSet(woken) THEN inside[u] + 1 ELSE inside[u]]
      /\ cvQueue' = rest /\ cvTimers' = cvTimers \ ToSet(woken)
      /\ UNCHANGED <<lockSemaphore, csQueue, forgotten, suspended, crashed>>
  BY DEF WakeSleepers, Take, Return
<1>3. ToSet(woken) \subseteq Threads
  BY DEF ToSet
<1>4. TypeOK'
  BY <1>1, <1>2, <1>3 DEF SectionInv, TypeOK
<1>5. QueuesExact'
  <2>1. ParkedOnForgotten' = ParkedOnForgotten
    BY <1>2 DEF ParkedOnForgotten
  <2> QED BY <1>2, <1>3, <2>1 DEF SectionInv, TypeOK, QueuesExact
<1>6. csOwner' \notin Dead' \cup {NoThread}
  BY <1>1, <1>2, <1>3, CsConstants DEF Dead
<1> QED BY <1>2, <1>4, <1>5, <1>6 DEF SectionInv, NoSleepOnFreeSection

-----------------------------------------------------------------------------
(* SectionInv is inductive.                                                *)

LEMMA SectionInvInit == Init => SectionInv
<1> SUFFICES ASSUME Init PROVE SectionInv
  OBVIOUS
<1>1. /\ ToSet(csQueue) = {} /\ ToSet(cvQueue) = {} /\ ParkedOnForgotten = {}
      /\ IsInjective(csQueue) /\ IsInjective(cvQueue)
  BY DEF Init, ToSet, ParkedOnForgotten, IsInjective
<1>2. TypeOK
  <2>1. <<>> \in Seq(Threads)
    OBVIOUS
  <2>2. status \in [Threads -> {"running", "parked", "stranded", "dead"}]
    BY DEF Init
  <2>3. inside \in [Threads -> Nat]
    BY DEF Init
  <2> QED BY <2>1, <2>2, <2>3 DEF Init, TypeOK
<1> QED BY <1>1, <1>2 DEF Init, SectionInv, QueuesExact, NoSleepOnFreeSection

\* The calls that leave the queues alone and whose caller ends up as the
\* owner, and those that change neither the owner nor the queues.
LEMMA SectionInvStepAlone ==
    ASSUME SectionInv, UNCHANGED guest, NEW t \in Threads,
           EnterUncontended(t) \/ StealFromDead(t) \/ TryEnter(t)
             \/ LeaveForeign(t) \/ LeaveInner(t)
    PROVE  SectionInv'
<1>1. /\ csOwner' = csOwner \/ (csOwner' = t /\ status[t] = "running")
      /\ csRecursion' \in Nat /\ csTracked' \in Threads \cup {NoThread}
      /\ inside' \in [Threads -> Nat] /\ crashed' \in BOOLEAN
      /\ UNCHANGED <<lockSemaphore, csQueue, forgotten, cvVars, status, suspended>>
  <2>1. /\ csRecursion \in Nat /\ inside \in [Threads -> Nat] /\ crashed \in BOOLEAN
        /\ csTracked \in Threads \cup {NoThread}
    BY DEF SectionInv, TypeOK
  <2>2. CASE EnterUncontended(t)
    BY <2>1, <2>2 DEF EnterUncontended, MayCall
  <2>3. CASE StealFromDead(t)
    BY <2>1, <2>3 DEF StealFromDead, MayCall, Take
  <2>4. CASE TryEnter(t)
    BY <2>1, <2>4 DEF TryEnter, MayCall
  <2>5. CASE LeaveForeign(t)
    BY <2>1, <2>5 DEF LeaveForeign, csVars, ownership
  <2>6. CASE LeaveInner(t)
    BY <2>1, <2>6 DEF LeaveInner
  <2> QED BY <2>2, <2>3, <2>4, <2>5, <2>6
<1>2. TypeOK' /\ QueuesExact'
  BY <1>1 DEF SectionInv, TypeOK, QueuesExact, ParkedOnForgotten, cvVars
<1>3. NoSleepOnFreeSection'
  BY <1>1, CsConstants DEF SectionInv, NoSleepOnFreeSection, TypeOK, Dead
<1> QED BY <1>2, <1>3 DEF SectionInv

LEMMA SectionInvStepQueues ==
    ASSUME SectionInv, UNCHANGED guest, NEW t \in Threads,
           EnterContended(t) \/ LeaveOuter(t) \/ Reinitialize(t)
    PROVE  SectionInv'
<1> USE DEF SectionInv
<1>0. status \in [Threads -> {"running", "parked", "stranded", "dead"}] /\ inside \in [Threads -> Nat]
  BY DEF TypeOK
<1>1. CASE EnterContended(t) /\ lockSemaphore
  <2>1. /\ csOwner' = t /\ csRecursion' = 1 /\ lockSemaphore' = FALSE
        /\ csTracked' = t
        /\ status' = [status EXCEPT ![t] = "stranded"] /\ status[t] = "running"
        /\ UNCHANGED <<csQueue, forgotten, cvQueue, cvTimers, suspended, inside, crashed>>
    BY <1>1 DEF EnterContended, Take, cvVars, MayCall
  <2>2. TypeOK' /\ QueuesExact'
    BY <2>1 DEF TypeOK, QueuesExact, ParkedOnForgotten
  <2>3. NoSleepOnFreeSection'
    BY <1>0, <2>1, CsConstants DEF NoSleepOnFreeSection, Dead
  <2> QED BY <2>2, <2>3
<1>2. CASE EnterContended(t) /\ ~lockSemaphore
  <2>1. /\ csOwner \in Threads \ Dead
        /\ csQueue' = Append(csQueue, t)
        /\ status' = [status EXCEPT ![t] = "parked"] /\ status[t] = "running"
        /\ UNCHANGED <<csOwner, csRecursion, csTracked, lockSemaphore, forgotten, cvQueue,
                       cvTimers, suspended, inside, crashed>>
    BY <1>2 DEF EnterContended, cvVars, ownership, MayCall
  <2>2. t \notin ToSet(csQueue) \cup ToSet(cvQueue) \cup ParkedOnForgotten
    BY <2>1 DEF QueuesExact
  <2>3. /\ csQueue' \in Seq(Threads) /\ IsInjective(csQueue')
        /\ ToSet(csQueue') = ToSet(csQueue) \cup {t}
    BY <2>1, <2>2, AppendSet DEF TypeOK, QueuesExact
  <2>4. TypeOK'
    BY <2>1, <2>3 DEF TypeOK
  <2>5. QueuesExact'
    <3>1. ParkedOnForgotten' = ParkedOnForgotten
      BY <2>1 DEF ParkedOnForgotten
    <3> QED BY <1>0, <2>1, <2>2, <2>3, <3>1 DEF QueuesExact
  <2>6. NoSleepOnFreeSection'
    BY <1>0, <2>1, CsConstants DEF NoSleepOnFreeSection, Dead
  <2> QED BY <2>4, <2>5, <2>6
<1>3. CASE LeaveOuter(t)
  <2>1. PICK heir \in Heirs(csQueue) :
          /\ OwnershipPasses(heir, csQueue) /\ HeirLeaves(heir, csQueue)
          /\ Return({heir} \ {NoThread}, status, [inside EXCEPT ![t] = @ - 1])
    BY <1>3 DEF LeaveOuter
  <2>2. /\ UNCHANGED <<forgotten, cvQueue, cvTimers, suspended, crashed>>
        /\ ParkedOnForgotten' = ParkedOnForgotten
        /\ inside[t] > 0 /\ status[t] = "running"
    BY <1>3 DEF LeaveOuter, cvVars, MayCall, ParkedOnForgotten
  <2>3. /\ heir # NoThread => heir \in ToSet(csQueue) \ suspended
        /\ csQueue' \in Seq(Threads) /\ IsInjective(csQueue')
        /\ ToSet(csQueue') = ToSet(csQueue) \ {heir}
        /\ lockSemaphore' \in BOOLEAN
    BY <2>1, HeirIsAwake, HeirLeavesQueue DEF TypeOK, QueuesExact
  <2>4. /\ csOwner' \in Threads \cup {NoThread} /\ csRecursion' \in Nat
        /\ csTracked' \in Threads \cup {NoThread}
        /\ heir # NoThread => csOwner' = heir
        /\ heir = NoThread => \A u \in ToSet(csQueue') : u \in suspended /\ lockSemaphore'
    BY <2>1, HandOver DEF TypeOK, QueuesExact
  <2>5. ToSet(csQueue) \subseteq Threads
    BY DEF TypeOK, ToSet
  <2>6. /\ status' = [u \in Threads |-> IF u \in {heir} \ {NoThread} THEN "running" ELSE status[u]]
        /\ inside' = [u \in Threads |-> IF u \in {heir} \ {NoThread}
                                         THEN [inside EXCEPT ![t] = @ - 1][u] + 1
                                         ELSE [inside EXCEPT ![t] = @ - 1][u]]
    BY <2>1 DEF Return
  <2>7. inside' \in [Threads -> Nat]
    BY <1>0, <2>2, <2>6
  <2>8. TypeOK'
    BY <1>0, <2>2, <2>3, <2>4, <2>6, <2>7 DEF TypeOK
  <2>9. QueuesExact'
    <3>1. /\ \A u \in Threads : ~(u \in ToSet(csQueue) /\ u \in ToSet(cvQueue))
          /\ \A u \in ParkedOnForgotten : u \notin ToSet(csQueue) /\ u \notin ToSet(cvQueue)
          /\ \A e, f \in forgotten : e # f => e.waiters \cap f.waiters = {}
          /\ \A u \in Threads : status[u] = "parked" <=>
                 u \in ToSet(csQueue) \/ u \in ToSet(cvQueue) \/ u \in ParkedOnForgotten
          /\ cvTimers \subseteq ToSet(cvQueue) /\ IsInjective(cvQueue)
      BY QueuesPointwise
    <3>2. /\ \A u \in Threads : ~(u \in ToSet(csQueue') /\ u \in ToSet(cvQueue'))
          /\ \A u \in ParkedOnForgotten : u \notin ToSet(csQueue') /\ u \notin ToSet(cvQueue')
          /\ \A u \in Threads : status'[u] = "parked" <=>
                 u \in ToSet(csQueue') \/ u \in ToSet(cvQueue') \/ u \in ParkedOnForgotten
      BY <3>1, <1>0, <2>2, <2>3, <2>5, <2>6, CsConstants
    <3>3. /\ ToSet(csQueue') \subseteq Threads /\ ToSet(cvQueue') \subseteq Threads
          /\ ParkedOnForgotten \subseteq Threads
      <4>1. /\ csQueue' \in Seq(Threads) /\ cvQueue' \in Seq(Threads)
            /\ forgotten \in SUBSET [waiters : SUBSET Threads, signalled : BOOLEAN]
        BY <2>8 DEF TypeOK
      <4> QED BY <4>1, WaitersAreThreads, ParkedAreThreads DEF ParkedOnForgotten
    <3> QED BY <3>1, <3>2, <3>3, <2>2, <2>3, <2>8 DEF QueuesExact
  <2>10. NoSleepOnFreeSection'
    BY <2>2, <2>3, <2>4, <2>5, <2>6, CsConstants DEF NoSleepOnFreeSection, Dead
  <2> QED BY <2>8, <2>9, <2>10
<1>4. CASE Reinitialize(t)
  <2>1. /\ csOwner' = NoThread /\ csRecursion' = 0 /\ lockSemaphore' = FALSE
        /\ csTracked' = NoThread
        /\ UNCHANGED <<csQueue, forgotten, cvQueue, cvTimers, status, suspended, inside, crashed>>
        /\ \A u \in Threads \ Dead : status[u] = "running"
    BY <1>4 DEF Reinitialize, cvVars
  <2>2. TypeOK' /\ QueuesExact'
    BY <2>1 DEF TypeOK, QueuesExact, ParkedOnForgotten
  <2>3. ToSet(csQueue) = {}
    BY <2>1 DEF QueuesExact, Dead
  <2> QED BY <2>1, <2>2, <2>3 DEF NoSleepOnFreeSection
<1> QED BY <1>1, <1>2, <1>3, <1>4 DEF TypeOK

\* The waiters of a section that is reset stay parked on its event: they
\* are suspended and the event is signalled, since the owner is dead.
LEMMA SectionInvStepRecover ==
    ASSUME SectionInv, UNCHANGED guest, NEW t \in Threads, RecoverFromReaped(t)
    PROVE  SectionInv'
<1> USE DEF SectionInv
<1>1. UNCHANGED <<cvQueue, cvTimers, status, suspended>> /\ status[t] = "running"
  BY DEF RecoverFromReaped, MayCall, cvVars
<1>2. CASE csTracked = NoThread
  <2> DEFINE old == [waiters |-> ToSet(csQueue), signalled |-> lockSemaphore]
  <2>1. /\ forgotten' = forgotten \cup InUse({old})
        /\ csQueue' = <<>> /\ lockSemaphore' = FALSE
        /\ csOwner' = t /\ csRecursion' = 1 /\ csTracked' = t
        /\ inside' = [inside EXCEPT ![t] = @ + 1] /\ crashed' = crashed
    BY <1>2 DEF RecoverFromReaped, Take
  <2>2. ToSet(csQueue) \subseteq Threads /\ ToSet(csQueue') = {} /\ IsInjective(csQueue')
    BY <2>1 DEF TypeOK, ToSet, IsInjective
  <2>3. /\ old \in [waiters : SUBSET Threads, signalled : BOOLEAN]
        /\ old.waiters = ToSet(csQueue) /\ old.signalled = lockSemaphore
    BY <2>2 DEF TypeOK
  <2> HIDE DEF old
  <2>4. /\ \A e \in forgotten' : e \in forgotten \/ e = old
        /\ forgotten \subseteq forgotten'
        /\ ToSet(csQueue) # {} => old \in forgotten'
    BY <2>1, <2>3 DEF InUse
  <2>5. TypeOK'
    <3>1. csQueue' \in Seq(Threads) /\ inside' \in [Threads -> Nat]
      BY <2>1 DEF TypeOK
    <3> QED BY <1>1, <2>1, <2>3, <2>4, <3>1 DEF TypeOK
  <2>6. ParkedOnForgotten' = ParkedOnForgotten \cup ToSet(csQueue)
    BY <2>3, <2>4 DEF ParkedOnForgotten
  <2>7. \A e \in forgotten : e.waiters \cap ToSet(csQueue) = {}
    BY DEF QueuesExact, ParkedOnForgotten
  <2>8. QueuesExact'
    <3>1. \A e, f \in forgotten' : e # f => e.waiters \cap f.waiters = {}
      BY <2>3, <2>4, <2>7 DEF QueuesExact
    <3> QED BY <1>1, <2>2, <2>6, <3>1 DEF QueuesExact
  <2>9. NoSleepOnFreeSection'
    <3>1. csOwner' \notin Dead' \cup {NoThread}
      BY <1>1, <2>1, CsConstants DEF Dead
    <3>2. ToSet(csQueue) \subseteq suspended
      BY DEF RecoverFromReaped, NoSleepOnFreeSection
    <3> QED BY <1>1, <2>3, <2>4, <3>1, <3>2 DEF NoSleepOnFreeSection
  <2> QED BY <2>5, <2>8, <2>9
<1>3. CASE csTracked # NoThread
  <2>1. /\ crashed' = TRUE
        /\ UNCHANGED <<csOwner, csRecursion, csTracked, lockSemaphore, csQueue, forgotten, inside>>
    BY <1>3 DEF RecoverFromReaped, csVars, ownership
  <2> QED BY <1>1, <2>1 DEF TypeOK, QueuesExact, ParkedOnForgotten, NoSleepOnFreeSection, Dead
<1> QED BY <1>2, <1>3

LEMMA SectionInvStepSleep ==
    ASSUME SectionInv, UNCHANGED guest, NEW t \in Threads, NEW timeout,
           Sleep(t, timeout) \/ SleepOutside(t, timeout)
    PROVE  SectionInv'
<1> USE DEF SectionInv
<1>0. status \in [Threads -> {"running", "parked", "stranded", "dead"}] /\ inside \in [Threads -> Nat]
  BY DEF TypeOK
<1>1. /\ status[t] = "running" /\ UNCHANGED <<forgotten, suspended, crashed>>
      /\ ParkedOnForgotten' = ParkedOnForgotten
  BY DEF Sleep, SleepOutside, MayCall, ParkedOnForgotten
<1>2. t \notin ToSet(csQueue) \cup ToSet(cvQueue) \cup ParkedOnForgotten
  BY <1>1 DEF QueuesExact
<1>3. ASSUME Park(t, timeout)
      PROVE  /\ cvQueue' \in Seq(Threads) /\ IsInjective(cvQueue')
             /\ ToSet(cvQueue') = ToSet(cvQueue) \cup {t}
             /\ cvTimers' \subseteq Threads /\ cvTimers' \subseteq cvTimers \cup {t}
  <2>1. cvQueue' = Append(cvQueue, t) /\ cvTimers' \subseteq cvTimers \cup {t}
    BY <1>3 DEF Park
  <2> QED BY <1>2, <2>1, AppendSet DEF TypeOK, QueuesExact
<1>4. ToSet(csQueue) \subseteq Threads
  BY DEF TypeOK, ToSet
<1>5. CASE Sleep(t, timeout)
  <2>1. PICK heir \in Heirs(csQueue) :
          /\ HeirLeaves(heir, csQueue)
          /\ IF timeout = "zero"
             THEN Take(t) /\ Return({heir} \ {NoThread}, status, inside) /\ UNCHANGED cvVars
             ELSE /\ OwnershipPasses(heir, csQueue)
                  /\ Return({heir} \ {NoThread}, [status EXCEPT ![t] = "parked"],
                            [inside EXCEPT ![t] = 0])
                  /\ Park(t, timeout)
    BY <1>5 DEF Sleep
  <2>2. /\ heir # NoThread => heir \in ToSet(csQueue) \ suspended
        /\ csQueue' \in Seq(Threads) /\ IsInjective(csQueue')
        /\ ToSet(csQueue') = ToSet(csQueue) \ {heir}
        /\ lockSemaphore' \in BOOLEAN
    BY <2>1, HeirIsAwake, HeirLeavesQueue DEF TypeOK, QueuesExact
  <2>3. CASE timeout = "zero"
    <3>1. /\ csOwner' = t /\ csRecursion' = 1 /\ csTracked' = t /\ UNCHANGED <<cvQueue, cvTimers>>
          /\ status' = [u \in Threads |-> IF u \in {heir} \ {NoThread} THEN "running" ELSE status[u]]
          /\ inside' = [u \in Threads |-> IF u \in {heir} \ {NoThread}
                                           THEN inside[u] + 1 ELSE inside[u]]
      BY <2>1, <2>3 DEF Take, Return, cvVars
    <3>2. TypeOK'
      BY <1>0, <1>1, <2>2, <3>1 DEF TypeOK
    <3>3. QueuesExact'
      <4>1. /\ \A u \in Threads : ~(u \in ToSet(csQueue) /\ u \in ToSet(cvQueue))
            /\ \A u \in ParkedOnForgotten : u \notin ToSet(csQueue) /\ u \notin ToSet(cvQueue)
            /\ \A e, f \in forgotten : e # f => e.waiters \cap f.waiters = {}
            /\ \A u \in Threads : status[u] = "parked" <=>
                   u \in ToSet(csQueue) \/ u \in ToSet(cvQueue) \/ u \in ParkedOnForgotten
            /\ cvTimers \subseteq ToSet(cvQueue) /\ IsInjective(cvQueue)
        BY QueuesPointwise
      <4>2. /\ \A u \in Threads : ~(u \in ToSet(csQueue') /\ u \in ToSet(cvQueue'))
            /\ \A u \in ParkedOnForgotten : u \notin ToSet(csQueue') /\ u \notin ToSet(cvQueue')
            /\ \A u \in Threads : status'[u] = "parked" <=>
                   u \in ToSet(csQueue') \/ u \in ToSet(cvQueue') \/ u \in ParkedOnForgotten
        BY <4>1, <1>0, <1>4, <2>2, <3>1, CsConstants
      <4>3. /\ ToSet(csQueue') \subseteq Threads /\ ToSet(cvQueue') \subseteq Threads
            /\ ParkedOnForgotten \subseteq Threads
        <5>1. /\ csQueue' \in Seq(Threads) /\ cvQueue' \in Seq(Threads)
              /\ forgotten \in SUBSET [waiters : SUBSET Threads, signalled : BOOLEAN]
          BY <3>2 DEF TypeOK
        <5> QED BY <5>1, WaitersAreThreads, ParkedAreThreads DEF ParkedOnForgotten
      <4> QED BY <4>1, <4>2, <4>3, <1>1, <2>2, <3>1, <3>2 DEF QueuesExact
    <3>4. NoSleepOnFreeSection'
      BY <1>1, <3>1, CsConstants DEF NoSleepOnFreeSection, Dead
    <3> QED BY <3>2, <3>3, <3>4
  <2>4. CASE timeout # "zero"
    <3>1. /\ OwnershipPasses(heir, csQueue) /\ Park(t, timeout)
          /\ Return({heir} \ {NoThread}, [status EXCEPT ![t] = "parked"], [inside EXCEPT ![t] = 0])
      BY <2>1, <2>4
    <3>2. /\ status' = [u \in Threads |-> IF u \in {heir} \ {NoThread} THEN "running"
                                           ELSE [status EXCEPT ![t] = "parked"][u]]
          /\ inside' = [u \in Threads |-> IF u \in {heir} \ {NoThread}
                                           THEN [inside EXCEPT ![t] = 0][u] + 1
                                           ELSE [inside EXCEPT ![t] = 0][u]]
      BY <3>1 DEF Return
    <3>3. /\ csOwner' \in Threads \cup {NoThread} /\ csRecursion' \in Nat
          /\ csTracked' \in Threads \cup {NoThread}
          /\ heir # NoThread => csOwner' = heir
          /\ heir = NoThread => \A u \in ToSet(csQueue') : u \in suspended /\ lockSemaphore'
      BY <2>1, <3>1, HandOver DEF TypeOK, QueuesExact
    <3>4. inside' \in [Threads -> Nat]
      BY <1>0, <3>2
    <3>5. TypeOK'
      BY <1>0, <1>1, <1>3, <2>2, <3>1, <3>2, <3>3, <3>4 DEF TypeOK
    <3>6. QueuesExact'
      <4>1. /\ \A u \in Threads : ~(u \in ToSet(csQueue) /\ u \in ToSet(cvQueue))
            /\ \A u \in ParkedOnForgotten : u \notin ToSet(csQueue) /\ u \notin ToSet(cvQueue)
            /\ \A e, f \in forgotten : e # f => e.waiters \cap f.waiters = {}
            /\ \A u \in Threads : status[u] = "parked" <=>
                   u \in ToSet(csQueue) \/ u \in ToSet(cvQueue) \/ u \in ParkedOnForgotten
            /\ cvTimers \subseteq ToSet(cvQueue) /\ IsInjective(cvQueue)
        BY QueuesPointwise
      <4>2. /\ \A u \in Threads : ~(u \in ToSet(csQueue') /\ u \in ToSet(cvQueue'))
            /\ \A u \in ParkedOnForgotten : u \notin ToSet(csQueue') /\ u \notin ToSet(cvQueue')
            /\ \A u \in Threads : status'[u] = "parked" <=>
                   u \in ToSet(csQueue') \/ u \in ToSet(cvQueue') \/ u \in ParkedOnForgotten
        BY <4>1, <1>0, <1>1, <1>2, <1>3, <1>4, <2>2, <3>1, <3>2, CsConstants
      <4>3. /\ ToSet(csQueue') \subseteq Threads /\ ToSet(cvQueue') \subseteq Threads
            /\ ParkedOnForgotten \subseteq Threads
        <5>1. /\ csQueue' \in Seq(Threads) /\ cvQueue' \in Seq(Threads)
              /\ forgotten \in SUBSET [waiters : SUBSET Threads, signalled : BOOLEAN]
          BY <3>5 DEF TypeOK
        <5> QED BY <5>1, WaitersAreThreads, ParkedAreThreads DEF ParkedOnForgotten
      <4> QED BY <4>1, <4>2, <4>3, <1>1, <1>3, <2>2, <3>1, <3>5 DEF QueuesExact
    <3>7. NoSleepOnFreeSection'
      BY <1>1, <1>4, <2>2, <3>2, <3>3, CsConstants DEF NoSleepOnFreeSection, Dead
    <3> QED BY <3>5, <3>6, <3>7
  <2> QED BY <2>3, <2>4
<1>6. CASE SleepOutside(t, timeout) /\ timeout = "zero"
  <2>1. /\ csOwner' = t /\ csRecursion' = 1 /\ csTracked' = t
        /\ UNCHANGED <<lockSemaphore, csQueue, cvQueue, cvTimers, status, inside>>
    BY <1>6 DEF SleepOutside, Take, cvVars
  <2>2. TypeOK' /\ QueuesExact'
    BY <1>1, <2>1 DEF TypeOK, QueuesExact
  <2> QED BY <1>1, <2>1, <2>2, CsConstants DEF NoSleepOnFreeSection, Dead
<1>7. CASE SleepOutside(t, timeout) /\ timeout # "zero"
  <2>1. /\ Park(t, timeout)
        /\ UNCHANGED <<csOwner, csRecursion, csTracked, lockSemaphore, csQueue>>
        /\ status' = [u \in Threads |-> [status EXCEPT ![t] = "parked"][u]]
        /\ inside' = [u \in Threads |-> [inside EXCEPT ![t] = 0][u]]
    BY <1>7 DEF SleepOutside, Return, ownership
  <2>2. TypeOK'
    BY <1>0, <1>1, <1>3, <2>1 DEF TypeOK
  <2>3. QueuesExact'
    BY <1>0, <1>1, <1>2, <1>3, <2>1 DEF QueuesExact
  <2>4. NoSleepOnFreeSection'
    BY <1>0, <1>1, <2>1 DEF NoSleepOnFreeSection, Dead
  <2> QED BY <2>2, <2>3, <2>4
<1> QED BY <1>5, <1>6, <1>7

LEMMA SectionInvStepWake ==
    ASSUME SectionInv, UNCHANGED guest, NEW t \in Threads,
           WakeConditionVariable(t) \/ WakeAllConditionVariable(t) \/ SleepTimesOut(t)
    PROVE  SectionInv'
<1>1. cvQueue \in Seq(Threads) /\ IsInjective(cvQueue) /\ cvTimers \subseteq ToSet(cvQueue)
  BY DEF SectionInv, TypeOK, QueuesExact
<1>2. ASSUME NEW u \in ToSet(cvQueue), WakeSleepers(<<u>>, Without(cvQueue, u))
      PROVE  SectionInv'
  <2>1. u \in Threads
    BY <1>1 DEF ToSet
  <2>2. <<u>> \in Seq(Threads) /\ <<u>> # <<>> /\ ToSet(<<u>>) = {u}
    BY <2>1 DEF ToSet
  <2>3. /\ Without(cvQueue, u) \in Seq(Threads) /\ IsInjective(Without(cvQueue, u))
        /\ ToSet(Without(cvQueue, u)) = ToSet(cvQueue) \ {u}
    BY <1>1, WithoutSet
  <2> QED BY <1>2, <2>2, <2>3, SleepersWoken
<1>3. CASE WakeConditionVariable(t)
  BY <1>1, <1>2, <1>3, HeadInQueue DEF WakeConditionVariable
<1>4. CASE WakeAllConditionVariable(t)
  <2>1. cvQueue # <<>> /\ WakeSleepers(cvQueue, <<>>)
    BY <1>4 DEF WakeAllConditionVariable
  <2>2. <<>> \in Seq(Threads) /\ IsInjective(<<>>) /\ ToSet(<<>>) = {}
    BY DEF ToSet, IsInjective
  <2>3. ToSet(<<>>) = ToSet(cvQueue) \ ToSet(cvQueue)
    BY <2>2
  <2> QED BY <1>1, <2>1, <2>2, <2>3, SleepersWoken
<1>5. CASE SleepTimesOut(t)
  BY <1>1, <1>2, <1>5 DEF SleepTimesOut
<1> QED BY <1>3, <1>4, <1>5

\* A thread that dies leaves the events that the section forgot, too.
LEMMA WithoutForgotten ==
    ASSUME SectionInv, NEW t, forgotten' = ForgottenWithout(t)
    PROVE  /\ forgotten' \subseteq [waiters : SUBSET Threads, signalled : BOOLEAN]
           /\ ParkedOnForgotten' = ParkedOnForgotten \ {t}
           /\ \A e, f \in forgotten' : e # f => e.waiters \cap f.waiters = {}
           /\ \A e \in forgotten' : e.signalled => e.waiters \subseteq suspended \ {t}
<1> DEFINE Left(e) == [e EXCEPT !.waiters = @ \ {t}]
<1>1. \A e \in forgotten :
         /\ Left(e).waiters = e.waiters \ {t} /\ Left(e).signalled = e.signalled
         /\ Left(e) \in [waiters : SUBSET Threads, signalled : BOOLEAN]
  BY DEF SectionInv, TypeOK
<1>2. \A f \in forgotten' : \E e \in forgotten : f = Left(e)
  BY DEF ForgottenWithout, InUse
<1>3. \A e \in forgotten : e.waiters \ {t} # {} => Left(e) \in forgotten'
  BY <1>1 DEF ForgottenWithout, InUse
<1> HIDE DEF Left
<1>4. forgotten' \subseteq [waiters : SUBSET Threads, signalled : BOOLEAN]
  BY <1>1, <1>2
<1>5. ParkedOnForgotten' = ParkedOnForgotten \ {t}
  <2>1. ASSUME NEW u \in ParkedOnForgotten, u # t PROVE u \in ParkedOnForgotten'
    <3>1. PICK e \in forgotten : u \in e.waiters
      BY DEF ParkedOnForgotten
    <3>2. Left(e) \in forgotten' /\ u \in Left(e).waiters
      BY <1>1, <1>3, <2>1, <3>1
    <3> QED BY <3>2 DEF ParkedOnForgotten
  <2>2. ASSUME NEW u \in ParkedOnForgotten' PROVE u \in ParkedOnForgotten \ {t}
    <3>1. PICK f \in forgotten' : u \in f.waiters
      BY DEF ParkedOnForgotten
    <3> QED BY <1>1, <1>2, <3>1 DEF ParkedOnForgotten
  <2> QED BY <2>1, <2>2
<1>6. \A e, f \in forgotten' : e # f => e.waiters \cap f.waiters = {}
  BY <1>1, <1>2 DEF SectionInv, QueuesExact
<1>7. \A e \in forgotten' : e.signalled => e.waiters \subseteq suspended \ {t}
  BY <1>1, <1>2 DEF SectionInv, NoSleepOnFreeSection
<1> QED BY <1>4, <1>5, <1>6, <1>7

LEMMA SectionInvStepThreads ==
    ASSUME SectionInv, UNCHANGED guest, NEW t \in Threads,
           Suspend(t) \/ ResumeParked(t) \/ Resume(t) \/ Terminate(t)
    PROVE  SectionInv'
<1> USE DEF SectionInv
<1>0. status \in [Threads -> {"running", "parked", "stranded", "dead"}] /\ inside \in [Threads -> Nat]
  BY DEF TypeOK
<1>1. CASE Suspend(t)
  <2>1. /\ suspended' = suspended \cup {t}
        /\ UNCHANGED <<csOwner, csRecursion, csTracked, lockSemaphore, csQueue, forgotten,
                       cvQueue, cvTimers, status, inside, crashed>>
    BY <1>1 DEF Suspend, csVars, ownership, cvVars
  <2>2. TypeOK' /\ QueuesExact'
    BY <2>1 DEF TypeOK, QueuesExact, ParkedOnForgotten
  <2> QED BY <2>1, <2>2 DEF NoSleepOnFreeSection, Dead
<1>2. CASE ResumeParked(t)
  <2>1. /\ suspended' = suspended \ {t}
        /\ csOwner' = t /\ csRecursion' = 1 /\ csTracked' = t
        /\ status' = [u \in Threads |-> IF u \in {t} THEN "running" ELSE status[u]]
        /\ inside' = [u \in Threads |-> IF u \in {t} THEN inside[u] + 1 ELSE inside[u]]
        /\ UNCHANGED <<cvQueue, cvTimers, crashed>>
    BY <1>2 DEF ResumeParked, Take, Return, cvVars
  <2>2. /\ status' \in [Threads -> {"running", "parked", "stranded", "dead"}]
        /\ inside' \in [Threads -> Nat]
    BY <1>0, <2>1
  <2>3. csOwner' \notin Dead' \cup {NoThread}
    BY <2>1, CsConstants DEF Dead
  <2>4. CASE ResumeOnEvent(t)
    <3>1. /\ lockSemaphore' = FALSE /\ csQueue' = Without(csQueue, t)
          /\ t \in ToSet(csQueue) /\ UNCHANGED forgotten
      BY <2>4 DEF ResumeOnEvent
    <3>2. /\ csQueue' \in Seq(Threads) /\ IsInjective(csQueue')
          /\ ToSet(csQueue') = ToSet(csQueue) \ {t}
      BY <3>1, WithoutSet DEF TypeOK, QueuesExact
    <3>3. TypeOK'
      BY <2>1, <2>2, <3>1, <3>2 DEF TypeOK
    <3>4. QueuesExact'
      <4>1. ParkedOnForgotten' = ParkedOnForgotten
        BY <3>1 DEF ParkedOnForgotten
      <4> QED BY <2>1, <3>1, <3>2, <4>1 DEF QueuesExact
    <3>5. \A e \in forgotten : t \notin e.waiters
      BY <3>1 DEF QueuesExact, ParkedOnForgotten
    <3> QED BY <2>1, <2>3, <3>1, <3>3, <3>4, <3>5 DEF NoSleepOnFreeSection
  <2>5. CASE ResumeOnForgotten(t)
    <3>1. PICK e \in forgotten :
            /\ t \in e.waiters /\ e.signalled
            /\ forgotten' = (forgotten \ {e}) \cup
                   InUse({[waiters |-> e.waiters \ {t}, signalled |-> FALSE]})
            /\ UNCHANGED <<lockSemaphore, csQueue>>
      BY <2>5 DEF ResumeOnForgotten
    <3> DEFINE left == [waiters |-> e.waiters \ {t}, signalled |-> FALSE]
    <3>2. /\ left \in [waiters : SUBSET Threads, signalled : BOOLEAN]
          /\ left.waiters = e.waiters \ {t} /\ left.signalled = FALSE
      BY DEF TypeOK
    <3>3. forgotten' = (forgotten \ {e}) \cup InUse({left})
      BY <3>1
    <3> HIDE DEF left
    <3>4. /\ \A f \in forgotten' : f \in forgotten \ {e} \/ f = left
          /\ forgotten \ {e} \subseteq forgotten'
          /\ e.waiters \ {t} # {} => left \in forgotten'
      BY <3>2, <3>3 DEF InUse
    <3>5. TypeOK'
      <4>1. forgotten' \subseteq [waiters : SUBSET Threads, signalled : BOOLEAN]
        BY <3>2, <3>4 DEF TypeOK
      <4> QED BY <2>1, <2>2, <3>1, <4>1 DEF TypeOK
    <3>6. \A f \in forgotten \ {e} : e.waiters \cap f.waiters = {}
      BY DEF QueuesExact
    <3>7. ParkedOnForgotten' = ParkedOnForgotten \ {t}
      <4>1. ASSUME NEW u \in ParkedOnForgotten, u # t PROVE u \in ParkedOnForgotten'
        <5>1. PICK f \in forgotten : u \in f.waiters
          BY DEF ParkedOnForgotten
        <5>2. CASE f = e
          <6>1. left \in forgotten' /\ u \in left.waiters
            BY <3>2, <3>4, <4>1, <5>1, <5>2
          <6> QED BY <6>1 DEF ParkedOnForgotten
        <5>3. CASE f # e
          <6>1. f \in forgotten'
            BY <3>4, <5>3
          <6> QED BY <5>1, <6>1 DEF ParkedOnForgotten
        <5> QED BY <5>2, <5>3
      <4>2. ASSUME NEW u \in ParkedOnForgotten' PROVE u \in ParkedOnForgotten \ {t}
        <5>1. PICK f \in forgotten' : u \in f.waiters
          BY DEF ParkedOnForgotten
        <5>2. CASE f = left
          BY <3>1, <3>2, <5>1, <5>2 DEF ParkedOnForgotten
        <5>3. CASE f \in forgotten \ {e}
          BY <3>1, <3>6, <5>1, <5>3 DEF ParkedOnForgotten
        <5> QED BY <3>4, <5>2, <5>3
      <4> QED BY <4>1, <4>2
    <3>8. \A f, g \in forgotten' : f # g => f.waiters \cap g.waiters = {}
      <4> SUFFICES ASSUME NEW f \in forgotten', NEW g \in forgotten', f # g
                   PROVE  f.waiters \cap g.waiters = {}
        OBVIOUS
      <4>1. CASE f = left
        BY <3>2, <3>4, <3>6, <4>1
      <4>2. CASE g = left
        BY <3>2, <3>4, <3>6, <4>2
      <4>3. CASE f \in forgotten /\ g \in forgotten
        BY <4>3 DEF QueuesExact
      <4> QED BY <3>4, <4>1, <4>2, <4>3
    <3>9. QueuesExact'
      <4>1. t \in ParkedOnForgotten
        BY <3>1 DEF ParkedOnForgotten
      <4>2. \A u \in Threads : status'[u] = "parked" <=> status[u] = "parked" /\ u # t
        BY <1>0, <2>1
      <4>3. ParkedOnForgotten \subseteq Threads
        BY DEF ParkedOnForgotten, TypeOK
      <4>4. t \notin ToSet(csQueue) /\ t \notin ToSet(cvQueue)
        BY <4>1 DEF QueuesExact
      <4>5. /\ ParkedOnForgotten' \cap (ToSet(csQueue) \cup ToSet(cvQueue)) = {}
            /\ ToSet(csQueue) \cup ToSet(cvQueue) \cup ParkedOnForgotten'
                   = {u \in Threads : status'[u] = "parked"}
        <5>1. ToSet(csQueue) \cup ToSet(cvQueue) \cup ParkedOnForgotten
                 = {u \in Threads : status[u] = "parked"}
          BY DEF QueuesExact
        <5>2. ParkedOnForgotten \cap (ToSet(csQueue) \cup ToSet(cvQueue)) = {}
          BY DEF QueuesExact
        <5> HIDE DEF SectionInv
        <5> QED BY <3>7, <4>2, <4>4, <5>1, <5>2
      <4> QED BY <2>1, <3>1, <3>8, <4>5 DEF QueuesExact
    <3>10. \A f \in forgotten' : f.signalled => f.waiters \subseteq suspended'
      BY <2>1, <3>1, <3>2, <3>4, <3>6 DEF NoSleepOnFreeSection
    <3> QED BY <2>3, <3>5, <3>9, <3>10 DEF NoSleepOnFreeSection
  <2> QED BY <1>2, <2>4, <2>5 DEF ResumeParked
<1>3. CASE Resume(t)
  <2>1. /\ suspended' = suspended \ {t}
        /\ ~(t \in ToSet(csQueue) /\ lockSemaphore)
        /\ \A e \in forgotten : ~(t \in e.waiters /\ e.signalled)
        /\ UNCHANGED <<csOwner, csRecursion, csTracked, lockSemaphore, csQueue, forgotten,
                       cvQueue, cvTimers, status, inside, crashed>>
    BY <1>3 DEF Resume, csVars, ownership, cvVars
  <2>2. TypeOK' /\ QueuesExact'
    BY <2>1 DEF TypeOK, QueuesExact, ParkedOnForgotten
  <2> QED BY <2>1, <2>2 DEF NoSleepOnFreeSection, Dead
<1>4. CASE Terminate(t)
  <2> DEFINE queue == Without(csQueue, t)
             dead == [status EXCEPT ![t] = "dead"]
             beliefs == [inside EXCEPT ![t] = 0]
  <2>1. /\ queue \in Seq(Threads) /\ IsInjective(queue)
        /\ ToSet(queue) = ToSet(csQueue) \ {t}
    BY WithoutSet DEF TypeOK, QueuesExact
  <2>2. /\ cvQueue' \in Seq(Threads) /\ IsInjective(cvQueue')
        /\ ToSet(cvQueue') = ToSet(cvQueue) \ {t}
    BY <1>4, WithoutSet DEF Terminate, TypeOK, QueuesExact
  <2>3. cvTimers' = cvTimers \ {t} /\ suspended' = suspended \ {t} /\ UNCHANGED crashed
    BY <1>4 DEF Terminate
  <2>4. ToSet(csQueue) \subseteq Threads
    BY DEF TypeOK, ToSet
  <2>5. /\ forgotten' \subseteq [waiters : SUBSET Threads, signalled : BOOLEAN]
        /\ ParkedOnForgotten' = ParkedOnForgotten \ {t}
        /\ \A e, f \in forgotten' : e # f => e.waiters \cap f.waiters = {}
        /\ \A e \in forgotten' : e.signalled => e.waiters \subseteq suspended'
    <3>1. forgotten' = ForgottenWithout(t)
      BY <1>4 DEF Terminate
    <3> QED BY <2>3, <3>1, WithoutForgotten DEF NoSleepOnFreeSection
  <2>6. CASE csOwner = t
    <3> HIDE DEF queue
    <3>1. PICK heir \in Heirs(queue) :
            /\ OwnershipPasses(heir, queue) /\ HeirLeaves(heir, queue)
            /\ Return({heir} \ {NoThread}, dead, beliefs)
      BY <1>4, <2>6 DEF Terminate, queue
    <3>2. /\ heir # NoThread => heir \in ToSet(queue) \ suspended
          /\ csQueue' \in Seq(Threads) /\ IsInjective(csQueue')
          /\ ToSet(csQueue') = ToSet(queue) \ {heir}
          /\ lockSemaphore' \in BOOLEAN
      BY <2>1, <3>1, HeirIsAwake, HeirLeavesQueue DEF TypeOK
    <3>3. /\ csOwner' \in Threads \cup {NoThread} /\ csRecursion' \in Nat
          /\ csTracked' \in Threads \cup {NoThread}
          /\ heir # NoThread => csOwner' = heir
          /\ heir = NoThread => \A u \in ToSet(csQueue') : u \in suspended /\ lockSemaphore'
      BY <2>1, <3>1, HandOver DEF TypeOK
    <3>4. /\ status' = [u \in Threads |-> IF u \in {heir} \ {NoThread} THEN "running" ELSE dead[u]]
          /\ inside' = [u \in Threads |-> IF u \in {heir} \ {NoThread}
                                           THEN beliefs[u] + 1 ELSE beliefs[u]]
      BY <3>1 DEF Return
    <3>5. inside' \in [Threads -> Nat]
      BY <1>0, <3>4
    <3>6. TypeOK'
      BY <1>0, <2>2, <2>3, <2>5, <3>2, <3>3, <3>4, <3>5 DEF TypeOK
    <3>7. QueuesExact'
      <4>1. /\ \A u \in Threads : ~(u \in ToSet(csQueue) /\ u \in ToSet(cvQueue))
            /\ \A u \in ParkedOnForgotten : u \notin ToSet(csQueue) /\ u \notin ToSet(cvQueue)
            /\ \A e, f \in forgotten : e # f => e.waiters \cap f.waiters = {}
            /\ \A u \in Threads : status[u] = "parked" <=>
                   u \in ToSet(csQueue) \/ u \in ToSet(cvQueue) \/ u \in ParkedOnForgotten
            /\ cvTimers \subseteq ToSet(cvQueue) /\ IsInjective(cvQueue)
        BY QueuesPointwise
      <4>2. /\ \A u \in Threads : ~(u \in ToSet(csQueue') /\ u \in ToSet(cvQueue'))
            /\ \A u \in ParkedOnForgotten' : u \notin ToSet(csQueue') /\ u \notin ToSet(cvQueue')
            /\ \A u \in Threads : status'[u] = "parked" <=>
                   u \in ToSet(csQueue') \/ u \in ToSet(cvQueue') \/ u \in ParkedOnForgotten'
        BY <4>1, <1>0, <2>1, <2>2, <2>4, <2>5, <3>2, <3>4, CsConstants
      <4>3. /\ ToSet(csQueue') \subseteq Threads /\ ToSet(cvQueue') \subseteq Threads
            /\ ParkedOnForgotten' \subseteq Threads
        <5>1. /\ csQueue' \in Seq(Threads) /\ cvQueue' \in Seq(Threads)
              /\ forgotten' \in SUBSET [waiters : SUBSET Threads, signalled : BOOLEAN]
          BY <3>6 DEF TypeOK
        <5> QED BY <5>1, WaitersAreThreads, ParkedAreThreads DEF ParkedOnForgotten
      <4> QED BY <4>2, <4>3, <2>2, <2>3, <2>5, <3>2, <3>6, <4>1 DEF QueuesExact
    <3>8. NoSleepOnFreeSection'
      BY <2>1, <2>3, <2>4, <2>5, <3>2, <3>3, <3>4, CsConstants DEF NoSleepOnFreeSection, Dead
    <3> QED BY <3>6, <3>7, <3>8
  <2>7. CASE csOwner # t
    <3>1. /\ csQueue' = queue /\ status' = dead /\ inside' = beliefs
          /\ UNCHANGED <<csOwner, csRecursion, csTracked, lockSemaphore>>
      BY <1>4, <2>7 DEF Terminate, ownership
    <3>2. TypeOK'
      BY <1>0, <2>1, <2>2, <2>3, <2>5, <3>1 DEF TypeOK
    <3>3. QueuesExact'
      BY <1>0, <2>1, <2>2, <2>3, <2>5, <3>1 DEF QueuesExact
    <3>4. NoSleepOnFreeSection'
      BY <1>0, <2>1, <2>3, <2>5, <2>7, <3>1 DEF NoSleepOnFreeSection, Dead
    <3> QED BY <3>2, <3>3, <3>4
  <2> QED BY <2>6, <2>7
<1> QED BY <1>1, <1>2, <1>3, <1>4

LEMMA SectionInvStep == SectionInv /\ [Next]_vars => SectionInv'
<1> SUFFICES ASSUME SectionInv, [Next]_vars PROVE SectionInv'
  OBVIOUS
<1>1. CASE UNCHANGED vars
  BY <1>1 DEF SectionInv, TypeOK, QueuesExact, ParkedOnForgotten, NoSleepOnFreeSection, Dead,
              vars, csVars, ownership, cvVars
<1>2. CASE Next
  <2>1. PICK t \in guest.threads :
        \/ EnterUncontended(t) \/ StealFromDead(t) \/ RecoverFromReaped(t)
        \/ EnterContended(t) \/ TryEnter(t)
        \/ LeaveForeign(t) \/ LeaveInner(t) \/ LeaveOuter(t) \/ Reinitialize(t)
        \/ \E timeout \in guest.sleeps : Sleep(t, timeout) \/ SleepOutside(t, timeout)
        \/ WakeConditionVariable(t) \/ WakeAllConditionVariable(t) \/ SleepTimesOut(t)
        \/ Suspend(t) \/ ResumeParked(t) \/ Resume(t) \/ Terminate(t)
    BY <1>2 DEF Next
  <2>2. UNCHANGED guest /\ t \in Threads
    BY <1>2, CsConstants DEF Next, SectionInv, TypeOK
  <2> QED BY <2>1, <2>2, SectionInvStepAlone, SectionInvStepRecover, SectionInvStepQueues,
             SectionInvStepSleep, SectionInvStepWake, SectionInvStepThreads
<1> QED BY <1>1, <1>2

(* Whatever threads enter, leave, sleep, wake, suspend, resume, time out   *)
(* or die, every thread waits in exactly the queue it parked in.           *)
THEOREM SectionQueuesExact == Spec => []QueuesExact
<1>1. SectionInv => QueuesExact
  BY DEF SectionInv
<1> QED BY <1>1, SectionInvInit, SectionInvStep, PTL DEF Spec

(* Nobody is left parked on a section that is free or whose owner is dead, *)
(* except suspended threads that find the event signalled: the hand-over   *)
(* by LeaveCriticalSection, by a sleep on the condition variable and by    *)
(* terminateThread is complete.  The waiters on an event that the section  *)
(* forgot (normalizeCriticalSectionState) are suspended, too, as long as   *)
(* its signal is there; of those that come after the first the theorem     *)
(* promises nothing, and the code leaves them asleep.                      *)
THEOREM NobodyStranded == Spec => []NoSleepOnFreeSection
<1>1. SectionInv => NoSleepOnFreeSection
  BY DEF SectionInv
<1> QED BY <1>1, SectionInvInit, SectionInvStep, PTL DEF Spec

-----------------------------------------------------------------------------
(* The owner on note.                                                      *)

LEMMA NotedOwnerInit == Init => NotedOwner
BY DEF Init, NotedOwner

\* A thread that takes the section is running afterwards and noted.
LEMMA NotedWhenTaken ==
    ASSUME NEW t \in Threads, Take(t), status'[t] # "dead"
    PROVE  NotedOwner'
BY DEF Take, NotedOwner, Dead

\* A hand-over notes the heir, or nobody.
LEMMA NotedWhenPassed ==
    ASSUME NotedOwner, NEW queue \in Seq(Threads), NEW heir \in Heirs(queue),
           OwnershipPasses(heir, queue), heir # NoThread => status'[heir] # "dead"
    PROVE  NotedOwner'
BY DEF OwnershipPasses, NotedOwner, Dead

LEMMA NotedOwnerStep == SectionInv /\ NotedOwner /\ [Next]_vars => NotedOwner'
<1> SUFFICES ASSUME SectionInv, NotedOwner, [Next]_vars PROVE NotedOwner'
  OBVIOUS
<1>0. /\ status \in [Threads -> {"running", "parked", "stranded", "dead"}]
      /\ csQueue \in Seq(Threads) /\ IsInjective(csQueue)
  BY DEF SectionInv, TypeOK, QueuesExact
<1>1. CASE UNCHANGED vars
  BY <1>1 DEF NotedOwner, Dead, vars, csVars, ownership
<1>2. ASSUME NEW t \in Threads,
             EnterUncontended(t) \/ TryEnter(t) \/ LeaveForeign(t) \/ LeaveInner(t)
               \/ Reinitialize(t) \/ Suspend(t) \/ Resume(t)
      PROVE  NotedOwner'
  BY <1>2, CsConstants DEF EnterUncontended, TryEnter, LeaveForeign, LeaveInner, Reinitialize,
     Suspend, Resume, MayCall, NotedOwner, Dead, csVars, ownership
<1>3. ASSUME NEW t \in Threads,
             StealFromDead(t) \/ RecoverFromReaped(t) \/ EnterContended(t)
      PROVE  NotedOwner'
  <2>1. status[t] = "running" /\ status'[t] # "dead"
    BY <1>0, <1>3 DEF StealFromDead, RecoverFromReaped, EnterContended, MayCall
  <2>2. CASE Take(t)
    BY <2>1, <2>2, NotedWhenTaken
  <2>3. CASE UNCHANGED ownership /\ \A u \in Threads : u \in Dead' <=> u \in Dead
    BY <2>3 DEF NotedOwner, Dead, ownership
  <2>4. ~Take(t) => UNCHANGED ownership /\ \A u \in Threads : u \in Dead' <=> u \in Dead
    BY <1>0, <1>3, <2>1 DEF StealFromDead, RecoverFromReaped, EnterContended, csVars, Dead
  <2> QED BY <2>2, <2>3, <2>4
<1>4. ASSUME NEW t \in Threads, NEW timeout,
             LeaveOuter(t) \/ Sleep(t, timeout) \/ SleepOutside(t, timeout)
      PROVE  NotedOwner'
  <2>1. status[t] = "running" /\ \A u \in Threads : status'[u] = "dead" <=> status[u] = "dead"
    <3>1. status[t] = "running"
      BY <1>4 DEF LeaveOuter, Sleep, SleepOutside, MayCall
    <3>2. CASE SleepOutside(t, timeout)
      BY <1>0, <3>1, <3>2 DEF SleepOutside, Return
    <3>3. CASE LeaveOuter(t) \/ Sleep(t, timeout)
      <4>1. PICK heir \in Heirs(csQueue), st \in {status, [status EXCEPT ![t] = "parked"]} :
               status' = [u \in Threads |-> IF u \in {heir} \ {NoThread} THEN "running" ELSE st[u]]
        BY <3>3 DEF LeaveOuter, Sleep, Return
      <4>2. heir # NoThread => heir \in ToSet(csQueue)
        BY <1>0, HeirIsAwake
      <4>3. \A u \in ToSet(csQueue) : status[u] = "parked"
        BY DEF SectionInv, QueuesExact
      <4> QED BY <1>0, <3>1, <4>1, <4>2, <4>3
    <3> QED BY <1>4, <3>1, <3>2, <3>3
  <2>2. CASE Take(t)
    BY <2>1, <2>2, NotedWhenTaken
  <2>3. CASE UNCHANGED ownership
    BY <2>1, <2>3 DEF NotedOwner, Dead, ownership
  <2>4. CASE \E heir \in Heirs(csQueue) : OwnershipPasses(heir, csQueue)
    <3>1. PICK heir \in Heirs(csQueue) : OwnershipPasses(heir, csQueue)
      BY <2>4
    <3>2. heir # NoThread => heir \in ToSet(csQueue)
      BY <1>0, HeirIsAwake
    <3>3. \A u \in ToSet(csQueue) : u \in Threads /\ status[u] = "parked"
      BY DEF SectionInv, QueuesExact
    <3> QED BY <1>0, <2>1, <3>1, <3>2, <3>3, NotedWhenPassed
  <2> QED BY <1>4, <2>2, <2>3, <2>4 DEF LeaveOuter, Sleep, SleepOutside
<1>5. ASSUME NEW t \in Threads,
             WakeConditionVariable(t) \/ WakeAllConditionVariable(t) \/ SleepTimesOut(t)
      PROVE  NotedOwner'
  <2>1. cvQueue \in Seq(Threads) /\ cvTimers \subseteq Threads
    BY DEF SectionInv, TypeOK
  <2>2. PICK woken \in Seq(Threads) : woken # <<>> /\ \E rest : WakeSleepers(woken, rest)
    <3>1. CASE WakeConditionVariable(t)
      <4>1. Head(cvQueue) \in Threads
        BY <2>1, <3>1 DEF WakeConditionVariable
      <4>2. <<Head(cvQueue)>> \in Seq(Threads) /\ <<Head(cvQueue)>> # <<>>
        BY <4>1
      <4> QED BY <3>1, <4>2 DEF WakeConditionVariable
    <3>2. CASE WakeAllConditionVariable(t)
      BY <2>1, <3>2 DEF WakeAllConditionVariable
    <3>3. CASE SleepTimesOut(t)
      <4>1. <<t>> \in Seq(Threads) /\ <<t>> # <<>>
        OBVIOUS
      <4> QED BY <3>3, <4>1 DEF SleepTimesOut
    <3> QED BY <1>5, <3>1, <3>2, <3>3
  <2>3. /\ Take(Last(woken))
        /\ status' = [u \in Threads |-> IF u \in ToSet(woken) THEN "running" ELSE status[u]]
    BY <2>2 DEF WakeSleepers, Return
  <2>4. Last(woken) \in Threads /\ Last(woken) \in ToSet(woken)
    BY <2>2 DEF Last, ToSet
  <2> QED BY <2>3, <2>4, NotedWhenTaken
<1>6. ASSUME NEW t \in Threads, ResumeParked(t)
      PROVE  NotedOwner'
  BY <1>6, NotedWhenTaken DEF ResumeParked, Return
<1>7. ASSUME NEW t \in Threads, Terminate(t)
      PROVE  NotedOwner'
  <2>1. CASE csOwner = t
    <3> DEFINE queue == Without(csQueue, t)
    <3>1. queue \in Seq(Threads) /\ ToSet(queue) = ToSet(csQueue) \ {t}
      BY <1>0, WithoutSet
    <3> HIDE DEF queue
    <3>2. PICK heir \in Heirs(queue) :
             /\ OwnershipPasses(heir, queue)
             /\ Return({heir} \ {NoThread}, [status EXCEPT ![t] = "dead"], [inside EXCEPT ![t] = 0])
      BY <1>7, <2>1 DEF Terminate, queue
    <3>3. heir # NoThread => heir \in Threads
      BY <3>1, HeirIsAwake DEF ToSet
    <3> QED BY <3>1, <3>2, <3>3, NotedWhenPassed DEF Return
  <2>2. CASE csOwner # t
    <3>1. UNCHANGED ownership /\ status' = [status EXCEPT ![t] = "dead"]
      BY <1>7, <2>2 DEF Terminate
    <3>2. csOwner \in Dead' => csOwner \in Dead
      BY <1>0, <2>2, <3>1 DEF Dead
    <3> QED BY <3>1, <3>2 DEF NotedOwner, ownership
  <2> QED BY <2>1, <2>2
<1>8. CASE Next
  <2>1. PICK t \in guest.threads :
        \/ EnterUncontended(t) \/ StealFromDead(t) \/ RecoverFromReaped(t)
        \/ EnterContended(t) \/ TryEnter(t)
        \/ LeaveForeign(t) \/ LeaveInner(t) \/ LeaveOuter(t) \/ Reinitialize(t)
        \/ \E timeout \in guest.sleeps : Sleep(t, timeout) \/ SleepOutside(t, timeout)
        \/ WakeConditionVariable(t) \/ WakeAllConditionVariable(t) \/ SleepTimesOut(t)
        \/ Suspend(t) \/ ResumeParked(t) \/ Resume(t) \/ Terminate(t)
    BY <1>8 DEF Next
  <2>2. t \in Threads
    BY CsConstants DEF SectionInv, TypeOK
  <2> QED BY <2>1, <2>2, <1>2, <1>3, <1>4, <1>5, <1>6, <1>7
<1> QED BY <1>1, <1>8

(* Whoever owns the section is on note with the scheduler, or nobody is,   *)
(* and a dead owner never is: a section whose owner was reaped is always   *)
(* reset (normalizeCriticalSectionState) and never taken for corrupted.    *)
THEOREM OwnerNoted == Spec => []NotedOwner
BY SectionInvInit, SectionInvStep, NotedOwnerInit, NotedOwnerStep, PTL DEF Spec

-----------------------------------------------------------------------------
(* Mutual exclusion.                                                       *)

\* What the section says and what the guest believes agree, thread by thread.
\* The event is never left signalled, so no thread parks in vain on it.
BeliefInv ==
    /\ suspended = {} /\ cvQueue = <<>> /\ lockSemaphore = FALSE
    /\ csOwner \notin Dead
    /\ \A t \in Threads : csOwner = t => csRecursion > 0
    /\ \A t \in Threads : inside[t] = IF csOwner = t THEN csRecursion ELSE 0

LEMMA BeliefInvInit == Init => BeliefInv
BY CsConstants DEF Init, BeliefInv, Dead

\* Giving the section up for good, with no thread suspended: to the heir, or
\* to nobody when there is none.
LEMMA CleanHandOver ==
    ASSUME suspended = {}, lockSemaphore = FALSE,
           NEW queue \in Seq(Threads), NEW heir \in Heirs(queue),
           OwnershipPasses(heir, queue), HeirLeaves(heir, queue)
    PROVE  /\ lockSemaphore' = FALSE
           /\ heir # NoThread => heir \in ToSet(queue) /\ csOwner' = heir /\ csRecursion' = 1
           /\ heir = NoThread => csOwner' = NoThread
<1>1. /\ heir # NoThread => heir \in ToSet(queue)
      /\ heir = NoThread => ToSet(queue) = {}
  BY HeirIsAwake
<1>2. heir = NoThread => queue = <<>>
  BY <1>1, HeadInQueue
<1> QED BY <1>1, <1>2 DEF OwnershipPasses, HeirLeaves

LEMMA BeliefInvStepEnter ==
    ASSUME SectionInv, BeliefInv, NEW t \in Threads,
           EnterUncontended(t) \/ StealFromDead(t) \/ EnterContended(t) \/ TryEnter(t)
    PROVE  BeliefInv'
<1>1. /\ status[t] = "running" /\ csRecursion \in Nat /\ csOwner \notin Dead
      /\ inside \in [Threads -> Nat] /\ csOwner \in Threads \cup {NoThread}
      /\ status \in [Threads -> {"running", "parked", "stranded", "dead"}]
  BY DEF SectionInv, TypeOK, BeliefInv, EnterUncontended, StealFromDead, EnterContended,
         TryEnter, MayCall
<1>2. CASE EnterUncontended(t) \/ TryEnter(t)
  <2>1. csOwner = t => csRecursion > 0
    BY DEF BeliefInv
  <2>2. /\ csOwner \in {NoThread, t} /\ csOwner' = t
        /\ csRecursion' = IF csOwner = t THEN csRecursion + 1 ELSE 1
        /\ inside' = [inside EXCEPT ![t] = @ + 1]
        /\ UNCHANGED <<lockSemaphore, cvQueue, status, suspended>>
    <3>1. CASE EnterUncontended(t)
      BY <3>1 DEF EnterUncontended, cvVars
    <3>2. CASE TryEnter(t)
      BY <1>1, <2>1, <3>2 DEF TryEnter, cvVars
    <3> QED BY <1>2, <3>1, <3>2
  <2>3. \A u \in Threads : inside'[u] = IF csOwner' = u THEN csRecursion' ELSE 0
    BY <1>1, <2>2, CsConstants DEF BeliefInv
  <2> QED BY <1>1, <2>2, <2>3 DEF BeliefInv, Dead
<1>3. CASE StealFromDead(t)
  BY <1>1, <1>3 DEF StealFromDead
<1>4. CASE EnterContended(t)
  <2>1. /\ UNCHANGED <<csOwner, csRecursion, lockSemaphore, cvQueue, suspended, inside>>
        /\ status' = [status EXCEPT ![t] = "parked"]
    BY <1>4 DEF EnterContended, BeliefInv, ownership, cvVars
  <2> QED BY <1>1, <2>1 DEF BeliefInv, Dead
<1> QED BY <1>2, <1>3, <1>4

LEMMA BeliefInvStepLeave ==
    ASSUME SectionInv, BeliefInv, NEW t \in Threads,
           LeaveForeign(t) \/ LeaveInner(t) \/ LeaveOuter(t) \/ Reinitialize(t)
    PROVE  BeliefInv'
<1>1. /\ status[t] = "running" /\ csRecursion \in Nat
      /\ inside \in [Threads -> Nat] /\ csOwner \in Threads \cup {NoThread}
      /\ status \in [Threads -> {"running", "parked", "stranded", "dead"}]
  BY DEF SectionInv, TypeOK, LeaveForeign, LeaveInner, LeaveOuter, Reinitialize, MayCall
<1>2. CASE LeaveForeign(t)
  BY <1>2 DEF LeaveForeign, BeliefInv, Dead, csVars, ownership, cvVars
<1>3. CASE LeaveInner(t)
  <2>1. /\ inside[t] > 0 /\ csRecursion > 1 /\ csRecursion' = csRecursion - 1
        /\ inside' = [inside EXCEPT ![t] = @ - 1]
        /\ UNCHANGED <<csOwner, lockSemaphore, cvQueue, status, suspended>>
    BY <1>3 DEF LeaveInner, cvVars
  <2>2. csOwner = t
    BY <2>1 DEF BeliefInv
  <2>3. \A u \in Threads : inside'[u] = IF csOwner' = u THEN csRecursion' ELSE 0
    BY <1>1, <2>1, <2>2 DEF BeliefInv
  <2> QED BY <1>1, <2>1, <2>3 DEF BeliefInv, Dead
<1>4. CASE LeaveOuter(t)
  <2>1. PICK heir \in Heirs(csQueue) :
          /\ OwnershipPasses(heir, csQueue) /\ HeirLeaves(heir, csQueue)
          /\ Return({heir} \ {NoThread}, status, [inside EXCEPT ![t] = @ - 1])
    BY <1>4 DEF LeaveOuter
  <2>2. inside[t] > 0 /\ csRecursion <= 1 /\ UNCHANGED <<cvQueue, suspended>>
    BY <1>4 DEF LeaveOuter, cvVars
  <2>3. csOwner = t /\ inside[t] = 1 /\ \A u \in Threads : u # t => inside[u] = 0
    BY <1>1, <2>2 DEF BeliefInv
  <2>4. ToSet(csQueue) \subseteq Threads /\ \A u \in ToSet(csQueue) : status[u] = "parked"
    BY DEF SectionInv, QueuesExact
  <2>5. /\ lockSemaphore' = FALSE
        /\ heir # NoThread => heir \in ToSet(csQueue) /\ csOwner' = heir /\ csRecursion' = 1
        /\ heir = NoThread => csOwner' = NoThread
    BY <2>1, CleanHandOver DEF BeliefInv, SectionInv, TypeOK
  <2>6. /\ status' = [u \in Threads |-> IF u \in {heir} \ {NoThread} THEN "running" ELSE status[u]]
        /\ inside' = [u \in Threads |-> IF u \in {heir} \ {NoThread}
                                         THEN [inside EXCEPT ![t] = @ - 1][u] + 1
                                         ELSE [inside EXCEPT ![t] = @ - 1][u]]
    BY <2>1 DEF Return
  <2>7. \A u \in Threads : [inside EXCEPT ![t] = @ - 1][u] = 0
    BY <1>1, <2>3
  <2>8. CASE heir = NoThread
    BY <2>2, <2>5, <2>6, <2>7, <2>8, CsConstants DEF BeliefInv, Dead
  <2>9. CASE heir # NoThread
    <3>1. heir \in Threads /\ status'[heir] = "running" /\ csOwner' = heir
      BY <2>4, <2>5, <2>6, <2>9
    <3>2. \A u \in Threads : inside'[u] = IF csOwner' = u THEN csRecursion' ELSE 0
      BY <2>5, <2>6, <2>7, <2>9
    <3> QED BY <2>2, <2>5, <2>9, <3>1, <3>2 DEF BeliefInv, Dead
  <2> QED BY <2>8, <2>9
<1>5. CASE Reinitialize(t)
  <2>1. /\ csOwner' = NoThread /\ lockSemaphore' = FALSE
        /\ \A u \in Threads \ Dead : inside[u] = 0
        /\ UNCHANGED <<cvQueue, status, suspended, inside>>
    BY <1>5 DEF Reinitialize, cvVars
  <2>2. \A u \in Threads : inside[u] = 0
    BY <2>1 DEF BeliefInv
  <2> QED BY <2>1, <2>2, CsConstants DEF BeliefInv, Dead
<1> QED BY <1>2, <1>3, <1>4, <1>5

LEMMA BeliefInvStepTerminate ==
    ASSUME SectionInv, BeliefInv, NEW t \in Threads, Terminate(t)
    PROVE  BeliefInv'
<1> DEFINE queue == Without(csQueue, t)
           dead == [status EXCEPT ![t] = "dead"]
           beliefs == [inside EXCEPT ![t] = 0]
<1>1. /\ csRecursion \in Nat /\ csQueue \in Seq(Threads) /\ IsInjective(csQueue)
      /\ inside \in [Threads -> Nat] /\ csOwner \in Threads \cup {NoThread}
      /\ status \in [Threads -> {"running", "parked", "stranded", "dead"}]
  BY DEF SectionInv, TypeOK, QueuesExact
<1>2. /\ queue \in Seq(Threads)
      /\ \A u \in ToSet(queue) : u \in Threads \ {t} /\ status[u] = "parked"
  BY <1>1, WithoutSet DEF SectionInv, QueuesExact
<1>3. suspended' = {} /\ cvQueue' = <<>>
  BY HeadInQueue DEF Terminate, BeliefInv, Without, ToSet
<1>4. CASE csOwner = t
  <2> HIDE DEF queue
  <2>1. PICK heir \in Heirs(queue) :
          /\ OwnershipPasses(heir, queue) /\ HeirLeaves(heir, queue)
          /\ Return({heir} \ {NoThread}, dead, beliefs)
    BY <1>4 DEF Terminate, queue
  <2>2. /\ lockSemaphore' = FALSE
        /\ heir # NoThread => heir \in ToSet(queue) /\ csOwner' = heir /\ csRecursion' = 1
        /\ heir = NoThread => csOwner' = NoThread
    BY <1>2, <2>1, CleanHandOver DEF BeliefInv
  <2>3. /\ status' = [u \in Threads |-> IF u \in {heir} \ {NoThread} THEN "running" ELSE dead[u]]
        /\ inside' = [u \in Threads |-> IF u \in {heir} \ {NoThread}
                                         THEN beliefs[u] + 1 ELSE beliefs[u]]
    BY <2>1 DEF Return
  <2>4. \A u \in Threads : beliefs[u] = 0
    BY <1>1, <1>4 DEF BeliefInv
  <2>5. CASE heir = NoThread
    BY <1>3, <2>2, <2>3, <2>4, <2>5, CsConstants DEF BeliefInv, Dead
  <2>6. CASE heir # NoThread
    <3>1. heir \in Threads /\ status'[heir] = "running" /\ csOwner' = heir
      BY <1>2, <2>2, <2>3, <2>6
    <3>2. \A u \in Threads : inside'[u] = IF csOwner' = u THEN csRecursion' ELSE 0
      BY <2>2, <2>3, <2>4, <2>6
    <3> QED BY <1>3, <2>2, <2>6, <3>1, <3>2 DEF BeliefInv, Dead
  <2> QED BY <2>5, <2>6
<1>5. CASE csOwner # t
  <2>1. status' = dead /\ inside' = beliefs /\ UNCHANGED <<csOwner, csRecursion, lockSemaphore>>
    BY <1>5 DEF Terminate, ownership
  <2>2. \A u \in Threads : inside'[u] = IF csOwner' = u THEN csRecursion' ELSE 0
    BY <1>1, <1>5, <2>1 DEF BeliefInv
  <2> QED BY <1>1, <1>3, <1>5, <2>1, <2>2 DEF BeliefInv, Dead
<1> QED BY <1>4, <1>5

\* A guest that suspends nobody leaves the event signalled never.
AwakeInv ==
    ~guest.suspends =>
        /\ suspended = {} /\ lockSemaphore = FALSE
        /\ \A t \in Threads : status[t] # "stranded"

LEMMA AwakeInvInit == Init => AwakeInv
BY DEF Init, AwakeInv

LEMMA HeirLeavesClean ==
    ASSUME suspended = {}, lockSemaphore = FALSE,
           NEW queue \in Seq(Threads), NEW heir \in Heirs(queue), HeirLeaves(heir, queue)
    PROVE  lockSemaphore' = FALSE
<1>1. heir = NoThread => queue = <<>>
  BY HeirIsAwake, HeadInQueue
<1> QED BY <1>1 DEF HeirLeaves

LEMMA AwakeInvStep == SectionInv /\ AwakeInv /\ [Next]_vars => AwakeInv'
<1> SUFFICES ASSUME SectionInv, AwakeInv, [Next]_vars, ~guest'.suspends
             PROVE  /\ suspended' = {} /\ lockSemaphore' = FALSE
                    /\ \A t \in Threads : status'[t] # "stranded"
  BY DEF AwakeInv
<1>1. guest' = guest
  BY DEF Next, vars
<1>2. /\ suspended = {} /\ lockSemaphore = FALSE
      /\ \A t \in Threads : status[t] # "stranded"
      /\ csQueue \in Seq(Threads) /\ IsInjective(csQueue)
      /\ status \in [Threads -> {"running", "parked", "stranded", "dead"}]
  BY <1>1 DEF AwakeInv, SectionInv, TypeOK, QueuesExact
<1>3. CASE UNCHANGED vars
  BY <1>2, <1>3 DEF vars, csVars
<1>4. ASSUME NEW t \in Threads,
             \/ EnterUncontended(t) \/ StealFromDead(t) \/ RecoverFromReaped(t) \/ TryEnter(t)
             \/ LeaveForeign(t) \/ LeaveInner(t) \/ Reinitialize(t)
      PROVE  suspended' = suspended /\ status' = status /\ lockSemaphore' = FALSE
  BY <1>2, <1>4 DEF EnterUncontended, StealFromDead, RecoverFromReaped, TryEnter,
                    LeaveForeign, LeaveInner, Reinitialize, csVars
<1>5. ASSUME NEW t \in Threads, EnterContended(t)
      PROVE  suspended' = suspended /\ lockSemaphore' = FALSE
             /\ \A u \in Threads : status'[u] # "stranded"
  BY <1>2, <1>5 DEF EnterContended
<1>6. ASSUME NEW t \in Threads, NEW timeout,
             LeaveOuter(t) \/ Sleep(t, timeout) \/ SleepOutside(t, timeout)
      PROVE  suspended' = suspended /\ lockSemaphore' = FALSE
             /\ \A u \in Threads : status'[u] # "stranded"
  <2>1. suspended' = suspended
    BY <1>6 DEF LeaveOuter, Sleep, SleepOutside
  <2>2. \A u \in Threads : status'[u] # "stranded"
    BY <1>2, <1>6 DEF LeaveOuter, Sleep, SleepOutside, Return
  <2>3. lockSemaphore' = FALSE
    <3>1. CASE SleepOutside(t, timeout)
      BY <1>2, <3>1 DEF SleepOutside
    <3>2. CASE LeaveOuter(t) \/ Sleep(t, timeout)
      <4>1. PICK heir \in Heirs(csQueue) : HeirLeaves(heir, csQueue)
        BY <3>2 DEF LeaveOuter, Sleep
      <4> QED BY <1>2, <4>1, HeirLeavesClean
    <3> QED BY <1>6, <3>1, <3>2
  <2> QED BY <2>1, <2>2, <2>3
<1>7. ASSUME NEW t \in Threads,
             WakeConditionVariable(t) \/ WakeAllConditionVariable(t) \/ SleepTimesOut(t)
      PROVE  suspended' = suspended /\ lockSemaphore' = FALSE
             /\ \A u \in Threads : status'[u] # "stranded"
  BY <1>2, <1>7 DEF WakeConditionVariable, WakeAllConditionVariable, SleepTimesOut,
                    WakeSleepers, Return
<1>8. ASSUME NEW t \in Threads PROVE ~(Suspend(t) \/ ResumeParked(t) \/ Resume(t))
  BY <1>1, <1>2 DEF Suspend, ResumeParked, Resume
<1>9. ASSUME NEW t \in Threads, Terminate(t)
      PROVE  suspended' = {} /\ lockSemaphore' = FALSE
             /\ \A u \in Threads : status'[u] # "stranded"
  <2>1. suspended' = {}
    BY <1>2, <1>9 DEF Terminate
  <2>2. \A u \in Threads : status'[u] # "stranded"
    BY <1>2, <1>9 DEF Terminate, Return
  <2>3. lockSemaphore' = FALSE
    <3>1. CASE csOwner # t
      BY <1>2, <1>9, <3>1 DEF Terminate
    <3>2. CASE csOwner = t
      <4>1. Without(csQueue, t) \in Seq(Threads)
        BY <1>2, WithoutSet
      <4>2. PICK heir \in Heirs(Without(csQueue, t)) : HeirLeaves(heir, Without(csQueue, t))
        BY <1>9, <3>2 DEF Terminate
      <4> QED BY <1>2, <4>1, <4>2, HeirLeavesClean
    <3> QED BY <3>1, <3>2
  <2> QED BY <2>1, <2>2, <2>3
<1>10. ASSUME Next
       PROVE  suspended' = {} /\ lockSemaphore' = FALSE
              /\ \A u \in Threads : status'[u] # "stranded"
  <2>1. PICK t \in guest.threads :
        \/ EnterUncontended(t) \/ StealFromDead(t) \/ RecoverFromReaped(t)
        \/ EnterContended(t) \/ TryEnter(t)
        \/ LeaveForeign(t) \/ LeaveInner(t) \/ LeaveOuter(t) \/ Reinitialize(t)
        \/ \E timeout \in guest.sleeps : Sleep(t, timeout) \/ SleepOutside(t, timeout)
        \/ WakeConditionVariable(t) \/ WakeAllConditionVariable(t) \/ SleepTimesOut(t)
        \/ Suspend(t) \/ ResumeParked(t) \/ Resume(t) \/ Terminate(t)
    BY <1>10 DEF Next
  <2>2. t \in Threads
    BY CsConstants DEF SectionInv, TypeOK
  <2> QED BY <1>2, <1>4, <1>5, <1>6, <1>7, <1>8, <1>9, <2>1, <2>2
<1> QED BY <1>3, <1>2, <1>10

\* Of a plain guest, BeliefInv is inductive, and only a LeaveCriticalSection
\* that finds another owner reports the guard.
PlainInv == PlainGuest => BeliefInv /\ ~crashed

LEMMA PlainInvInit == Init => PlainInv
BY BeliefInvInit DEF Init, PlainInv

LEMMA PlainInvStep == SectionInv /\ PlainInv /\ [Next]_vars => PlainInv'
<1> SUFFICES ASSUME SectionInv, PlainInv, [Next]_vars, PlainGuest'
             PROVE  BeliefInv' /\ ~crashed'
  BY DEF PlainInv
<1>1. PlainGuest /\ BeliefInv /\ ~crashed
  BY DEF Next, vars, PlainGuest, PlainInv
<1>2. CASE UNCHANGED vars
  BY <1>1, <1>2 DEF BeliefInv, Dead, vars, csVars, ownership, cvVars
<1>3. CASE Next
  <2>1. PICK t \in guest.threads :
        \/ EnterUncontended(t) \/ StealFromDead(t) \/ RecoverFromReaped(t)
        \/ EnterContended(t) \/ TryEnter(t)
        \/ LeaveForeign(t) \/ LeaveInner(t) \/ LeaveOuter(t) \/ Reinitialize(t)
        \/ \E timeout \in guest.sleeps : Sleep(t, timeout) \/ SleepOutside(t, timeout)
        \/ WakeConditionVariable(t) \/ WakeAllConditionVariable(t) \/ SleepTimesOut(t)
        \/ Suspend(t) \/ ResumeParked(t) \/ Resume(t) \/ Terminate(t)
    BY <1>3 DEF Next
  <2>8. t \in Threads
    BY CsConstants DEF SectionInv, TypeOK
  <2>2. ~(WakeConditionVariable(t) \/ WakeAllConditionVariable(t))
    BY <1>1 DEF BeliefInv, WakeConditionVariable, WakeAllConditionVariable
  <2>3. ~SleepTimesOut(t)
    <3>1. ToSet(cvQueue) = {}
      BY <1>1 DEF BeliefInv, ToSet
    <3> QED BY <3>1 DEF SectionInv, QueuesExact, SleepTimesOut
  <2>4. ~(Suspend(t) \/ ResumeParked(t) \/ Resume(t) \/ RecoverFromReaped(t))
    BY <1>1 DEF BeliefInv, PlainGuest, Suspend, ResumeParked, Resume, RecoverFromReaped
  <2>5. ~LeaveForeign(t)
    BY <1>1, <2>8 DEF SectionInv, TypeOK, BeliefInv, LeaveForeign
  <2>6. \/ EnterUncontended(t) \/ StealFromDead(t) \/ EnterContended(t) \/ TryEnter(t)
        \/ LeaveInner(t) \/ LeaveOuter(t) \/ Reinitialize(t) \/ Terminate(t)
    BY <1>1, <2>1, <2>2, <2>3, <2>4, <2>5 DEF PlainGuest
  <2>7. crashed' = crashed
    BY <2>6 DEF EnterUncontended, StealFromDead, EnterContended, TryEnter, LeaveInner,
                LeaveOuter, Reinitialize, Terminate
  <2> QED BY <1>1, <2>6, <2>7, <2>8, BeliefInvStepEnter, BeliefInvStepLeave, BeliefInvStepTerminate
<1> QED BY <1>2, <1>3

(* Mutual exclusion: when the guest suspends no thread and sleeps on no    *)
(* condition variable, at most one thread is inside, whatever is           *)
(* preempted, contended, stolen from the dead or killed.                   *)
THEOREM SectionExclusive == Spec => []CsExclusion
<1>1. SectionInv /\ PlainInv => CsExclusion
  BY DEF PlainInv, BeliefInv, SectionInv, TypeOK, CsExclusion
<1> QED BY <1>1, SectionInvInit, SectionInvStep, PlainInvInit, PlainInvStep, PTL DEF Spec

(* The section of such a guest says who is inside, its recursion count is  *)
(* the number of Leaves still to come, and no Leave finds a foreign owner. *)
THEOREM SectionTellsOwner == Spec => [](OwnerIsInside /\ PlainInv)
<1>1. SectionInv /\ PlainInv => OwnerIsInside
  BY DEF PlainInv, BeliefInv, SectionInv, TypeOK, OwnerIsInside
<1> QED BY <1>1, SectionInvInit, SectionInvStep, PlainInvInit, PlainInvStep, PTL DEF Spec

(* A guest that suspends no thread is never sent to the spin loop by an    *)
(* Enter that took the section: the event is never left signalled.         *)
THEOREM EnterComesBack == Spec => []EnterReturns
<1>1. AwakeInv => EnterReturns
  BY DEF AwakeInv, EnterReturns
<1> QED BY <1>1, SectionInvInit, SectionInvStep, AwakeInvInit, AwakeInvStep, PTL DEF Spec
=============================================================================
