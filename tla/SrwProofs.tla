------------------------------ MODULE SrwProofs ------------------------------
(***************************************************************************)
(* What holds of a reader/writer lock for any number of threads.  LockInv  *)
(* is inductive: types, exact queues, a record that is coherent, and no    *)
(* thread asleep on a free lock.  The agreement of the record with what    *)
(* the guest rightly believes is proved from it.                           *)
(***************************************************************************)
EXTENDS SrwLocks, ThreadQueueLemmas

\* A lock record has readers exactly when it says so.
Coherent(l) == l.mode = "shared" <=> l.sharedHolders # {}

\* A parked thread knows in which mode it is to be granted the lock.
ParkedWant == \A t \in Threads : status[t] = "parked" => wanted[t] # "none"

LockInv == TypeOK /\ QueuesExact /\ NoSleepOnFreeLock /\ Coherent(lock) /\ ParkedWant

-----------------------------------------------------------------------------
(* The lock record.                                                        *)

LEMMA AcquiredRecord ==
    ASSUME NEW l \in LockRecords, Coherent(l), NEW t \in Threads,
           NEW mode \in {"shared", "exclusive"}, Grantable(l, t, mode)
    PROVE  /\ Acquired(l, t, mode) \in LockRecords
           /\ Coherent(Acquired(l, t, mode))
           /\ Acquired(l, t, mode).mode = mode
           /\ mode = "exclusive" => Acquired(l, t, mode).exclusiveOwner = t
           /\ mode = "shared" => Acquired(l, t, mode).sharedHolders = l.sharedHolders \cup {t}
<1>1. CASE mode = "exclusive"
  BY <1>1 DEF LockRecords, Coherent, Grantable, Acquired
<1>2. CASE mode = "shared"
  BY <1>2 DEF LockRecords, Coherent, Grantable, Acquired
<1> QED BY <1>1, <1>2

\* Whoever cannot have the lock finds it held.
LEMMA RefusedWhenHeld ==
    ASSUME NEW l \in LockRecords, Coherent(l), NEW t \in Threads,
           NEW mode \in {"shared", "exclusive"}, ~Grantable(l, t, mode)
    PROVE  l.mode # "free"
BY DEF LockRecords, Coherent, Grantable

LEMMA ReleasedRecord ==
    ASSUME NEW l \in LockRecords, Coherent(l), NEW t \in Threads,
           NEW mode \in {"shared", "exclusive"}
    PROVE  Released(l, t, mode) \in LockRecords /\ Coherent(Released(l, t, mode))
<1>1. CASE mode = "exclusive"
  BY <1>1 DEF LockRecords, Coherent, Released, FreeLock
<1>2. CASE mode = "shared" /\ l.mode = "shared" /\ t \in l.sharedHolders
  <2>1. Released(l, t, mode) =
          [l EXCEPT !.sharedHolders = @ \ {t},
                    !.mode = IF l.sharedHolders = {t} THEN "free" ELSE "shared"]
    BY <1>2 DEF Released
  <2>2. l.sharedHolders \ {t} = {} <=> l.sharedHolders = {t}
    BY <1>2
  <2> QED BY <2>1, <2>2 DEF LockRecords, Coherent
<1>3. CASE mode = "shared" /\ ~(l.mode = "shared" /\ t \in l.sharedHolders)
  BY <1>3 DEF Released
<1> QED BY <1>1, <1>2, <1>3

-----------------------------------------------------------------------------
(* Giving the lock up, and getting it.                                     *)

\* A release lets through the oldest waiter that is not suspended, if it
\* frees the lock; if it leaves the lock free, then only suspended threads
\* wait, and they will find the event signalled.
LEMMA HandOver ==
    ASSUME LockInv, NEW l \in LockRecords, Coherent(l),
           NEW heir \in Heirs(l), Signal(l, heir)
    PROVE  /\ heir # NoThread => heir \in ToSet(srwQueue) /\ l.mode = "free"
           /\ Inherited(l, heir) \in LockRecords /\ Coherent(Inherited(l, heir))
           /\ srwQueue' \in Seq(Threads) /\ IsInjective(srwQueue')
           /\ ToSet(srwQueue') = ToSet(srwQueue) \ {heir}
           /\ waitEvent' \in BOOLEAN
           /\ Inherited(l, heir).mode = "free" =>
                \A t \in ToSet(srwQueue') : t \in suspended /\ waitEvent'
<1>1. srwQueue \in Seq(Threads) /\ IsInjective(srwQueue) /\ ToSet(srwQueue) \subseteq Threads
  BY DEF LockInv, TypeOK, QueuesExact, ToSet
<1>2. /\ FirstAwake(srwQueue, suspended) \subseteq ToSet(srwQueue) \ suspended
      /\ FirstAwake(srwQueue, suspended) = {} => ToSet(srwQueue) \subseteq suspended
  BY <1>1, FirstAwakeIsAwake
<1>3. /\ heir # NoThread => heir \in ToSet(srwQueue) /\ Frees(l)
      /\ heir = NoThread /\ Frees(l) => ToSet(srwQueue) \subseteq suspended
  BY <1>1, <1>2, SrwConstants DEF Heirs
<1>4. /\ srwQueue' \in Seq(Threads) /\ IsInjective(srwQueue')
      /\ ToSet(srwQueue') = ToSet(srwQueue) \ {heir}
  BY <1>1, WithoutSet DEF Signal
<1>5. waitEvent' \in BOOLEAN
  BY DEF Signal, LockInv, TypeOK
<1>6. CASE heir # NoThread
  <2>1. heir \in Threads /\ l.mode = "free" /\ wanted[heir] \in {"shared", "exclusive"}
    BY <1>1, <1>3, <1>6 DEF Frees, LockInv, ParkedWant, TypeOK, QueuesExact
  <2>2. Grantable(l, heir, wanted[heir])
    BY <2>1 DEF Grantable, Coherent
  <2>3. /\ Inherited(l, heir) \in LockRecords /\ Coherent(Inherited(l, heir))
        /\ Inherited(l, heir).mode # "free"
    BY <1>6, <2>1, <2>2, AcquiredRecord DEF Inherited
  <2> QED BY <1>3, <1>4, <1>5, <2>1, <2>3
<1>7. CASE heir = NoThread
  <2>1. Inherited(l, heir) = l
    BY <1>7 DEF Inherited
  <2>2. ASSUME l.mode = "free", NEW t \in ToSet(srwQueue') PROVE t \in suspended /\ waitEvent'
    <3>1. t \in ToSet(srwQueue) /\ srwQueue # <<>>
      BY <1>1, <1>4, HeadInQueue
    <3>2. CASE Frees(l)
      BY <1>3, <1>7, <3>1, <3>2 DEF Signal
    <3>3. CASE ~Frees(l)
      BY <2>2, <3>1, <3>3 DEF Signal, Frees, LockInv, NoSleepOnFreeLock
    <3> QED BY <3>2, <3>3
  <2> QED BY <1>3, <1>4, <1>5, <1>7, <2>1, <2>2
<1> QED BY <1>6, <1>7

\* The thread that is woken has the lock, or is queued on a lock that is held.
LEMMA Woken ==
    ASSUME LockInv, NEW t \in Threads, status[t] = "parked",
           NEW rest \in Seq(Threads), IsInjective(rest), t \notin ToSet(rest), Wake(t, rest)
    PROVE  /\ lock' \in LockRecords /\ Coherent(lock') /\ lock'.mode # "free"
           /\ srwQueue' \in Seq(Threads) /\ IsInjective(srwQueue')
           /\ wanted[t] \in {"shared", "exclusive"}
           /\ \/ /\ ToSet(srwQueue') = ToSet(rest)
                 /\ status' = [status EXCEPT ![t] = "running"]
                 /\ holds' = [holds EXCEPT ![t] = wanted[t]]
                 /\ Grantable(lock, t, wanted[t]) /\ lock' = Acquired(lock, t, wanted[t])
              \/ /\ ToSet(srwQueue') = ToSet(rest) \cup {t}
                 /\ UNCHANGED <<lock, status, holds>>
<1>1. /\ lock \in LockRecords /\ Coherent(lock) /\ wanted[t] \in {"shared", "exclusive"}
      /\ status \in [Threads -> {"running", "parked", "dead"}]
      /\ holds \in [Threads -> {"none", "shared", "exclusive"}]
  BY DEF LockInv, TypeOK, ParkedWant
<1>2. CASE Grantable(lock, t, wanted[t])
  <2>1. /\ lock' = Acquired(lock, t, wanted[t]) /\ srwQueue' = rest
        /\ status' = [u \in Threads |-> IF u \in {t} THEN "running" ELSE status[u]]
        /\ holds' = [u \in Threads |-> IF u \in {t} THEN wanted[u] ELSE holds[u]]
    BY <1>2 DEF Wake, Return
  <2>2. /\ status' = [status EXCEPT ![t] = "running"]
        /\ holds' = [holds EXCEPT ![t] = wanted[t]]
    BY <1>1, <2>1
  <2>3. /\ Acquired(lock, t, wanted[t]) \in LockRecords
        /\ Coherent(Acquired(lock, t, wanted[t]))
        /\ Acquired(lock, t, wanted[t]).mode # "free"
    BY <1>1, <1>2, AcquiredRecord
  <2> QED BY <1>1, <1>2, <2>1, <2>2, <2>3
<1>3. CASE ~Grantable(lock, t, wanted[t])
  <2>1. srwQueue' = Append(rest, t) /\ UNCHANGED <<lock, status, holds>>
    BY <1>3 DEF Wake
  <2>2. lock.mode # "free"
    BY <1>1, <1>3, RefusedWhenHeld
  <2> QED BY <1>1, <2>1, <2>2, AppendSet
<1> QED BY <1>2, <1>3

-----------------------------------------------------------------------------
(* LockInv is inductive.                                                   *)

LEMMA LockInvInit == Init => LockInv
<1> SUFFICES ASSUME Init PROVE LockInv
  OBVIOUS
<1>1. /\ ToSet(srwQueue) = {} /\ ToSet(cvQueue) = {}
      /\ IsInjective(srwQueue) /\ IsInjective(cvQueue)
  BY DEF Init, ToSet, IsInjective
<1>2. TypeOK
  <2>1. <<>> \in Seq(Threads) /\ lock \in LockRecords
    BY DEF Init, FreeLock, LockRecords
  <2>2. /\ wanted \in [Threads -> {"none", "shared", "exclusive"}]
        /\ status \in [Threads -> {"running", "parked", "dead"}]
        /\ holds \in [Threads -> {"none", "shared", "exclusive"}]
    BY DEF Init
  <2> QED BY <2>1, <2>2 DEF Init, TypeOK
<1>3. QueuesExact /\ NoSleepOnFreeLock
  BY <1>1 DEF Init, QueuesExact, NoSleepOnFreeLock
<1>4. Coherent(lock) /\ ParkedWant
  BY DEF Init, FreeLock, Coherent, ParkedWant
<1> QED BY <1>2, <1>3, <1>4 DEF LockInv

\* QueuesExact, thread by thread.
LEMMA QueuesPointwise ==
    ASSUME LockInv
    PROVE  /\ \A u \in Threads : ~(u \in ToSet(srwQueue) /\ u \in ToSet(cvQueue))
           /\ \A u \in Threads : u \in ToSet(srwQueue) \/ u \in ToSet(cvQueue)
                                  <=> status[u] = "parked"
           /\ ToSet(srwQueue) \subseteq Threads /\ ToSet(cvQueue) \subseteq Threads
BY DEF LockInv, QueuesExact, TypeOK, ToSet

LEMMA LockInvStepAcquire ==
    ASSUME LockInv, NEW t \in Threads, NEW mode \in Modes,
           Acquire(t, mode) \/ AcquireContended(t, mode)
    PROVE  LockInv'
<1>1. /\ mode \in {"shared", "exclusive"} /\ lock \in LockRecords /\ Coherent(lock)
      /\ status \in [Threads -> {"running", "parked", "dead"}] /\ status[t] = "running"
      /\ holds \in [Threads -> {"none", "shared", "exclusive"}]
      /\ wanted \in [Threads -> {"none", "shared", "exclusive"}]
  BY SrwConstants DEF LockInv, TypeOK, Acquire, AcquireContended, MayCall
<1>2. CASE Acquire(t, mode)
  <2>1. /\ lock' = Acquired(lock, t, mode) /\ holds' = [holds EXCEPT ![t] = mode]
        /\ Grantable(lock, t, mode)
        /\ UNCHANGED <<waitEvent, srwQueue, cvQueue, cvTimers, wanted, waking, status, suspended,
                       lapsed>>
    BY <1>2 DEF Acquire, queueVars
  <2>2. lock' \in LockRecords /\ Coherent(lock') /\ lock'.mode # "free"
    BY <1>1, <2>1, AcquiredRecord
  <2>3. TypeOK'
    BY <1>1, <2>1, <2>2 DEF LockInv, TypeOK
  <2>4. QueuesExact' /\ NoSleepOnFreeLock' /\ ParkedWant'
    BY <2>1, <2>2 DEF LockInv, QueuesExact, NoSleepOnFreeLock, ParkedWant
  <2> QED BY <2>2, <2>3, <2>4 DEF LockInv
<1>3. CASE AcquireContended(t, mode)
  <2>1. /\ waitEvent' = FALSE /\ srwQueue' = Append(srwQueue, t)
        /\ wanted' = [wanted EXCEPT ![t] = mode] /\ status' = [status EXCEPT ![t] = "parked"]
        /\ UNCHANGED <<lock, cvQueue, cvTimers, waking, suspended, holds, lapsed>>
    BY <1>3 DEF AcquireContended
  <2>2. lock.mode # "free"
    BY <1>1, <1>3, RefusedWhenHeld DEF AcquireContended
  <2>3. t \notin ToSet(srwQueue) /\ t \notin ToSet(cvQueue)
    BY <1>1, QueuesPointwise
  <2>4. /\ srwQueue' \in Seq(Threads) /\ IsInjective(srwQueue')
        /\ ToSet(srwQueue') = ToSet(srwQueue) \cup {t}
    BY <2>1, <2>3, AppendSet DEF LockInv, TypeOK, QueuesExact
  <2>5. TypeOK'
    BY <1>1, <2>1, <2>4 DEF LockInv, TypeOK
  <2>6. QueuesExact'
    BY <1>1, <2>1, <2>3, <2>4 DEF LockInv, QueuesExact
  <2>7. NoSleepOnFreeLock' /\ Coherent(lock')
    BY <1>1, <2>1, <2>2 DEF NoSleepOnFreeLock
  <2>8. ParkedWant'
    BY <1>1, <2>1 DEF LockInv, ParkedWant
  <2> QED BY <2>5, <2>6, <2>7, <2>8 DEF LockInv
<1> QED BY <1>2, <1>3

LEMMA LockInvStepRelease ==
    ASSUME LockInv, NEW t \in Threads,
           Release(t) \/ SleepNotAtAll(t) \/ \E timeout \in Timeouts : Sleep(t, timeout)
    PROVE  LockInv'
<1> DEFINE freed == Released(lock, t, holds[t])
<1>1. /\ lock \in LockRecords /\ Coherent(lock)
      /\ status \in [Threads -> {"running", "parked", "dead"}] /\ status[t] = "running"
      /\ holds \in [Threads -> {"none", "shared", "exclusive"}] /\ holds[t] # "none"
      /\ wanted \in [Threads -> {"none", "shared", "exclusive"}]
      /\ cvQueue \in Seq(Threads) /\ IsInjective(cvQueue)
      /\ cvTimers \subseteq ToSet(cvQueue) /\ waking \subseteq ToSet(cvQueue)
      /\ lapsed' \subseteq Threads /\ UNCHANGED <<waking, suspended>>
  BY DEF LockInv, TypeOK, QueuesExact, Release, SleepNotAtAll, Sleep, MayCall
<1>2. freed \in LockRecords /\ Coherent(freed)
  BY <1>1, ReleasedRecord
<1> HIDE DEF freed
<1>3. ASSUME NEW heir \in Heirs(freed), Signal(freed, heir),
             \/ lock' = Inherited(freed, heir)
             \/ /\ Grantable(Inherited(freed, heir), t, holds[t])
                /\ lock' = Acquired(Inherited(freed, heir), t, holds[t]),
             NEW st \in [Threads -> {"running", "parked", "dead"}],
             NEW beliefs \in [Threads -> {"none", "shared", "exclusive"}],
             Return({heir} \ {NoThread}, st, beliefs),
             \/ st = status /\ UNCHANGED <<cvQueue, cvTimers, wanted>>
             \/ /\ st = [status EXCEPT ![t] = "parked"]
                /\ cvQueue' = Append(cvQueue, t) /\ cvTimers' \subseteq cvTimers \cup {t}
                /\ wanted' = [wanted EXCEPT ![t] = holds[t]]
      PROVE  LockInv'
  <2>1. /\ heir # NoThread => heir \in ToSet(srwQueue)
        /\ Inherited(freed, heir) \in LockRecords /\ Coherent(Inherited(freed, heir))
        /\ srwQueue' \in Seq(Threads) /\ IsInjective(srwQueue')
        /\ ToSet(srwQueue') = ToSet(srwQueue) \ {heir} /\ waitEvent' \in BOOLEAN
        /\ Inherited(freed, heir).mode = "free" =>
             \A u \in ToSet(srwQueue') : u \in suspended /\ waitEvent'
    BY <1>2, <1>3, HandOver
  <2>2. /\ lock' \in LockRecords /\ Coherent(lock')
        /\ lock'.mode = "free" => \A u \in ToSet(srwQueue') : u \in suspended /\ waitEvent'
    <3>1. CASE lock' = Inherited(freed, heir)
      BY <2>1, <3>1
    <3>2. CASE /\ Grantable(Inherited(freed, heir), t, holds[t])
               /\ lock' = Acquired(Inherited(freed, heir), t, holds[t])
      BY <1>1, <2>1, <3>2, AcquiredRecord
    <3> QED BY <1>3, <3>1, <3>2
  <2>3. /\ status' = [u \in Threads |-> IF u \in {heir} \ {NoThread} THEN "running" ELSE st[u]]
        /\ holds' = [u \in Threads |-> IF u \in {heir} \ {NoThread} THEN wanted[u] ELSE beliefs[u]]
    BY <1>3 DEF Return
  <2>4. t \notin ToSet(srwQueue) /\ t \notin ToSet(cvQueue)
    BY <1>1, QueuesPointwise
  <2>5. /\ cvQueue' \in Seq(Threads) /\ IsInjective(cvQueue')
        /\ cvTimers' \subseteq ToSet(cvQueue') /\ waking' \subseteq ToSet(cvQueue')
        /\ \/ st = status /\ ToSet(cvQueue') = ToSet(cvQueue) /\ wanted' = wanted
           \/ /\ st = [status EXCEPT ![t] = "parked"] /\ ToSet(cvQueue') = ToSet(cvQueue) \cup {t}
              /\ wanted' = [wanted EXCEPT ![t] = holds[t]]
    <3>1. CASE st = status /\ UNCHANGED <<cvQueue, cvTimers, wanted>>
      BY <1>1, <3>1
    <3>2. CASE /\ st = [status EXCEPT ![t] = "parked"]
               /\ cvQueue' = Append(cvQueue, t) /\ cvTimers' \subseteq cvTimers \cup {t}
               /\ wanted' = [wanted EXCEPT ![t] = holds[t]]
      <4>1. /\ cvQueue' \in Seq(Threads) /\ IsInjective(cvQueue')
            /\ ToSet(cvQueue') = ToSet(cvQueue) \cup {t}
        BY <1>1, <2>4, <3>2, AppendSet
      <4> QED BY <1>1, <3>2, <4>1
    <3> QED BY <1>3, <3>1, <3>2
  <2>6. ToSet(srwQueue') \subseteq Threads /\ ToSet(cvQueue') \subseteq Threads
    BY <2>1, <2>5 DEF ToSet
  <2>7. TypeOK'
    <3>1. /\ status' \in [Threads -> {"running", "parked", "dead"}]
          /\ holds' \in [Threads -> {"none", "shared", "exclusive"}]
          /\ wanted' \in [Threads -> {"none", "shared", "exclusive"}]
      BY <1>1, <2>3, <2>5
    <3> QED BY <1>1, <2>1, <2>2, <2>5, <2>6, <3>1 DEF LockInv, TypeOK
  <2>8. QueuesExact'
    <3>1. /\ \A u \in Threads : ~(u \in ToSet(srwQueue') /\ u \in ToSet(cvQueue'))
          /\ \A u \in Threads : u \in ToSet(srwQueue') \/ u \in ToSet(cvQueue')
                                 <=> status'[u] = "parked"
      BY <1>1, <2>1, <2>3, <2>4, <2>5, QueuesPointwise, SrwConstants
    <3> QED BY <2>1, <2>5, <2>6, <3>1 DEF QueuesExact
  <2>9. NoSleepOnFreeLock'
    BY <1>1, <2>2 DEF NoSleepOnFreeLock
  <2>10. ParkedWant'
    BY <1>1, <2>3, <2>5 DEF LockInv, ParkedWant
  <2> QED BY <2>2, <2>7, <2>8, <2>9, <2>10 DEF LockInv
<1>4. CASE Release(t)
  <2>1. PICK heir \in Heirs(freed) :
          /\ lock' = Inherited(freed, heir) /\ Signal(freed, heir)
          /\ Return({heir} \ {NoThread}, status, [holds EXCEPT ![t] = "none"])
    BY <1>4 DEF Release, freed
  <2>2. UNCHANGED <<cvQueue, cvTimers, wanted>>
    BY <1>4 DEF Release
  <2>3. [holds EXCEPT ![t] = "none"] \in [Threads -> {"none", "shared", "exclusive"}]
    BY <1>1
  <2> QED BY <1>1, <1>3, <2>1, <2>2, <2>3
<1>5. CASE SleepNotAtAll(t)
  <2>1. PICK heir \in Heirs(freed) :
          /\ lock' = IF Grantable(Inherited(freed, heir), t, holds[t])
                     THEN Acquired(Inherited(freed, heir), t, holds[t])
                     ELSE Inherited(freed, heir)
          /\ Signal(freed, heir)
          /\ Return({heir} \ {NoThread}, status, holds)
    BY <1>5 DEF SleepNotAtAll, freed
  <2>2. UNCHANGED <<cvQueue, cvTimers, wanted>>
    BY <1>5 DEF SleepNotAtAll
  <2> QED BY <1>1, <1>3, <2>1, <2>2
<1>6. ASSUME NEW timeout \in Timeouts, Sleep(t, timeout) PROVE LockInv'
  <2>1. PICK heir \in Heirs(freed) :
          /\ lock' = Inherited(freed, heir) /\ Signal(freed, heir)
          /\ Return({heir} \ {NoThread}, [status EXCEPT ![t] = "parked"],
                    [holds EXCEPT ![t] = "none"])
    BY <1>6 DEF Sleep, freed
  <2>2. /\ cvQueue' = Append(cvQueue, t) /\ cvTimers' \subseteq cvTimers \cup {t}
        /\ wanted' = [wanted EXCEPT ![t] = holds[t]]
    BY <1>6 DEF Sleep
  <2>3. /\ [holds EXCEPT ![t] = "none"] \in [Threads -> {"none", "shared", "exclusive"}]
        /\ [status EXCEPT ![t] = "parked"] \in [Threads -> {"running", "parked", "dead"}]
    BY <1>1
  <2> QED BY <1>3, <2>1, <2>2, <2>3
<1> QED BY <1>4, <1>5, <1>6

\* A sleeper on the condition variable that is woken by a call or a timeout.
LEMMA LockInvStepSleeper ==
    ASSUME LockInv, NEW t \in ToSet(cvQueue), WakeSleeper(t)
    PROVE  LockInv'
<1>1. /\ t \in Threads /\ status[t] = "parked" /\ t \notin ToSet(srwQueue)
      /\ srwQueue \in Seq(Threads) /\ IsInjective(srwQueue)
      /\ cvQueue \in Seq(Threads) /\ IsInjective(cvQueue)
      /\ status \in [Threads -> {"running", "parked", "dead"}]
      /\ holds \in [Threads -> {"none", "shared", "exclusive"}]
  BY QueuesPointwise DEF LockInv, TypeOK, QueuesExact
<1>2. /\ Wake(t, srwQueue) /\ cvQueue' = Without(cvQueue, t) /\ cvTimers' = cvTimers \ {t}
      /\ waking' = waking \ {t} /\ UNCHANGED <<waitEvent, wanted, suspended, lapsed>>
  BY DEF WakeSleeper
<1>3. /\ lock' \in LockRecords /\ Coherent(lock') /\ lock'.mode # "free"
      /\ srwQueue' \in Seq(Threads) /\ IsInjective(srwQueue')
      /\ wanted[t] \in {"shared", "exclusive"}
      /\ \/ /\ ToSet(srwQueue') = ToSet(srwQueue)
            /\ status' = [status EXCEPT ![t] = "running"]
            /\ holds' = [holds EXCEPT ![t] = wanted[t]]
         \/ ToSet(srwQueue') = ToSet(srwQueue) \cup {t} /\ UNCHANGED <<status, holds>>
  BY <1>1, <1>2, Woken
<1>4. /\ cvQueue' \in Seq(Threads) /\ IsInjective(cvQueue')
      /\ ToSet(cvQueue') = ToSet(cvQueue) \ {t}
  BY <1>1, <1>2, WithoutSet
<1>5. ToSet(srwQueue') \subseteq Threads /\ ToSet(cvQueue') \subseteq Threads
  BY <1>3, <1>4 DEF ToSet
<1>6. TypeOK'
  BY <1>1, <1>2, <1>3, <1>4 DEF LockInv, TypeOK
<1>7. QueuesExact'
  <2>1. /\ \A u \in Threads : ~(u \in ToSet(srwQueue') /\ u \in ToSet(cvQueue'))
        /\ \A u \in Threads : u \in ToSet(srwQueue') \/ u \in ToSet(cvQueue')
                               <=> status'[u] = "parked"
    BY <1>1, <1>3, <1>4, QueuesPointwise
  <2>2. cvTimers' \cup waking' \subseteq ToSet(cvQueue')
    BY <1>2, <1>4 DEF LockInv, QueuesExact
  <2> QED BY <1>3, <1>4, <1>5, <2>1, <2>2 DEF QueuesExact
<1>8. NoSleepOnFreeLock'
  BY <1>3 DEF NoSleepOnFreeLock
<1>9. ParkedWant'
  BY <1>1, <1>2, <1>3 DEF LockInv, ParkedWant
<1> QED BY <1>3, <1>6, <1>7, <1>8, <1>9 DEF LockInv

LEMMA LockInvStepThreads ==
    ASSUME LockInv, NEW t \in Threads,
           WakeAllConditionVariable(t) \/ Suspend(t) \/ Resume(t) \/ Terminate(t)
    PROVE  LockInv'
<1> USE DEF LockInv
<1>1. /\ status \in [Threads -> {"running", "parked", "dead"}]
      /\ srwQueue \in Seq(Threads) /\ IsInjective(srwQueue)
      /\ cvQueue \in Seq(Threads) /\ IsInjective(cvQueue)
  BY DEF TypeOK, QueuesExact
<1>2. CASE WakeAllConditionVariable(t)
  <2>1. /\ waking' = ToSet(cvQueue)
        /\ UNCHANGED <<lock, waitEvent, srwQueue, cvQueue, cvTimers, wanted, status,
                       suspended, holds, lapsed>>
    BY <1>2 DEF WakeAllConditionVariable, queueVars
  <2>2. TypeOK' /\ QueuesExact'
    BY <2>1, QueuesPointwise DEF TypeOK, QueuesExact
  <2> QED BY <2>1, <2>2 DEF NoSleepOnFreeLock, ParkedWant
<1>3. CASE Suspend(t)
  <2>1. /\ suspended' = suspended \cup {t}
        /\ UNCHANGED <<lock, waitEvent, srwQueue, cvQueue, cvTimers, wanted, waking, status,
                       holds, lapsed>>
    BY <1>3 DEF Suspend, queueVars
  <2>2. TypeOK' /\ QueuesExact'
    BY <2>1 DEF TypeOK, QueuesExact
  <2> QED BY <2>1, <2>2 DEF NoSleepOnFreeLock, ParkedWant
<1>4. CASE Resume(t) /\ t \in ToSet(srwQueue) /\ waitEvent
  <2> DEFINE rest == Without(srwQueue, t)
  <2>1. /\ suspended' = suspended \ {t} /\ waitEvent' = FALSE /\ Wake(t, rest)
        /\ UNCHANGED <<cvQueue, cvTimers, wanted, waking, lapsed>>
    BY <1>4 DEF Resume
  <2>2. /\ rest \in Seq(Threads) /\ IsInjective(rest) /\ ToSet(rest) = ToSet(srwQueue) \ {t}
    BY <1>1, WithoutSet
  <2>3. status[t] = "parked" /\ t \notin ToSet(cvQueue)
    BY <1>4, QueuesPointwise
  <2> HIDE DEF rest
  <2>4. /\ lock' \in LockRecords /\ Coherent(lock') /\ lock'.mode # "free"
        /\ srwQueue' \in Seq(Threads) /\ IsInjective(srwQueue')
        /\ wanted[t] \in {"shared", "exclusive"}
        /\ \/ /\ ToSet(srwQueue') = ToSet(rest)
              /\ status' = [status EXCEPT ![t] = "running"]
              /\ holds' = [holds EXCEPT ![t] = wanted[t]]
           \/ ToSet(srwQueue') = ToSet(rest) \cup {t} /\ UNCHANGED <<status, holds>>
    BY <2>1, <2>2, <2>3, Woken
  <2>5. ToSet(srwQueue') \subseteq Threads
    BY <2>4 DEF ToSet
  <2>6. TypeOK'
    BY <1>1, <2>1, <2>4 DEF TypeOK
  <2>7. QueuesExact'
    <3>1. /\ \A u \in Threads : ~(u \in ToSet(srwQueue') /\ u \in ToSet(cvQueue))
          /\ \A u \in Threads : u \in ToSet(srwQueue') \/ u \in ToSet(cvQueue)
                                 <=> status'[u] = "parked"
      BY <1>1, <1>4, <2>2, <2>3, <2>4, QueuesPointwise
    <3> QED BY <2>1, <2>4, <2>5, <3>1, QueuesPointwise DEF QueuesExact
  <2>8. NoSleepOnFreeLock'
    BY <2>4 DEF NoSleepOnFreeLock
  <2>9. ParkedWant'
    BY <1>1, <2>1, <2>4 DEF ParkedWant
  <2> QED BY <2>4, <2>6, <2>7, <2>8, <2>9
<1>5. CASE Resume(t) /\ ~(t \in ToSet(srwQueue) /\ waitEvent)
  <2>1. /\ suspended' = suspended \ {t}
        /\ UNCHANGED <<lock, waitEvent, srwQueue, cvQueue, cvTimers, wanted, waking, status,
                       holds, lapsed>>
    BY <1>5 DEF Resume
  <2>2. TypeOK' /\ QueuesExact'
    BY <2>1 DEF TypeOK, QueuesExact
  <2> QED BY <1>5, <2>1, <2>2 DEF NoSleepOnFreeLock, ParkedWant
<1>6. CASE Terminate(t)
  <2>1. /\ status' = [status EXCEPT ![t] = "dead"]
        /\ srwQueue' = Without(srwQueue, t) /\ cvQueue' = Without(cvQueue, t)
        /\ cvTimers' = cvTimers \ {t}
        /\ waking = {}
        /\ UNCHANGED <<lock, waitEvent, wanted, waking, suspended, holds, lapsed>>
    BY <1>6 DEF Terminate
  <2>2. /\ srwQueue' \in Seq(Threads) /\ IsInjective(srwQueue')
        /\ ToSet(srwQueue') = ToSet(srwQueue) \ {t}
    BY <1>1, <2>1, WithoutSet
  <2>3. /\ cvQueue' \in Seq(Threads) /\ IsInjective(cvQueue')
        /\ ToSet(cvQueue') = ToSet(cvQueue) \ {t}
    BY <1>1, <2>1, WithoutSet
  <2>4. TypeOK'
    BY <1>1, <2>1, <2>2, <2>3 DEF TypeOK
  <2>5. QueuesExact'
    BY <1>1, <2>1, <2>2, <2>3 DEF QueuesExact
  <2>6. NoSleepOnFreeLock' /\ ParkedWant'
    BY <1>1, <2>1, <2>2 DEF NoSleepOnFreeLock, ParkedWant
  <2> QED BY <2>1, <2>4, <2>5, <2>6
<1> QED BY <1>2, <1>3, <1>4, <1>5, <1>6

LEMMA LockInvStep == LockInv /\ [Next]_vars => LockInv'
<1> SUFFICES ASSUME LockInv, [Next]_vars PROVE LockInv'
  OBVIOUS
<1>1. CASE UNCHANGED vars
  BY <1>1 DEF LockInv, TypeOK, QueuesExact, NoSleepOnFreeLock, ParkedWant, vars, queueVars
<1>2. /\ cvQueue # <<>> => Head(cvQueue) \in ToSet(cvQueue)
      /\ waking \subseteq ToSet(cvQueue) /\ cvTimers \subseteq ToSet(cvQueue)
      /\ cvQueue = <<>> => ToSet(cvQueue) = {}
  BY HeadInQueue DEF LockInv, TypeOK, QueuesExact
<1>3. CASE WakeNext
  BY <1>2, <1>3, LockInvStepSleeper DEF WakeNext
<1>4. ASSUME NEW t \in Threads,
             \/ \E mode \in Modes : Acquire(t, mode) \/ AcquireContended(t, mode)
             \/ Release(t)
             \/ \E timeout \in Timeouts : Sleep(t, timeout)
             \/ "zero" \in Timeouts /\ SleepNotAtAll(t)
             \/ WakeConditionVariable(t) \/ WakeAllConditionVariable(t)
             \/ SleepTimesOut(t) \/ Suspend(t) \/ Resume(t) \/ Terminate(t)
      PROVE  LockInv'
  <2>1. CASE WakeConditionVariable(t)
    BY <1>2, <2>1, LockInvStepSleeper DEF WakeConditionVariable
  <2>2. CASE SleepTimesOut(t)
    BY <1>2, <2>2, LockInvStepSleeper DEF SleepTimesOut
  <2> QED BY <1>4, <2>1, <2>2, LockInvStepAcquire, LockInvStepRelease, LockInvStepThreads
<1> QED BY <1>1, <1>3, <1>4 DEF Next

(* Nobody is left parked on a free lock: each release that frees the lock  *)
(* signals its event, a sleeper that finds it taken queues up behind, and  *)
(* a suspended waiter finds the signal that passed it over.                *)
THEOREM NobodyAsleepOnFreeLock == Spec => []NoSleepOnFreeLock
<1>1. LockInv => NoSleepOnFreeLock
  BY DEF LockInv
<1> QED BY <1>1, LockInvInit, LockInvStep, PTL DEF Spec

(* A thread is in exactly one queue of a lock or a condition variable      *)
(* while it is parked, and in none otherwise.                              *)
THEOREM LockQueuesExact == Spec => []QueuesExact
<1>1. LockInv => QueuesExact
  BY DEF LockInv
<1> QED BY <1>1, LockInvInit, LockInvStep, PTL DEF Spec

-----------------------------------------------------------------------------
(* The record and the guest agree.                                         *)

\* HoldersExact, of a record l and beliefs h.
Agrees(l, h) ==
    /\ l.mode = "free" <=> \A t \in Threads : h[t] = "none"
    /\ \A t \in Threads :
         /\ h[t] = "exclusive" <=> l.mode = "exclusive" /\ l.exclusiveOwner = t
         /\ h[t] = "shared" <=> l.mode = "shared" /\ t \in l.sharedHolders

Beliefs == [Threads -> {"none", "shared", "exclusive"}]

\* Whoever is parked holds nothing.
ParkedHoldNothing == \A t \in Threads : status[t] = "parked" => holds[t] = "none"

LEMMA AgreesAcquired ==
    ASSUME NEW l \in LockRecords, Coherent(l), NEW h \in Beliefs, Agrees(l, h),
           NEW t \in Threads, h[t] = "none",
           NEW mode \in {"shared", "exclusive"}, Grantable(l, t, mode)
    PROVE  Agrees(Acquired(l, t, mode), [h EXCEPT ![t] = mode])
<1> DEFINE m == Acquired(l, t, mode)
           g == [h EXCEPT ![t] = mode]
<1>1. /\ g[t] = mode /\ \A u \in Threads : u # t => g[u] = h[u]
      /\ g \in Beliefs
  BY DEF Beliefs
<1>2. CASE mode = "exclusive"
  <2>1. l.mode = "free" /\ m.mode = "exclusive" /\ m.exclusiveOwner = t
    BY <1>2, AcquiredRecord DEF Grantable
  <2>2. \A u \in Threads : h[u] = "none"
    BY <2>1 DEF Agrees
  <2> QED BY <1>1, <1>2, <2>1, <2>2 DEF Agrees
<1>3. CASE mode = "shared"
  <2>1. m.mode = "shared" /\ m.sharedHolders = l.sharedHolders \cup {t} /\ l.mode # "exclusive"
    BY <1>3, AcquiredRecord DEF Grantable
  <2>2. l.mode = "free" => l.sharedHolders = {}
    BY DEF Coherent
  <2>3. l.mode = "free" \/ l.mode = "shared"
    BY <2>1 DEF LockRecords
  <2>4. \A u \in Threads : h[u] # "exclusive" /\ (h[u] = "shared" <=> u \in l.sharedHolders)
    BY <2>2, <2>3 DEF Agrees
  <2>5. \A u \in Threads : g[u] # "exclusive" /\ (g[u] = "shared" <=> u \in m.sharedHolders)
    BY <1>1, <1>3, <2>1, <2>4
  <2> QED BY <1>1, <1>3, <2>1, <2>5 DEF Agrees
<1> QED BY <1>2, <1>3

LEMMA AgreesReleased ==
    ASSUME NEW l \in LockRecords, Coherent(l), NEW h \in Beliefs, Agrees(l, h),
           NEW t \in Threads, NEW mode \in {"shared", "exclusive"}, h[t] \in {"none", mode}
    PROVE  Agrees(Released(l, t, mode), [h EXCEPT ![t] = "none"])
<1> DEFINE m == Released(l, t, mode)
           g == [h EXCEPT ![t] = "none"]
<1>1. /\ g[t] = "none" /\ \A u \in Threads : u # t => g[u] = h[u]
      /\ \A u \in Threads : h[u] \in {"none", "shared", "exclusive"}
  BY DEF Beliefs
<1>2. CASE h[t] = "exclusive"
  <2>1. l.mode = "exclusive" /\ l.exclusiveOwner = t
    BY <1>2 DEF Agrees
  <2>2. m = FreeLock
    BY <1>2, <2>1 DEF Released
  <2>3. \A u \in Threads : u # t => h[u] = "none"
    BY <1>1, <2>1 DEF Agrees
  <2> QED BY <1>1, <2>2, <2>3 DEF Agrees, FreeLock
<1>3. CASE h[t] = "shared"
  <2>1. l.mode = "shared" /\ t \in l.sharedHolders
    BY <1>3 DEF Agrees
  <2>2. m = [l EXCEPT !.sharedHolders = @ \ {t},
                      !.mode = IF l.sharedHolders = {t} THEN "free" ELSE "shared"]
    BY <1>3, <2>1 DEF Released
  <2>3. /\ m.mode = (IF l.sharedHolders = {t} THEN "free" ELSE "shared")
        /\ m.sharedHolders = l.sharedHolders \ {t}
    BY <2>2 DEF LockRecords
  <2>4. \A u \in Threads : h[u] # "exclusive" /\ (h[u] = "shared" <=> u \in l.sharedHolders)
    BY <2>1 DEF Agrees
  <2>5. \A u \in Threads : g[u] # "exclusive" /\ (g[u] = "shared" <=> u \in m.sharedHolders)
    BY <1>1, <2>3, <2>4
  <2>6. l.sharedHolders \subseteq Threads
    BY DEF LockRecords
  <2>7. m.mode = "free" <=> \A u \in Threads : g[u] = "none"
    BY <1>1, <2>1, <2>3, <2>5, <2>6
  <2> QED BY <2>3, <2>5, <2>7 DEF Agrees
<1>4. CASE h[t] = "none"
  <2>1. /\ ~(mode = "exclusive" /\ l.mode = "exclusive" /\ l.exclusiveOwner = t)
        /\ ~(mode = "shared" /\ l.mode = "shared" /\ t \in l.sharedHolders)
    BY <1>4 DEF Agrees
  <2>2. m = l
    BY <2>1 DEF Released
  <2>3. g = h
    BY <1>4 DEF Beliefs
  <2> QED BY <2>2, <2>3
<1> QED BY <1>1, <1>2, <1>3, <1>4

\* Who has lapsed still believes to hold the lock.
LapsedBelieve == \A t \in lapsed : holds[t] # "none"

HoldersInv == Agrees(lock, Entitled) /\ ParkedHoldNothing /\ LapsedBelieve

LEMMA HoldersInvInit == Init => HoldersInv
<1> SUFFICES ASSUME Init PROVE HoldersInv
  OBVIOUS
<1>1. /\ lock.mode = "free" /\ lock.sharedHolders = {} /\ lapsed = {}
      /\ \A t \in Threads : holds[t] = "none"
  BY DEF Init, FreeLock
<1> QED BY <1>1 DEF HoldersInv, Agrees, Entitled, ParkedHoldNothing, LapsedBelieve

\* What the two invariants say of the beliefs.
LEMMA BeliefsHold ==
    ASSUME LockInv, HoldersInv
    PROVE  /\ lock \in LockRecords /\ Coherent(lock)
           /\ status \in [Threads -> {"running", "parked", "dead"}]
           /\ holds \in Beliefs /\ Entitled \in Beliefs /\ lapsed \subseteq Threads
           /\ wanted \in [Threads -> {"none", "shared", "exclusive"}]
           /\ \A u \in Threads : status[u] = "parked" =>
                holds[u] = "none" /\ u \notin lapsed /\ wanted[u] \in {"shared", "exclusive"}
           /\ \A u \in Threads : holds[u] = "none" => u \notin lapsed /\ Entitled[u] = "none"
BY DEF LockInv, TypeOK, HoldersInv, ParkedHoldNothing, LapsedBelieve, ParkedWant, Beliefs,
   Entitled

LEMMA HoldersInvStepAcquire ==
    ASSUME LockInv, HoldersInv, NEW t \in Threads, NEW mode \in Modes,
           Acquire(t, mode) \/ AcquireContended(t, mode)
    PROVE  HoldersInv'
<1>1. mode \in {"shared", "exclusive"} /\ status[t] = "running" /\ holds[t] = "none"
  BY SrwConstants DEF Acquire, AcquireContended, MayCall
<1>2. CASE Acquire(t, mode)
  <2>1. /\ lock' = Acquired(lock, t, mode) /\ holds' = [holds EXCEPT ![t] = mode]
        /\ Grantable(lock, t, mode) /\ UNCHANGED <<status, lapsed>>
    BY <1>2 DEF Acquire
  <2>2. Entitled' = [Entitled EXCEPT ![t] = mode]
    BY <1>1, <2>1, BeliefsHold DEF Entitled, Beliefs
  <2>3. Agrees(lock', Entitled')
    BY <1>1, <2>1, <2>2, BeliefsHold, AgreesAcquired DEF HoldersInv
  <2>4. ParkedHoldNothing' /\ LapsedBelieve'
    BY <1>1, <2>1, BeliefsHold DEF HoldersInv, ParkedHoldNothing, LapsedBelieve, Beliefs
  <2> QED BY <2>3, <2>4 DEF HoldersInv
<1>3. CASE AcquireContended(t, mode)
  <2>1. UNCHANGED <<lock, holds, lapsed>> /\ status' = [status EXCEPT ![t] = "parked"]
    BY <1>3 DEF AcquireContended
  <2>2. Agrees(lock', Entitled')
    BY <2>1 DEF HoldersInv, Agrees, Entitled
  <2>3. ParkedHoldNothing' /\ LapsedBelieve'
    BY <1>1, <2>1, BeliefsHold DEF HoldersInv, ParkedHoldNothing, LapsedBelieve
  <2> QED BY <2>2, <2>3 DEF HoldersInv
<1> QED BY <1>2, <1>3

\* A release, and the hand-over of what it freed.
LEMMA PassedOn ==
    ASSUME LockInv, HoldersInv, NEW t \in Threads, status[t] = "running", holds[t] # "none",
           NEW heir \in Heirs(Released(lock, t, holds[t])),
           Signal(Released(lock, t, holds[t]), heir)
    PROVE  LET freed == Released(lock, t, holds[t])
               left == [Entitled EXCEPT ![t] = "none"]
               passed == [u \in Threads |-> IF u \in {heir} \ {NoThread} THEN wanted[u] ELSE left[u]]
           IN  /\ heir # t
               /\ heir # NoThread => heir \in Threads /\ status[heir] = "parked"
               /\ Inherited(freed, heir) \in LockRecords /\ Coherent(Inherited(freed, heir))
               /\ passed \in Beliefs /\ Agrees(Inherited(freed, heir), passed)
<1> DEFINE freed == Released(lock, t, holds[t])
           left == [Entitled EXCEPT ![t] = "none"]
           passed == [u \in Threads |-> IF u \in {heir} \ {NoThread} THEN wanted[u] ELSE left[u]]
<1>1. holds[t] \in {"shared", "exclusive"} /\ Entitled[t] \in {"none", holds[t]}
  BY BeliefsHold DEF Beliefs, Entitled
<1>2. freed \in LockRecords /\ Coherent(freed)
  BY <1>1, BeliefsHold, ReleasedRecord
<1>3. left \in Beliefs /\ Agrees(freed, left)
  BY <1>1, BeliefsHold, AgreesReleased DEF Beliefs, HoldersInv
<1> HIDE DEF freed
<1>4. /\ heir # NoThread => heir \in ToSet(srwQueue) /\ freed.mode = "free"
      /\ Inherited(freed, heir) \in LockRecords /\ Coherent(Inherited(freed, heir))
  BY <1>2, HandOver DEF freed
<1>5. heir # NoThread => heir \in Threads /\ status[heir] = "parked"
  BY <1>4, QueuesPointwise
<1>6. passed \in Beliefs
  BY <1>3, BeliefsHold DEF Beliefs
<1>7. CASE heir = NoThread
  <2>1. Inherited(freed, heir) = freed /\ passed = left
    BY <1>3, <1>7 DEF Inherited, Beliefs
  <2> QED BY <1>3, <1>4, <1>5, <1>6, <1>7, <2>1, SrwConstants DEF freed
<1>8. CASE heir # NoThread
  <2>1. heir # t /\ wanted[heir] \in {"shared", "exclusive"} /\ left[heir] = "none"
    BY <1>3, <1>5, <1>8, BeliefsHold DEF Beliefs
  <2>2. Grantable(freed, heir, wanted[heir])
    BY <1>2, <1>4, <1>8, <2>1 DEF Grantable, Coherent
  <2>3. Agrees(Acquired(freed, heir, wanted[heir]), [left EXCEPT ![heir] = wanted[heir]])
    BY <1>2, <1>3, <1>5, <1>8, <2>1, <2>2, AgreesAcquired
  <2>4. /\ Inherited(freed, heir) = Acquired(freed, heir, wanted[heir])
        /\ passed = [left EXCEPT ![heir] = wanted[heir]]
    BY <1>3, <1>5, <1>8 DEF Inherited, Beliefs
  <2> QED BY <1>4, <1>5, <1>6, <2>1, <2>3, <2>4 DEF freed
<1> QED BY <1>7, <1>8

LEMMA HoldersInvStepRelease ==
    ASSUME LockInv, HoldersInv, NEW t \in Threads,
           Release(t) \/ \E timeout \in Timeouts : Sleep(t, timeout)
    PROVE  HoldersInv'
<1> DEFINE freed == Released(lock, t, holds[t])
           left == [Entitled EXCEPT ![t] = "none"]
<1>1. status[t] = "running" /\ holds[t] # "none" /\ lapsed' = lapsed \ {t}
  BY DEF Release, Sleep, MayCall
<1>2. PICK heir \in Heirs(freed), st \in {status, [status EXCEPT ![t] = "parked"]} :
        /\ lock' = Inherited(freed, heir) /\ Signal(freed, heir)
        /\ Return({heir} \ {NoThread}, st, [holds EXCEPT ![t] = "none"])
  <2>1. CASE Release(t)
    BY <2>1 DEF Release
  <2>2. ASSUME NEW timeout \in Timeouts, Sleep(t, timeout)
        PROVE  \E heir \in Heirs(freed), st \in {status, [status EXCEPT ![t] = "parked"]} :
                 /\ lock' = Inherited(freed, heir) /\ Signal(freed, heir)
                 /\ Return({heir} \ {NoThread}, st, [holds EXCEPT ![t] = "none"])
    BY <2>2 DEF Sleep
  <2> QED BY <2>1, <2>2
<1> DEFINE passed == [u \in Threads |-> IF u \in {heir} \ {NoThread} THEN wanted[u] ELSE left[u]]
<1>3. /\ heir # t /\ (heir # NoThread => heir \in Threads /\ status[heir] = "parked")
      /\ Agrees(lock', passed)
  BY <1>1, <1>2, PassedOn
<1>4. /\ status' = [u \in Threads |-> IF u \in {heir} \ {NoThread} THEN "running" ELSE st[u]]
      /\ holds' = [u \in Threads |-> IF u \in {heir} \ {NoThread} THEN wanted[u]
                                      ELSE [holds EXCEPT ![t] = "none"][u]]
  BY <1>2 DEF Return
<1>5. Entitled' = passed
  BY <1>1, <1>3, <1>4, BeliefsHold DEF Entitled, Beliefs
<1>6. ParkedHoldNothing' /\ LapsedBelieve'
  BY <1>1, <1>2, <1>3, <1>4, BeliefsHold DEF HoldersInv, ParkedHoldNothing, LapsedBelieve, Beliefs
<1> QED BY <1>3, <1>5, <1>6 DEF HoldersInv

LEMMA HoldersInvStepSleepNotAtAll ==
    ASSUME LockInv, HoldersInv, NEW t \in Threads, SleepNotAtAll(t)
    PROVE  HoldersInv'
<1> DEFINE freed == Released(lock, t, holds[t])
           left == [Entitled EXCEPT ![t] = "none"]
<1>1. status[t] = "running" /\ holds[t] \in {"shared", "exclusive"}
  BY BeliefsHold DEF SleepNotAtAll, MayCall, Beliefs
<1>2. PICK heir \in Heirs(freed) :
        /\ lock' = IF Grantable(Inherited(freed, heir), t, holds[t])
                   THEN Acquired(Inherited(freed, heir), t, holds[t])
                   ELSE Inherited(freed, heir)
        /\ lapsed' = IF Grantable(Inherited(freed, heir), t, holds[t])
                     THEN lapsed \ {t} ELSE lapsed \cup {t}
        /\ Signal(freed, heir)
        /\ Return({heir} \ {NoThread}, status, holds)
  BY DEF SleepNotAtAll
<1> DEFINE passed == [u \in Threads |-> IF u \in {heir} \ {NoThread} THEN wanted[u] ELSE left[u]]
<1>3. /\ heir # t /\ (heir # NoThread => heir \in Threads /\ status[heir] = "parked")
      /\ Inherited(freed, heir) \in LockRecords /\ Coherent(Inherited(freed, heir))
      /\ passed \in Beliefs /\ Agrees(Inherited(freed, heir), passed)
  BY <1>1, <1>2, PassedOn
<1>4. /\ status' = [u \in Threads |-> IF u \in {heir} \ {NoThread} THEN "running" ELSE status[u]]
      /\ holds' = [u \in Threads |-> IF u \in {heir} \ {NoThread} THEN wanted[u] ELSE holds[u]]
  BY <1>2 DEF Return
<1>5. passed[t] = "none"
  BY <1>3, BeliefsHold DEF Beliefs
<1> HIDE DEF freed
<1>6. Agrees(lock', Entitled')
  <2>1. CASE Grantable(Inherited(freed, heir), t, holds[t])
    <3>1. Entitled' = [passed EXCEPT ![t] = holds[t]]
      BY <1>2, <1>3, <1>4, <2>1, BeliefsHold DEF Entitled, Beliefs
    <3> HIDE DEF passed
    <3> QED BY <1>1, <1>2, <1>3, <1>5, <2>1, <3>1, AgreesAcquired
  <2>2. CASE ~Grantable(Inherited(freed, heir), t, holds[t])
    <3>1. Entitled' = passed
      BY <1>2, <1>3, <1>4, <2>2, BeliefsHold DEF Entitled, Beliefs
    <3> QED BY <1>2, <1>3, <2>2, <3>1
  <2> QED BY <2>1, <2>2
<1>7. ParkedHoldNothing' /\ LapsedBelieve'
  BY <1>1, <1>2, <1>3, <1>4, BeliefsHold DEF HoldersInv, ParkedHoldNothing, LapsedBelieve, Beliefs
<1> QED BY <1>6, <1>7 DEF HoldersInv

\* A parked thread is woken: by a call, a timeout or a resume.
LEMMA HoldersInvWoken ==
    ASSUME LockInv, HoldersInv, NEW t \in Threads, status[t] = "parked", UNCHANGED lapsed,
           NEW rest \in Seq(Threads), IsInjective(rest), t \notin ToSet(rest), Wake(t, rest)
    PROVE  HoldersInv'
<1>1. /\ wanted[t] \in {"shared", "exclusive"}
      /\ \/ /\ status' = [status EXCEPT ![t] = "running"]
            /\ holds' = [holds EXCEPT ![t] = wanted[t]]
            /\ Grantable(lock, t, wanted[t]) /\ lock' = Acquired(lock, t, wanted[t])
         \/ UNCHANGED <<lock, status, holds>>
  BY Woken
<1>2. CASE UNCHANGED <<lock, status, holds>>
  BY <1>2 DEF HoldersInv, Agrees, Entitled, ParkedHoldNothing, LapsedBelieve
<1>3. CASE /\ status' = [status EXCEPT ![t] = "running"]
           /\ holds' = [holds EXCEPT ![t] = wanted[t]]
           /\ Grantable(lock, t, wanted[t]) /\ lock' = Acquired(lock, t, wanted[t])
  <2>1. Entitled' = [Entitled EXCEPT ![t] = wanted[t]]
    BY <1>3, BeliefsHold DEF Entitled, Beliefs
  <2>2. Agrees(lock', Entitled')
    BY <1>1, <1>3, <2>1, BeliefsHold, AgreesAcquired DEF HoldersInv
  <2>3. ParkedHoldNothing' /\ LapsedBelieve'
    BY <1>1, <1>3, BeliefsHold DEF HoldersInv, ParkedHoldNothing, LapsedBelieve, Beliefs
  <2> QED BY <2>2, <2>3 DEF HoldersInv
<1> QED BY <1>1, <1>2, <1>3

LEMMA HoldersInvStep == LockInv /\ HoldersInv /\ [Next]_vars => HoldersInv'
<1> SUFFICES ASSUME LockInv, HoldersInv, [Next]_vars PROVE HoldersInv'
  OBVIOUS
<1>1. CASE UNCHANGED vars
  BY <1>1 DEF HoldersInv, Agrees, Entitled, ParkedHoldNothing, LapsedBelieve, vars
<1>2. /\ srwQueue \in Seq(Threads) /\ IsInjective(srwQueue)
      /\ cvQueue # <<>> => Head(cvQueue) \in ToSet(cvQueue)
      /\ waking \subseteq ToSet(cvQueue) /\ cvTimers \subseteq ToSet(cvQueue)
      /\ cvQueue = <<>> => ToSet(cvQueue) = {}
  BY HeadInQueue DEF LockInv, TypeOK, QueuesExact
<1>3. ASSUME NEW t \in ToSet(cvQueue), WakeSleeper(t) PROVE HoldersInv'
  <2>1. t \in Threads /\ status[t] = "parked" /\ t \notin ToSet(srwQueue)
    BY QueuesPointwise
  <2> QED BY <1>2, <1>3, <2>1, HoldersInvWoken DEF WakeSleeper
<1>4. CASE WakeNext
  BY <1>2, <1>3, <1>4 DEF WakeNext
<1>5. ASSUME NEW t \in Threads,
             \/ \E mode \in Modes : Acquire(t, mode) \/ AcquireContended(t, mode)
             \/ Release(t)
             \/ \E timeout \in Timeouts : Sleep(t, timeout)
             \/ "zero" \in Timeouts /\ SleepNotAtAll(t)
             \/ WakeConditionVariable(t) \/ WakeAllConditionVariable(t)
             \/ SleepTimesOut(t) \/ Suspend(t) \/ Resume(t) \/ Terminate(t)
      PROVE  HoldersInv'
  <2>1. CASE WakeConditionVariable(t)
    BY <1>2, <1>3, <2>1 DEF WakeConditionVariable
  <2>2. CASE SleepTimesOut(t)
    BY <1>2, <1>3, <2>2 DEF SleepTimesOut
  <2>3. CASE WakeAllConditionVariable(t) \/ Suspend(t)
    BY <2>3 DEF WakeAllConditionVariable, Suspend, HoldersInv, Agrees, Entitled,
       ParkedHoldNothing, LapsedBelieve
  <2>4. CASE Resume(t)
    <3>1. CASE t \in ToSet(srwQueue) /\ waitEvent
      <4>1. Wake(t, Without(srwQueue, t)) /\ UNCHANGED lapsed
        BY <2>4, <3>1 DEF Resume
      <4>2. status[t] = "parked"
        BY <3>1, QueuesPointwise
      <4>3. /\ Without(srwQueue, t) \in Seq(Threads) /\ IsInjective(Without(srwQueue, t))
            /\ t \notin ToSet(Without(srwQueue, t))
        BY <1>2, WithoutSet
      <4> QED BY <4>1, <4>2, <4>3, HoldersInvWoken
    <3>2. CASE ~(t \in ToSet(srwQueue) /\ waitEvent)
      BY <2>4, <3>2 DEF Resume, HoldersInv, Agrees, Entitled, ParkedHoldNothing, LapsedBelieve
    <3> QED BY <3>1, <3>2
  <2>5. CASE Terminate(t)
    <3>1. UNCHANGED <<lock, holds, lapsed>> /\ status' = [status EXCEPT ![t] = "dead"]
      BY <2>5 DEF Terminate
    <3>2. status \in [Threads -> {"running", "parked", "dead"}]
      BY DEF LockInv, TypeOK
    <3> QED BY <3>1, <3>2 DEF HoldersInv, Agrees, Entitled, ParkedHoldNothing, LapsedBelieve
  <2> QED BY <1>5, <2>1, <2>2, <2>3, <2>4, <2>5, HoldersInvStepAcquire, HoldersInvStepRelease,
             HoldersInvStepSleepNotAtAll
<1> QED BY <1>1, <1>4, <1>5 DEF Next

(* The record and the guest agree on who holds the lock, through every     *)
(* hand-over, wake-up, requeue, timeout, suspension and death; only a zero *)
(* timeout may return without the lock.                                    *)
THEOREM HoldersAgree == Spec => []HoldersExact
<1>1. HoldersInv => HoldersExact
  BY DEF HoldersInv, Agrees, HoldersExact
<1> QED BY <1>1, LockInvInit, LockInvStep, HoldersInvInit, HoldersInvStep, PTL DEF Spec

(* A writer that may rely on the lock is alone with it.                    *)
THEOREM WriterAlone == Spec => []SrwExclusion
<1>1. LockInv /\ HoldersExact => SrwExclusion
  <2> SUFFICES ASSUME LockInv, HoldersExact, NEW t \in Threads, NEW u \in Threads,
                      Entitled[t] = "exclusive", t # u, Entitled[u] # "none"
               PROVE  FALSE
    BY DEF SrwExclusion
  <2>1. Entitled[u] = "shared" \/ Entitled[u] = "exclusive"
    BY DEF LockInv, TypeOK, Entitled
  <2>2. lock.mode = "exclusive" /\ lock.exclusiveOwner = t
    BY DEF HoldersExact
  <2> QED BY <2>1, <2>2 DEF HoldersExact
<1> QED BY <1>1, HoldersAgree, LockInvInit, LockInvStep, PTL DEF Spec
=============================================================================
