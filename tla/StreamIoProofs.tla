---------------------------- MODULE StreamIoProofs ----------------------------
(***************************************************************************)
(* Proofs about the runtime of the I/O worker, for every number of chunks, *)
(* readers and slots and every order of failures.  The safety properties   *)
(* of StreamIo follow from one inductive invariant, StreamInv: who settles *)
(* each pending chunk (Claims), what the counters count (Counts), why a    *)
(* queued job waits (Blocked), what the reads wait for (Awaited), how they *)
(* end (EndsOK) and what the fill has left behind it (FillOK).             *)
(***************************************************************************)
EXTENDS StreamIo, ThreadQueueLemmas, FiniteSetTheorems

-----------------------------------------------------------------------------
(* The invariant.                                                          *)

QueuedJobs == {job \in [first : Chunks, last : Chunks, fill : BOOLEAN, priority : 0..2] :
                  job.first <= job.last}
RunningJobs == {job \in [first : Chunks, last : Chunks, fill : BOOLEAN,
                         speculative : BOOLEAN] : job.first <= job.last}
Entries == {e \in [chunk : Chunks, content : Chunks] : e.content = e.chunk}

Runtimes ==
    [chunks : Seq(Entries), pending : SUBSET Chunks, queue : Seq(QueuedJobs),
     running : SUBSET RunningJobs, active : Nat, speculativeActive : Nat, demands : Nat,
     filling : BOOLEAN, fillBusy : BOOLEAN, fillCursor : 0..N, fillOrder : Seq(Chunks),
     fillOver : BOOLEAN, closed : BOOLEAN, diskWritable : BOOLEAN]

Microtasks ==
    [kind : {"settled"}, first : Chunks, last : Chunks, ok : BOOLEAN, fill : BOOLEAN] \cup
    [kind : {"jobEnds"}, speculative : BOOLEAN] \cup
    [kind : {"diskRead"}, chunk : Chunks] \cup
    [kind : {"readEnds"}, reader : Readers, ok : BOOLEAN]

IsRead(read) ==
    /\ read = [first |-> read.first, demand |-> read.demand, sequential |-> read.sequential,
               parts |-> read.parts, ended |-> read.ended]
    /\ {read.demand, read.sequential, read.ended} \subseteq BOOLEAN
    /\ read.first \in Chunks
    /\ \E last \in Chunks : /\ read.first <= last
                            /\ read.parts = [c \in read.first..last |-> read.parts[c]]
    /\ \A c \in DOMAIN read.parts : read.parts[c] \in {Absent, c}

\* What a microtask will settle.
Settles(task) ==
    CASE task.kind = "settled" -> Covers(task)
      [] task.kind = "diskRead" -> {task.chunk}
      [] OTHER -> {}

\* A chunk is pending exactly if a job or a microtask will settle it, and only one.
Claims(s, tasks) ==
    /\ \A c \in Chunks :
          c \in s.pending <=> \/ \E i \in DOMAIN s.queue : c \in Covers(s.queue[i])
                              \/ \E job \in s.running : c \in Covers(job)
                              \/ \E k \in DOMAIN tasks : c \in Settles(tasks[k])
    /\ \A c \in Chunks, i, j \in DOMAIN s.queue :
          c \in Covers(s.queue[i]) /\ c \in Covers(s.queue[j]) => i = j
    /\ \A c \in Chunks, job, other \in s.running :
          c \in Covers(job) /\ c \in Covers(other) => job = other
    /\ \A c \in Chunks, k, l \in DOMAIN tasks :
          c \in Settles(tasks[k]) /\ c \in Settles(tasks[l]) => k = l
    /\ \A c \in Chunks, i \in DOMAIN s.queue, job \in s.running :
          ~(c \in Covers(s.queue[i]) /\ c \in Covers(job))
    /\ \A c \in Chunks, i \in DOMAIN s.queue, k \in DOMAIN tasks :
          ~(c \in Covers(s.queue[i]) /\ c \in Settles(tasks[k]))
    /\ \A c \in Chunks, job \in s.running, k \in DOMAIN tasks :
          ~(c \in Covers(job) /\ c \in Settles(tasks[k]))

\* A job ends at a time; it counts until its end has run.
Ending(tasks) == IF \E k \in DOMAIN tasks : tasks[k].kind = "jobEnds" THEN 1 ELSE 0
EndingSpeculation(tasks) ==
    IF \E k \in DOMAIN tasks : tasks[k].kind = "jobEnds" /\ tasks[k].speculative THEN 1 ELSE 0

Speculations(jobs) == {job \in jobs : job.speculative}

Counts(s, tasks) ==
    /\ \A k, l \in DOMAIN tasks :
          tasks[k].kind = "jobEnds" /\ tasks[l].kind = "jobEnds" => k = l
    /\ IsFiniteSet(s.running)
    /\ s.active = Cardinality(s.running) + Ending(tasks)
    /\ s.speculativeActive = Cardinality(Speculations(s.running)) + EndingSpeculation(tasks)
    /\ s.active <= MaxInflight
    /\ s.speculativeActive <= SpeculativeLimit

Ordered(queue) ==
    \A i, j \in DOMAIN queue : i < j => queue[i].priority <= queue[j].priority

\* Why the jobs of the queue wait.
Blocked(s) ==
    \A i \in DOMAIN s.queue :
        /\ s.queue[i].priority \in 0..1
        /\ \/ s.active = MaxInflight
           \/ s.speculativeActive = SpeculativeLimit /\ s.queue[i].priority > 0

ClosedQuiet(s) == s.closed => s.queue = <<>>

RuntimeOK(s, tasks) ==
    /\ s \in Runtimes /\ tasks \in Seq(Microtasks)
    /\ Claims(s, tasks) /\ Counts(s, tasks)
    /\ Ordered(s.queue) /\ Blocked(s) /\ ClosedQuiet(s)
    /\ s.filling => s.diskWritable

\* The reads, and those that were posted again.
ReadsOK ==
    /\ reads = [r \in Readers |-> reads[r]]
    /\ \A r \in Readers : Idle(r) \/ IsRead(reads[r])
    /\ posted = [reads |-> posted.reads, fill |-> posted.fill]
    /\ posted.reads \subseteq Readers /\ posted.fill \in BOOLEAN
    /\ \A r \in posted.reads : Unfinished(r)

\* No speculation is queued for chunk c.
NotSpeculated(s, c) ==
    \A i \in DOMAIN s.queue : s.queue[i].priority > 0 => c \notin Covers(s.queue[i])

\* A read waits for what is pending; a demand, for what is not queued as
\* speculation.
Awaited ==
    \A r \in Readers, c \in Chunks : Awaits(r, c) =>
        c \in rt.pending /\ (reads[r].demand => NotSpeculated(rt, c))

\* A read that has ended is taken off once.
EndsOK(tasks, ended) ==
    /\ \A k \in DOMAIN tasks : tasks[k].kind = "readEnds" =>
          ended[tasks[k].reader] # NoRead /\ ended[tasks[k].reader].ended
    /\ \A k, l \in DOMAIN tasks :
          /\ tasks[k].kind = "readEnds" /\ tasks[l].kind = "readEnds"
          /\ tasks[k].reader = tasks[l].reader
          => k = l

\* The reads that are demands and with the runtime.
Demands == {r \in Readers \ posted.reads : ~Idle(r) /\ reads[r].demand}

DiskOK ==
    /\ disk = [c \in Chunks |-> disk[c]]
    /\ \A c \in Chunks : disk[c] \in {Absent, c}
    /\ \A k \in DOMAIN microtasks :
          microtasks[k].kind = "diskRead" => OnDisk(microtasks[k].chunk)

\* As long as nothing has failed, what a microtask settles and what the fill
\* has passed is on disk.
TasksOnDisk(tasks) == \A k \in DOMAIN tasks : \A c \in Settles(tasks[k]) : OnDisk(c)

Passed(s) ==
    /\ \A c \in Chunks : c < s.fillCursor => OnDisk(c)
    /\ s.fillOver => \A c \in Chunks : OnDisk(c)

FillOK ==
    mishaps = 0 => /\ rt.diskWritable /\ ~rt.closed => TasksOnDisk(microtasks)
                   /\ Passed(rt)

RestOK ==
    /\ fillTimers \in Nat
    /\ firstFrame = <<>> \/ \E order \in FillOrders : firstFrame = <<order>>
    /\ posted.fill => firstFrame # <<>>
    /\ {restarted, shuttingDown} \subseteq BOOLEAN
    /\ mishaps \in 0..MaxMishaps

StreamInv ==
    /\ RuntimeOK(rt, microtasks)
    /\ ReadsOK /\ Awaited /\ EndsOK(microtasks, reads)
    /\ rt.demands = Cardinality(Demands)
    /\ DiskOK /\ FillOK /\ RestOK

\* What a job covers.
LEMMA CoversAre ==
    /\ \A job \in QueuedJobs \cup RunningJobs :
          Covers(job) \subseteq Chunks /\ job.first \in Chunks /\ job.first \in Covers(job)
    /\ N \in Nat \ {0} /\ Chunks \subseteq Nat
<1>1. N \in Nat \ {0}
  BY StreamConstants
<1> QED BY <1>1 DEF QueuedJobs, RunningJobs, Covers, Chunks

-----------------------------------------------------------------------------
(* Numbers, finite sets and sequences.                                     *)

\* The largest and the least of a set of numbers.
LEMMA MaxIs ==
    ASSUME NEW m \in Nat, NEW T \in SUBSET (0..m), T # {}
    PROVE  Max(T) \in T /\ \A k \in T : k <= Max(T)
<1> DEFINE U == {k \in 0..m : m - k \in T}
<1>1. PICK t \in T : TRUE
  OBVIOUS
<1>2. m - t \in U
  <2>1. t \in 0..m /\ m - t \in 0..m /\ m - (m - t) = t
    BY <1>1
  <2> QED BY <2>1
<1>3. U \in SUBSET Nat /\ U # {}
  BY <1>2
<1> HIDE DEF U
<1>4. PICK u \in U : \A k \in U : u <= k
  BY <1>3, SmallestOf
<1>5. u \in 0..m /\ m - u \in T
  BY <1>4 DEF U
<1>6. ASSUME NEW k \in T PROVE k <= m - u
  <2>1. k \in 0..m /\ m - k \in 0..m /\ m - (m - k) = k
    OBVIOUS
  <2>2. m - k \in U
    BY <2>1 DEF U
  <2>3. u <= m - k
    BY <1>4, <2>2
  <2> QED BY <1>5, <2>1, <2>3
<1>7. \E x \in T : \A k \in T : x >= k
  BY <1>5, <1>6
<1> QED BY <1>7 DEF Max

LEMMA MinIs ==
    ASSUME NEW T \in SUBSET Nat, T # {}
    PROVE  Min(T) \in T /\ \A k \in T : Min(T) <= k
<1>1. \E x \in T : \A k \in T : x <= k
  BY SmallestOf
<1> QED BY <1>1 DEF Min

\* Two sequences, one after the other.
LEMMA ConcatIs ==
    ASSUME NEW S, NEW p \in Seq(S), NEW q \in Seq(S)
    PROVE  /\ p \o q \in Seq(S) /\ Len(p \o q) = Len(p) + Len(q)
           /\ \A i \in 1..Len(p) : (p \o q)[i] = p[i]
           /\ \A i \in 1..Len(q) : (p \o q)[Len(p) + i] = q[i]
OBVIOUS

\* An element is taken out of a sequence.
LEMMA RemoveAtIs ==
    ASSUME NEW S, NEW s \in Seq(S), NEW k \in DOMAIN s
    PROVE  /\ RemoveAt(s, k) \in Seq(S) /\ Len(RemoveAt(s, k)) = Len(s) - 1
           /\ \A i \in 1..(Len(s) - 1) : RemoveAt(s, k)[i] = IF i < k THEN s[i] ELSE s[i + 1]
<1> DEFINE a == SubSeq(s, 1, k - 1)
           b == SubSeq(s, k + 1, Len(s))
           w == RemoveAt(s, k)
<1>0. k \in 1..Len(s)
  OBVIOUS
<1>1. a \in Seq(S) /\ Len(a) = k - 1 /\ \A i \in 1..(k - 1) : a[i] = s[i]
  BY <1>0
<1>2. b \in Seq(S) /\ Len(b) = Len(s) - k /\ \A i \in 1..(Len(s) - k) : b[i] = s[i + k]
  BY <1>0
<1>3. w = a \o b
  BY DEF RemoveAt
<1> HIDE DEF a, b, w
<1>4. w \in Seq(S) /\ Len(w) = Len(s) - 1
  BY <1>0, <1>1, <1>2, <1>3
<1>5. ASSUME NEW i \in 1..(Len(s) - 1) PROVE w[i] = IF i < k THEN s[i] ELSE s[i + 1]
  <2>1. CASE i < k
    BY <2>1, <1>0, <1>1, <1>2, <1>3, <1>4
  <2>2. CASE ~(i < k)
    <3>0. i \in 1..(Len(a) + Len(b)) /\ ~(i <= Len(a))
      BY <2>2, <1>0, <1>1, <1>2
    <3>1. w[i] = b[i - (k - 1)]
      <4>1. i - (k - 1) \in 1..Len(b) /\ Len(a) + (i - (k - 1)) = i
        BY <3>0, <1>1, <1>2
      <4>2. \A j \in 1..Len(b) : (a \o b)[Len(a) + j] = b[j]
        <5>1. a \in Seq(S) /\ b \in Seq(S)
          BY <1>1, <1>2
        <5> QED BY <5>1, ConcatIs, SMTT(20)
      <4> QED BY <4>1, <4>2, <1>3
    <3>2. i - (k - 1) \in 1..(Len(s) - k) /\ (i - (k - 1)) + k = i + 1
      BY <2>2, <1>0
    <3>3. b[i - (k - 1)] = s[(i - (k - 1)) + k]
      BY <1>2, <3>2
    <3> QED BY <3>1, <3>2, <3>3, <2>2
  <2> QED BY <2>1, <2>2
<1> QED BY <1>4, <1>5 DEF w

\* An element is put into a sequence.
LEMMA InsertAtIs ==
    ASSUME NEW S, NEW s \in Seq(S), NEW k \in 1..(Len(s) + 1), NEW e \in S
    PROVE  /\ InsertAt(s, k, e) \in Seq(S) /\ Len(InsertAt(s, k, e)) = Len(s) + 1
           /\ InsertAt(s, k, e)[k] = e
           /\ \A i \in 1..Len(s) : InsertAt(s, k, e)[IF i < k THEN i ELSE i + 1] = s[i]
<1> DEFINE a == SubSeq(s, 1, k - 1)
           b == SubSeq(s, k, Len(s))
           w == InsertAt(s, k, e)
           ae == Append(a, e)
<1>1. a \in Seq(S) /\ Len(a) = k - 1 /\ \A i \in 1..(k - 1) : a[i] = s[i]
  OBVIOUS
<1>2. b \in Seq(S) /\ Len(b) = Len(s) - k + 1
      /\ \A i \in 1..(Len(s) - k + 1) : b[i] = s[i + k - 1]
  OBVIOUS
<1>3. w = (a \o <<e>>) \o b
  BY DEF InsertAt
<1> HIDE DEF a, b, w
<1>4. a \o <<e>> = ae
  BY <1>1
<1>5. ae \in Seq(S) /\ Len(ae) = k /\ ae[k] = e /\ \A i \in 1..(k - 1) : ae[i] = s[i]
  BY <1>1
<1> HIDE DEF ae
<1>6. w = ae \o b
  BY <1>3, <1>4
<1>7. w \in Seq(S) /\ Len(w) = Len(s) + 1
  BY <1>2, <1>5, <1>6
<1>8. \A i \in 1..k : w[i] = ae[i]
  BY <1>2, <1>5, <1>6
<1>9. ASSUME NEW i \in 1..Len(s) PROVE w[IF i < k THEN i ELSE i + 1] = s[i]
  <2>1. CASE i < k
    BY <2>1, <1>5, <1>8
  <2>2. CASE ~(i < k)
    <3>1. i + 1 - k \in 1..(Len(s) - k + 1) /\ (i + 1 - k) + k - 1 = i
      BY <2>2
    <3>2. w[i + 1] = b[i + 1 - k]
      BY <2>2, <1>2, <1>5, <1>6, <1>7
    <3>3. b[i + 1 - k] = s[(i + 1 - k) + k - 1]
      BY <1>2, <3>1
    <3> QED BY <2>2, <3>1, <3>2, <3>3
  <2> QED BY <2>1, <2>2
<1> QED BY <1>5, <1>7, <1>8, <1>9 DEF w

\* What is left of a sequence without its first n elements.
LEMMA TailIs ==
    ASSUME NEW S, NEW s \in Seq(S), NEW n \in 0..Len(s)
    PROVE  /\ SubSeq(s, n + 1, Len(s)) \in Seq(S)
           /\ Len(SubSeq(s, n + 1, Len(s))) = Len(s) - n
           /\ \A i \in 1..(Len(s) - n) : /\ i + n \in DOMAIN s
                                       /\ SubSeq(s, n + 1, Len(s))[i] = s[i + n]
OBVIOUS

\* The image of a finite set under a function that is injective on it.
LEMMA ImageCardinality ==
    ASSUME NEW S, IsFiniteSet(S), NEW f, \A x, y \in S : f[x] = f[y] => x = y
    PROVE  /\ IsFiniteSet({f[x] : x \in S})
           /\ Cardinality({f[x] : x \in S}) = Cardinality(S)
<1> DEFINE T == {f[x] : x \in S}
           g == [x \in S |-> f[x]]
<1>1. g \in Bijection(S, T)
  BY DEF Bijection, Injection, Surjection, IsInjective
<1>2. ExistsBijection(S, T)
  BY <1>1 DEF ExistsBijection
<1> HIDE DEF T
<1>3. IsFiniteSet(T) /\ Cardinality(T) = Cardinality(S)
  BY <1>2, FS_Bijection
<1> QED BY <1>3 DEF T

-----------------------------------------------------------------------------
(* The queue and the start of jobs.                                        *)

\* A job joins the queue at one place, and the queue stays in order.
LEMMA EnqueueIs ==
    ASSUME NEW queue \in Seq(QueuedJobs), NEW job \in QueuedJobs
    PROVE  \E p \in 1..(Len(queue) + 1) :
              /\ Enqueue(queue, job) = InsertAt(queue, p, job)
              /\ Ordered(queue) => Ordered(Enqueue(queue, job))
<1> DEFINE T == {0} \cup {i \in DOMAIN queue : queue[i].priority <= job.priority}
           ahead == Max(T)
           new == InsertAt(queue, ahead + 1, job)
<1>1. \A q \in QueuedJobs : q.priority \in 0..2
  BY DEF QueuedJobs
<1>2. ahead \in T /\ \A k \in T : k <= ahead
  BY MaxIs, Len(queue) \in Nat, T \in SUBSET (0..Len(queue)), T # {}
<1>3. ahead \in 0..Len(queue)
  BY <1>2
<1>4. new = Enqueue(queue, job)
  BY DEF Enqueue
<1> HIDE DEF ahead
<1>5. /\ new \in Seq(QueuedJobs) /\ Len(new) = Len(queue) + 1 /\ new[ahead + 1] = job
      /\ \A i \in 1..Len(queue) : new[IF i < ahead + 1 THEN i ELSE i + 1] = queue[i]
  <2>1. ahead + 1 \in 1..(Len(queue) + 1)
    BY <1>3
  <2> QED BY <2>1, InsertAtIs
<1> HIDE DEF new
<1>6. ASSUME Ordered(queue) PROVE Ordered(new)
  <2>1. \A i \in 1..ahead : new[i] = queue[i] /\ queue[i].priority <= job.priority
    <3> SUFFICES ASSUME NEW i \in 1..ahead
                 PROVE  new[i] = queue[i] /\ queue[i].priority <= job.priority
      OBVIOUS
    <3>1. new[i] = queue[i] /\ i \in DOMAIN queue
      BY <1>3, <1>5
    <3>2. ahead \in DOMAIN queue /\ queue[ahead].priority <= job.priority
      BY <1>2, <1>3
    <3>3. queue[i].priority <= queue[ahead].priority
      <4>1. CASE i = ahead
        BY <4>1, <3>1, <1>1
      <4>2. CASE i # ahead
        BY <4>2, <3>1, <3>2, <1>6, <1>3 DEF Ordered
      <4> QED BY <4>1, <4>2
    <3>4. {queue[i].priority, queue[ahead].priority, job.priority} \subseteq 0..2
      BY <3>1, <3>2, <1>1
    <3> QED BY <3>1, <3>2, <3>3, <3>4
  <2>2. \A i \in (ahead + 2)..Len(new) :
           i - 1 \in DOMAIN queue /\ new[i] = queue[i - 1] /\ job.priority < queue[i - 1].priority
    <3> SUFFICES ASSUME NEW i \in (ahead + 2)..Len(new)
                 PROVE  /\ i - 1 \in DOMAIN queue /\ new[i] = queue[i - 1]
                        /\ job.priority < queue[i - 1].priority
      OBVIOUS
    <3>1. i - 1 \in 1..Len(queue) /\ ~(i - 1 < ahead + 1) /\ (i - 1) + 1 = i
      BY <1>3, <1>5
    <3>2. new[i] = queue[i - 1]
      BY <1>5, <3>1
    <3>3. ~(queue[i - 1].priority <= job.priority)
      BY <1>2, <1>3, <3>1
    <3>4. {queue[i - 1].priority, job.priority} \subseteq 0..2
      BY <3>1, <1>1
    <3> QED BY <3>1, <3>2, <3>3, <3>4
  <2> SUFFICES ASSUME NEW i \in DOMAIN new, NEW j \in DOMAIN new, i < j
               PROVE  new[i].priority <= new[j].priority
    BY DEF Ordered
  <2>3. {new[i].priority, new[j].priority, job.priority} \subseteq 0..2
    BY <1>1, <1>5
  <2>4. CASE j <= ahead
    BY <2>4, <2>1, <1>3, <1>5, <1>6 DEF Ordered
  <2>5. CASE j = ahead + 1
    BY <2>5, <2>1, <1>3, <1>5
  <2>6. CASE j > ahead + 1 /\ i > ahead + 1
    <3>1. i - 1 \in DOMAIN queue /\ j - 1 \in DOMAIN queue /\ i - 1 < j - 1
          /\ new[i] = queue[i - 1] /\ new[j] = queue[j - 1]
      BY <2>6, <2>2, <1>3, <1>5
    <3> QED BY <3>1, <1>6 DEF Ordered
  <2>7. CASE j > ahead + 1 /\ i <= ahead + 1
    <3>1. job.priority < new[j].priority
      BY <2>7, <2>2, <1>3, <1>5
    <3>2. new[i].priority <= job.priority
      <4>1. CASE i = ahead + 1
        BY <4>1, <1>5, <2>3
      <4>2. CASE i # ahead + 1
        BY <4>2, <2>7, <2>1, <1>3, <1>5
      <4> QED BY <4>1, <4>2
    <3> QED BY <3>1, <3>2, <2>3
  <2> QED BY <2>4, <2>5, <2>6, <2>7, <1>3, <1>5
<1>7. ahead + 1 \in 1..(Len(queue) + 1)
  BY <1>3
<1> QED BY <1>4, <1>6, <1>7 DEF new

\* pump starts the longest part of the queue that may start.
LEMMA PumpIs ==
    ASSUME NEW s \in Runtimes, ~s.closed
    PROVE  \E n \in 0..Len(s.queue) :
              /\ \A i \in 1..n : MayStart(s, s.queue, i)
              /\ n < Len(s.queue) => ~MayStart(s, s.queue, n + 1)
              /\ Pump(s) = [s EXCEPT
                    !.queue = SubSeq(s.queue, n + 1, Len(s.queue)),
                    !.running = @ \cup {[first |-> s.queue[i].first, last |-> s.queue[i].last,
                                         fill |-> s.queue[i].fill,
                                         speculative |-> s.queue[i].priority > 0] : i \in 1..n},
                    !.active = @ + n,
                    !.speculativeActive = @ + Speculative(s.queue, n)]
<1> DEFINE K == {k \in 0..Len(s.queue) : \A i \in 1..k : MayStart(s, s.queue, i)}
           n == Max(K)
<1>1. s.queue \in Seq(QueuedJobs)
  BY DEF Runtimes
<1>2. n \in K /\ \A k \in K : k <= n
  <2>1. 0 \in K
    BY <1>1
  <2> QED BY <1>1, <2>1, MaxIs, Len(s.queue) \in Nat, K \in SUBSET (0..Len(s.queue)), K # {}
<1>3. ASSUME n < Len(s.queue), MayStart(s, s.queue, n + 1) PROVE FALSE
  <2>1. n \in 0..Len(s.queue) /\ n + 1 \in 0..Len(s.queue)
    BY <1>1, <1>2, <1>3
  <2>2. \A i \in 1..(n + 1) : MayStart(s, s.queue, i)
    BY <1>2, <1>3, <2>1
  <2>3. n + 1 \in K
    BY <2>1, <2>2
  <2> QED BY <1>2, <2>1, <2>3
<1>4. Pump(s) = [s EXCEPT
                    !.queue = SubSeq(s.queue, n + 1, Len(s.queue)),
                    !.running = @ \cup {[first |-> s.queue[i].first, last |-> s.queue[i].last,
                                         fill |-> s.queue[i].fill,
                                         speculative |-> s.queue[i].priority > 0] : i \in 1..n},
                    !.active = @ + n,
                    !.speculativeActive = @ + Speculative(s.queue, n)]
  BY DEF Pump
<1> HIDE DEF n
<1> QED BY <1>2, <1>3, <1>4

\* The job that a queued job becomes, and those of the first n.
Begun(job) == [first |-> job.first, last |-> job.last, fill |-> job.fill,
               speculative |-> job.priority > 0]
Started(queue, n) == {Begun(queue[i]) : i \in 1..n}

\* A job of the fill is alone when it joins the queue.
LoneFill(s) ==
    \A i \in DOMAIN s.queue : s.queue[i].priority = 2 =>
        Len(s.queue) = 1 /\ s.active = 0 /\ s.demands = 0

\* What pump finds.
RuntimePre(s, tasks) ==
    /\ s \in Runtimes /\ tasks \in Seq(Microtasks)
    /\ Claims(s, tasks) /\ Counts(s, tasks)
    /\ Ordered(s.queue) /\ LoneFill(s) /\ ClosedQuiet(s)
    /\ s.filling => s.diskWritable

\* What neither pump nor a request for a chunk changes.
SameFill(s, u) ==
    /\ u.demands = s.demands /\ u.closed = s.closed /\ u.diskWritable = s.diskWritable
    /\ u.filling = s.filling /\ u.fillBusy = s.fillBusy /\ u.fillCursor = s.fillCursor
    /\ u.fillOrder = s.fillOrder /\ u.fillOver = s.fillOver

\* What pump leaves alone.
PumpFrame(s, u) ==
    /\ SameFill(s, u) /\ u.chunks = s.chunks /\ u.pending = s.pending
    /\ \A i \in DOMAIN u.queue : \E j \in DOMAIN s.queue : u.queue[i] = s.queue[j]

\* Numbers of jobs.
LEMMA CountsAreNumbers ==
    ASSUME NEW s \in Runtimes, NEW tasks, Counts(s, tasks)
    PROVE  /\ Cardinality(s.running) \in Nat
           /\ IsFiniteSet(Speculations(s.running))
           /\ Cardinality(Speculations(s.running)) \in Nat
           /\ Cardinality(Speculations(s.running)) <= Cardinality(s.running)
           /\ Ending(tasks) \in {0, 1} /\ EndingSpeculation(tasks) \in {0, 1}
           /\ EndingSpeculation(tasks) <= Ending(tasks)
           /\ s.speculativeActive <= s.active
<1>1. IsFiniteSet(s.running)
  BY DEF Counts
<1>2. Speculations(s.running) \in SUBSET s.running
  BY DEF Speculations
<1>3. /\ IsFiniteSet(Speculations(s.running))
      /\ Cardinality(Speculations(s.running)) <= Cardinality(s.running)
  BY <1>1, <1>2, FS_Subset
<1>4. Cardinality(s.running) \in Nat /\ Cardinality(Speculations(s.running)) \in Nat
  BY <1>1, <1>3, FS_CardinalityType
<1>5. /\ Ending(tasks) \in {0, 1} /\ EndingSpeculation(tasks) \in {0, 1}
      /\ EndingSpeculation(tasks) <= Ending(tasks)
  BY DEF Ending, EndingSpeculation
<1>6. /\ s.active = Cardinality(s.running) + Ending(tasks)
      /\ s.speculativeActive = Cardinality(Speculations(s.running)) + EndingSpeculation(tasks)
  BY DEF Counts
<1>7. \A a, b, c, d \in Int : a <= b /\ c <= d => a + c <= b + d
  OBVIOUS
<1>8. s.speculativeActive <= s.active
  BY <1>3, <1>4, <1>5, <1>6, <1>7
<1> QED BY <1>3, <1>4, <1>5, <1>8

LEMMA SpeculativeLimitIs == SpeculativeLimit \in Nat \ {0} /\ MaxInflight \in Nat \ {0}
<1>1. MaxInflight \in Nat \ {0}
  BY StreamConstants
<1>2. MaxInflight \div 2 \in 0..MaxInflight
  BY <1>1
<1> DEFINE T == {1, MaxInflight \div 2}
<1>3. T \in SUBSET (0..MaxInflight) /\ T # {} /\ 1 \in T
  BY <1>1, <1>2
<1> HIDE DEF T
<1>4. Max(T) \in T /\ \A k \in T : k <= Max(T)
  BY <1>1, <1>3, MaxIs
<1> DEFINE m == Max(T)
<1>5. m \in 0..MaxInflight /\ 1 <= m
  <2> HIDE DEF m
  <2>1. m \in T /\ \A k \in T : k <= m
    BY <1>4 DEF m
  <2> QED BY <1>3, <2>1
<1>6. m \in Nat \ {0}
  <2> HIDE DEF m
  <2> QED BY <1>1, <1>5
<1> QED BY <1>1, <1>6 DEF SpeculativeLimit, T

\* The speculative jobs among the first n, and one more.
LEMMA SpeculativeIs ==
    ASSUME NEW queue \in Seq(QueuedJobs), NEW n \in 0..Len(queue)
    PROVE  /\ Speculative(queue, n) \in 0..n
           /\ IsFiniteSet({i \in 1..n : queue[i].priority > 0})
           /\ n > 0 => Speculative(queue, n) =
                          Speculative(queue, n - 1) + (IF queue[n].priority > 0 THEN 1 ELSE 0)
<1> DEFINE T(k) == {i \in 1..k : queue[i].priority > 0}
<1>1. ASSUME NEW k \in 0..Len(queue)
      PROVE  IsFiniteSet(T(k)) /\ Cardinality(T(k)) \in 0..k
  <2>1. IsFiniteSet(1..k) /\ Cardinality(1..k) = k
    BY FS_Interval
  <2>2. T(k) \in SUBSET (1..k)
    OBVIOUS
  <2>3. IsFiniteSet(T(k)) /\ Cardinality(T(k)) <= k
    BY <2>1, <2>2, FS_Subset
  <2>4. Cardinality(T(k)) \in Nat
    BY <2>3, FS_CardinalityType
  <2> QED BY <2>3, <2>4
<1>2. ASSUME n > 0
      PROVE  Cardinality(T(n)) = Cardinality(T(n - 1)) + (IF queue[n].priority > 0 THEN 1 ELSE 0)
  <2>1. n - 1 \in 0..Len(queue) /\ n \notin T(n - 1)
    BY <1>2
  <2>2. CASE queue[n].priority > 0
    <3>1. T(n) = T(n - 1) \cup {n}
      BY <1>2, <2>2
    <3>2. IsFiniteSet(T(n - 1))
      BY <1>1, <2>1
    <3> HIDE DEF T
    <3>3. Cardinality(T(n - 1) \cup {n}) = Cardinality(T(n - 1)) + 1
      BY <2>1, <3>2, FS_AddElement
    <3> QED BY <2>2, <3>1, <3>3
  <2>3. CASE ~(queue[n].priority > 0)
    <3>1. T(n) = T(n - 1)
      BY <1>2, <2>3
    <3>2. Cardinality(T(n - 1)) \in Nat
      BY <1>1, <2>1
    <3> HIDE DEF T
    <3> QED BY <2>3, <3>1, <3>2
  <2> QED BY <2>2, <2>3
<1> QED BY <1>1, <1>2 DEF Speculative

\* The queued jobs that pump starts become running jobs.
LEMMA StartedIs ==
    ASSUME NEW queue \in Seq(QueuedJobs), NEW n \in 0..Len(queue),
           \A c \in Chunks, i, j \in DOMAIN queue :
              c \in Covers(queue[i]) /\ c \in Covers(queue[j]) => i = j
    PROVE  /\ Started(queue, n) \in SUBSET RunningJobs
           /\ IsFiniteSet(Started(queue, n)) /\ Cardinality(Started(queue, n)) = n
           /\ IsFiniteSet(Speculations(Started(queue, n)))
           /\ Cardinality(Speculations(Started(queue, n))) = Speculative(queue, n)
           /\ \A i \in 1..n : Covers(Begun(queue[i])) = Covers(queue[i])
<1>1. \A i \in DOMAIN queue : queue[i] \in QueuedJobs
  OBVIOUS
<1>2. \A q \in QueuedJobs : /\ Begun(q) \in RunningJobs /\ Covers(Begun(q)) = Covers(q)
                            /\ q.first \in Chunks /\ q.first \in Covers(q)
                            /\ Begun(q).speculative = (q.priority > 0)
  BY DEF QueuedJobs, RunningJobs, Begun, Covers, Chunks
<1> DEFINE f == [i \in 1..n |-> Begun(queue[i])]
           P == {i \in 1..n : queue[i].priority > 0}
<1>3. 1..n \subseteq DOMAIN queue
  OBVIOUS
<1>4. \A i, j \in 1..n : f[i] = f[j] => i = j
  <2> SUFFICES ASSUME NEW i \in 1..n, NEW j \in 1..n, Begun(queue[i]) = Begun(queue[j])
               PROVE  i = j
    OBVIOUS
  <2>1. i \in DOMAIN queue /\ j \in DOMAIN queue
    BY <1>3
  <2>2. Covers(queue[i]) = Covers(queue[j]) /\ queue[i].first \in Covers(queue[i])
        /\ queue[i].first \in Chunks
    BY <1>1, <1>2, <2>1
  <2> QED BY <2>1, <2>2
<1>5. IsFiniteSet(1..n) /\ Cardinality(1..n) = n
  BY FS_Interval
<1>6. IsFiniteSet(P) /\ Cardinality(P) = Speculative(queue, n) /\ P \subseteq 1..n
  BY SpeculativeIs DEF Speculative
<1>7. Started(queue, n) = {f[i] : i \in 1..n}
  BY DEF Started
<1>8. Speculations(Started(queue, n)) = {f[i] : i \in P}
  <2>1. \A i \in 1..n : f[i] = Begun(queue[i]) /\ (f[i].speculative <=> i \in P)
    BY <1>1, <1>2, <1>3
  <2> HIDE DEF f, P
  <2>2. \A job : job \in Speculations(Started(queue, n)) => \E i \in P : job = f[i]
    BY <2>1 DEF Speculations, Started
  <2>3. \A i \in P : f[i] \in Speculations(Started(queue, n))
    BY <2>1, <1>6 DEF Speculations, Started
  <2> QED BY <2>2, <2>3
<1>9. Started(queue, n) \in SUBSET RunningJobs
  BY <1>1, <1>2, <1>3 DEF Started
<1>10. \A i, j \in P : f[i] = f[j] => i = j
  BY <1>4, <1>6
<1> HIDE DEF f, P
<1>11. IsFiniteSet({f[i] : i \in 1..n}) /\ Cardinality({f[i] : i \in 1..n}) = n
  BY <1>4, <1>5, ImageCardinality
<1>12. IsFiniteSet({f[i] : i \in P}) /\ Cardinality({f[i] : i \in P}) = Cardinality(P)
  BY <1>6, <1>10, ImageCardinality
<1>13. \A i \in 1..n : Covers(Begun(queue[i])) = Covers(queue[i])
  BY <1>1, <1>2, <1>3
<1> QED BY <1>6, <1>7, <1>8, <1>9, <1>11, <1>12, <1>13

\* The sizes of two sets of running jobs that are apart.
LEMMA UnionOfJobs ==
    ASSUME NEW R, NEW T, IsFiniteSet(R), IsFiniteSet(T), R \cap T = {}
    PROVE  IsFiniteSet(R \cup T) /\ Cardinality(R \cup T) = Cardinality(R) + Cardinality(T)
<1>1. IsFiniteSet(R \cup T)
      /\ Cardinality(R \cup T) = Cardinality(R) + Cardinality(T) - Cardinality(R \cap T)
  BY FS_Union
<1>2. Cardinality(R \cap T) = 0
  BY FS_EmptySet
<1>3. Cardinality(R) \in Nat /\ Cardinality(T) \in Nat
  BY FS_CardinalityType
<1> QED BY <1>1, <1>2, <1>3

\* Starting the first n jobs moves who settles their chunks, and nothing else.
LEMMA StartedClaims ==
    ASSUME NEW s \in Runtimes, NEW tasks \in Seq(Microtasks), Claims(s, tasks),
           NEW n \in 0..Len(s.queue), NEW u,
           u.pending = s.pending, u.queue = SubSeq(s.queue, n + 1, Len(s.queue)),
           u.running = s.running \cup Started(s.queue, n)
    PROVE  Claims(u, tasks)
<1> DEFINE rest == u.queue
<1>1. s.queue \in Seq(QueuedJobs)
  BY DEF Runtimes
<1>2. \A c \in Chunks, i, j \in DOMAIN s.queue :
          c \in Covers(s.queue[i]) /\ c \in Covers(s.queue[j]) => i = j
  BY DEF Claims
<1>3. \A i \in 1..n : i \in DOMAIN s.queue /\ Covers(Begun(s.queue[i])) = Covers(s.queue[i])
  <2>1. \A i \in 1..n : i \in DOMAIN s.queue
    BY <1>1
  <2>2. \A i \in 1..n : Covers(Begun(s.queue[i])) = Covers(s.queue[i])
    <3> DEFINE queue == s.queue
    <3>1. /\ queue \in Seq(QueuedJobs) /\ n \in 0..Len(queue)
          /\ \A c \in Chunks, i, j \in DOMAIN queue :
                c \in Covers(queue[i]) /\ c \in Covers(queue[j]) => i = j
      BY <1>1, <1>2
    <3> HIDE DEF queue
    <3>2. \A i \in 1..n : Covers(Begun(queue[i])) = Covers(queue[i])
      BY <3>1, StartedIs
    <3> QED BY <3>2 DEF queue
  <2> QED BY <2>1, <2>2
<1>4. /\ rest \in Seq(QueuedJobs) /\ DOMAIN rest = 1..(Len(s.queue) - n)
      /\ \A i \in DOMAIN rest : i + n \in DOMAIN s.queue /\ rest[i] = s.queue[i + n]
  BY <1>1
<1>5. \A i \in DOMAIN s.queue : i \in 1..n \/ \E j \in DOMAIN rest : i = j + n
  <2> TAKE i \in DOMAIN s.queue
  <2>1. i \in 1..n \/ i - n \in 1..(Len(s.queue) - n)
    BY <1>1
  <2>2. i = (i - n) + n
    BY <1>1
  <2> QED BY <2>1, <2>2, <1>4
<1>6. \A job : job \in u.running <=>
          job \in s.running \/ \E i \in 1..n : job = Begun(s.queue[i])
  BY DEF Started
<1>7. \A i \in DOMAIN rest, j \in 1..n : i + n # j
  BY <1>4
<1>8. \A i, j \in DOMAIN rest : i + n = j + n => i = j
  BY <1>4
<1> HIDE DEF rest
<1>9. \A c \in Chunks :
          c \in u.pending <=> \/ \E i \in DOMAIN rest : c \in Covers(rest[i])
                              \/ \E job \in u.running : c \in Covers(job)
                              \/ \E k \in DOMAIN tasks : c \in Settles(tasks[k])
  <2> TAKE c \in Chunks
  <2>1. c \in s.pending <=> \/ \E i \in DOMAIN s.queue : c \in Covers(s.queue[i])
                            \/ \E job \in s.running : c \in Covers(job)
                            \/ \E k \in DOMAIN tasks : c \in Settles(tasks[k])
    BY DEF Claims
  <2>2. (\E i \in DOMAIN s.queue : c \in Covers(s.queue[i])) <=>
           \/ \E i \in DOMAIN rest : c \in Covers(rest[i])
           \/ \E i \in 1..n : c \in Covers(s.queue[i])
    BY <1>3, <1>4, <1>5
  <2>3. (\E job \in u.running : c \in Covers(job)) <=>
           \/ \E job \in s.running : c \in Covers(job)
           \/ \E i \in 1..n : c \in Covers(s.queue[i])
    BY <1>3, <1>6
  <2> QED BY <2>1, <2>2, <2>3
<1>10. \A c \in Chunks, i, j \in DOMAIN rest :
          c \in Covers(rest[i]) /\ c \in Covers(rest[j]) => i = j
  BY <1>2, <1>4, <1>8
<1>11. \A c \in Chunks, job, other \in u.running :
          c \in Covers(job) /\ c \in Covers(other) => job = other
  <2>1. \A c \in Chunks, job, other \in s.running :
          c \in Covers(job) /\ c \in Covers(other) => job = other
    BY DEF Claims
  <2>2. \A c \in Chunks, i \in DOMAIN s.queue, job \in s.running :
          ~(c \in Covers(s.queue[i]) /\ c \in Covers(job))
    BY DEF Claims
  <2>3. ASSUME NEW c \in Chunks, NEW i \in 1..n, NEW j \in 1..n,
               c \in Covers(Begun(s.queue[i])), c \in Covers(Begun(s.queue[j]))
        PROVE  i = j
    BY <2>3, <1>2, <1>3
  <2>4. \A c \in Chunks, i \in 1..n, job \in s.running :
          ~(c \in Covers(Begun(s.queue[i])) /\ c \in Covers(job))
    BY <2>2, <1>3
  <2> QED BY <2>1, <2>3, <2>4, <1>6
<1>12. \A c \in Chunks, i \in DOMAIN rest, job \in u.running :
          ~(c \in Covers(rest[i]) /\ c \in Covers(job))
  <2>1. \A c \in Chunks, i \in DOMAIN s.queue, job \in s.running :
          ~(c \in Covers(s.queue[i]) /\ c \in Covers(job))
    BY DEF Claims
  <2>2. \A c \in Chunks, i \in DOMAIN rest, j \in 1..n :
          ~(c \in Covers(rest[i]) /\ c \in Covers(Begun(s.queue[j])))
    BY <1>2, <1>3, <1>4, <1>7
  <2> QED BY <2>1, <2>2, <1>4, <1>6
<1>13. \A c \in Chunks, i \in DOMAIN rest, k \in DOMAIN tasks :
          ~(c \in Covers(rest[i]) /\ c \in Settles(tasks[k]))
  BY <1>4 DEF Claims
<1>14. \A c \in Chunks, job \in u.running, k \in DOMAIN tasks :
          ~(c \in Covers(job) /\ c \in Settles(tasks[k]))
  BY <1>3, <1>6 DEF Claims
<1>15. \A c \in Chunks, k, l \in DOMAIN tasks :
          c \in Settles(tasks[k]) /\ c \in Settles(tasks[l]) => k = l
  BY DEF Claims
<1> QED BY <1>9, <1>10, <1>11, <1>12, <1>13, <1>14, <1>15 DEF Claims, rest

\* The counters follow.
LEMMA StartedCounts ==
    ASSUME NEW s \in Runtimes, NEW tasks \in Seq(Microtasks), Claims(s, tasks),
           Counts(s, tasks), Ordered(s.queue),
           NEW n \in 0..Len(s.queue), \A i \in 1..n : MayStart(s, s.queue, i), NEW u,
           u.running = s.running \cup Started(s.queue, n), u.active = s.active + n,
           u.speculativeActive = s.speculativeActive + Speculative(s.queue, n)
    PROVE  Counts(u, tasks) /\ u.running \in SUBSET RunningJobs
<1> DEFINE queue == s.queue
           begun == Started(queue, n)
<1>1. queue \in Seq(QueuedJobs) /\ n \in 0..Len(queue)
  BY DEF Runtimes
<1>2. \A c \in Chunks, i, j \in DOMAIN queue :
          c \in Covers(queue[i]) /\ c \in Covers(queue[j]) => i = j
  BY DEF Claims
<1>3. \A i \in 1..n : i \in DOMAIN queue
  BY <1>1
<1>4. \A c \in Chunks, i \in DOMAIN queue, job \in s.running :
          ~(c \in Covers(queue[i]) /\ c \in Covers(job))
  BY DEF Claims
<1>5. /\ s.active \in Nat /\ s.speculativeActive \in Nat /\ s.running \in SUBSET RunningJobs
      /\ SpeculativeLimit \in Nat /\ MaxInflight \in Nat
  BY SpeculativeLimitIs DEF Runtimes
<1>6. Speculative(queue, n) \in 0..n
      /\ (n > 0 => Speculative(queue, n) =
                      Speculative(queue, n - 1) + (IF queue[n].priority > 0 THEN 1 ELSE 0))
  <2> HIDE DEF queue
  <2> QED BY <1>1, SpeculativeIs
<1>7. \A i \in 1..n : MayStart(s, queue, i)
  OBVIOUS
<1>8. Ordered(queue)
  OBVIOUS
<1>9. u.running = s.running \cup begun /\ u.active = s.active + n
      /\ u.speculativeActive = s.speculativeActive + Speculative(queue, n)
  OBVIOUS
<1> HIDE DEF queue
<1>10. /\ begun \in SUBSET RunningJobs /\ IsFiniteSet(begun) /\ Cardinality(begun) = n
       /\ IsFiniteSet(Speculations(begun))
       /\ Cardinality(Speculations(begun)) = Speculative(queue, n)
       /\ \A i \in 1..n : Covers(Begun(queue[i])) = Covers(queue[i])
  BY <1>1, <1>2, StartedIs
<1>11. s.running \cap begun = {}
  <2> SUFFICES ASSUME NEW job \in s.running, job \in begun PROVE FALSE
    OBVIOUS
  <2>1. PICK i \in 1..n : job = Begun(queue[i])
    BY DEF Started
  <2>2. job.first \in Chunks /\ job.first \in Covers(job)
    BY <1>5 DEF RunningJobs, Covers, Chunks
  <2>3. job.first \in Covers(queue[i])
    BY <1>10, <2>1, <2>2
  <2> QED BY <1>3, <1>4, <2>1, <2>2, <2>3
<1>12. Speculations(s.running \cup begun) = Speculations(s.running) \cup Speculations(begun)
       /\ Speculations(s.running) \cap Speculations(begun) = {}
  BY <1>11 DEF Speculations
<1>13. /\ IsFiniteSet(s.running) /\ IsFiniteSet(Speculations(s.running))
       /\ Cardinality(s.running) \in Nat /\ Cardinality(Speculations(s.running)) \in Nat
       /\ Ending(tasks) \in {0, 1} /\ EndingSpeculation(tasks) \in {0, 1}
  BY CountsAreNumbers DEF Counts
<1> HIDE DEF begun
<1>14. /\ IsFiniteSet(s.running \cup begun)
       /\ Cardinality(s.running \cup begun) = Cardinality(s.running) + n
  BY <1>10, <1>11, <1>13, UnionOfJobs
<1>15. Cardinality(Speculations(s.running \cup begun)) =
          Cardinality(Speculations(s.running)) + Speculative(queue, n)
  BY <1>10, <1>12, <1>13, UnionOfJobs
<1>16. u.active = Cardinality(u.running) + Ending(tasks)
  <2>1. s.active = Cardinality(s.running) + Ending(tasks)
    BY DEF Counts
  <2>2. Cardinality(u.running) = Cardinality(s.running) + n /\ n \in Nat
    <3>1. u.running = s.running \cup begun /\ n \in Nat
      BY <1>1, <1>9
    <3> QED BY <1>14, <3>1, Zenon
  <2>3. \A a, b, c \in Int : (a + b) + c = (a + c) + b
    OBVIOUS
  <2>4. u.active = (Cardinality(s.running) + Ending(tasks)) + n /\ Ending(tasks) \in Int
    BY <2>1, <1>9, <1>13
  <2> QED BY <2>2, <2>3, <2>4, <1>13
<1>17. u.speculativeActive = Cardinality(Speculations(u.running)) + EndingSpeculation(tasks)
  <2>1. s.speculativeActive = Cardinality(Speculations(s.running)) + EndingSpeculation(tasks)
    BY DEF Counts
  <2>2. Cardinality(Speculations(u.running)) =
           Cardinality(Speculations(s.running)) + Speculative(queue, n)
        /\ Speculative(queue, n) \in Int
    <3>1. u.running = s.running \cup begun /\ Speculative(queue, n) \in Int
      BY <1>1, <1>6, <1>9
    <3> QED BY <1>15, <3>1, Zenon
  <2>3. \A a, b, c \in Int : (a + b) + c = (a + c) + b
    OBVIOUS
  <2>4. u.speculativeActive =
           (Cardinality(Speculations(s.running)) + EndingSpeculation(tasks)) + Speculative(queue, n)
        /\ EndingSpeculation(tasks) \in Int
    BY <2>1, <1>9, <1>13
  <2> QED BY <2>2, <2>3, <2>4, <1>13
<1>18. u.active <= MaxInflight
  <2>1. CASE n = 0
    BY <2>1, <1>5, <1>9 DEF Counts
  <2>2. CASE n # 0
    <3>1. s.active + n - 1 < MaxInflight
      BY <2>2, <1>1, <1>7 DEF MayStart
    <3> QED BY <3>1, <1>1, <1>5, <1>9
  <2> QED BY <2>1, <2>2
<1>19. u.speculativeActive <= SpeculativeLimit
  <2>0. s.speculativeActive <= SpeculativeLimit
    BY DEF Counts
  <2>1. CASE Speculative(queue, n) = 0
    BY <2>0, <2>1, <1>5, <1>9
  <2>2. CASE Speculative(queue, n) # 0
    <3>1. n > 0 /\ n \in 1..n /\ n \in DOMAIN queue
      BY <2>2, <1>1, <1>6
    <3>2. queue[n].priority > 0
      <4> SUFFICES ASSUME ~(queue[n].priority > 0) PROVE FALSE
        OBVIOUS
      <4>1. {i \in 1..n : queue[i].priority > 0} # {}
        BY <2>2, FS_EmptySet DEF Speculative
      <4>2. PICK i \in 1..n : queue[i].priority > 0
        BY <4>1
      <4>3. i \in DOMAIN queue /\ i < n
        BY <1>3, <3>1, <4>2
      <4>4. queue[i].priority <= queue[n].priority
        BY <1>8, <3>1, <4>3 DEF Ordered
      <4>5. queue[i].priority \in 0..2 /\ queue[n].priority \in 0..2
        BY <1>1, <3>1, <4>3 DEF QueuedJobs
      <4> QED BY <4>2, <4>4, <4>5
    <3>3. s.speculativeActive + Speculative(queue, n - 1) < SpeculativeLimit
      BY <1>7, <3>1, <3>2 DEF MayStart
    <3>4. Speculative(queue, n - 1) \in Nat
      <4>1. n - 1 \in 0..Len(queue)
        BY <1>1, <3>1
      <4>2. Speculative(queue, n - 1) \in 0..(n - 1)
        BY <1>1, <4>1, SpeculativeIs
      <4> QED BY <4>1, <4>2
    <3> QED BY <1>5, <1>6, <1>9, <3>1, <3>2, <3>3, <3>4
  <2> QED BY <2>1, <2>2
<1>20. \A k, l \in DOMAIN tasks :
          tasks[k].kind = "jobEnds" /\ tasks[l].kind = "jobEnds" => k = l
  BY DEF Counts
<1>21. u.running \in SUBSET RunningJobs
  BY <1>5, <1>9, <1>10
<1> QED BY <1>9, <1>14, <1>16, <1>17, <1>18, <1>19, <1>20, <1>21 DEF Counts

\* The jobs that stay in the queue have a reason to.
LEMMA StartedBlocked ==
    ASSUME NEW s \in Runtimes, NEW tasks, Counts(s, tasks), Ordered(s.queue), LoneFill(s),
           NEW n \in 0..Len(s.queue), n < Len(s.queue) => ~MayStart(s, s.queue, n + 1), NEW u,
           u.queue = SubSeq(s.queue, n + 1, Len(s.queue)),
           u.active = s.active + n, u.active <= MaxInflight,
           u.speculativeActive = s.speculativeActive + Speculative(s.queue, n),
           u.speculativeActive <= SpeculativeLimit
    PROVE  Ordered(u.queue) /\ Blocked(u) /\ u.queue \in Seq(QueuedJobs)
<1> DEFINE queue == s.queue
<1>1. queue \in Seq(QueuedJobs) /\ n \in 0..Len(queue)
  BY DEF Runtimes
<1>2. /\ s.active \in Nat /\ s.speculativeActive \in Nat
      /\ s.speculativeActive <= s.active
      /\ SpeculativeLimit \in Nat \ {0} /\ MaxInflight \in Nat \ {0}
  BY SpeculativeLimitIs, CountsAreNumbers DEF Runtimes
<1>3. /\ Ordered(queue) /\ (n < Len(queue) => ~MayStart(s, queue, n + 1))
      /\ u.queue = SubSeq(queue, n + 1, Len(queue)) /\ u.active = s.active + n
      /\ u.speculativeActive = s.speculativeActive + Speculative(queue, n)
  OBVIOUS
<1>4. \A i \in DOMAIN queue : queue[i].priority = 2 =>
         Len(queue) = 1 /\ s.active = 0 /\ s.demands = 0
  BY DEF LoneFill
<1> HIDE DEF queue
<1>5. \A i \in DOMAIN queue : queue[i].priority \in 0..2
  BY <1>1 DEF QueuedJobs
<1>6. /\ u.queue \in Seq(QueuedJobs) /\ DOMAIN u.queue = 1..(Len(queue) - n)
      /\ \A i \in DOMAIN u.queue : /\ i + n \in DOMAIN queue /\ u.queue[i] = queue[i + n]
                                   /\ n < Len(queue) /\ i + n >= n + 1
  <2> DEFINE rest == u.queue
  <2>1. /\ rest \in Seq(QueuedJobs) /\ Len(rest) = Len(queue) - n
        /\ \A i \in 1..(Len(queue) - n) : i + n \in DOMAIN queue /\ rest[i] = queue[i + n]
    BY <1>1, <1>3, TailIs
  <2> HIDE DEF rest
  <2>2. DOMAIN rest = 1..(Len(queue) - n)
    BY <2>1
  <2>3. \A i \in 1..(Len(queue) - n) : n < Len(queue) /\ i + n >= n + 1
    BY <1>1
  <2>4. /\ rest \in Seq(QueuedJobs) /\ DOMAIN rest = 1..(Len(queue) - n)
        /\ \A i \in DOMAIN rest : /\ i + n \in DOMAIN queue /\ rest[i] = queue[i + n]
                                 /\ n < Len(queue) /\ i + n >= n + 1
    BY <2>1, <2>2, <2>3
  <2> QED BY <2>4 DEF rest
<1>7. \A i, j \in DOMAIN u.queue : i < j => i + n < j + n
  BY <1>1, <1>6
<1>8. Ordered(u.queue)
  BY <1>3, <1>6, <1>7 DEF Ordered
<1>9. Speculative(queue, n) \in 0..n
  BY <1>1, SpeculativeIs
<1>10. ASSUME NEW i \in DOMAIN u.queue
       PROVE  /\ u.queue[i].priority \in 0..1
              /\ \/ u.active = MaxInflight
                 \/ u.speculativeActive = SpeculativeLimit /\ u.queue[i].priority > 0
  <2> DEFINE k == i + n
  <2>1. k \in DOMAIN queue /\ u.queue[i] = queue[k] /\ n + 1 \in DOMAIN queue /\ n + 1 <= k
        /\ n < Len(queue)
    <3>1. i + n \in DOMAIN queue /\ u.queue[i] = queue[i + n] /\ n < Len(queue) /\ i + n >= n + 1
      BY <1>6
    <3>2. DOMAIN queue = 1..Len(queue) /\ Len(queue) \in Nat
      BY <1>1
    <3>3. n + 1 \in 1..Len(queue)
      BY <3>1, <3>2, <1>1
    <3>4. k \in DOMAIN queue /\ u.queue[i] = queue[k] /\ k >= n + 1
      BY <3>1
    <3>5. k >= n + 1 => n + 1 <= k
      BY <3>2, <3>4, <1>1
    <3> QED BY <3>1, <3>2, <3>3, <3>4, <3>5, Zenon
  <2> HIDE DEF k
  <2>2. queue[n + 1].priority <= queue[k].priority
    <3>1. CASE n + 1 = k
      <4>1. queue[k].priority \in 0..2
        BY <2>1, <1>5
      <4>2. queue[k].priority <= queue[k].priority
        BY <4>1
      <4> QED BY <3>1, <4>2, Zenon
    <3>2. CASE n + 1 # k
      <4>1. n + 1 < k
        BY <3>2, <2>1, <1>1
      <4> QED BY <4>1, <2>1, <1>3 DEF Ordered
    <3> QED BY <3>1, <3>2
  <2>3. ~MayStart(s, queue, n + 1) /\ (n + 1) - 1 = n /\ s.active + (n + 1) - 1 = s.active + n
    BY <2>1, <1>1, <1>2, <1>3
  <2>4. \/ ~(s.active + n < MaxInflight)
        \/ queue[n + 1].priority > 0 /\ ~(s.speculativeActive + Speculative(queue, n) < SpeculativeLimit)
        \/ queue[n + 1].priority = 2 /\ ~(s.demands = 0 /\ s.active + n = 0)
    BY <2>3 DEF MayStart
  <2>5. ASSUME \E j \in DOMAIN queue : queue[j].priority = 2 PROVE FALSE
    <3>1. Len(queue) = 1 /\ s.active = 0 /\ s.demands = 0 /\ n = 0
      BY <2>5, <1>1, <1>4, <2>1
    <3>2. s.speculativeActive = 0 /\ Speculative(queue, n) = 0
      BY <3>1, <1>2, <1>9
    <3> QED BY <2>4, <3>1, <3>2, <1>2
  <2>6. queue[k].priority \in 0..1 /\ queue[n + 1].priority \in 0..1
    BY <1>5, <2>1, <2>5
  <2>7. \/ u.active = MaxInflight
        \/ u.speculativeActive = SpeculativeLimit /\ queue[n + 1].priority > 0
    <3>1. n \in Nat /\ Speculative(queue, n) \in Nat
      BY <1>1, <1>9
    <3>2. u.active <= MaxInflight /\ u.speculativeActive <= SpeculativeLimit
      OBVIOUS
    <3>3. queue[n + 1].priority # 2
      BY <2>6
    <3>4. CASE ~(s.active + n < MaxInflight)
      <4>1. \A a, m \in Int : a <= m /\ ~(a < m) => a = m
        OBVIOUS
      <4>2. u.active = s.active + n /\ u.active \in Int /\ MaxInflight \in Int
        BY <3>1, <1>2, <1>3
      <4>3. u.active = MaxInflight
        BY <3>2, <3>4, <4>1, <4>2, Zenon
      <4> QED BY <4>3
    <3>5. CASE /\ queue[n + 1].priority > 0
               /\ ~(s.speculativeActive + Speculative(queue, n) < SpeculativeLimit)
      BY <3>1, <3>2, <3>5, <1>2, <1>3
    <3> QED BY <2>4, <3>3, <3>4, <3>5
  <2>8. queue[n + 1].priority > 0 => queue[k].priority > 0
    BY <2>2, <2>6
  <2>9. u.queue[i] = queue[k]
    BY <2>1
  <2>10. u.queue[i].priority \in 0..1
    BY <2>6, <2>9, Zenon
  <2>11. \/ u.active = MaxInflight
         \/ u.speculativeActive = SpeculativeLimit /\ u.queue[i].priority > 0
    BY <2>7, <2>8, <2>9, Zenon
  <2> QED BY <2>10, <2>11, Zenon
<1> QED BY <1>6, <1>8, <1>10 DEF Blocked

\* pump restores the invariant.
LEMMA PumpRight ==
    ASSUME NEW s, NEW tasks, RuntimePre(s, tasks)
    PROVE  RuntimeOK(Pump(s), tasks) /\ PumpFrame(s, Pump(s))
<1>1. /\ s \in Runtimes /\ tasks \in Seq(Microtasks)
      /\ Claims(s, tasks) /\ Counts(s, tasks)
      /\ Ordered(s.queue) /\ LoneFill(s) /\ ClosedQuiet(s)
      /\ s.filling => s.diskWritable
  BY DEF RuntimePre
<1>2. CASE s.closed
  <2>1. Pump(s) = s
    BY <1>2 DEF Pump
  <2>2. s.queue = <<>>
    BY <1>1, <1>2 DEF ClosedQuiet
  <2>3. Blocked(s)
    BY <2>2 DEF Blocked
  <2>5. PumpFrame(s, s)
    BY <2>2 DEF PumpFrame, SameFill
  <2> QED BY <1>1, <2>1, <2>3, <2>5 DEF RuntimeOK
<1>3. CASE ~s.closed
  <2>1. PICK n \in 0..Len(s.queue) :
              /\ \A i \in 1..n : MayStart(s, s.queue, i)
              /\ n < Len(s.queue) => ~MayStart(s, s.queue, n + 1)
              /\ Pump(s) = [s EXCEPT
                    !.queue = SubSeq(s.queue, n + 1, Len(s.queue)),
                    !.running = @ \cup {[first |-> s.queue[i].first, last |-> s.queue[i].last,
                                         fill |-> s.queue[i].fill,
                                         speculative |-> s.queue[i].priority > 0] : i \in 1..n},
                    !.active = @ + n,
                    !.speculativeActive = @ + Speculative(s.queue, n)]
    BY <1>1, <1>3, PumpIs
  <2> DEFINE u == Pump(s)
  <2>2. /\ u = [s EXCEPT !.queue = u.queue, !.running = u.running, !.active = u.active,
                         !.speculativeActive = u.speculativeActive]
        /\ u.queue = SubSeq(s.queue, n + 1, Len(s.queue))
        /\ u.running = s.running \cup Started(s.queue, n)
        /\ u.active = s.active + n
        /\ u.speculativeActive = s.speculativeActive + Speculative(s.queue, n)
        /\ u.pending = s.pending /\ u.chunks = s.chunks /\ SameFill(s, u)
    BY <1>1, <2>1 DEF Runtimes, Started, Begun, SameFill
  <2> HIDE DEF u
  <2>3. Claims(u, tasks)
    BY <1>1, <2>2, StartedClaims
  <2>4. Counts(u, tasks) /\ u.running \in SUBSET RunningJobs
    BY <1>1, <2>1, <2>2, StartedCounts
  <2>5. Ordered(u.queue) /\ Blocked(u) /\ u.queue \in Seq(QueuedJobs)
    <3>1. u.active <= MaxInflight /\ u.speculativeActive <= SpeculativeLimit
      BY <2>4 DEF Counts
    <3> QED BY <1>1, <2>1, <2>2, <3>1, StartedBlocked
  <2>6. u.active \in Nat /\ u.speculativeActive \in Nat
    <3>1. s.queue \in Seq(QueuedJobs) /\ s.active \in Nat /\ s.speculativeActive \in Nat
      BY <1>1 DEF Runtimes
    <3>2. Speculative(s.queue, n) \in 0..n
      BY <3>1, SpeculativeIs
    <3> QED BY <2>2, <3>1, <3>2
  <2>7. u \in Runtimes
    BY <1>1, <2>2, <2>4, <2>5, <2>6 DEF Runtimes, SameFill
  <2>8. PumpFrame(s, u)
    <3>1. \A i \in DOMAIN u.queue : i + n \in DOMAIN s.queue /\ u.queue[i] = s.queue[i + n]
      <4>1. s.queue \in Seq(QueuedJobs)
        BY <1>1 DEF Runtimes
      <4>2. n \in 0..Len(s.queue) /\ u.queue = SubSeq(s.queue, n + 1, Len(s.queue))
        BY <2>1, <2>2
      <4>3. /\ Len(u.queue) = Len(s.queue) - n /\ DOMAIN u.queue = 1..Len(u.queue)
            /\ \A i \in 1..(Len(s.queue) - n) :
                  i + n \in DOMAIN s.queue /\ u.queue[i] = s.queue[i + n]
        BY <4>1, <4>2, TailIs
      <4> QED BY <4>3
    <3> QED BY <2>2, <3>1 DEF PumpFrame
  <2>9. ClosedQuiet(u)
    BY <1>3, <2>2 DEF ClosedQuiet, SameFill
  <2>10. u.filling => u.diskWritable
    BY <1>1, <2>2 DEF SameFill
  <2> QED BY <1>1, <2>3, <2>4, <2>5, <2>7, <2>8, <2>9, <2>10 DEF RuntimeOK, u
<1> QED BY <1>2, <1>3

\* Where the elements of a sequence were before one was put in at k, or taken out.
Inserted(new, s, k, back) ==
    /\ \A i \in DOMAIN new : i # k => back[i] \in DOMAIN s /\ new[i] = s[back[i]]
    /\ \A i, j \in DOMAIN new : i # k /\ j # k /\ back[i] = back[j] => i = j
    /\ \A j \in DOMAIN s : \E i \in DOMAIN new : i # k /\ back[i] = j

Removed(new, s, k, back) ==
    /\ \A i \in DOMAIN new : back[i] \in DOMAIN s /\ back[i] # k /\ new[i] = s[back[i]]
    /\ \A i, j \in DOMAIN new : back[i] = back[j] => i = j
    /\ \A j \in DOMAIN s : j # k => \E i \in DOMAIN new : back[i] = j
    /\ \A i, j \in DOMAIN new : i < j => back[i] < back[j]

LEMMA InsertPlaces ==
    ASSUME NEW S, NEW s \in Seq(S), NEW k \in 1..(Len(s) + 1), NEW e \in S
    PROVE  \E back : Inserted(InsertAt(s, k, e), s, k, back)
<1> DEFINE new == InsertAt(s, k, e)
           back == [i \in 1..(Len(s) + 1) |-> IF i < k THEN i ELSE i - 1]
<1>1. /\ new \in Seq(S) /\ Len(new) = Len(s) + 1
      /\ \A i \in 1..Len(s) : new[IF i < k THEN i ELSE i + 1] = s[i]
  BY InsertAtIs
<1> HIDE DEF new
<1>2. DOMAIN new = 1..(Len(s) + 1) /\ DOMAIN s = 1..Len(s) /\ Len(s) \in Nat
  BY <1>1
<1>3. ASSUME NEW i \in 1..(Len(s) + 1), i # k
      PROVE  back[i] \in 1..Len(s) /\ new[i] = s[back[i]]
  <2>1. CASE i < k
    <3>1. i \in 1..Len(s) /\ back[i] = i
      BY <2>1
    <3> QED BY <2>1, <3>1, <1>1
  <2>2. CASE ~(i < k)
    <3>1. i - 1 \in 1..Len(s) /\ back[i] = i - 1 /\ ~(i - 1 < k) /\ (i - 1) + 1 = i
      BY <2>2, <1>3
    <3> QED BY <3>1, <1>1
  <2> QED BY <2>1, <2>2
<1>4. \A i, j \in 1..(Len(s) + 1) : i # k /\ j # k /\ back[i] = back[j] => i = j
  OBVIOUS
<1>5. ASSUME NEW j \in 1..Len(s)
      PROVE  \E i \in 1..(Len(s) + 1) : i # k /\ back[i] = j
  <2>1. CASE j < k
    <3>1. j \in 1..(Len(s) + 1) /\ j # k /\ back[j] = j
      BY <2>1
    <3> QED BY <3>1
  <2>2. CASE ~(j < k)
    <3>1. j + 1 \in 1..(Len(s) + 1) /\ j + 1 # k /\ back[j + 1] = j
      BY <2>2
    <3> QED BY <3>1
  <2> QED BY <2>1, <2>2
<1>6. Inserted(new, s, k, back)
  <2> HIDE DEF back
  <2> QED BY <1>2, <1>3, <1>4, <1>5 DEF Inserted
<1> HIDE DEF back
<1> QED BY <1>6 DEF new

LEMMA RemovePlaces ==
    ASSUME NEW S, NEW s \in Seq(S), NEW k \in DOMAIN s
    PROVE  \E back : Removed(RemoveAt(s, k), s, k, back)
<1> DEFINE new == RemoveAt(s, k)
           back == [i \in 1..(Len(s) - 1) |-> IF i < k THEN i ELSE i + 1]
<1>1. /\ new \in Seq(S) /\ Len(new) = Len(s) - 1
      /\ \A i \in 1..(Len(s) - 1) : new[i] = IF i < k THEN s[i] ELSE s[i + 1]
  BY RemoveAtIs
<1> HIDE DEF new
<1>2. DOMAIN new = 1..(Len(s) - 1) /\ DOMAIN s = 1..Len(s) /\ Len(s) \in Nat /\ k \in 1..Len(s)
  BY <1>1
<1>3. ASSUME NEW i \in 1..(Len(s) - 1)
      PROVE  back[i] \in 1..Len(s) /\ back[i] # k /\ new[i] = s[back[i]]
  <2>1. back[i] \in 1..Len(s) /\ back[i] # k
    BY <1>2
  <2> QED BY <1>1, <2>1
<1>4. \A i, j \in 1..(Len(s) - 1) : back[i] = back[j] => i = j
  BY <1>2
<1>5. \A i, j \in 1..(Len(s) - 1) : i < j => back[i] < back[j]
  BY <1>2
<1>6. ASSUME NEW j \in 1..Len(s), j # k PROVE \E i \in 1..(Len(s) - 1) : back[i] = j
  <2>1. CASE j < k
    <3>1. j \in 1..(Len(s) - 1) /\ back[j] = j
      BY <2>1, <1>2
    <3> QED BY <3>1
  <2>2. CASE ~(j < k)
    <3>1. j - 1 \in 1..(Len(s) - 1) /\ back[j - 1] = j
      BY <2>2, <1>2, <1>6
    <3> QED BY <3>1
  <2> QED BY <2>1, <2>2
<1>7. Removed(new, s, k, back)
  <2> HIDE DEF back
  <2> QED BY <1>2, <1>3, <1>4, <1>5, <1>6 DEF Removed
<1> HIDE DEF back
<1> QED BY <1>7 DEF new

\* A job that joins the queue will settle chunks that nobody was to settle.
LEMMA InsertClaims ==
    ASSUME NEW s \in Runtimes, NEW tasks \in Seq(Microtasks), Claims(s, tasks),
           NEW job \in QueuedJobs, Covers(job) \cap s.pending = {},
           NEW p \in 1..(Len(s.queue) + 1), NEW u,
           u.queue = InsertAt(s.queue, p, job), u.running = s.running,
           u.pending = s.pending \cup Covers(job)
    PROVE  Claims(u, tasks)
<1>1. s.queue \in Seq(QueuedJobs)
  BY DEF Runtimes
<1>2. PICK back :
         /\ \A i \in DOMAIN u.queue : i # p =>
               back[i] \in DOMAIN s.queue /\ u.queue[i] = s.queue[back[i]]
         /\ \A i, j \in DOMAIN u.queue : i # p /\ j # p /\ back[i] = back[j] => i = j
         /\ \A j \in DOMAIN s.queue : \E i \in DOMAIN u.queue : i # p /\ back[i] = j
  <2> DEFINE queue == s.queue
  <2>1. /\ queue \in Seq(QueuedJobs) /\ p \in 1..(Len(queue) + 1)
        /\ u.queue = InsertAt(queue, p, job)
    BY <1>1
  <2> HIDE DEF queue
  <2>2. PICK back : Inserted(InsertAt(queue, p, job), queue, p, back)
    BY <2>1, InsertPlaces
  <2>3. Inserted(u.queue, s.queue, p, back)
    BY <2>1, <2>2 DEF queue
  <2> QED BY <2>3 DEF Inserted
<1>3. p \in DOMAIN u.queue /\ u.queue[p] = job
  <2> DEFINE queue == s.queue
             new == InsertAt(queue, p, job)
  <2>1. queue \in Seq(QueuedJobs) /\ p \in 1..(Len(queue) + 1) /\ u.queue = new
    BY <1>1
  <2> HIDE DEF queue
  <2>2. new \in Seq(QueuedJobs) /\ Len(new) = Len(queue) + 1 /\ new[p] = job
    BY <2>1, InsertAtIs
  <2> HIDE DEF new
  <2>3. p \in DOMAIN new
    BY <2>1, <2>2
  <2> QED BY <2>1, <2>2, <2>3
<1>4. \A c \in Chunks :
          /\ c \in s.pending <=> \/ \E i \in DOMAIN s.queue : c \in Covers(s.queue[i])
                                 \/ \E other \in s.running : c \in Covers(other)
                                 \/ \E k \in DOMAIN tasks : c \in Settles(tasks[k])
          /\ c \in Covers(job) => c \notin s.pending
  BY DEF Claims
<1>5. \A c \in Chunks : (\E i \in DOMAIN u.queue : c \in Covers(u.queue[i])) <=>
          c \in Covers(job) \/ \E i \in DOMAIN s.queue : c \in Covers(s.queue[i])
  BY <1>2, <1>3
<1>6. \A c \in Chunks :
          c \in u.pending <=> \/ \E i \in DOMAIN u.queue : c \in Covers(u.queue[i])
                              \/ \E other \in u.running : c \in Covers(other)
                              \/ \E k \in DOMAIN tasks : c \in Settles(tasks[k])
  BY <1>4, <1>5
<1>7. \A c \in Chunks, i, j \in DOMAIN u.queue :
          c \in Covers(u.queue[i]) /\ c \in Covers(u.queue[j]) => i = j
  <2>1. \A c \in Chunks, i, j \in DOMAIN s.queue :
          c \in Covers(s.queue[i]) /\ c \in Covers(s.queue[j]) => i = j
    BY DEF Claims
  <2> QED BY <2>1, <1>2, <1>3, <1>4
<1>8. \A c \in Chunks, i \in DOMAIN u.queue, other \in u.running :
          ~(c \in Covers(u.queue[i]) /\ c \in Covers(other))
  BY <1>2, <1>3, <1>4 DEF Claims
<1>9. \A c \in Chunks, i \in DOMAIN u.queue, k \in DOMAIN tasks :
          ~(c \in Covers(u.queue[i]) /\ c \in Settles(tasks[k]))
  BY <1>2, <1>3, <1>4 DEF Claims
<1> QED BY <1>6, <1>7, <1>8, <1>9 DEF Claims

\* A job that leaves the queue.
LEMMA RemoveClaims ==
    ASSUME NEW s \in Runtimes, NEW tasks \in Seq(Microtasks), Claims(s, tasks),
           NEW k \in DOMAIN s.queue, NEW u,
           u.queue = RemoveAt(s.queue, k), u.running = s.running,
           u.pending = s.pending \ Covers(s.queue[k])
    PROVE  Claims(u, tasks)
<1>1. s.queue \in Seq(QueuedJobs)
  BY DEF Runtimes
<1>2. PICK back :
         /\ \A i \in DOMAIN u.queue :
               back[i] \in DOMAIN s.queue /\ back[i] # k /\ u.queue[i] = s.queue[back[i]]
         /\ \A i, j \in DOMAIN u.queue : back[i] = back[j] => i = j
         /\ \A j \in DOMAIN s.queue : j # k => \E i \in DOMAIN u.queue : back[i] = j
  <2> DEFINE queue == s.queue
  <2>1. queue \in Seq(QueuedJobs) /\ k \in DOMAIN queue /\ u.queue = RemoveAt(queue, k)
    BY <1>1
  <2> HIDE DEF queue
  <2>2. PICK back : Removed(RemoveAt(queue, k), queue, k, back)
    BY <2>1, RemovePlaces
  <2>3. Removed(u.queue, s.queue, k, back)
    BY <2>1, <2>2 DEF queue
  <2> QED BY <2>3 DEF Removed
<1>3. \A c \in Chunks :
          c \in s.pending <=> \/ \E i \in DOMAIN s.queue : c \in Covers(s.queue[i])
                              \/ \E other \in s.running : c \in Covers(other)
                              \/ \E l \in DOMAIN tasks : c \in Settles(tasks[l])
  BY DEF Claims
<1>4. /\ \A c \in Chunks, i, j \in DOMAIN s.queue :
             c \in Covers(s.queue[i]) /\ c \in Covers(s.queue[j]) => i = j
      /\ \A c \in Chunks, i \in DOMAIN s.queue, job \in s.running :
             ~(c \in Covers(s.queue[i]) /\ c \in Covers(job))
      /\ \A c \in Chunks, i \in DOMAIN s.queue, l \in DOMAIN tasks :
             ~(c \in Covers(s.queue[i]) /\ c \in Settles(tasks[l]))
  BY DEF Claims
<1>5. \A c \in Chunks : (\E i \in DOMAIN u.queue : c \in Covers(u.queue[i])) <=>
          c \notin Covers(s.queue[k]) /\ \E i \in DOMAIN s.queue : c \in Covers(s.queue[i])
  BY <1>2, <1>4
<1>6. \A c \in Chunks :
          c \in u.pending <=> \/ \E i \in DOMAIN u.queue : c \in Covers(u.queue[i])
                              \/ \E other \in u.running : c \in Covers(other)
                              \/ \E l \in DOMAIN tasks : c \in Settles(tasks[l])
  BY <1>3, <1>4, <1>5
<1>7. \A c \in Chunks, i, j \in DOMAIN u.queue :
          c \in Covers(u.queue[i]) /\ c \in Covers(u.queue[j]) => i = j
  BY <1>2, <1>4
<1>8. \A c \in Chunks, i \in DOMAIN u.queue, other \in u.running :
          ~(c \in Covers(u.queue[i]) /\ c \in Covers(other))
  BY <1>2, <1>4
<1>9. \A c \in Chunks, i \in DOMAIN u.queue, l \in DOMAIN tasks :
          ~(c \in Covers(u.queue[i]) /\ c \in Settles(tasks[l]))
  BY <1>2, <1>4
<1> QED BY <1>6, <1>7, <1>8, <1>9 DEF Claims

\* A job joins the queue.
Enqueued(s, job) == [s EXCEPT !.queue = Enqueue(@, job), !.pending = @ \cup Covers(job)]

MayEnqueue(s, tasks, job) ==
    /\ s \in Runtimes /\ tasks \in Seq(Microtasks) /\ Claims(s, tasks) /\ Counts(s, tasks)
    /\ Ordered(s.queue) /\ \A i \in DOMAIN s.queue : s.queue[i].priority \in 0..1
    /\ ~s.closed /\ (s.filling => s.diskWritable)
    /\ job \in QueuedJobs /\ Covers(job) \cap s.pending = {}
    /\ job.priority = 2 => s.queue = <<>> /\ s.active = 0 /\ s.demands = 0

\* Then pump finds what it expects.
LEMMA EnqueueRight ==
    ASSUME NEW s, NEW tasks, NEW job, MayEnqueue(s, tasks, job),
           NEW u, u = Enqueued(s, job)
    PROVE  /\ RuntimePre(u, tasks)
           /\ \A i \in DOMAIN u.queue :
                 u.queue[i] = job \/ \E j \in DOMAIN s.queue : u.queue[i] = s.queue[j]
<1>0. /\ s \in Runtimes /\ tasks \in Seq(Microtasks) /\ Claims(s, tasks) /\ Counts(s, tasks)
      /\ Ordered(s.queue) /\ \A i \in DOMAIN s.queue : s.queue[i].priority \in 0..1
      /\ ~s.closed /\ (s.filling => s.diskWritable)
      /\ job \in QueuedJobs /\ Covers(job) \cap s.pending = {}
      /\ job.priority = 2 => s.queue = <<>> /\ s.active = 0 /\ s.demands = 0
  BY DEF MayEnqueue
<1> DEFINE queue == s.queue
           new == u.queue
<1>1. queue \in Seq(QueuedJobs)
  BY <1>0 DEF Runtimes
<1>2. /\ new = Enqueue(queue, job) /\ u.pending = s.pending \cup Covers(job)
      /\ u.running = s.running /\ u.active = s.active /\ u.closed = s.closed
      /\ u.speculativeActive = s.speculativeActive /\ u.demands = s.demands
      /\ u.filling = s.filling /\ u.diskWritable = s.diskWritable
      /\ u = [s EXCEPT !.queue = new, !.pending = s.pending \cup Covers(job)]
  BY <1>0 DEF Runtimes, Enqueued
<1>3. Ordered(queue) /\ \A i \in DOMAIN queue : queue[i].priority \in 0..1
  BY <1>0
<1>4. job.priority = 2 => queue = <<>> /\ s.active = 0 /\ s.demands = 0
  BY <1>0
<1> HIDE DEF queue, new
<1>5. PICK p \in 1..(Len(queue) + 1) : new = InsertAt(queue, p, job) /\ Ordered(new)
  BY <1>0, <1>1, <1>2, <1>3, EnqueueIs
<1>6. PICK back : Inserted(new, queue, p, back)
  BY <1>0, <1>1, <1>5, InsertPlaces
<1>7. new \in Seq(QueuedJobs) /\ Len(new) = Len(queue) + 1 /\ new[p] = job
  BY <1>0, <1>1, <1>5, InsertAtIs
<1>8. Claims(u, tasks)
  <2>1. p \in 1..(Len(s.queue) + 1) /\ u.queue = InsertAt(s.queue, p, job)
    BY <1>5 DEF queue, new
  <2>2. u.running = s.running /\ u.pending = s.pending \cup Covers(job)
    BY <1>2
  <2> QED BY <1>0, <2>1, <2>2, InsertClaims
<1>9. Counts(u, tasks)
  BY <1>0, <1>2 DEF Counts
<1>10. u \in Runtimes
  <2>1. Covers(job) \in SUBSET Chunks
    BY <1>0, CoversAre
  <2> QED BY <1>0, <1>2, <1>7, <2>1 DEF Runtimes
<1>11. \A i \in DOMAIN new : new[i] = job \/ \E j \in DOMAIN queue : new[i] = queue[j]
  BY <1>6, <1>7 DEF Inserted
<1>12. ASSUME NEW i \in DOMAIN new, new[i].priority = 2
       PROVE  Len(new) = 1 /\ u.active = 0 /\ u.demands = 0
  <2>1. job.priority = 2
    BY <1>3, <1>11, <1>12
  <2>2. queue = <<>> /\ s.active = 0 /\ s.demands = 0
    BY <1>4, <2>1
  <2>3. Len(new) = 1
    BY <1>7, <2>2
  <2> QED BY <1>2, <2>2, <2>3
<1>13. LoneFill(u)
  BY <1>12 DEF LoneFill, new
<1>14. ClosedQuiet(u)
  BY <1>0, <1>2 DEF ClosedQuiet
<1>15. Ordered(u.queue)
  BY <1>5 DEF new
<1>16. u.filling => u.diskWritable
  BY <1>0, <1>2
<1>17. RuntimePre(u, tasks)
  BY <1>0, <1>8, <1>9, <1>10, <1>13, <1>14, <1>15, <1>16 DEF RuntimePre
<1> QED BY <1>11, <1>17 DEF new, queue

\* What asking for a chunk changes: a demand stays one and a resident chunk
\* resident.
AskFrame(s, u) ==
    /\ SameFill(s, u)
    /\ s.pending \subseteq u.pending
    /\ \A c \in s.pending : NotSpeculated(s, c) => NotSpeculated(u, c)
    /\ \A c \in Chunks : Resident(s, c) <=> Resident(u, c)

LEMMA AskFrameTrans ==
    ASSUME NEW s \in Runtimes, NEW t \in Runtimes, NEW u \in Runtimes,
           AskFrame(s, t), AskFrame(t, u)
    PROVE  AskFrame(s, u)
<1>1. SameFill(s, u)
  BY DEF AskFrame, SameFill
<1>2. s.pending \subseteq u.pending
  BY DEF AskFrame
<1>3. \A c \in s.pending : NotSpeculated(s, c) => NotSpeculated(u, c)
  BY DEF AskFrame
<1>4. \A c \in Chunks : Resident(s, c) <=> Resident(u, c)
  BY DEF AskFrame
<1> QED BY <1>1, <1>2, <1>3, <1>4 DEF AskFrame

\* Starting jobs asks for nothing more.
LEMMA PumpAsks ==
    ASSUME NEW s \in Runtimes, NEW u, PumpFrame(s, u)
    PROVE  /\ AskFrame(s, u) /\ u.pending = s.pending /\ u.chunks = s.chunks
           /\ \A c : NotSpeculated(s, c) => NotSpeculated(u, c)
<1>1. u.chunks = s.chunks /\ u.pending = s.pending /\ SameFill(s, u)
  BY DEF PumpFrame
<1>2. \A i \in DOMAIN u.queue : \E j \in DOMAIN s.queue : u.queue[i] = s.queue[j]
  BY DEF PumpFrame
<1>3. \A c : NotSpeculated(s, c) => NotSpeculated(u, c)
  BY <1>2 DEF NotSpeculated
<1>4. \A c \in Chunks : Resident(s, c) <=> Resident(u, c)
  BY <1>1 DEF Resident
<1> QED BY <1>1, <1>3, <1>4 DEF AskFrame

\* Fields that the transfers do not depend on.
LEMMA SameTransfers ==
    ASSUME NEW s, NEW tasks, RuntimeOK(s, tasks), NEW u \in Runtimes,
           u.pending = s.pending, u.queue = s.queue, u.running = s.running,
           u.active = s.active, u.speculativeActive = s.speculativeActive,
           u.closed = s.closed, u.filling => u.diskWritable
    PROVE  RuntimeOK(u, tasks)
<1>1. Claims(u, tasks)
  BY DEF RuntimeOK, Claims
<1>2. Counts(u, tasks)
  BY DEF RuntimeOK, Counts
<1>3. Ordered(u.queue) /\ Blocked(u) /\ ClosedQuiet(u) /\ tasks \in Seq(Microtasks)
  BY DEF RuntimeOK, Blocked, ClosedQuiet
<1> QED BY <1>1, <1>2, <1>3 DEF RuntimeOK

\* What is not pending, no queued job covers.
LEMMA QueuedIsPending ==
    ASSUME NEW s, NEW tasks, Claims(s, tasks), NEW c \in Chunks, c \notin s.pending
    PROVE  \A i \in DOMAIN s.queue : c \notin Covers(s.queue[i])
BY DEF Claims

\* schedule, for chunks that are not pending.
MaySchedule(s, tasks, first, last, fill, priority) ==
    /\ RuntimeOK(s, tasks) /\ ~s.closed
    /\ first \in Chunks /\ last \in Chunks /\ first <= last /\ (first..last) \cap s.pending = {}
    /\ fill \in BOOLEAN /\ priority \in 0..2
    /\ priority = 2 => s.queue = <<>> /\ s.active = 0 /\ s.demands = 0

LEMMA ScheduleRight ==
    ASSUME NEW s, NEW tasks, NEW first, NEW last, NEW fill, NEW priority,
           MaySchedule(s, tasks, first, last, fill, priority),
           NEW u, u = Schedule(s, first, last, fill, priority)
    PROVE  /\ RuntimeOK(u, tasks) /\ AskFrame(s, u)
           /\ u.pending = s.pending \cup (first..last) /\ u.chunks = s.chunks
           /\ priority = 0 => \A c \in first..last : NotSpeculated(u, c)
<1>0. /\ RuntimeOK(s, tasks) /\ ~s.closed
      /\ first \in Chunks /\ last \in Chunks /\ first <= last /\ (first..last) \cap s.pending = {}
      /\ fill \in BOOLEAN /\ priority \in 0..2
      /\ priority = 2 => s.queue = <<>> /\ s.active = 0 /\ s.demands = 0
  BY DEF MaySchedule
<1> DEFINE job == [first |-> first, last |-> last, fill |-> fill, priority |-> priority]
           t == [s EXCEPT !.queue = Enqueue(@, job), !.pending = @ \cup (first..last)]
<1>1. job \in QueuedJobs /\ Covers(job) = first..last /\ job.priority = priority
  BY <1>0 DEF QueuedJobs, Covers
<1>2. /\ s \in Runtimes /\ tasks \in Seq(Microtasks) /\ Claims(s, tasks) /\ Counts(s, tasks)
      /\ Ordered(s.queue) /\ (s.filling => s.diskWritable)
      /\ \A i \in DOMAIN s.queue : s.queue[i].priority \in 0..1
  BY <1>0 DEF RuntimeOK, Blocked
<1>3. u = Pump(t)
  BY DEF Schedule
<1>4. t = Enqueued(s, job)
  BY <1>1 DEF Enqueued
<1>5. /\ t.pending = s.pending \cup (first..last) /\ t.chunks = s.chunks /\ SameFill(s, t)
  BY <1>2 DEF Runtimes, SameFill
<1>6. first..last \subseteq Chunks
  BY <1>1, CoversAre
<1> HIDE DEF job, t
<1>7. /\ RuntimePre(t, tasks)
      /\ \A i \in DOMAIN t.queue :
            t.queue[i] = job \/ \E j \in DOMAIN s.queue : t.queue[i] = s.queue[j]
  <2>1. Covers(job) \cap s.pending = {}
    BY <1>0, <1>1
  <2>2. job.priority = 2 => s.queue = <<>> /\ s.active = 0 /\ s.demands = 0
    BY <1>0, <1>1
  <2>3. MayEnqueue(s, tasks, job)
    BY <1>0, <1>1, <1>2, <2>1, <2>2 DEF MayEnqueue
  <2> QED BY <1>4, <2>3, EnqueueRight
<1>8. RuntimeOK(u, tasks) /\ PumpFrame(t, u) /\ t \in Runtimes
  BY <1>3, <1>7, PumpRight DEF RuntimePre
<1>9. /\ AskFrame(t, u) /\ u.pending = t.pending /\ u.chunks = t.chunks
      /\ \A c : NotSpeculated(t, c) => NotSpeculated(u, c)
  BY <1>8, PumpAsks
<1>10. \A c \in s.pending : NotSpeculated(s, c) => NotSpeculated(u, c)
  <2>1. \A c \in s.pending : NotSpeculated(s, c) => NotSpeculated(t, c)
    BY <1>0, <1>1, <1>7 DEF NotSpeculated
  <2> QED BY <2>1, <1>9
<1>11. ASSUME priority = 0, NEW c \in first..last PROVE NotSpeculated(u, c)
  <2>1. \A i \in DOMAIN s.queue : c \notin Covers(s.queue[i])
    BY <1>0, <1>2, <1>6, QueuedIsPending
  <2>2. NotSpeculated(t, c)
    BY <1>1, <1>7, <1>11, <2>1 DEF NotSpeculated
  <2> QED BY <2>2, <1>9
<1>12. AskFrame(s, u)
  BY <1>5, <1>9, <1>10 DEF AskFrame, PumpFrame, SameFill, Resident
<1> QED BY <1>3, <1>5, <1>8, <1>9, <1>11, <1>12

\* The demand for a chunk that is pending makes its job one.
LEMMA PromoteRight ==
    ASSUME NEW s, NEW tasks, RuntimeOK(s, tasks), ~s.closed, NEW c \in Chunks
    PROVE  LET u == Promote(s, c)
           IN  /\ RuntimeOK(u, tasks) /\ AskFrame(s, u)
               /\ u.pending = s.pending /\ u.chunks = s.chunks /\ NotSpeculated(u, c)
<1>1. /\ s \in Runtimes /\ tasks \in Seq(Microtasks) /\ Claims(s, tasks) /\ Counts(s, tasks)
      /\ Ordered(s.queue) /\ (s.filling => s.diskWritable) /\ ClosedQuiet(s)
      /\ \A i \in DOMAIN s.queue : s.queue[i].priority \in 0..1
  BY DEF RuntimeOK, Blocked
<1> DEFINE queued == {i \in DOMAIN s.queue : c \in Covers(s.queue[i])}
           u == Promote(s, c)
<1> SUFFICES /\ RuntimeOK(u, tasks) /\ AskFrame(s, u)
             /\ u.pending = s.pending /\ u.chunks = s.chunks /\ NotSpeculated(u, c)
  BY Zenon
<1>2. ASSUME NEW t, RuntimePre(t, tasks), u = Pump(t), t.pending = s.pending,
             t.chunks = s.chunks, SameFill(s, t), NotSpeculated(t, c),
             \A d \in s.pending : NotSpeculated(s, d) => NotSpeculated(t, d)
      PROVE  /\ RuntimeOK(u, tasks) /\ AskFrame(s, u)
             /\ u.pending = s.pending /\ u.chunks = s.chunks /\ NotSpeculated(u, c)
  <2> HIDE DEF u
  <2>1. RuntimeOK(u, tasks) /\ PumpFrame(t, u) /\ t \in Runtimes
    BY <1>2, PumpRight DEF RuntimePre
  <2>2. /\ AskFrame(t, u) /\ u.pending = t.pending /\ u.chunks = t.chunks
        /\ \A d : NotSpeculated(t, d) => NotSpeculated(u, d)
    BY <2>1, PumpAsks
  <2>3. \A d \in s.pending : NotSpeculated(s, d) => NotSpeculated(u, d)
    BY <1>2, <2>2
  <2>4. SameFill(s, u)
    BY <1>2, <2>1 DEF PumpFrame, SameFill
  <2>5. \A d \in Chunks : Resident(s, d) <=> Resident(u, d)
    BY <1>2, <2>2 DEF Resident
  <2> QED BY <1>2, <2>1, <2>2, <2>3, <2>4, <2>5 DEF AskFrame
<1>3. CASE ~\E i \in queued : s.queue[i].priority > 0
  <2>1. u = Pump(s)
    BY <1>3 DEF Promote
  <2>2. NotSpeculated(s, c)
    BY <1>3 DEF NotSpeculated
  <2>3. LoneFill(s)
    BY <1>1 DEF LoneFill
  <2>4. RuntimePre(s, tasks) /\ SameFill(s, s)
    BY <1>1, <2>3 DEF RuntimePre, SameFill
  <2> QED BY <1>2, <2>1, <2>2, <2>4
<1>4. CASE \E i \in queued : s.queue[i].priority > 0
  <2> DEFINE k == CHOOSE i \in queued : s.queue[i].priority > 0
             old == s.queue[k]
             job == [old EXCEPT !.priority = 0]
             less == RemoveAt(s.queue, k)
             t == [s EXCEPT !.queue = Enqueue(less, job)]
             v == [s EXCEPT !.queue = less, !.pending = @ \ Covers(old)]
  <2>1. k \in DOMAIN s.queue /\ c \in Covers(old)
    BY <1>4
  <2>2. u = Pump(t)
    BY <1>4 DEF Promote
  <2> HIDE DEF k, u
  <2>3. s.queue \in Seq(QueuedJobs) /\ old \in QueuedJobs
    BY <1>1, <2>1 DEF Runtimes
  <2>4. job \in QueuedJobs /\ Covers(job) = Covers(old) /\ job.priority = 0
    <3> HIDE DEF old
    <3> QED BY <2>3 DEF QueuedJobs, Covers
  <2> HIDE DEF job
  <2>5. PICK back : Removed(less, s.queue, k, back)
    <3> DEFINE queue == s.queue
    <3>1. queue \in Seq(QueuedJobs) /\ k \in DOMAIN queue
      BY <2>1, <2>3
    <3> HIDE DEF queue
    <3>2. PICK back : Removed(RemoveAt(queue, k), queue, k, back)
      BY <3>1, RemovePlaces
    <3> QED BY <3>2 DEF queue
  <2>6. less \in Seq(QueuedJobs)
    BY <2>1, <2>3, RemoveAtIs
  <2> HIDE DEF less, old
  <2>7. Ordered(less) /\ \A i \in DOMAIN less : less[i].priority \in 0..1
    BY <1>1, <2>5 DEF Ordered, Removed
  <2>8. v \in Runtimes /\ v.queue = less /\ v.pending = s.pending \ Covers(old)
        /\ v.running = s.running /\ v.closed = s.closed /\ v.filling = s.filling
        /\ v.diskWritable = s.diskWritable /\ v.active = s.active
        /\ v.speculativeActive = s.speculativeActive
    BY <1>1, <2>6 DEF Runtimes
  <2>9. Covers(old) \subseteq s.pending
    <3>1. Covers(old) \subseteq Chunks
      BY <2>3, CoversAre
    <3> QED BY <1>1, <2>1, <3>1 DEF Claims, old
  <2>10. t = Enqueued(v, job)
    <3>1. (s.pending \ Covers(old)) \cup Covers(job) = s.pending
      BY <2>4, <2>9
    <3> QED BY <1>1, <3>1 DEF Runtimes, Enqueued
  <2>11. t.pending = s.pending /\ t.chunks = s.chunks /\ SameFill(s, t)
    BY <1>1 DEF Runtimes, SameFill
  <2> HIDE DEF v, t
  <2>12. Claims(v, tasks)
    <3>1. v.queue = RemoveAt(s.queue, k) /\ v.pending = s.pending \ Covers(s.queue[k])
      BY <2>8 DEF less, old
    <3> QED BY <1>1, <2>1, <2>8, <3>1, RemoveClaims
  <2>13. Counts(v, tasks)
    BY <1>1, <2>8 DEF Counts
  <2>14. /\ RuntimePre(t, tasks)
         /\ \A i \in DOMAIN t.queue :
               t.queue[i] = job \/ \E j \in DOMAIN v.queue : t.queue[i] = v.queue[j]
    <3>1. /\ Ordered(v.queue) /\ \A i \in DOMAIN v.queue : v.queue[i].priority \in 0..1
      BY <2>7, <2>8
    <3>2. ~v.closed /\ (v.filling => v.diskWritable) /\ Covers(job) \cap v.pending = {}
      BY <1>1, <2>4, <2>8
    <3>3. job.priority = 2 => v.queue = <<>> /\ v.active = 0 /\ v.demands = 0
      BY <2>4
    <3>4. MayEnqueue(v, tasks, job)
      BY <1>1, <2>4, <2>8, <2>12, <2>13, <3>1, <3>2, <3>3 DEF MayEnqueue
    <3> QED BY <2>10, <3>4, EnqueueRight
  <2>15. \A i \in DOMAIN t.queue : t.queue[i].priority > 0 =>
            \E j \in DOMAIN s.queue : j # k /\ t.queue[i] = s.queue[j]
    BY <2>4, <2>5, <2>8, <2>14 DEF Removed
  <2>16. NotSpeculated(t, c)
    BY <1>1, <2>1, <2>15 DEF NotSpeculated, Claims, old
  <2>17. \A d \in s.pending : NotSpeculated(s, d) => NotSpeculated(t, d)
    BY <2>15 DEF NotSpeculated
  <2> QED BY <1>2, <2>2, <2>11, <2>14, <2>16, <2>17
<1> QED BY <1>3, <1>4

-----------------------------------------------------------------------------
(* The resident chunks.                                                    *)

\* A chunk of a cache.
Holds(chunks, c) == \E i \in DOMAIN chunks : chunks[i].chunk = c

LEMMA OthersAre ==
    ASSUME NEW chunks \in Seq(Entries), NEW c \in Chunks
    PROVE  /\ Others(chunks, c) \in Seq(Entries)
           /\ \A d : d # c => (Holds(Others(chunks, c), d) <=> Holds(chunks, d))
<1>1. CASE ~\E i \in DOMAIN chunks : chunks[i].chunk = c
  BY <1>1 DEF Others
<1>2. CASE \E i \in DOMAIN chunks : chunks[i].chunk = c
  <2> DEFINE k == CHOOSE i \in DOMAIN chunks : chunks[i].chunk = c
  <2>1. k \in DOMAIN chunks /\ chunks[k].chunk = c
    BY <1>2
  <2>2. Others(chunks, c) = RemoveAt(chunks, k)
    BY <1>2 DEF Others
  <2> HIDE DEF k
  <2> DEFINE less == RemoveAt(chunks, k)
  <2>3. less \in Seq(Entries)
    BY <2>1, RemoveAtIs
  <2>4. PICK back : Removed(less, chunks, k, back)
    BY <2>1, RemovePlaces
  <2> HIDE DEF less
  <2>5. \A d : d # c => (Holds(less, d) <=> Holds(chunks, d))
    BY <2>1, <2>4 DEF Holds, Removed
  <2> QED BY <2>2, <2>3, <2>5 DEF less
<1> QED BY <1>1, <1>2

\* A chunk becomes the newest.
LEMMA NewestIs ==
    ASSUME NEW chunks \in Seq(Entries), NEW e \in Entries
    PROVE  /\ Append(chunks, e) \in Seq(Entries)
           /\ \A d : Holds(Append(chunks, e), d) <=> d = e.chunk \/ Holds(chunks, d)
<1> DEFINE new == Append(chunks, e)
<1>1. /\ new \in Seq(Entries) /\ Len(new) = Len(chunks) + 1 /\ new[Len(chunks) + 1] = e
      /\ \A i \in 1..Len(chunks) : new[i] = chunks[i]
  OBVIOUS
<1> HIDE DEF new
<1>2. \A i \in DOMAIN new : i = Len(chunks) + 1 \/ i \in 1..Len(chunks)
  BY <1>1
<1>3. Len(chunks) + 1 \in DOMAIN new /\ \A i \in 1..Len(chunks) : i \in DOMAIN new
  BY <1>1
<1>4. DOMAIN chunks = 1..Len(chunks)
  OBVIOUS
<1>5. \A d : Holds(new, d) <=> d = e.chunk \/ Holds(chunks, d)
  BY <1>1, <1>2, <1>3, <1>4 DEF Holds
<1> QED BY <1>1, <1>5 DEF new

LEMMA ContentIs ==
    ASSUME NEW s \in Runtimes, NEW c \in Chunks, Resident(s, c)
    PROVE  ContentOf(s, c) = c
<1>1. PICK i \in DOMAIN s.chunks : s.chunks[i].chunk = c
  BY DEF Resident
<1>2. \E e \in ToSet(s.chunks) : e.chunk = c
  BY <1>1 DEF ToSet
<1> DEFINE e == CHOOSE entry \in ToSet(s.chunks) : entry.chunk = c
<1>3. e \in ToSet(s.chunks) /\ e.chunk = c
  BY <1>2
<1>4. ContentOf(s, c) = e.content
  BY DEF ContentOf
<1> HIDE DEF e
<1>5. PICK j \in DOMAIN s.chunks : s.chunks[j] = e
  BY <1>3 DEF ToSet
<1>6. e \in Entries
  BY <1>5 DEF Runtimes
<1> QED BY <1>3, <1>4, <1>6 DEF Entries

LEMMA TouchRight ==
    ASSUME NEW s, NEW tasks, RuntimeOK(s, tasks), NEW c \in Chunks, Resident(s, c)
    PROVE  RuntimeOK(Touch(s, c), tasks) /\ AskFrame(s, Touch(s, c))
<1> DEFINE e == [chunk |-> c, content |-> c]
           new == Append(Others(s.chunks, c), e)
           u == [s EXCEPT !.chunks = new]
<1>1. s \in Runtimes /\ s.chunks \in Seq(Entries) /\ (s.filling => s.diskWritable)
  BY DEF RuntimeOK, Runtimes
<1>2. e \in Entries /\ e.chunk = c
  BY DEF Entries
<1>3. u = Touch(s, c)
  BY <1>1, ContentIs DEF Touch
<1> HIDE DEF e
<1>4. /\ Others(s.chunks, c) \in Seq(Entries)
      /\ \A d : d # c => (Holds(Others(s.chunks, c), d) <=> Holds(s.chunks, d))
  BY <1>1, OthersAre
<1>5. new \in Seq(Entries) /\ \A d : Holds(new, d) <=> d = e.chunk \/ Holds(Others(s.chunks, c), d)
  BY <1>2, <1>4, NewestIs
<1> HIDE DEF new
<1>6. /\ u \in Runtimes /\ u.chunks = new /\ SameFill(s, u)
      /\ u.pending = s.pending /\ u.queue = s.queue /\ u.running = s.running
      /\ u.active = s.active /\ u.speculativeActive = s.speculativeActive
  BY <1>1, <1>5 DEF Runtimes, SameFill
<1> HIDE DEF u
<1>7. RuntimeOK(u, tasks)
  BY <1>1, <1>6, SameTransfers DEF SameFill
<1>8. \A d \in Chunks : Resident(s, d) <=> Resident(u, d)
  <2>1. \A d : d # c => (Holds(new, d) <=> Holds(s.chunks, d))
    BY <1>2, <1>4, <1>5
  <2>2. Holds(new, c) /\ Holds(s.chunks, c)
    BY <1>2, <1>5 DEF Resident, Holds
  <2>3. \A d : Holds(new, d) <=> Holds(s.chunks, d)
    BY <2>1, <2>2
  <2> QED BY <1>6, <2>3 DEF Resident, Holds
<1>9. AskFrame(s, u)
  BY <1>6, <1>8 DEF AskFrame, NotSpeculated
<1> QED BY <1>3, <1>7, <1>9

\* remember keeps the invariant; the rest of the runtime stays.
LEMMA RememberIs ==
    ASSUME NEW s \in Runtimes, NEW c \in Chunks
    PROVE  \E new \in Seq(Entries) : Remember(s, c, c) = [s EXCEPT !.chunks = new]
<1> DEFINE e == [chunk |-> c, content |-> c]
           kept == Append(Others(s.chunks, c), e)
           m == Max({0, Len(kept) - CacheChunks})
           new == SubSeq(kept, 1 + m, Len(kept))
<1>1. s.chunks \in Seq(Entries) /\ e \in Entries /\ CacheChunks \in Nat \ {0}
  BY StreamConstants DEF Runtimes, Entries
<1>2. CASE s.closed
  <2>1. Remember(s, c, c) = [s EXCEPT !.chunks = s.chunks]
    BY <1>2 DEF Remember, Runtimes
  <2> QED BY <1>1, <2>1
<1>3. CASE ~s.closed
  <2>1. Remember(s, c, c) = [s EXCEPT !.chunks = new]
    BY <1>3 DEF Remember
  <2> HIDE DEF e
  <2>2. Others(s.chunks, c) \in Seq(Entries)
    BY <1>1, OthersAre
  <2>3. kept \in Seq(Entries)
    BY <1>1, <2>2, NewestIs
  <2> HIDE DEF kept
  <2>4. Len(kept) \in Nat /\ Len(kept) - CacheChunks \in Int
        /\ Len(kept) - CacheChunks <= Len(kept)
    BY <1>1, <2>3
  <2>5. m \in 0..Len(kept)
    <3> DEFINE T == {0, Len(kept) - CacheChunks}
    <3>1. \E x \in T : \A y \in T : x >= y
      BY <2>4
    <3>2. Max(T) \in T /\ \A y \in T : Max(T) >= y
      BY <3>1 DEF Max
    <3>3. m = Max(T)
      OBVIOUS
    <3> HIDE DEF m
    <3>4. m \in T /\ m >= 0
      BY <3>2, <3>3
    <3> QED BY <2>4, <3>4
  <2> HIDE DEF m
  <2>6. new \in Seq(Entries)
    <3>1. m + 1 = 1 + m
      BY <2>5
    <3> QED BY <2>3, <2>5, <3>1, TailIs
  <2> QED BY <2>1, <2>6
<1> QED BY <1>2, <1>3

-----------------------------------------------------------------------------
(* The queue of microtasks.                                                *)

\* The elements of two sequences, one after the other.
Joined(w, a, b) ==
    /\ \A k \in DOMAIN w : \/ k \in DOMAIN a /\ w[k] = a[k]
                           \/ k \notin DOMAIN a /\ k - Len(a) \in DOMAIN b /\ w[k] = b[k - Len(a)]
    /\ \A k \in DOMAIN a : k \in DOMAIN w /\ w[k] = a[k]
    /\ \A k \in DOMAIN b : \E l \in DOMAIN w : l \notin DOMAIN a /\ l - Len(a) = k /\ w[l] = b[k]
    /\ \A k, l \in DOMAIN w : k - Len(a) = l - Len(a) => k = l

LEMMA JoinIs ==
    ASSUME NEW S, NEW a \in Seq(S), NEW b \in Seq(S)
    PROVE  a \o b \in Seq(S) /\ Joined(a \o b, a, b)
<1> DEFINE w == a \o b
<1>1. /\ w \in Seq(S) /\ Len(w) = Len(a) + Len(b)
      /\ \A k \in 1..Len(a) : w[k] = a[k]
      /\ \A k \in (Len(a) + 1)..(Len(a) + Len(b)) : w[k] = b[k - Len(a)]
  OBVIOUS
<1> HIDE DEF w
<1>2. DOMAIN w = 1..(Len(a) + Len(b)) /\ DOMAIN a = 1..Len(a) /\ DOMAIN b = 1..Len(b)
      /\ Len(a) \in Nat /\ Len(b) \in Nat
  BY <1>1
<1>3. \A k \in DOMAIN w : \/ k \in DOMAIN a /\ w[k] = a[k]
                          \/ k \notin DOMAIN a /\ k - Len(a) \in DOMAIN b /\ w[k] = b[k - Len(a)]
  BY <1>1, <1>2
<1>4. \A k \in DOMAIN a : k \in DOMAIN w /\ w[k] = a[k]
  BY <1>1, <1>2
<1>5. ASSUME NEW k \in DOMAIN b
      PROVE  \E l \in DOMAIN w : l \notin DOMAIN a /\ l - Len(a) = k /\ w[l] = b[k]
  <2>1. /\ k + Len(a) \in DOMAIN w /\ k + Len(a) \notin DOMAIN a
        /\ (k + Len(a)) - Len(a) = k /\ k + Len(a) \in (Len(a) + 1)..(Len(a) + Len(b))
    BY <1>2
  <2>2. w[k + Len(a)] = b[(k + Len(a)) - Len(a)]
    BY <1>1, <2>1
  <2> QED BY <2>1, <2>2
<1>6. \A k, l \in DOMAIN w : k - Len(a) = l - Len(a) => k = l
  BY <1>2
<1>7. Joined(w, a, b)
  BY <1>3, <1>4, <1>5, <1>6 DEF Joined
<1> QED BY <1>1, <1>7 DEF w

\* Microtasks that settle chunks that nobody was to settle, or none.
Joining(s, more) ==
    /\ more \in Seq(Microtasks)
    /\ \A k \in DOMAIN more : more[k].kind # "jobEnds" /\ Settles(more[k]) \cap s.pending = {}
    /\ \A c \in Chunks, k, l \in DOMAIN more :
          c \in Settles(more[k]) /\ c \in Settles(more[l]) => k = l

LEMMA JoinRight ==
    ASSUME NEW s, NEW tasks, RuntimeOK(s, tasks), NEW more, Joining(s, more),
           NEW u \in Runtimes, u.queue = s.queue, u.running = s.running,
           u.active = s.active, u.speculativeActive = s.speculativeActive,
           u.closed = s.closed, u.filling => u.diskWritable,
           u.pending = s.pending \cup
                          {c \in Chunks : \E k \in DOMAIN more : c \in Settles(more[k])}
    PROVE  RuntimeOK(u, tasks \o more)
<1> DEFINE w == tasks \o more
<1>1. /\ s \in Runtimes /\ tasks \in Seq(Microtasks) /\ more \in Seq(Microtasks)
      /\ Claims(s, tasks) /\ Counts(s, tasks)
  BY DEF RuntimeOK, Joining
<1>2. w \in Seq(Microtasks) /\ Joined(w, tasks, more)
  BY <1>1, JoinIs
<1> HIDE DEF w
<1>3. /\ \A k \in DOMAIN w :
             \/ k \in DOMAIN tasks /\ w[k] = tasks[k]
             \/ k \notin DOMAIN tasks /\ \E l \in DOMAIN more : l = k - Len(tasks) /\ w[k] = more[l]
      /\ \A k \in DOMAIN tasks : k \in DOMAIN w /\ w[k] = tasks[k]
      /\ \A l \in DOMAIN more : \E k \in DOMAIN w : k \notin DOMAIN tasks /\ w[k] = more[l]
      /\ \A k, l \in DOMAIN w : k - Len(tasks) = l - Len(tasks) => k = l
  BY <1>2 DEF Joined
<1>4. /\ \A k \in DOMAIN more : more[k].kind # "jobEnds" /\ Settles(more[k]) \cap s.pending = {}
      /\ \A c \in Chunks, k, l \in DOMAIN more :
             c \in Settles(more[k]) /\ c \in Settles(more[l]) => k = l
  BY DEF Joining
<1>5. \A c \in Chunks : c \in s.pending <=>
          \/ \E i \in DOMAIN s.queue : c \in Covers(s.queue[i])
          \/ \E job \in s.running : c \in Covers(job)
          \/ \E k \in DOMAIN tasks : c \in Settles(tasks[k])
  BY <1>1 DEF Claims
<1>6. \A c \in Chunks : (\E k \in DOMAIN w : c \in Settles(w[k])) <=>
          \/ \E k \in DOMAIN tasks : c \in Settles(tasks[k])
          \/ \E k \in DOMAIN more : c \in Settles(more[k])
  BY <1>3
<1>7. \A c \in Chunks : c \in u.pending <=>
          \/ \E i \in DOMAIN u.queue : c \in Covers(u.queue[i])
          \/ \E job \in u.running : c \in Covers(job)
          \/ \E k \in DOMAIN w : c \in Settles(w[k])
  BY <1>5, <1>6
<1>8. ASSUME NEW c \in Chunks, NEW k \in DOMAIN w, NEW l \in DOMAIN w,
             c \in Settles(w[k]), c \in Settles(w[l])
      PROVE  k = l
  <2>1. CASE k \in DOMAIN tasks /\ l \in DOMAIN tasks
    BY <1>1, <1>3, <1>8, <2>1 DEF Claims
  <2>2. CASE k \notin DOMAIN tasks /\ l \notin DOMAIN tasks
    BY <1>3, <1>4, <1>8, <2>2
  <2>3. CASE k \in DOMAIN tasks /\ l \notin DOMAIN tasks
    BY <1>3, <1>4, <1>5, <1>8, <2>3
  <2>4. CASE k \notin DOMAIN tasks /\ l \in DOMAIN tasks
    BY <1>3, <1>4, <1>5, <1>8, <2>4
  <2> QED BY <2>1, <2>2, <2>3, <2>4
<1>9. /\ \A c \in Chunks, i \in DOMAIN u.queue, k \in DOMAIN w :
             ~(c \in Covers(u.queue[i]) /\ c \in Settles(w[k]))
      /\ \A c \in Chunks, job \in u.running, k \in DOMAIN w :
             ~(c \in Covers(job) /\ c \in Settles(w[k]))
  <2>1. /\ \A c \in Chunks, i \in DOMAIN s.queue, k \in DOMAIN tasks :
               ~(c \in Covers(s.queue[i]) /\ c \in Settles(tasks[k]))
        /\ \A c \in Chunks, job \in s.running, k \in DOMAIN tasks :
               ~(c \in Covers(job) /\ c \in Settles(tasks[k]))
    BY <1>1 DEF Claims
  <2>2. /\ \A c \in Chunks, i \in DOMAIN s.queue, k \in DOMAIN more :
               ~(c \in Covers(s.queue[i]) /\ c \in Settles(more[k]))
        /\ \A c \in Chunks, job \in s.running, k \in DOMAIN more :
               ~(c \in Covers(job) /\ c \in Settles(more[k]))
    BY <1>4, <1>5
  <2> QED BY <1>3, <2>1, <2>2
<1>10. Claims(u, w)
  BY <1>1, <1>7, <1>8, <1>9 DEF Claims
<1>11. \A k \in DOMAIN w : w[k].kind = "jobEnds" => k \in DOMAIN tasks /\ w[k] = tasks[k]
  BY <1>3, <1>4
<1>12. Ending(w) = Ending(tasks) /\ EndingSpeculation(w) = EndingSpeculation(tasks)
  BY <1>3, <1>11 DEF Ending, EndingSpeculation
<1>13. \A k, l \in DOMAIN w : w[k].kind = "jobEnds" /\ w[l].kind = "jobEnds" => k = l
  BY <1>1, <1>11 DEF Counts
<1>14. Counts(u, w)
  BY <1>1, <1>12, <1>13 DEF Counts
<1>15. Ordered(u.queue) /\ Blocked(u) /\ ClosedQuiet(u)
  BY DEF RuntimeOK, Blocked, ClosedQuiet
<1> QED BY <1>2, <1>10, <1>14, <1>15 DEF RuntimeOK, w

\* The first microtask has run: nothing settles its chunks any more.
LEMMA TailClaims ==
    ASSUME NEW s, NEW tasks \in Seq(Microtasks), Claims(s, tasks), tasks # <<>>,
           NEW u, u.queue = s.queue, u.running = s.running,
           u.pending = s.pending \ Settles(Head(tasks))
    PROVE  Claims(u, Tail(tasks))
<1> DEFINE w == Tail(tasks)
<1>1. tasks \in Seq(Microtasks) /\ Claims(s, tasks)
  OBVIOUS
<1>2. /\ w \in Seq(Microtasks) /\ 1 \in DOMAIN tasks /\ Head(tasks) = tasks[1]
      /\ \A k \in DOMAIN w : k + 1 \in DOMAIN tasks /\ k + 1 # 1 /\ w[k] = tasks[k + 1]
      /\ \A k \in DOMAIN tasks : k = 1 \/ (k - 1 \in DOMAIN w /\ (k - 1) + 1 = k)
      /\ \A k, l \in DOMAIN w : k + 1 = l + 1 => k = l
  BY <1>1
<1>3. u.pending = s.pending \ Settles(tasks[1])
  BY <1>2
<1> HIDE DEF w
<1>4. \A k \in DOMAIN tasks : k = 1 \/ \E l \in DOMAIN w : k = l + 1 /\ w[l] = tasks[k]
  BY <1>2
<1>5. \A c \in Chunks : c \in s.pending <=>
          \/ \E i \in DOMAIN s.queue : c \in Covers(s.queue[i])
          \/ \E job \in s.running : c \in Covers(job)
          \/ \E k \in DOMAIN tasks : c \in Settles(tasks[k])
  BY <1>1 DEF Claims
<1>6. /\ \A c \in Chunks, k, l \in DOMAIN tasks :
             c \in Settles(tasks[k]) /\ c \in Settles(tasks[l]) => k = l
      /\ \A c \in Chunks, i \in DOMAIN s.queue, k \in DOMAIN tasks :
               ~(c \in Covers(s.queue[i]) /\ c \in Settles(tasks[k]))
      /\ \A c \in Chunks, job \in s.running, k \in DOMAIN tasks :
               ~(c \in Covers(job) /\ c \in Settles(tasks[k]))
    BY <1>1 DEF Claims
<1>7. \A c \in Chunks : (\E k \in DOMAIN w : c \in Settles(w[k])) <=>
          c \notin Settles(tasks[1]) /\ \E k \in DOMAIN tasks : c \in Settles(tasks[k])
  BY <1>2, <1>4, <1>6
<1>8. \A c \in Chunks : c \in u.pending <=>
          \/ \E i \in DOMAIN u.queue : c \in Covers(u.queue[i])
          \/ \E job \in u.running : c \in Covers(job)
          \/ \E k \in DOMAIN w : c \in Settles(w[k])
  BY <1>2, <1>3, <1>5, <1>6, <1>7
<1>9. \A c \in Chunks, k, l \in DOMAIN w : c \in Settles(w[k]) /\ c \in Settles(w[l]) => k = l
  BY <1>2, <1>6
<1>10. /\ \A c \in Chunks, i \in DOMAIN u.queue, k \in DOMAIN w :
             ~(c \in Covers(u.queue[i]) /\ c \in Settles(w[k]))
       /\ \A c \in Chunks, job \in u.running, k \in DOMAIN w :
             ~(c \in Covers(job) /\ c \in Settles(w[k]))
  BY <1>2, <1>6
<1> QED
  BY <1>1, <1>8, <1>9, <1>10 DEF Claims, w

\* The first microtask has run; the chunks it settles are pending no longer.
LEMMA TailRight ==
    ASSUME NEW s, NEW tasks, RuntimeOK(s, tasks), tasks # <<>>, Head(tasks).kind # "jobEnds",
           NEW u \in Runtimes, u.queue = s.queue, u.running = s.running,
           u.active = s.active, u.speculativeActive = s.speculativeActive,
           u.closed = s.closed, u.filling => u.diskWritable,
           u.pending = s.pending \ Settles(Head(tasks))
    PROVE  RuntimeOK(u, Tail(tasks))
<1> DEFINE w == Tail(tasks)
<1>1. /\ s \in Runtimes /\ tasks \in Seq(Microtasks) /\ Claims(s, tasks) /\ Counts(s, tasks)
  BY DEF RuntimeOK
<1>2. /\ w \in Seq(Microtasks) /\ 1 \in DOMAIN tasks /\ Head(tasks) = tasks[1]
      /\ \A k \in DOMAIN w : k + 1 \in DOMAIN tasks /\ k + 1 # 1 /\ w[k] = tasks[k + 1]
      /\ \A k \in DOMAIN tasks : k = 1 \/ (k - 1 \in DOMAIN w /\ (k - 1) + 1 = k)
      /\ \A k, l \in DOMAIN w : k + 1 = l + 1 => k = l
  BY <1>1
<1>3. tasks[1].kind # "jobEnds"
  BY <1>2
<1>4. Claims(u, w)
  BY <1>1, TailClaims
<1> HIDE DEF w
<1>5. \A k \in DOMAIN tasks : k = 1 \/ \E l \in DOMAIN w : k = l + 1 /\ w[l] = tasks[k]
  BY <1>2
<1>6. Ending(w) = Ending(tasks) /\ EndingSpeculation(w) = EndingSpeculation(tasks)
  <2>1. /\ \A k \in DOMAIN w : \E l \in DOMAIN tasks : w[k] = tasks[l]
        /\ \A l \in DOMAIN tasks : l = 1 \/ \E k \in DOMAIN w : w[k] = tasks[l]
    BY <1>2, <1>5
  <2>2. (\E k \in DOMAIN w : w[k].kind = "jobEnds") <=>
           (\E k \in DOMAIN tasks : tasks[k].kind = "jobEnds")
    BY <1>3, <2>1
  <2>3. (\E k \in DOMAIN w : w[k].kind = "jobEnds" /\ w[k].speculative) <=>
           (\E k \in DOMAIN tasks : tasks[k].kind = "jobEnds" /\ tasks[k].speculative)
    BY <1>3, <2>1
  <2> QED BY <2>2, <2>3 DEF Ending, EndingSpeculation
<1>7. \A k, l \in DOMAIN w : w[k].kind = "jobEnds" /\ w[l].kind = "jobEnds" => k = l
  <2>1. \A k, l \in DOMAIN tasks :
           tasks[k].kind = "jobEnds" /\ tasks[l].kind = "jobEnds" => k = l
    BY <1>1 DEF Counts
  <2> SUFFICES ASSUME NEW k \in DOMAIN w, NEW l \in DOMAIN w,
                      w[k].kind = "jobEnds", w[l].kind = "jobEnds"
               PROVE  k = l
    OBVIOUS
  <2>2. /\ k + 1 \in DOMAIN tasks /\ w[k] = tasks[k + 1]
        /\ l + 1 \in DOMAIN tasks /\ w[l] = tasks[l + 1]
        /\ k + 1 = l + 1 => k = l
    BY <1>2, Zenon
  <2>3. tasks[k + 1].kind = "jobEnds" /\ tasks[l + 1].kind = "jobEnds"
    BY <2>2, Zenon
  <2> QED BY <2>1, <2>2, <2>3, Zenon
<1>8. Counts(u, w)
  BY <1>1, <1>6, <1>7 DEF Counts
<1>9. Ordered(u.queue) /\ Blocked(u) /\ ClosedQuiet(u)
  BY DEF RuntimeOK, Blocked, ClosedQuiet
<1> QED BY <1>2, <1>4, <1>8, <1>9 DEF RuntimeOK, w

-----------------------------------------------------------------------------
(* Requests for chunks.                                                    *)

\* getChunk, with the microtask that reads the chunk from disk.
AskResult(s, u, c, speculative) ==
    /\ AskFrame(s, u)
    /\ Resident(s, c) \/ c \in u.pending
    /\ ~speculative /\ ~Resident(s, c) => NotSpeculated(u, c)

LEMMA GetChunkRight ==
    ASSUME NEW s, NEW tasks, RuntimeOK(s, tasks), ~s.closed,
           NEW c \in Chunks, NEW speculative \in BOOLEAN
    PROVE  /\ RuntimeOK(GetChunk(s, c, speculative),
                        IF ReadsDisk(s, c) THEN Append(tasks, DiskRead(c)) ELSE tasks)
           /\ AskResult(s, GetChunk(s, c, speculative), c, speculative)
<1> DEFINE u == GetChunk(s, c, speculative)
<1>1. s \in Runtimes /\ tasks \in Seq(Microtasks) /\ Claims(s, tasks) /\ c \in Nat
      /\ (s.filling => s.diskWritable)
  BY CoversAre DEF RuntimeOK
<1>2. CASE Resident(s, c)
  <2>1. u = Touch(s, c) /\ ~ReadsDisk(s, c)
    BY <1>2 DEF GetChunk, ReadsDisk
  <2> QED BY <1>2, <2>1, TouchRight DEF AskResult
<1>3. CASE ~Resident(s, c) /\ c \in s.pending
  <2>1. u = (IF speculative THEN s ELSE Promote(s, c)) /\ ~ReadsDisk(s, c)
    BY <1>3 DEF GetChunk, ReadsDisk
  <2>2. AskFrame(s, s)
    BY DEF AskFrame, SameFill
  <2>3. RuntimeOK(Promote(s, c), tasks) /\ AskFrame(s, Promote(s, c))
        /\ Promote(s, c).pending = s.pending /\ NotSpeculated(Promote(s, c), c)
    BY PromoteRight
  <2> HIDE DEF u
  <2>4. RuntimeOK(u, tasks) /\ AskFrame(s, u) /\ u.pending = s.pending
        /\ (~speculative => NotSpeculated(u, c))
    BY <2>1, <2>2, <2>3
  <2>5. AskResult(s, u, c, speculative)
    BY <1>3, <2>4 DEF AskResult
  <2> QED BY <2>1, <2>4, <2>5 DEF u
<1>4. CASE ReadsDisk(s, c)
  <2> DEFINE more == <<DiskRead(c)>>
  <2>1. u = [s EXCEPT !.pending = @ \cup {c}] /\ c \notin s.pending /\ ~Resident(s, c)
    BY <1>4 DEF GetChunk, ReadsDisk
  <2> HIDE DEF u
  <2>2. /\ more \in Seq(Microtasks) /\ DOMAIN more = {1}
        /\ more[1].kind = "diskRead" /\ Settles(more[1]) = {c}
    BY DEF DiskRead, Microtasks, Settles
  <2>3. Append(tasks, DiskRead(c)) = tasks \o more
    BY <1>1
  <2> HIDE DEF more
  <2>4. Joining(s, more)
    BY <2>1, <2>2 DEF Joining
  <2>5. /\ u \in Runtimes /\ u.queue = s.queue /\ u.running = s.running
        /\ u.active = s.active /\ u.speculativeActive = s.speculativeActive
        /\ u.pending = s.pending \cup {c} /\ u.chunks = s.chunks /\ SameFill(s, u)
    BY <1>1, <2>1 DEF Runtimes, SameFill
  <2>6. {d \in Chunks : \E k \in DOMAIN more : d \in Settles(more[k])} = {c}
    BY <2>2
  <2>7. RuntimeOK(u, tasks \o more)
    <3>1. u.pending = s.pending \cup
                         {d \in Chunks : \E k \in DOMAIN more : d \in Settles(more[k])}
      BY <2>5, <2>6
    <3>2. u.closed = s.closed /\ (u.filling => u.diskWritable)
      BY <1>1, <2>5 DEF SameFill
    <3> QED BY <2>4, <2>5, <3>1, <3>2, JoinRight
  <2>8. AskFrame(s, u)
    BY <2>5 DEF AskFrame, NotSpeculated, Resident
  <2>9. NotSpeculated(u, c)
    BY <1>1, <2>1, <2>5, QueuedIsPending DEF NotSpeculated
  <2>10. AskResult(s, u, c, speculative)
    BY <2>5, <2>8, <2>9 DEF AskResult
  <2> QED BY <1>4, <2>3, <2>7, <2>10 DEF u
<1>5. CASE ~Resident(s, c) /\ c \notin s.pending /\ ~ReadsDisk(s, c)
  <2> DEFINE priority == IF speculative THEN 1 ELSE 0
  <2>1. u = Schedule(s, c, c, FALSE, priority)
    BY <1>5 DEF GetChunk
  <2>2. priority \in 0..2 /\ priority # 2 /\ (~speculative => priority = 0)
    OBVIOUS
  <2>3. c..c = {c} /\ c <= c
    BY <1>1
  <2> HIDE DEF priority, u
  <2>4. /\ RuntimeOK(u, tasks) /\ AskFrame(s, u) /\ u.pending = s.pending \cup (c..c)
        /\ (priority = 0 => \A d \in c..c : NotSpeculated(u, d))
    <3>1. (c..c) \cap s.pending = {}
      BY <1>5, <2>3
    <3>2. PICK fill \in BOOLEAN : fill = FALSE
      OBVIOUS
    <3>3. u = Schedule(s, c, c, fill, priority)
      BY <2>1, <3>2, Zenon
    <3>4. MaySchedule(s, tasks, c, c, fill, priority)
      BY <2>2, <2>3, <3>1 DEF MaySchedule
    <3>5. \A f, l, b, p, v : MaySchedule(s, tasks, f, l, b, p) /\ v = Schedule(s, f, l, b, p) =>
              /\ RuntimeOK(v, tasks) /\ AskFrame(s, v) /\ v.pending = s.pending \cup (f..l)
              /\ p = 0 => \A d \in f..l : NotSpeculated(v, d)
      BY ScheduleRight
    <3> QED BY <3>3, <3>4, <3>5
  <2>5. AskResult(s, u, c, speculative)
    BY <2>2, <2>3, <2>4 DEF AskResult
  <2> QED BY <1>5, <2>4, <2>5 DEF u
<1> QED BY <1>2, <1>3, <1>4, <1>5

\* The requests of read, one after the other.
Asking(after, s, first, n, speculative) ==
    after = [i \in 0..n |-> IF i = 0 THEN [rt |-> s, tasks |-> <<>>]
                            ELSE AskFor(after[i - 1], first + i - 1, speculative)]

LEMMA AskingExists ==
    ASSUME NEW s, NEW first \in Nat, NEW n \in Nat, NEW speculative
    PROVE  \E after : Asking(after, s, first, n, speculative)
<1> DEFINE Bad == {m \in Nat : ~\E after : Asking(after, s, first, m, speculative)}
<1> SUFFICES ASSUME Bad # {} PROVE FALSE
  OBVIOUS
<1>1. PICK m \in Bad : \A k \in Bad : m <= k
  <2>1. Bad \in SUBSET Nat
    OBVIOUS
  <2> HIDE DEF Bad
  <2> QED BY <2>1, SmallestOf
<1>2. CASE m = 0
  <2> DEFINE g == [i \in 0..0 |-> [rt |-> s, tasks |-> <<>>]]
  <2>1. g = [i \in 0..0 |-> IF i = 0 THEN [rt |-> s, tasks |-> <<>>]
                            ELSE AskFor(g[i - 1], first + i - 1, speculative)]
    OBVIOUS
  <2>2. Asking(g, s, first, 0, speculative)
    BY <2>1 DEF Asking
  <2> QED BY <1>1, <1>2, <2>2
<1>3. CASE m # 0
  <2>1. m - 1 \in Nat /\ ~(m <= m - 1)
    BY <1>3
  <2>2. m - 1 \notin Bad
    BY <1>1, <2>1
  <2>3. PICK g : Asking(g, s, first, m - 1, speculative)
    BY <2>1, <2>2
  <2> DEFINE h == [i \in 0..m |-> IF i < m THEN g[i]
                                  ELSE AskFor(g[m - 1], first + m - 1, speculative)]
  <2>4. \A i \in 0..(m - 1) : g[i] = IF i = 0 THEN [rt |-> s, tasks |-> <<>>]
                                     ELSE AskFor(g[i - 1], first + i - 1, speculative)
    BY <2>3 DEF Asking
  <2>5. ASSUME NEW i \in 0..m
        PROVE  h[i] = IF i = 0 THEN [rt |-> s, tasks |-> <<>>]
                      ELSE AskFor(h[i - 1], first + i - 1, speculative)
    <3>1. CASE i = 0
      BY <3>1, <2>1, <2>4, <1>3
    <3>2. CASE i # 0 /\ i < m
      <4>1. i \in 0..(m - 1) /\ i - 1 \in 0..m /\ i - 1 < m
        BY <3>2
      <4>2. h[i] = g[i] /\ h[i - 1] = g[i - 1]
        BY <3>2, <4>1
      <4> HIDE DEF h
      <4> QED BY <3>2, <4>1, <4>2, <2>4
    <3>3. CASE i = m
      <4>1. m - 1 \in 0..m /\ m - 1 < m
        BY <2>1
      <4>2. h[m] = AskFor(g[m - 1], first + m - 1, speculative) /\ h[m - 1] = g[m - 1]
        BY <4>1
      <4> HIDE DEF h
      <4> QED BY <3>3, <4>2, <1>3
    <3> QED BY <3>1, <3>2, <3>3
  <2>6. h = [i \in 0..m |-> h[i]]
    OBVIOUS
  <2> HIDE DEF h
  <2>7. Asking(h, s, first, m, speculative)
    BY <2>5, <2>6 DEF Asking
  <2> QED BY <1>1, <2>7
<1> QED BY <1>2, <1>3

LEMMA AskIs ==
    ASSUME NEW s, NEW first \in Nat, NEW last \in Nat, first <= last, NEW speculative
    PROVE  \E after : /\ Asking(after, s, first, last - first + 1, speculative)
                      /\ Ask(s, first, last, speculative) = after[last - first + 1]
<1> DEFINE n == last - first + 1
           after == CHOOSE g : Asking(g, s, first, n, speculative)
<1>1. n \in Nat
  OBVIOUS
<1>2. Ask(s, first, last, speculative) = after[n]
  BY DEF Ask, Asking
<1> HIDE DEF n
<1>3. Asking(after, s, first, n, speculative)
  BY <1>1, AskingExists
<1> QED BY <1>2, <1>3 DEF n

\* What read has, having asked for k chunks from first on.
Asked(s, u, first, k, speculative) ==
    /\ RuntimeOK(u.rt, u.tasks) /\ AskFrame(s, u.rt)
    /\ \A c \in first..(first + k - 1) : Resident(s, c) \/ c \in u.rt.pending
    /\ ~speculative => \A c \in first..(first + k - 1) : Resident(s, c) \/ NotSpeculated(u.rt, c)
    /\ \A i \in DOMAIN u.tasks : u.tasks[i].kind = "diskRead" /\ OnDisk(u.tasks[i].chunk)

LEMMA AskForRight ==
    ASSUME NEW s \in Runtimes, ~s.closed, NEW u, NEW first \in Nat, NEW k \in Nat,
           NEW speculative \in BOOLEAN, Asked(s, u, first, k, speculative),
           first + k \in Chunks
    PROVE  Asked(s, AskFor(u, first + k, speculative), first, k + 1, speculative)
<1> DEFINE c == first + k
           v == AskFor(u, c, speculative)
<1>1. /\ RuntimeOK(u.rt, u.tasks) /\ AskFrame(s, u.rt) /\ c \in Chunks
      /\ \A d \in first..(first + k - 1) : Resident(s, d) \/ d \in u.rt.pending
      /\ (~speculative => \A d \in first..(first + k - 1) : Resident(s, d) \/ NotSpeculated(u.rt, d))
      /\ \A i \in DOMAIN u.tasks : u.tasks[i].kind = "diskRead" /\ OnDisk(u.tasks[i].chunk)
  BY DEF Asked
<1>2. u.rt \in Runtimes /\ u.tasks \in Seq(Microtasks) /\ ~u.rt.closed
  BY <1>1 DEF RuntimeOK, AskFrame, SameFill
<1>3. \A d \in first..(first + (k + 1) - 1) : d \in first..(first + k - 1) \/ d = c
  OBVIOUS
<1>4. first..(first + k - 1) \subseteq Chunks
  <2>1. N \in Nat /\ first + k \in 0..(N - 1)
    BY <1>1, CoversAre DEF Chunks
  <2> QED BY <2>1 DEF Chunks
<1> HIDE DEF c
<1>5. /\ v.rt = GetChunk(u.rt, c, speculative)
      /\ v.tasks = IF ReadsDisk(u.rt, c) THEN Append(u.tasks, DiskRead(c)) ELSE u.tasks
  BY DEF AskFor
<1>6. RuntimeOK(v.rt, v.tasks) /\ AskResult(u.rt, v.rt, c, speculative)
  BY <1>1, <1>2, <1>5, GetChunkRight
<1> HIDE DEF v
<1>7. v.rt \in Runtimes /\ AskFrame(u.rt, v.rt)
  BY <1>6 DEF RuntimeOK, AskResult
<1>8. AskFrame(s, v.rt)
  BY <1>1, <1>2, <1>7, AskFrameTrans
<1>9. \A d \in Chunks : Resident(s, d) <=> Resident(u.rt, d)
  BY <1>1 DEF AskFrame
<1>10. ASSUME NEW d \in first..(first + k - 1)
       PROVE  /\ Resident(s, d) \/ d \in v.rt.pending
              /\ ~speculative => Resident(s, d) \/ NotSpeculated(v.rt, d)
  BY <1>1, <1>7 DEF AskFrame
<1>11. /\ Resident(s, c) \/ c \in v.rt.pending
       /\ ~speculative => Resident(s, c) \/ NotSpeculated(v.rt, c)
  BY <1>1, <1>6, <1>9 DEF AskResult
<1>12. ASSUME NEW i \in DOMAIN v.tasks
       PROVE  v.tasks[i].kind = "diskRead" /\ OnDisk(v.tasks[i].chunk)
  <2>1. CASE ~ReadsDisk(u.rt, c)
    BY <2>1, <1>1, <1>5
  <2>2. CASE ReadsDisk(u.rt, c)
    <3>1. OnDisk(c) /\ DiskRead(c).kind = "diskRead" /\ DiskRead(c).chunk = c
      BY <2>2 DEF ReadsDisk, DiskRead
    <3>2. v.tasks = Append(u.tasks, DiskRead(c))
      BY <2>2, <1>5
    <3>3. v.tasks[i] = DiskRead(c) \/ (i \in DOMAIN u.tasks /\ v.tasks[i] = u.tasks[i])
      BY <3>2, <1>2
    <3> QED BY <3>1, <3>3, <1>1
  <2> QED BY <2>1, <2>2
<1> QED BY <1>3, <1>6, <1>8, <1>10, <1>11, <1>12 DEF Asked, v, c

LEMMA AskRight ==
    ASSUME NEW s, RuntimeOK(s, <<>>), ~s.closed, NEW first \in Chunks, NEW last \in Chunks,
           first <= last, NEW speculative \in BOOLEAN
    PROVE  Asked(s, Ask(s, first, last, speculative), first, last - first + 1, speculative)
<1> DEFINE n == last - first + 1
<1>1. s \in Runtimes /\ first \in Nat /\ last \in Nat /\ n \in Nat
  BY CoversAre DEF RuntimeOK, Chunks
<1>2. PICK after : /\ Asking(after, s, first, n, speculative)
                   /\ Ask(s, first, last, speculative) = after[n]
  BY <1>1, AskIs
<1>3. \A k \in Nat : k < n => first + k \in Chunks
  <2>1. N \in Nat /\ first \in 0..(N - 1) /\ last \in 0..(N - 1)
    BY CoversAre DEF Chunks
  <2> QED BY <2>1 DEF Chunks
<1> HIDE DEF n
<1>4. \A i \in 0..n : after[i] = IF i = 0 THEN [rt |-> s, tasks |-> <<>>]
                                 ELSE AskFor(after[i - 1], first + i - 1, speculative)
  BY <1>2 DEF Asking
<1>5. Asked(s, after[0], first, 0, speculative)
  <2>1. after[0] = [rt |-> s, tasks |-> <<>>]
    BY <1>1, <1>4
  <2>2. after[0].rt = s /\ after[0].tasks = <<>>
    BY <2>1
  <2>3. AskFrame(s, s)
    BY DEF AskFrame, SameFill
  <2>4. first..(first + 0 - 1) = {}
    BY <1>1
  <2> QED BY <2>2, <2>3, <2>4 DEF Asked
<1>6. ASSUME NEW k \in Nat, k < n, Asked(s, after[k], first, k, speculative)
      PROVE  Asked(s, after[k + 1], first, k + 1, speculative)
  <2>1. k + 1 \in 0..n /\ (k + 1) - 1 = k /\ first + (k + 1) - 1 = first + k /\ k + 1 # 0
    BY <1>1, <1>6
  <2>2. after[k + 1] = AskFor(after[k], first + k, speculative)
    BY <1>4, <2>1
  <2>3. Asked(s, AskFor(after[k], first + k, speculative), first, k + 1, speculative)
    BY <1>1, <1>3, <1>6, AskForRight
  <2> QED BY <2>2, <2>3
<1> DEFINE Bad == {k \in Nat : k <= n /\ ~Asked(s, after[k], first, k, speculative)}
<1>7. Bad = {}
  <2> SUFFICES ASSUME Bad # {} PROVE FALSE
    OBVIOUS
  <2>1. PICK m \in Bad : \A k \in Bad : m <= k
    <3>1. Bad \in SUBSET Nat
      OBVIOUS
    <3> HIDE DEF Bad
    <3> QED BY <3>1, SmallestOf
  <2>2. m # 0 /\ m \in Nat /\ m <= n
    BY <1>5, <2>1
  <2>3. m - 1 \in Nat /\ ~(m <= m - 1) /\ m - 1 < n /\ m - 1 <= n
        /\ (m - 1) + 1 = m
    BY <1>1, <2>2
  <2>4. m - 1 \notin Bad
    BY <2>1, <2>3
  <2>5. Asked(s, after[m - 1], first, m - 1, speculative)
    BY <2>3, <2>4
  <2>6. Asked(s, after[(m - 1) + 1], first, (m - 1) + 1, speculative)
    BY <1>6, <2>3, <2>5
  <2> QED BY <2>1, <2>3, <2>6
<1>8. Asked(s, after[n], first, n, speculative)
  BY <1>1, <1>7
<1> QED BY <1>2, <1>8 DEF n

\* Read-ahead, chunk after chunk.
LEMMA PrefetchOneRight ==
    ASSUME NEW s, NEW tasks, RuntimeOK(s, tasks), NEW c \in Chunks
    PROVE  RuntimeOK(PrefetchOne(s, c), tasks) /\ AskFrame(s, PrefetchOne(s, c))
<1>1. AskFrame(s, s)
  BY DEF AskFrame, SameFill
<1>2. CASE PrefetchOne(s, c) = s
  BY <1>1, <1>2
<1>3. CASE PrefetchOne(s, c) # s
  <2>1. PrefetchOne(s, c) = GetChunk(s, c, TRUE) /\ ~s.closed /\ ~OnDisk(c)
    BY <1>3 DEF PrefetchOne
  <2>2. ~ReadsDisk(s, c)
    BY <2>1 DEF ReadsDisk
  <2>3. PICK speculative \in BOOLEAN : speculative = TRUE
    OBVIOUS
  <2>4. PrefetchOne(s, c) = GetChunk(s, c, speculative)
    BY <2>1, <2>3, Zenon
  <2>5. RuntimeOK(GetChunk(s, c, speculative), tasks)
        /\ AskFrame(s, GetChunk(s, c, speculative))
    BY <2>1, <2>2, GetChunkRight DEF AskResult
  <2> QED BY <2>4, <2>5
<1> QED BY <1>2, <1>3

Prefetching(after, s, from, n) ==
    after = [i \in 0..n |-> IF i = 0 THEN s ELSE PrefetchOne(after[i - 1], from + i - 1)]

LEMMA PrefetchingExists ==
    ASSUME NEW s, NEW from \in Nat, NEW n \in Nat
    PROVE  \E after : Prefetching(after, s, from, n)
<1> DEFINE Bad == {m \in Nat : ~\E after : Prefetching(after, s, from, m)}
<1> SUFFICES ASSUME Bad # {} PROVE FALSE
  OBVIOUS
<1>1. PICK m \in Bad : \A k \in Bad : m <= k
  <2>1. Bad \in SUBSET Nat
    OBVIOUS
  <2> HIDE DEF Bad
  <2> QED BY <2>1, SmallestOf
<1>2. CASE m = 0
  <2> DEFINE g == [i \in 0..0 |-> s]
  <2>1. g = [i \in 0..0 |-> IF i = 0 THEN s ELSE PrefetchOne(g[i - 1], from + i - 1)]
    OBVIOUS
  <2>2. Prefetching(g, s, from, 0)
    BY <2>1 DEF Prefetching
  <2> QED BY <1>1, <1>2, <2>2
<1>3. CASE m # 0
  <2>1. m - 1 \in Nat /\ ~(m <= m - 1)
    BY <1>3
  <2>2. m - 1 \notin Bad
    BY <1>1, <2>1
  <2>3. PICK g : Prefetching(g, s, from, m - 1)
    BY <2>1, <2>2
  <2> DEFINE h == [i \in 0..m |-> IF i < m THEN g[i] ELSE PrefetchOne(g[m - 1], from + m - 1)]
  <2>4. \A i \in 0..(m - 1) :
           g[i] = IF i = 0 THEN s ELSE PrefetchOne(g[i - 1], from + i - 1)
    BY <2>3 DEF Prefetching
  <2>5. ASSUME NEW i \in 0..m
        PROVE  h[i] = IF i = 0 THEN s ELSE PrefetchOne(h[i - 1], from + i - 1)
    <3>1. CASE i = 0
      BY <3>1, <2>1, <2>4, <1>3
    <3>2. CASE i # 0 /\ i < m
      <4>1. i \in 0..(m - 1) /\ i - 1 \in 0..m /\ i - 1 < m
        BY <3>2
      <4>2. h[i] = g[i] /\ h[i - 1] = g[i - 1]
        BY <3>2, <4>1
      <4> HIDE DEF h
      <4> QED BY <3>2, <4>1, <4>2, <2>4
    <3>3. CASE i = m
      <4>1. m - 1 \in 0..m /\ m - 1 < m
        BY <2>1
      <4>2. h[m] = PrefetchOne(g[m - 1], from + m - 1) /\ h[m - 1] = g[m - 1]
        BY <4>1
      <4> HIDE DEF h
      <4> QED BY <3>3, <4>2, <1>3
    <3> QED BY <3>1, <3>2, <3>3
  <2>6. h = [i \in 0..m |-> h[i]]
    OBVIOUS
  <2> HIDE DEF h
  <2>7. Prefetching(h, s, from, m)
    BY <2>5, <2>6 DEF Prefetching
  <2> QED BY <1>1, <2>7
<1> QED BY <1>2, <1>3

LEMMA PrefetchRight ==
    ASSUME NEW s, NEW tasks, RuntimeOK(s, tasks), NEW from \in Nat,
           NEW entryEnd \in 0..N, from <= entryEnd
    PROVE  /\ RuntimeOK(Prefetch(s, from, entryEnd), tasks)
           /\ AskFrame(s, Prefetch(s, from, entryEnd))
<1> DEFINE n == Min({PrefetchChunks, entryEnd - from})
           after == CHOOSE g : Prefetching(g, s, from, n)
<1>1. n \in Nat /\ n <= entryEnd - from
  <2> DEFINE T == {PrefetchChunks, entryEnd - from}
  <2>1. PrefetchChunks \in Nat /\ entryEnd - from \in Nat
    BY StreamConstants
  <2>2. T \in SUBSET Nat /\ T # {} /\ entryEnd - from \in T
    BY <2>1
  <2> HIDE DEF T
  <2>3. Min(T) \in T /\ \A k \in T : Min(T) <= k
    BY <2>2, MinIs
  <2>4. Min(T) \in Nat /\ Min(T) <= entryEnd - from
    BY <2>2, <2>3
  <2> QED BY <2>4 DEF T
<1>2. Prefetch(s, from, entryEnd) = after[n]
  BY DEF Prefetch, Prefetching
<1> HIDE DEF n
<1>3. Prefetching(after, s, from, n)
  BY <1>1, PrefetchingExists
<1> HIDE DEF after
<1>4. \A i \in 0..n : after[i] = IF i = 0 THEN s ELSE PrefetchOne(after[i - 1], from + i - 1)
  BY <1>3 DEF Prefetching
<1>5. s \in Runtimes
  BY DEF RuntimeOK
<1>6. RuntimeOK(after[0], tasks) /\ AskFrame(s, after[0])
  BY <1>1, <1>4 DEF AskFrame, SameFill
<1>7. ASSUME NEW k \in Nat, k < n, RuntimeOK(after[k], tasks), AskFrame(s, after[k])
      PROVE  RuntimeOK(after[k + 1], tasks) /\ AskFrame(s, after[k + 1])
  <2>1. k + 1 \in 0..n /\ (k + 1) - 1 = k /\ from + (k + 1) - 1 = from + k /\ k + 1 # 0
    BY <1>1, <1>7
  <2>2. after[k + 1] = PrefetchOne(after[k], from + k)
    BY <1>4, <2>1
  <2>3. from + k \in Chunks
    <3>1. N \in Nat
      BY CoversAre
    <3> QED BY <3>1, <1>1, <1>7 DEF Chunks
  <2>4. RuntimeOK(after[k + 1], tasks) /\ AskFrame(after[k], after[k + 1])
    BY <1>7, <2>2, <2>3, PrefetchOneRight
  <2>5. after[k] \in Runtimes /\ after[k + 1] \in Runtimes
    BY <1>7, <2>4 DEF RuntimeOK
  <2> QED BY <1>5, <1>7, <2>4, <2>5, AskFrameTrans
<1> DEFINE Bad == {k \in Nat : k <= n /\ ~(RuntimeOK(after[k], tasks) /\ AskFrame(s, after[k]))}
<1>8. Bad = {}
  <2> SUFFICES ASSUME Bad # {} PROVE FALSE
    OBVIOUS
  <2>1. PICK m \in Bad : \A k \in Bad : m <= k
    <3>1. Bad \in SUBSET Nat
      OBVIOUS
    <3> HIDE DEF Bad
    <3> QED BY <3>1, SmallestOf
  <2>2. m # 0 /\ m \in Nat /\ m <= n
    BY <1>6, <2>1
  <2>3. m - 1 \in Nat /\ ~(m <= m - 1) /\ m - 1 < n /\ m - 1 <= n
        /\ (m - 1) + 1 = m
    BY <1>1, <2>2
  <2>4. m - 1 \notin Bad
    BY <2>1, <2>3
  <2>5. RuntimeOK(after[m - 1], tasks) /\ AskFrame(s, after[m - 1])
    BY <2>3, <2>4
  <2>6. RuntimeOK(after[(m - 1) + 1], tasks) /\ AskFrame(s, after[(m - 1) + 1])
    BY <1>7, <2>3, <2>5
  <2> QED BY <2>1, <2>3, <2>6
<1>9. RuntimeOK(after[n], tasks) /\ AskFrame(s, after[n])
  BY <1>1, <1>8
<1> QED BY <1>2, <1>9

-----------------------------------------------------------------------------
(* The fill.                                                               *)

\* What the fill leaves alone.
FillFrame(s, u) ==
    /\ u.demands = s.demands /\ u.closed = s.closed /\ u.diskWritable = s.diskWritable
    /\ s.pending \subseteq u.pending
    /\ \A c \in s.pending : NotSpeculated(s, c) => NotSpeculated(u, c)

\* The rest of the order begins with a chunk that is wanted.
LEMMA RestOfOrderIs ==
    ASSUME NEW s \in Runtimes
    PROVE  /\ RestOfOrder(s) \in Seq(Chunks)
           /\ RestOfOrder(s) # <<>> => /\ Head(RestOfOrder(s)) \in Chunks
                                       /\ Wanted(s, Head(RestOfOrder(s)))
                                       /\ Tail(RestOfOrder(s)) \in Seq(Chunks)
<1> DEFINE order == s.fillOrder
           K == {k \in 0..Len(order) : \A i \in 1..k : ~Wanted(s, order[i])}
           n == Max(K)
           rest == SubSeq(order, n + 1, Len(order))
<1>1. order \in Seq(Chunks)
  BY DEF Runtimes
<1>2. rest = RestOfOrder(s)
  BY DEF RestOfOrder
<1> HIDE DEF order
<1>3. n \in K /\ \A k \in K : k <= n
  <2>1. 0 \in K
    BY <1>1
  <2> QED BY <1>1, <2>1, MaxIs, Len(order) \in Nat, K \in SUBSET (0..Len(order)), K # {}
<1>4. n \in 0..Len(order) /\ \A i \in 1..n : ~Wanted(s, order[i])
  BY <1>3
<1>5. n < Len(order) => Wanted(s, order[n + 1])
  <2> SUFFICES ASSUME n < Len(order), ~Wanted(s, order[n + 1]) PROVE FALSE
    OBVIOUS
  <2> HIDE DEF n
  <2>1. n + 1 \in 0..Len(order) /\ \A i \in 1..(n + 1) : ~Wanted(s, order[i])
    BY <1>1, <1>4
  <2>2. n + 1 \in K
    BY <2>1
  <2> QED BY <1>3, <1>4, <2>2
<1> HIDE DEF n
<1>6. /\ rest \in Seq(Chunks) /\ Len(rest) = Len(order) - n
      /\ \A i \in 1..(Len(order) - n) : i + n \in DOMAIN order /\ rest[i] = order[i + n]
  BY <1>1, <1>4, TailIs
<1> HIDE DEF rest
<1>7. ASSUME rest # <<>>
      PROVE  Head(rest) \in Chunks /\ Wanted(s, Head(rest)) /\ Tail(rest) \in Seq(Chunks)
  <2>1. Len(rest) > 0 /\ Head(rest) = rest[1] /\ Tail(rest) \in Seq(Chunks)
        /\ Head(rest) \in Chunks
    BY <1>6, <1>7
  <2>2. n < Len(order) /\ 1 \in 1..(Len(order) - n) /\ 1 + n = n + 1
    BY <1>1, <1>4, <1>6, <2>1
  <2> QED BY <1>5, <1>6, <2>1, <2>2
<1> QED BY <1>2, <1>6, <1>7

\* Behind the cursor nothing more is wanted.
LEMMA NextInOrderIs ==
    ASSUME NEW s \in Runtimes
    PROVE  /\ NextInOrder(s) \in s.fillCursor..N
           /\ NextInOrder(s) < N => Wanted(s, NextInOrder(s))
           /\ \A c \in s.fillCursor..N : c < NextInOrder(s) => ~Wanted(s, c)
<1> DEFINE T == {c \in s.fillCursor..N : c = N \/ Wanted(s, c)}
           m == Min(T)
<1>1. N \in Nat /\ s.fillCursor \in 0..N
  BY CoversAre DEF Runtimes
<1>2. T \in SUBSET Nat /\ T # {}
  <2>1. N \in T
    BY <1>1
  <2> QED BY <1>1, <2>1
<1>3. m \in T /\ \A k \in T : m <= k
  <2> HIDE DEF T
  <2> QED BY <1>2, MinIs
<1>4. m = NextInOrder(s)
  BY DEF NextInOrder
<1> HIDE DEF m
<1>5. m \in s.fillCursor..N /\ (m = N \/ Wanted(s, m))
  BY <1>3
<1>6. \A c \in s.fillCursor..N : c < m => ~Wanted(s, c)
  <2> SUFFICES ASSUME NEW c \in s.fillCursor..N, c < m, Wanted(s, c) PROVE FALSE
    OBVIOUS
  <2>1. c \in T
    OBVIOUS
  <2>2. m <= c
    BY <1>3, <2>1
  <2> QED BY <1>1, <1>5, <2>2
<1> QED BY <1>1, <1>4, <1>5, <1>6

\* A batch of the fill that begins with a wanted chunk.
LEMMA PumpFillFromRight ==
    ASSUME NEW s, NEW tasks, RuntimeOK(s, tasks), ~s.closed, s.queue = <<>>, s.active = 0,
           s.demands = 0, NEW first \in Chunks, Wanted(s, first)
    PROVE  LET u == PumpFillFrom(s, first)
           IN  /\ RuntimeOK(u, tasks) /\ FillFrame(s, u)
               /\ u.fillCursor = s.fillCursor /\ u.fillOver = s.fillOver
<1> DEFINE end == Min({N, first + BatchChunks})
           T == {l \in first..end - 1 : \A c \in (first + 1)..l : Wanted(s, c)}
           last == Max(T)
           t == [s EXCEPT !.fillBusy = TRUE]
<1>1. N \in Nat /\ first \in 0..(N - 1) /\ BatchChunks \in Nat \ {0}
  BY StreamConstants DEF Chunks
<1>2. end \in (first + 1)..N
  <2> DEFINE U == {N, first + BatchChunks}
  <2>1. U \in SUBSET Nat /\ U # {} /\ N \in U
    BY <1>1
  <2>2. \A k \in U : first + 1 <= k
    BY <1>1
  <2> HIDE DEF U
  <2>3. Min(U) \in U /\ \A k \in U : Min(U) <= k
    BY <2>1, MinIs
  <2>4. Min(U) \in (first + 1)..N
    <3> DEFINE m == Min(U)
    <3>1. m \in Nat /\ first + 1 <= m /\ m <= N
      BY <2>1, <2>2, <2>3
    <3> HIDE DEF m
    <3>2. m \in (first + 1)..N
      BY <1>1, <3>1
    <3> QED BY <3>2 DEF m
  <2> QED BY <2>4 DEF U
<1> HIDE DEF end
<1>3. last \in T
  <2>1. T \in SUBSET (0..N)
    BY <1>1, <1>2
  <2>2. first \in T
    BY <1>1, <1>2
  <2> HIDE DEF T
  <2> QED BY <1>1, <2>1, <2>2, MaxIs
<1>4. /\ last \in Chunks /\ first <= last
      /\ \A c \in first..last : Wanted(s, c)
  <2>1. last \in first..end - 1 /\ \A c \in (first + 1)..last : Wanted(s, c)
    BY <1>3
  <2> HIDE DEF last
  <2>2. last \in Chunks /\ first <= last
    BY <1>1, <1>2, <2>1 DEF Chunks
  <2>3. \A c \in first..last : c = first \/ c \in (first + 1)..last
    BY <1>1, <2>1
  <2> QED BY <2>1, <2>2, <2>3
<1>5. s \in Runtimes /\ (s.filling => s.diskWritable)
  BY DEF RuntimeOK
<1>6. /\ t \in Runtimes /\ t.pending = s.pending /\ t.queue = s.queue /\ t.running = s.running
      /\ t.active = s.active /\ t.speculativeActive = s.speculativeActive
      /\ t.closed = s.closed /\ t.filling = s.filling /\ t.diskWritable = s.diskWritable
      /\ t.demands = s.demands /\ t.fillCursor = s.fillCursor /\ t.fillOver = s.fillOver
  BY <1>5 DEF Runtimes
<1>7. last = Max({l \in first..Min({N, first + BatchChunks} ) - 1 :
                     \A c \in (first + 1)..l : Wanted(s, c)})
  BY DEF end
<1>8. PumpFillFrom(s, first) = Schedule(t, first, last, TRUE, 2)
  BY <1>7 DEF PumpFillFrom
<1> HIDE DEF last, t
<1>9. RuntimeOK(t, tasks)
  BY <1>5, <1>6, SameTransfers
<1>10. PICK fill \in BOOLEAN : fill = TRUE
  OBVIOUS
<1> DEFINE u == PumpFillFrom(s, first)
<1>11. u = Schedule(t, first, last, fill, 2)
  BY <1>8, <1>10, Zenon
<1> HIDE DEF u
<1>12. MaySchedule(t, tasks, first, last, fill, 2)
  <2>1. (first..last) \cap t.pending = {}
    BY <1>4, <1>6 DEF Wanted
  <2> QED BY <1>4, <1>6, <1>9, <2>1 DEF MaySchedule
<1>13. RuntimeOK(u, tasks) /\ AskFrame(t, u)
  <2>1. \A f, l, b, p, v : MaySchedule(t, tasks, f, l, b, p) /\ v = Schedule(t, f, l, b, p) =>
              RuntimeOK(v, tasks) /\ AskFrame(t, v)
    BY ScheduleRight
  <2> QED BY <1>11, <1>12, <2>1
<1>14. \A c : NotSpeculated(s, c) <=> NotSpeculated(t, c)
  BY <1>6 DEF NotSpeculated
<1>15. FillFrame(s, u)
  BY <1>6, <1>13, <1>14 DEF FillFrame, AskFrame, SameFill
<1>16. u.fillCursor = s.fillCursor /\ u.fillOver = s.fillOver
  BY <1>6, <1>13 DEF AskFrame, SameFill
<1> QED BY <1>13, <1>15, <1>16 DEF u

\* With no job under way, what is pending is about to be settled.
LEMMA NothingUnderWay ==
    ASSUME NEW s, NEW tasks, RuntimeOK(s, tasks), s.queue = <<>>, s.active = 0,
           TasksOnDisk(tasks)
    PROVE  \A c \in s.pending : OnDisk(c)
<1>1. s \in Runtimes /\ Claims(s, tasks) /\ Counts(s, tasks)
  BY DEF RuntimeOK
<1>2. IsFiniteSet(s.running) /\ Cardinality(s.running) = 0
  <2>1. IsFiniteSet(s.running) /\ s.active = Cardinality(s.running) + Ending(tasks)
    BY <1>1 DEF Counts
  <2>2. Cardinality(s.running) \in Nat /\ Ending(tasks) \in {0, 1}
    BY <1>1, CountsAreNumbers
  <2> QED BY <2>1, <2>2
<1>3. s.running = {}
  BY <1>2, FS_EmptySet
<1>4. s.pending \subseteq Chunks
  BY <1>1 DEF Runtimes
<1>5. \A c \in s.pending : \E k \in DOMAIN tasks : c \in Settles(tasks[k])
  BY <1>1, <1>3, <1>4 DEF Claims
<1> QED BY <1>5 DEF TasksOnDisk

\* pumpFill.
LEMMA PumpFillRight ==
    ASSUME NEW s, NEW tasks, RuntimeOK(s, tasks)
    PROVE  LET u == PumpFill(s)
           IN  /\ RuntimeOK(u, tasks) /\ FillFrame(s, u)
               /\ (s.diskWritable /\ ~s.closed => TasksOnDisk(tasks)) /\ Passed(s) => Passed(u)
<1> DEFINE u == PumpFill(s)
           rest == RestOfOrder(s)
           cursor == IF rest = <<>> THEN NextInOrder(s) ELSE s.fillCursor
           begun == [s EXCEPT !.fillOrder = IF rest = <<>> THEN rest ELSE Tail(rest),
                              !.fillCursor = cursor]
           stops == ~s.filling \/ s.fillBusy \/ s.closed \/ s.demands > 0 \/ s.active > 0
                       \/ s.queue # <<>>
<1> SUFFICES /\ RuntimeOK(u, tasks) /\ FillFrame(s, u)
             /\ (s.diskWritable /\ ~s.closed => TasksOnDisk(tasks)) /\ Passed(s) => Passed(u)
  BY Zenon
<1>1. s \in Runtimes /\ (s.filling => s.diskWritable)
  BY DEF RuntimeOK
<1>2. CASE stops
  <2>1. u = s
    BY <1>2 DEF PumpFill
  <2> QED BY <2>1 DEF FillFrame
<1>3. CASE ~stops
  <2>1. u = IF rest # <<>> THEN PumpFillFrom(begun, Head(rest))
            ELSE IF cursor < N THEN PumpFillFrom(begun, cursor)
            ELSE [begun EXCEPT !.filling = FALSE, !.fillOver = TRUE]
    BY <1>3 DEF PumpFill
  <2>2. s.filling /\ ~s.closed /\ s.queue = <<>> /\ s.active = 0 /\ s.demands = 0
        /\ s.diskWritable
    BY <1>1, <1>3 DEF Runtimes
  <2> HIDE DEF u
  <2>3. /\ rest \in Seq(Chunks)
        /\ rest # <<>> => /\ Head(rest) \in Chunks /\ Wanted(s, Head(rest))
                          /\ Tail(rest) \in Seq(Chunks)
    BY <1>1, RestOfOrderIs
  <2> HIDE DEF rest
  <2>4. N \in Nat /\ s.fillCursor \in 0..N /\ cursor \in s.fillCursor..N
        /\ (rest = <<>> /\ cursor < N => Wanted(s, cursor))
        /\ (rest = <<>> => \A c \in s.fillCursor..N : c < cursor => ~Wanted(s, c))
    BY <1>1, NextInOrderIs, CoversAre DEF Runtimes
  <2> HIDE DEF cursor
  <2>5. /\ begun \in Runtimes /\ begun.pending = s.pending /\ begun.queue = s.queue
        /\ begun.running = s.running /\ begun.active = s.active
        /\ begun.speculativeActive = s.speculativeActive /\ begun.closed = s.closed
        /\ begun.filling = s.filling /\ begun.diskWritable = s.diskWritable
        /\ begun.demands = s.demands /\ begun.fillCursor = cursor /\ begun.fillOver = s.fillOver
    <3>1. (IF rest = <<>> THEN rest ELSE Tail(rest)) \in Seq(Chunks)
      BY <2>3
    <3>2. cursor \in 0..N
      BY <2>4
    <3> QED BY <1>1, <3>1, <3>2 DEF Runtimes
  <2> HIDE DEF begun
  <2>6. RuntimeOK(begun, tasks)
    BY <1>1, <2>5, SameTransfers
  <2>7. \A c : NotSpeculated(s, c) <=> NotSpeculated(begun, c)
    BY <2>5 DEF NotSpeculated
  <2>8. \A c : Wanted(begun, c) <=> Wanted(s, c)
    BY <2>5 DEF Wanted
  <2>9. ASSUME TasksOnDisk(tasks), Passed(s)
        PROVE  Passed(begun) /\ (rest = <<>> => \A c \in Chunks : c < cursor => OnDisk(c))
    <3>1. \A c \in s.pending : OnDisk(c)
      BY <2>2, <2>9, NothingUnderWay
    <3>2. ASSUME NEW c \in Chunks, c < cursor PROVE OnDisk(c)
      <4>1. CASE c < s.fillCursor
        BY <2>9, <4>1 DEF Passed
      <4>2. CASE ~(c < s.fillCursor) /\ rest = <<>>
        <5>1. c \in s.fillCursor..N
          BY <2>4, <4>2 DEF Chunks
        <5>2. ~Wanted(s, c)
          BY <2>4, <3>2, <4>2, <5>1
        <5> QED BY <3>1, <5>2 DEF Wanted
      <4>3. CASE ~(c < s.fillCursor) /\ rest # <<>>
        BY <3>2, <4>3 DEF cursor
      <4> QED BY <4>1, <4>2, <4>3
    <3> QED BY <2>5, <2>9, <3>2 DEF Passed
  <2>10. ASSUME NEW first \in Chunks, Wanted(s, first), u = PumpFillFrom(begun, first)
         PROVE  /\ RuntimeOK(u, tasks) /\ FillFrame(s, u)
                /\ TasksOnDisk(tasks) /\ Passed(s) => Passed(u)
    <3>1. /\ RuntimeOK(u, tasks) /\ FillFrame(begun, u)
          /\ u.fillCursor = begun.fillCursor /\ u.fillOver = begun.fillOver
      BY <2>2, <2>5, <2>6, <2>8, <2>10, PumpFillFromRight
    <3>2. FillFrame(s, u)
      BY <2>5, <2>7, <3>1 DEF FillFrame
    <3> QED BY <2>9, <3>1, <3>2 DEF Passed
  <2>11. CASE rest # <<>>
    BY <2>1, <2>2, <2>3, <2>10, <2>11
  <2>12. CASE rest = <<>> /\ cursor < N
    <3>1. cursor \in Chunks
      BY <2>4, <2>12 DEF Chunks
    <3> QED BY <2>1, <2>2, <2>4, <2>10, <2>12, <3>1
  <2>13. CASE rest = <<>> /\ ~(cursor < N)
    <3>1. u = [begun EXCEPT !.filling = FALSE, !.fillOver = TRUE]
      BY <2>1, <2>13
    <3>2. /\ u \in Runtimes /\ u.pending = begun.pending /\ u.queue = begun.queue
          /\ u.running = begun.running /\ u.active = begun.active
          /\ u.speculativeActive = begun.speculativeActive /\ u.closed = begun.closed
          /\ ~u.filling /\ u.diskWritable = begun.diskWritable
          /\ u.demands = begun.demands /\ u.fillCursor = begun.fillCursor
      BY <2>5, <3>1 DEF Runtimes
    <3>3. RuntimeOK(u, tasks)
      BY <2>6, <3>2, SameTransfers
    <3>4. FillFrame(s, u)
      BY <2>5, <2>7, <3>2 DEF FillFrame, NotSpeculated
    <3>5. ASSUME TasksOnDisk(tasks), Passed(s) PROVE Passed(u)
      <4>1. \A c \in Chunks : c < cursor
        BY <2>4, <2>13 DEF Chunks
      <4>2. \A c \in Chunks : OnDisk(c)
        BY <2>9, <2>13, <3>5, <4>1
      <4> QED BY <4>2 DEF Passed
    <3> QED BY <2>2, <3>3, <3>4, <3>5
  <2> QED BY <2>11, <2>12, <2>13
<1> QED BY <1>2, <1>3

-----------------------------------------------------------------------------
(* The reads.                                                              *)

LEMMA SetToSeqIs ==
    ASSUME NEW S, IsFiniteSet(S)
    PROVE  SetToSeq(S) \in Seq(S) /\ IsInjective(SetToSeq(S))
<1>1. Cardinality(S) \in Nat /\ ExistsBijection(1..Cardinality(S), S)
  BY FS_CardinalityType
<1>2. PICK f \in Bijection(1..Cardinality(S), S) : TRUE
  BY <1>1 DEF ExistsBijection
<1>3. f \in [1..Cardinality(S) -> S] /\ IsInjective(f)
  BY <1>2 DEF Bijection, Injection, IsInjective
<1>4. SetToSeq(S) \in [1..Cardinality(S) -> S] /\ IsInjective(SetToSeq(S))
  BY <1>3 DEF SetToSeq
<1> QED BY <1>1, <1>4

\* The reads that end when their chunks have an outcome.
EndTasks(who, ok) == SetToSeq({ReadEnds(r, ok) : r \in who})

OnlyEnds(ends, who) ==
    /\ ends \in Seq(Microtasks)
    /\ \A k \in DOMAIN ends : ends[k].kind = "readEnds" /\ Settles(ends[k]) = {}
    /\ \A k \in DOMAIN ends : ends[k].reader \in who
    /\ \A k, l \in DOMAIN ends : ends[k].reader = ends[l].reader => k = l

LEMMA EndsAre ==
    ASSUME NEW who \in SUBSET Readers, NEW ok \in BOOLEAN
    PROVE  OnlyEnds(EndTasks(who, ok), who)
<1> DEFINE S == {ReadEnds(r, ok) : r \in who}
           ends == SetToSeq(S)
<1>1. IsFiniteSet(who)
  BY StreamConstants, FS_Subset
<1>2. IsFiniteSet(S)
  <2> DEFINE f == [r \in who |-> ReadEnds(r, ok)]
             T == {f[r] : r \in who}
  <2>1. \A x, y \in who : f[x] = f[y] => x = y
    BY DEF ReadEnds
  <2>2. S = T
    OBVIOUS
  <2> HIDE DEF f, S
  <2>3. IsFiniteSet(T)
    BY <1>1, <2>1, ImageCardinality
  <2> HIDE DEF T
  <2> QED BY <2>2, <2>3
<1>3. \A t \in S : /\ t \in Microtasks /\ t.kind = "readEnds" /\ Settles(t) = {}
                   /\ t.reader \in who /\ t.ok = ok /\ t = ReadEnds(t.reader, ok)
  BY DEF ReadEnds, Microtasks, Settles
<1> HIDE DEF S
<1>4. ends \in Seq(S) /\ IsInjective(ends)
  BY <1>2, SetToSeqIs
<1> HIDE DEF ends
<1>5. \A k \in DOMAIN ends : ends[k] \in S
  BY <1>4
<1>6. ends \in Seq(Microtasks)
  BY <1>3, <1>4
<1>7. \A k, l \in DOMAIN ends : ends[k].reader = ends[l].reader => k = l
  BY <1>3, <1>4, <1>5 DEF IsInjective
<1> QED BY <1>3, <1>5, <1>6, <1>7 DEF ends, S, EndTasks, OnlyEnds

\* The microtasks that end reads, when the first has run or others join.
LEMMA EndsTail ==
    ASSUME NEW tasks \in Seq(Microtasks), tasks # <<>>, NEW ended, EndsOK(tasks, ended)
    PROVE  /\ EndsOK(Tail(tasks), ended)
           /\ Head(tasks).kind = "readEnds" =>
                 \A k \in DOMAIN Tail(tasks) : Tail(tasks)[k].kind = "readEnds" =>
                    Tail(tasks)[k].reader # Head(tasks).reader
<1> DEFINE w == Tail(tasks)
<1>1. /\ w \in Seq(Microtasks) /\ 1 \in DOMAIN tasks /\ Head(tasks) = tasks[1]
      /\ \A k \in DOMAIN w : k + 1 \in DOMAIN tasks /\ k + 1 # 1 /\ w[k] = tasks[k + 1]
      /\ \A k, l \in DOMAIN w : k + 1 = l + 1 => k = l
  OBVIOUS
<1> HIDE DEF w
<1>2. EndsOK(w, ended)
  BY <1>1 DEF EndsOK
<1>3. Head(tasks).kind = "readEnds" =>
         \A k \in DOMAIN w : w[k].kind = "readEnds" => w[k].reader # Head(tasks).reader
  BY <1>1 DEF EndsOK
<1> QED BY <1>2, <1>3 DEF w

LEMMA EndsJoin ==
    ASSUME NEW a \in Seq(Microtasks), NEW b \in Seq(Microtasks), NEW ended,
           EndsOK(a, ended), EndsOK(b, ended),
           \A k \in DOMAIN a, l \in DOMAIN b :
              a[k].kind = "readEnds" /\ b[l].kind = "readEnds" => a[k].reader # b[l].reader
    PROVE  EndsOK(a \o b, ended)
<1> DEFINE w == a \o b
<1>1. w \in Seq(Microtasks) /\ Joined(w, a, b)
  BY JoinIs
<1> HIDE DEF w
<1>2. /\ \A k \in DOMAIN w : \/ k \in DOMAIN a /\ w[k] = a[k]
                             \/ \E l \in DOMAIN b : l = k - Len(a) /\ w[k] = b[l]
      /\ \A k, l \in DOMAIN w : k - Len(a) = l - Len(a) => k = l
  BY <1>1 DEF Joined
<1>3. \A k \in DOMAIN w : w[k].kind = "readEnds" =>
          ended[w[k].reader] # NoRead /\ ended[w[k].reader].ended
  BY <1>2 DEF EndsOK
<1>4. ASSUME NEW k \in DOMAIN w, NEW l \in DOMAIN w, w[k].kind = "readEnds",
             w[l].kind = "readEnds", w[k].reader = w[l].reader
      PROVE  k = l
  BY <1>2, <1>4 DEF EndsOK
<1> QED BY <1>3, <1>4 DEF EndsOK, w

\* The reads and their counters stay; what they wait for stays pending.
LEMMA SameReads ==
    ASSUME ReadsOK, Awaited, reads' = reads, posted' = posted,
           rt.pending \subseteq rt'.pending,
           \A c \in rt.pending : NotSpeculated(rt, c) => NotSpeculated(rt', c)
    PROVE  ReadsOK' /\ Awaited' /\ Demands' = Demands
<1>1. ReadsOK'
  BY DEF ReadsOK, Idle, Unfinished
<1>2. Awaited'
  BY DEF Awaited, Awaits, Unfinished, Idle
<1>3. Demands' = Demands
  BY DEF Demands, Idle
<1> QED BY <1>1, <1>2, <1>3

\* The demands are finitely many, and a read more or less changes their number
\* by one.
LEMMA DemandsAreFinite == IsFiniteSet(Demands) /\ Cardinality(Demands) \in Nat
<1>1. Demands \in SUBSET Readers
  BY DEF Demands
<1>2. IsFiniteSet(Demands)
  BY <1>1, StreamConstants, FS_Subset
<1> QED BY <1>2, FS_CardinalityType


\* A read with other chunks or another end.
WithParts(read, parts, ended) ==
    [first |-> read.first, demand |-> read.demand, sequential |-> read.sequential,
     parts |-> parts, ended |-> ended]

LEMMA ReadIs ==
    ASSUME NEW read, IsRead(read)
    PROVE  /\ read # NoRead /\ read = WithParts(read, read.parts, read.ended)
           /\ DOMAIN read.parts \subseteq Chunks /\ Absent \notin Chunks
           /\ \E last \in Chunks : read.first <= last /\ DOMAIN read.parts = read.first..last
<1>1. PICK last \in Chunks : /\ read.first <= last
                             /\ read.parts = [c \in read.first..last |-> read.parts[c]]
  BY DEF IsRead
<1>2. DOMAIN read.parts = read.first..last
  BY <1>1
<1>3. read.first \in Chunks /\ N \in Nat \ {0} /\ Absent \notin Chunks
  BY StreamConstants DEF IsRead, Chunks
<1>4. read.first \in read.first..last /\ read.first..last \subseteq Chunks
  BY <1>1, <1>3 DEF Chunks
<1>5. read # NoRead
  <2>1. DOMAIN NoRead.parts = {}
    BY DEF NoRead
  <2> QED BY <2>1, <1>2, <1>4
<1>6. read = WithParts(read, read.parts, read.ended)
  BY DEF IsRead, WithParts
<1> QED BY <1>1, <1>2, <1>3, <1>4, <1>5, <1>6

Updates(read, parts, ended) ==
    LET new == WithParts(read, parts, ended)
    IN  /\ IsRead(new) /\ new.parts = parts /\ new.ended = ended
        /\ new.demand = read.demand
        /\ new = [read EXCEPT !.parts = parts, !.ended = ended]

LEMMA WithPartsIs ==
    ASSUME NEW read, IsRead(read), NEW parts, NEW ended \in BOOLEAN,
           parts = [c \in DOMAIN read.parts |-> parts[c]],
           \A c \in DOMAIN read.parts : parts[c] \in {Absent, c}
    PROVE  Updates(read, parts, ended)
<1> DEFINE new == WithParts(read, parts, ended)
<1>1. /\ new.parts = parts /\ new.ended = ended /\ new.first = read.first
      /\ new.demand = read.demand /\ new.sequential = read.sequential
  BY DEF WithParts
<1>2. new = WithParts(new, new.parts, new.ended)
  BY DEF WithParts
<1>3. new = [read EXCEPT !.parts = parts, !.ended = ended]
  <2>1. PICK a, b, c, d, e :
           read = [first |-> a, demand |-> b, sequential |-> c, parts |-> d, ended |-> e]
    BY DEF IsRead
  <2>2. new = [first |-> a, demand |-> b, sequential |-> c, parts |-> parts, ended |-> ended]
    BY <2>1 DEF WithParts
  <2>3. [read EXCEPT !.parts = parts, !.ended = ended] =
           [first |-> a, demand |-> b, sequential |-> c, parts |-> parts, ended |-> ended]
    <3> DEFINE m == [read EXCEPT !.parts = parts]
    <3>1. m = [first |-> a, demand |-> b, sequential |-> c, parts |-> parts, ended |-> e]
      BY <2>1
    <3> HIDE DEF m
    <3>2. [m EXCEPT !.ended = ended] =
             [first |-> a, demand |-> b, sequential |-> c, parts |-> parts, ended |-> ended]
      BY <3>1
    <3> QED BY <3>2 DEF m
  <2> HIDE DEF new
  <2> QED BY <2>2, <2>3
<1> HIDE DEF new
<1>4. PICK last \in Chunks : /\ read.first <= last
                             /\ read.parts = [c \in read.first..last |-> read.parts[c]]
  BY DEF IsRead
<1>5. DOMAIN read.parts = read.first..last
  BY <1>4
<1>6. parts = [c \in read.first..last |-> parts[c]]
  BY <1>5
<1>7. DOMAIN parts = DOMAIN read.parts
  BY <1>5, <1>6
<1>8. read.first \in Chunks /\ {read.demand, read.sequential} \subseteq BOOLEAN
  BY DEF IsRead
<1>9. IsRead(new)
  <2>1. \E l \in Chunks : new.first <= l /\ new.parts = [c \in new.first..l |-> new.parts[c]]
    BY <1>1, <1>4, <1>6
  <2>2. \A c \in DOMAIN new.parts : new.parts[c] \in {Absent, c}
    BY <1>1, <1>7
  <2>3. new = [first |-> new.first, demand |-> new.demand, sequential |-> new.sequential,
               parts |-> new.parts, ended |-> new.ended]
    BY <1>2 DEF WithParts
  <2> QED BY <2>1, <2>2, <2>3, <1>1, <1>8 DEF IsRead
<1> QED BY <1>1, <1>3, <1>9 DEF new, Updates


\* What an outcome for the chunks in C does to the read of r: it ends it, or
\* leaves it waiting for chunks outside C.
Received(r, C, new, ends) ==
    LET old == reads[r]
    IN  \/ new = old /\ ~ends /\ \A c \in C : ~Awaits(r, c)
        \/ /\ Unfinished(r) /\ r \notin posted.reads /\ IsRead(new) /\ (new.ended <=> ends)
           /\ new.demand = old.demand /\ DOMAIN new.parts = DOMAIN old.parts
           /\ ~ends => \A c \in DOMAIN new.parts : new.parts[c] = Absent =>
                                                      c \notin C /\ old.parts[c] = Absent

LEMMA ReceivedIs ==
    ASSUME ReadsOK, NEW contents, NEW ok \in BOOLEAN, DOMAIN contents \subseteq Chunks,
           ok => \A c \in DOMAIN contents : contents[c] = c, Receive(contents, ok)
    PROVE  \E who \in SUBSET Readers :
              /\ microtasks' = Tail(microtasks) \o EndTasks(who, ok)
              /\ reads' = [r \in Readers |-> reads'[r]]
              /\ \A r \in Readers : Received(r, DOMAIN contents, reads'[r], r \in who)
<1> DEFINE hit(r) == \E c \in DOMAIN contents : Awaits(r, c)
           parts(r) == [c \in DOMAIN reads[r].parts |->
                           IF c \in DOMAIN contents /\ Awaits(r, c) THEN contents[c]
                           ELSE reads[r].parts[c]]
           ends(r) == hit(r) /\ (~ok \/ Complete(parts(r)))
           who == {q \in Readers : ends(q)}
           new(r) == CASE ends(r) -> [reads[r] EXCEPT !.parts = IF ok THEN parts(r) ELSE @,
                                                      !.ended = TRUE]
                       [] hit(r) /\ ~ends(r) -> [reads[r] EXCEPT !.parts = parts(r)]
                       [] OTHER -> reads[r]
<1>1. /\ microtasks' = Tail(microtasks) \o EndTasks(who, ok)
      /\ reads' = [r \in Readers |-> new(r)]
  BY DEF Receive, EndTasks
<1>2. ASSUME NEW r \in Readers PROVE Received(r, DOMAIN contents, new(r), ends(r))
  <2>1. CASE ~hit(r)
    BY <2>1 DEF Received
  <2>2. CASE hit(r)
    <3> DEFINE old == reads[r]
               p == parts(r)
    <3>1. Unfinished(r) /\ r \notin posted.reads /\ IsRead(old)
      BY <2>2 DEF Awaits, Unfinished, ReadsOK
    <3>2. DOMAIN old.parts \subseteq Chunks /\ Absent \notin Chunks
          /\ \A c \in DOMAIN old.parts : old.parts[c] \in {Absent, c}
      BY <3>1, ReadIs DEF IsRead
    <3>3. old.ended = FALSE /\ old.parts = [c \in DOMAIN old.parts |-> old.parts[c]]
      BY <3>1 DEF Unfinished, IsRead
    <3>4. p = [c \in DOMAIN old.parts |-> p[c]] /\ DOMAIN p = DOMAIN old.parts
      OBVIOUS
    <3>5. ok => /\ \A c \in DOMAIN old.parts : p[c] \in {Absent, c}
                /\ \A c \in DOMAIN old.parts : p[c] = Absent =>
                      c \notin DOMAIN contents /\ old.parts[c] = Absent
      BY <3>1, <3>2 DEF Awaits
    <3> HIDE DEF parts
    <3>6. CASE ok
      <4>1. PICK b \in BOOLEAN : b <=> ends(r)
        OBVIOUS
      <4> DEFINE w == WithParts(old, p, b)
      <4> HIDE DEF ends
      <4>2. /\ IsRead(w) /\ w.parts = p /\ w.ended = b /\ w.demand = old.demand
            /\ w = [old EXCEPT !.parts = p, !.ended = b]
        <5> HIDE DEF old, p
        <5>1. IsRead(old) /\ p = [c \in DOMAIN old.parts |-> p[c]]
              /\ \A c \in DOMAIN old.parts : p[c] \in {Absent, c}
          BY <3>1, <3>4, <3>5, <3>6
        <5>2. Updates(old, p, b)
          BY <5>1, WithPartsIs
        <5> QED BY <5>2 DEF Updates
      <4>3. new(r) = w
        <5>1. CASE ends(r)
          <6>1. b = TRUE
            BY <4>1, <5>1
          <6>2. w = [old EXCEPT !.parts = p, !.ended = TRUE]
            BY <4>2, <6>1
          <6> QED BY <5>1, <6>2, <3>6
        <5>2. CASE ~ends(r)
          <6>1. new(r) = [old EXCEPT !.parts = p]
            BY <5>2, <2>2
          <6>2. [old EXCEPT !.parts = p] = WithParts(old, p, old.ended)
            <7>1. PICK first, demand, sequential, had, e :
                     old = [first |-> first, demand |-> demand, sequential |-> sequential,
                            parts |-> had, ended |-> e]
              BY <3>1 DEF IsRead
            <7> HIDE DEF old, p
            <7> QED BY <7>1 DEF WithParts
          <6>3. b = FALSE
            BY <4>1, <5>2
          <6> HIDE DEF new, p
          <6> QED BY <6>1, <6>2, <6>3, <3>3
        <5> QED BY <5>1, <5>2
      <4> HIDE DEF w, new, p, old, hit
      <4> QED BY <4>1, <4>2, <4>3, <3>1, <3>4, <3>5, <3>6 DEF Received, old
    <3>7. CASE ~ok
      <4>1. PICK b \in BOOLEAN : b = TRUE
        OBVIOUS
      <4> DEFINE w == WithParts(old, old.parts, b)
      <4>2. /\ IsRead(w) /\ w.parts = old.parts /\ w.ended = b /\ w.demand = old.demand
            /\ w = [old EXCEPT !.parts = old.parts, !.ended = b]
        <5> HIDE DEF old
        <5>1. Updates(old, old.parts, b)
          BY <3>1, <3>2, <3>3, WithPartsIs
        <5> QED BY <5>1 DEF Updates
      <4>3. ends(r)
        BY <2>2, <3>7
      <4>4. new(r) = w
        <5>1. new(r) = [old EXCEPT !.parts = old.parts, !.ended = TRUE]
          BY <4>3, <3>7
        <5> HIDE DEF new, w, old
        <5> QED BY <4>1, <4>2, <5>1
      <4> HIDE DEF w, new, ends, old, hit
      <4> QED BY <4>1, <4>2, <4>3, <4>4, <3>1 DEF Received, old
    <3> QED BY <3>6, <3>7
  <2> QED BY <2>1, <2>2
<1>3. \A r \in Readers : reads'[r] = new(r) /\ (r \in who <=> ends(r))
  BY <1>1
<1> HIDE DEF new, ends
<1>4. \A r \in Readers : Received(r, DOMAIN contents, reads'[r], r \in who)
  BY <1>2, <1>3 DEF Received
<1>5. reads' = [r \in Readers |-> reads'[r]]
  BY <1>1
<1> HIDE DEF who
<1>6. who \in SUBSET Readers
  BY DEF who
<1> QED BY <1>1, <1>4, <1>5, <1>6


\* An outcome for chunks that are pending no longer then.
LEMMA ReceiveRight ==
    ASSUME ReadsOK, Awaited, microtasks \in Seq(Microtasks), microtasks # <<>>,
           EndsOK(microtasks, reads),
           NEW contents, NEW ok \in BOOLEAN, DOMAIN contents \subseteq Chunks,
           ok => \A c \in DOMAIN contents : contents[c] = c,
           Receive(contents, ok), posted' = posted,
           rt.pending \ DOMAIN contents \subseteq rt'.pending,
           \A c \in Chunks : NotSpeculated(rt, c) => NotSpeculated(rt', c)
    PROVE  /\ ReadsOK' /\ Awaited' /\ Demands' = Demands
           /\ EndsOK(microtasks', reads')
           /\ \E who \in SUBSET Readers :
                 microtasks' = Tail(microtasks) \o EndTasks(who, ok)
<1> DEFINE C == DOMAIN contents
<1>1. PICK who \in SUBSET Readers :
         /\ microtasks' = Tail(microtasks) \o EndTasks(who, ok)
         /\ reads' = [r \in Readers |-> reads'[r]]
         /\ \A r \in Readers : Received(r, C, reads'[r], r \in who)
  BY ReceivedIs
<1> DEFINE ends == EndTasks(who, ok)
<1> HIDE DEF C
<1>2. ASSUME NEW r \in Readers
      PROVE  \/ /\ reads'[r] = reads[r] /\ r \notin who /\ \A c \in C : ~Awaits(r, c)
             \/ /\ Unfinished(r) /\ r \notin posted.reads /\ IsRead(reads'[r])
                /\ (reads'[r].ended <=> r \in who) /\ reads'[r].demand = reads[r].demand
                /\ DOMAIN reads'[r].parts = DOMAIN reads[r].parts
                /\ r \notin who => \A c \in DOMAIN reads[r].parts :
                      reads'[r].parts[c] = Absent => c \notin C /\ reads[r].parts[c] = Absent
  BY <1>1 DEF Received
<1>3. \A r \in Readers : IsRead(reads'[r]) => reads'[r] # NoRead
  BY ReadIs
<1>4. ReadsOK'
  <2>1. \A r \in Readers : Idle(r)' \/ IsRead(reads'[r])
    BY <1>2 DEF ReadsOK, Idle
  <2>2. \A r \in posted.reads : reads'[r] = reads[r]
    BY <1>2 DEF ReadsOK
  <2>3. \A r \in posted.reads : Unfinished(r)'
    BY <2>2 DEF ReadsOK, Unfinished, Idle
  <2> QED BY <1>1, <2>1, <2>3 DEF ReadsOK
<1>5. Awaited'
  <2> SUFFICES ASSUME NEW r \in Readers, NEW c \in Chunks, Awaits(r, c)'
               PROVE  c \in rt'.pending /\ (reads'[r].demand => NotSpeculated(rt', c))
    BY DEF Awaited
  <2>1. /\ reads'[r] # NoRead /\ ~reads'[r].ended /\ r \notin posted.reads
        /\ c \in DOMAIN reads'[r].parts /\ reads'[r].parts[c] = Absent
    BY DEF Awaits, Unfinished, Idle
  <2>2. Awaits(r, c) /\ c \notin C /\ reads'[r].demand = reads[r].demand
    <3>1. CASE reads'[r] = reads[r] /\ \A d \in C : ~Awaits(r, d)
      BY <2>1, <3>1 DEF Awaits, Unfinished, Idle
    <3>2. CASE Unfinished(r) /\ reads'[r] # reads[r]
      BY <2>1, <3>2, <1>2 DEF Awaits
    <3> QED BY <1>2, <3>1, <3>2, <2>1 DEF Awaits
  <2>3. c \in rt.pending /\ (reads[r].demand => NotSpeculated(rt, c))
    BY <2>2 DEF Awaited
  <2> QED BY <2>2, <2>3 DEF C
<1>6. Demands' = Demands
  <2>1. \A r \in Readers : /\ (reads'[r] # NoRead <=> reads[r] # NoRead)
                           /\ reads'[r] # NoRead => reads'[r].demand = reads[r].demand
    BY <1>2, <1>3 DEF Unfinished, Idle
  <2> QED BY <2>1 DEF Demands, Idle
<1>7. EndsOK(microtasks', reads')
  <2>1. /\ ends \in Seq(Microtasks)
        /\ \A k \in DOMAIN ends : ends[k].kind = "readEnds" /\ ends[k].reader \in who
        /\ \A k, l \in DOMAIN ends : ends[k].reader = ends[l].reader => k = l
    BY EndsAre DEF OnlyEnds
  <2> DEFINE tail == Tail(microtasks)
  <2>2. EndsOK(tail, reads) /\ tail \in Seq(Microtasks)
    BY EndsTail
  <2> HIDE DEF ends, tail
  <2>3. \A k \in DOMAIN tail : tail[k] \in Microtasks
    BY <2>2
  <2>4. \A t \in Microtasks : t.kind = "readEnds" => t.reader \in Readers
    BY DEF Microtasks
  <2>5. \A k \in DOMAIN tail : tail[k].kind = "readEnds" =>
           tail[k].reader \in Readers /\ ~Unfinished(tail[k].reader)
    BY <2>2, <2>3, <2>4 DEF EndsOK, Unfinished
  <2>6. \A r \in who : Unfinished(r) /\ reads'[r] # NoRead /\ reads'[r].ended
    BY <1>2, <1>3
  <2>7. EndsOK(tail, reads')
    <3>1. \A k \in DOMAIN tail : tail[k].kind = "readEnds" =>
             reads'[tail[k].reader] = reads[tail[k].reader]
      BY <1>2, <2>5
    <3> QED BY <2>2, <3>1 DEF EndsOK
  <2>8. EndsOK(ends, reads')
    BY <2>1, <2>6 DEF EndsOK
  <2>9. \A k \in DOMAIN tail, l \in DOMAIN ends :
           tail[k].kind = "readEnds" /\ ends[l].kind = "readEnds" =>
              tail[k].reader # ends[l].reader
    BY <2>1, <2>5, <2>6
  <2>10. EndsOK(tail \o ends, reads')
    BY <2>1, <2>2, <2>7, <2>8, <2>9, EndsJoin
  <2>11. microtasks' = tail \o ends
    BY <1>1 DEF tail, ends
  <2> QED BY <2>10, <2>11
<1> QED BY <1>1, <1>4, <1>5, <1>6, <1>7


-----------------------------------------------------------------------------
(* The end of a job and the close of the runtime.                          *)

\* A job has ended: its outcome and the end of its job, in some order, are all
\* that is still to run.
Outcome(tasks, job, ok) ==
    /\ tasks \in Seq(Microtasks) /\ DOMAIN tasks = {1, 2}
    /\ \E a \in {1, 2}, b \in {1, 2} :
          /\ a # b
          /\ tasks[a] = Settled(job.first, job.last, ok, job.fill)
          /\ tasks[b] = JobEnds(job.speculative)

LEMMA OutcomeIs ==
    ASSUME NEW job \in RunningJobs, NEW ok \in BOOLEAN
    PROVE  /\ Outcome(<<Settled(job.first, job.last, ok, job.fill),
                        JobEnds(job.speculative)>>, job, ok)
           /\ Outcome(<<JobEnds(job.speculative),
                        Settled(job.first, job.last, ok, job.fill)>>, job, ok)
<1> DEFINE x == Settled(job.first, job.last, ok, job.fill)
           y == JobEnds(job.speculative)
<1>1. x \in Microtasks /\ y \in Microtasks
  BY DEF Settled, JobEnds, Microtasks, RunningJobs
<1> HIDE DEF x, y
<1>2. /\ <<x, y>> \in Seq(Microtasks) /\ DOMAIN <<x, y>> = {1, 2}
      /\ <<x, y>>[1] = x /\ <<x, y>>[2] = y
      /\ <<y, x>> \in Seq(Microtasks) /\ DOMAIN <<y, x>> = {1, 2}
      /\ <<y, x>>[1] = y /\ <<y, x>>[2] = x
  BY <1>1
<1> DEFINE p == <<x, y>>
           q == <<y, x>>
<1> HIDE DEF p, q
<1>3. Outcome(p, job, ok)
  BY <1>2 DEF Outcome, p, x, y
<1>4. Outcome(q, job, ok)
  BY <1>2 DEF Outcome, q, x, y
<1> QED BY <1>3, <1>4 DEF p, q, x, y

LEMMA JobLeaves ==
    ASSUME NEW s, RuntimeOK(s, <<>>), NEW job \in s.running, NEW ok \in BOOLEAN,
           NEW tasks, Outcome(tasks, job, ok),
           NEW u \in Runtimes, u.pending = s.pending, u.queue = s.queue,
           u.running = s.running \ {job}, u.active = s.active,
           u.speculativeActive = s.speculativeActive, u.closed = s.closed,
           u.filling => u.diskWritable
    PROVE  RuntimeOK(u, tasks)
<1>1. PICK a \in {1, 2}, b \in {1, 2} :
         /\ a # b /\ DOMAIN tasks = {a, b} /\ tasks \in Seq(Microtasks)
         /\ tasks[a] = Settled(job.first, job.last, ok, job.fill)
         /\ tasks[b] = JobEnds(job.speculative)
  BY DEF Outcome
<1>2. /\ tasks[a].kind = "settled" /\ Settles(tasks[a]) = Covers(job)
      /\ tasks[b].kind = "jobEnds" /\ Settles(tasks[b]) = {}
      /\ tasks[b].speculative = job.speculative
  BY <1>1 DEF Settled, JobEnds, Settles, Covers
<1>3. s \in Runtimes /\ Claims(s, <<>>) /\ Counts(s, <<>>) /\ DOMAIN <<>> = {}
  BY DEF RuntimeOK
<1>4. Claims(u, tasks)
  <2>1. \A c \in Chunks :
          c \in s.pending <=> \/ \E i \in DOMAIN s.queue : c \in Covers(s.queue[i])
                              \/ \E j \in s.running : c \in Covers(j)
    BY <1>3 DEF Claims
  <2>2. \A c : (\E k \in DOMAIN tasks : c \in Settles(tasks[k])) <=> c \in Covers(job)
    BY <1>1, <1>2
  <2>3. \A c, k : k \in DOMAIN tasks /\ c \in Settles(tasks[k]) => k = a /\ c \in Covers(job)
    BY <1>1, <1>2
  <2>4. \A c \in Chunks, j, other \in s.running :
          c \in Covers(j) /\ c \in Covers(other) => j = other
    BY <1>3 DEF Claims
  <2>5. \A c \in Chunks, i \in DOMAIN s.queue, j \in s.running :
          ~(c \in Covers(s.queue[i]) /\ c \in Covers(j))
    BY <1>3 DEF Claims
  <2>6. \A c \in Chunks, i, j \in DOMAIN s.queue :
          c \in Covers(s.queue[i]) /\ c \in Covers(s.queue[j]) => i = j
    BY <1>3 DEF Claims
  <2> QED BY <2>1, <2>2, <2>3, <2>4, <2>5, <2>6 DEF Claims
<1>5. Counts(u, tasks)
  <2> DEFINE spec == Speculations(s.running)
  <2>1. /\ IsFiniteSet(s.running) /\ IsFiniteSet(spec) /\ Cardinality(s.running) \in Nat
        /\ Cardinality(spec) \in Nat
        /\ s.active = Cardinality(s.running) /\ s.speculativeActive = Cardinality(spec)
    <3>1. Ending(<<>>) = 0 /\ EndingSpeculation(<<>>) = 0
      BY DEF Ending, EndingSpeculation
    <3>2. /\ Cardinality(s.running) \in Nat /\ IsFiniteSet(Speculations(s.running))
          /\ Cardinality(Speculations(s.running)) \in Nat
      BY <1>3, CountsAreNumbers
    <3>3. /\ IsFiniteSet(s.running)
          /\ s.active = Cardinality(s.running) + Ending(<<>>)
          /\ s.speculativeActive = Cardinality(Speculations(s.running)) + EndingSpeculation(<<>>)
      BY <1>3 DEF Counts
    <3> QED BY <3>1, <3>2, <3>3
  <2>2. /\ IsFiniteSet(u.running) /\ Cardinality(u.running) = Cardinality(s.running) - 1
    BY <2>1, FS_RemoveElement
  <2>3. Ending(tasks) = 1
    BY <1>1, <1>2 DEF Ending
  <2>4. EndingSpeculation(tasks) = IF job.speculative THEN 1 ELSE 0
    BY <1>1, <1>2 DEF EndingSpeculation
  <2>5. CASE job.speculative
    <3>1. Speculations(u.running) = spec \ {job} /\ job \in spec
      BY <2>5 DEF Speculations
    <3>2. Cardinality(Speculations(u.running)) = Cardinality(spec) - 1
      <4> HIDE DEF spec
      <4>1. Cardinality(spec \ {job}) = Cardinality(spec) - 1
        BY <2>1, <3>1, FS_RemoveElement
      <4> QED BY <3>1, <4>1
    <3>3. u.speculativeActive = Cardinality(Speculations(u.running)) + EndingSpeculation(tasks)
      BY <2>1, <2>4, <2>5, <3>2
    <3> QED BY <2>1, <2>2, <2>3, <3>3, <1>1, <1>2, <1>3 DEF Counts
  <2>6. CASE ~job.speculative
    <3>1. Speculations(u.running) = spec
      BY <2>6 DEF Speculations
    <3>3. u.speculativeActive = Cardinality(Speculations(u.running)) + EndingSpeculation(tasks)
      BY <2>1, <2>4, <2>6, <3>1
    <3> QED BY <2>1, <2>2, <2>3, <3>3, <1>1, <1>2, <1>3 DEF Counts
  <2> QED BY <2>5, <2>6
<1>6. Ordered(u.queue) /\ Blocked(u) /\ ClosedQuiet(u)
  BY DEF RuntimeOK, Blocked, ClosedQuiet
<1> QED BY <1>1, <1>4, <1>5, <1>6 DEF RuntimeOK

\* close, for the fields of the runtime.
LEMMA CloseIs ==
    ASSUME NEW s \in Runtimes, NEW u, u = Close(s)
    PROVE  /\ u \in Runtimes /\ u.pending = s.pending /\ u.running = s.running
           /\ u.active = s.active /\ u.speculativeActive = s.speculativeActive
           /\ u.demands = s.demands /\ u.diskWritable = s.diskWritable
           /\ u.fillCursor = s.fillCursor /\ u.fillOver = s.fillOver
           /\ u.closed = TRUE /\ u.filling = FALSE /\ u.queue = <<>>
<1> DEFINE a == [s EXCEPT !.closed = TRUE]
           b == [a EXCEPT !.filling = FALSE]
           none == <<>>
<1>1. u = [b EXCEPT !.queue = none] /\ none \in Seq(QueuedJobs)
  BY DEF Close
<1> HIDE DEF none
<1>2. /\ a \in Runtimes /\ a.pending = s.pending /\ a.running = s.running
      /\ a.active = s.active /\ a.speculativeActive = s.speculativeActive
      /\ a.demands = s.demands /\ a.diskWritable = s.diskWritable
      /\ a.fillCursor = s.fillCursor /\ a.fillOver = s.fillOver /\ a.closed = TRUE
  BY DEF Runtimes
<1> HIDE DEF a
<1>3. /\ b \in Runtimes /\ b.pending = s.pending /\ b.running = s.running
      /\ b.active = s.active /\ b.speculativeActive = s.speculativeActive
      /\ b.demands = s.demands /\ b.diskWritable = s.diskWritable
      /\ b.fillCursor = s.fillCursor /\ b.fillOver = s.fillOver
      /\ b.closed = TRUE /\ b.filling = FALSE
  BY <1>2 DEF Runtimes
<1> HIDE DEF b
<1>4. /\ u \in Runtimes /\ u.pending = s.pending /\ u.running = s.running
      /\ u.active = s.active /\ u.speculativeActive = s.speculativeActive
      /\ u.demands = s.demands /\ u.diskWritable = s.diskWritable
      /\ u.fillCursor = s.fillCursor /\ u.fillOver = s.fillOver
      /\ u.closed = TRUE /\ u.filling = FALSE /\ u.queue = none
  BY <1>1, <1>3 DEF Runtimes
<1> QED BY <1>4 DEF none

\* close: who was queued is rejected.
LEMMA CloseRight ==
    ASSUME NEW s, NEW tasks, RuntimeOK(s, tasks)
    PROVE  RuntimeOK(Close(s), tasks \o Rejections(s)) /\ Rejections(s) \in Seq(Microtasks)
<1> DEFINE u == Close(s)
           more == Rejections(s)
           w == tasks \o more
<1>1. /\ u \in Runtimes /\ u.pending = s.pending /\ u.queue = <<>> /\ u.running = s.running
      /\ u.active = s.active /\ u.speculativeActive = s.speculativeActive
      /\ u.closed = TRUE /\ u.filling = FALSE
  BY CloseIs DEF RuntimeOK
<1>2. s \in Runtimes /\ tasks \in Seq(Microtasks) /\ Claims(s, tasks) /\ Counts(s, tasks)
      /\ s.queue \in Seq(QueuedJobs)
  BY DEF RuntimeOK, Runtimes
<1>3. /\ more \in Seq(Microtasks) /\ DOMAIN more = DOMAIN s.queue
      /\ \A k \in DOMAIN more : /\ more[k].kind = "settled"
                                /\ Settles(more[k]) = Covers(s.queue[k])
  <2>1. CASE s.closed
    <3>1. more = <<>> /\ s.queue = <<>>
      BY <2>1 DEF Rejections, RuntimeOK, ClosedQuiet
    <3> HIDE DEF more
    <3> QED BY <3>1
  <2>2. CASE ~s.closed
    <3> DEFINE f(i) == Settled(s.queue[i].first, s.queue[i].last, FALSE, s.queue[i].fill)
    <3>1. \A i \in DOMAIN s.queue : /\ f(i) \in Microtasks /\ f(i).kind = "settled"
                                    /\ Settles(f(i)) = Covers(s.queue[i])
      BY <1>2 DEF Settled, Microtasks, QueuedJobs, Settles, Covers
    <3>2. more = [i \in 1..Len(s.queue) |-> f(i)] /\ DOMAIN s.queue = 1..Len(s.queue)
          /\ Len(s.queue) \in Nat
      BY <2>2, <1>2 DEF Rejections
    <3> HIDE DEF f, more
    <3> QED BY <3>1, <3>2
  <2> QED BY <2>1, <2>2
<1> HIDE DEF u, more
<1>4. w \in Seq(Microtasks) /\ Joined(w, tasks, more)
  BY <1>2, <1>3, JoinIs
<1> HIDE DEF w
<1>5. Claims(u, w)
  <2> DEFINE place(k) == k - Len(tasks)
  <2>1. /\ \A k \in DOMAIN w :
              \/ k \in DOMAIN tasks /\ w[k] = tasks[k]
              \/ place(k) \in DOMAIN s.queue /\ Settles(w[k]) = Covers(s.queue[place(k)])
        /\ \A k \in DOMAIN tasks : k \in DOMAIN w /\ w[k] = tasks[k]
        /\ \A i \in DOMAIN s.queue : \E k \in DOMAIN w : Settles(w[k]) = Covers(s.queue[i])
        /\ \A k, l \in DOMAIN w : place(k) = place(l) => k = l
    BY <1>3, <1>4 DEF Joined
  <2> HIDE DEF place
  <2>2. \A c \in Chunks :
           (\E k \in DOMAIN w : c \in Settles(w[k])) <=>
              \/ \E i \in DOMAIN s.queue : c \in Covers(s.queue[i])
              \/ \E k \in DOMAIN tasks : c \in Settles(tasks[k])
    BY <2>1
  <2>3. \A c \in Chunks :
          c \in u.pending <=> \/ \E i \in DOMAIN u.queue : c \in Covers(u.queue[i])
                              \/ \E job \in u.running : c \in Covers(job)
                              \/ \E k \in DOMAIN w : c \in Settles(w[k])
    BY <2>2, <1>1, <1>2 DEF Claims
  <2>4. ASSUME NEW c \in Chunks, NEW k \in DOMAIN w, NEW l \in DOMAIN w,
               c \in Settles(w[k]), c \in Settles(w[l])
        PROVE  k = l
    BY <2>1, <2>4, <1>2 DEF Claims
  <2>5. \A c \in Chunks, job \in u.running, k \in DOMAIN w :
          ~(c \in Covers(job) /\ c \in Settles(w[k]))
    BY <2>1, <1>1, <1>2 DEF Claims
  <2>6. \A c \in Chunks, job, other \in u.running :
          c \in Covers(job) /\ c \in Covers(other) => job = other
    BY <1>1, <1>2 DEF Claims
  <2> QED BY <2>3, <2>4, <2>5, <2>6, <1>1 DEF Claims
<1>6. Counts(u, w)
  <2>1. /\ \A k \in DOMAIN w : w[k].kind = "jobEnds" => k \in DOMAIN tasks /\ w[k] = tasks[k]
        /\ \A k \in DOMAIN tasks : k \in DOMAIN w /\ w[k] = tasks[k]
    BY <1>3, <1>4 DEF Joined
  <2>2. Ending(w) = Ending(tasks) /\ EndingSpeculation(w) = EndingSpeculation(tasks)
    BY <2>1 DEF Ending, EndingSpeculation
  <2> QED BY <2>1, <2>2, <1>1, <1>2 DEF Counts
<1>7. Ordered(u.queue) /\ Blocked(u) /\ ClosedQuiet(u)
  BY <1>1 DEF Ordered, Blocked, ClosedQuiet
<1>8. RuntimeOK(u, w)
  BY <1>1, <1>4, <1>5, <1>6, <1>7 DEF RuntimeOK
<1> QED BY <1>3, <1>8 DEF u, w, more


-----------------------------------------------------------------------------
(* The steps.                                                              *)

\* The microtasks are from before, but for reads that end.
Follows(new, old) ==
    \A k \in DOMAIN new : \/ new[k].kind = "readEnds" /\ Settles(new[k]) = {}
                          \/ \E l \in DOMAIN old : new[k] = old[l]

LEMMA DiskStays ==
    ASSUME DiskOK, disk' = disk, Follows(microtasks', microtasks)
    PROVE  DiskOK' /\ (TasksOnDisk(microtasks) => TasksOnDisk(microtasks)')
<1>1. DiskOK'
  BY DEF DiskOK, Follows, OnDisk
<1>2. TasksOnDisk(microtasks) => TasksOnDisk(microtasks)'
  BY DEF TasksOnDisk, Follows, OnDisk
<1> QED BY <1>1, <1>2

LEMMA FillStays ==
    ASSUME DiskOK, FillOK, disk' = disk, Follows(microtasks', microtasks),
           mishaps' = 0 => mishaps = 0,
           rt'.diskWritable /\ ~rt'.closed => rt.diskWritable /\ ~rt.closed,
           (rt.diskWritable /\ ~rt.closed => TasksOnDisk(microtasks)) /\ Passed(rt) => Passed(rt')
    PROVE  FillOK'
<1>1. TasksOnDisk(microtasks) => TasksOnDisk(microtasks)'
  BY DiskStays
<1>2. Passed(rt') => Passed(rt)'
  BY DEF Passed, OnDisk
<1> QED BY <1>1, <1>2 DEF FillOK

\* The content of the slices of a transfer.
LEMMA SlicesAre ==
    ASSUME NEW first \in Nat, NEW last \in Nat
    PROVE  /\ DOMAIN Slices(first, last) = first..last
           /\ \A c \in first..last : Slices(first, last)[c] = c
<1> DEFINE bytes == [i \in 1..(last - first + 1) |-> first + i - 1]
<1>1. Slices(first, last) = [c \in first..last |-> bytes[c - first + 1]]
  BY DEF Slices
<1>2. ASSUME NEW c \in first..last PROVE bytes[c - first + 1] = c
  <2>1. c - first + 1 \in 1..(last - first + 1) /\ first + (c - first + 1) - 1 = c
    OBVIOUS
  <2> QED BY <2>1
<1> HIDE DEF bytes
<1> QED BY <1>1, <1>2

SameJobs(s, u) ==
    /\ u.queue = s.queue /\ u.running = s.running /\ u.active = s.active
    /\ u.speculativeActive = s.speculativeActive /\ u.closed = s.closed
    /\ u.demands = s.demands

\* The microtask at the head has settled its chunks and their outcome has
\* reached the reads.
LEMMA OutcomeArrives ==
    ASSUME StreamInv, microtasks # <<>>, Head(microtasks).kind # "jobEnds",
           NEW contents, NEW ok \in BOOLEAN, DOMAIN contents = Settles(Head(microtasks)),
           ok => \A c \in DOMAIN contents : contents[c] = c,
           Receive(contents, ok), posted' = posted,
           rt' \in Runtimes, SameJobs(rt, rt'), rt'.filling => rt'.diskWritable,
           rt'.pending = rt.pending \ Settles(Head(microtasks))
    PROVE  /\ RuntimeOK(rt', microtasks') /\ ReadsOK' /\ Awaited'
           /\ EndsOK(microtasks', reads') /\ Demands' = Demands
           /\ Follows(microtasks', microtasks)
<1>1. /\ ReadsOK /\ Awaited /\ RuntimeOK(rt, microtasks) /\ EndsOK(microtasks, reads)
      /\ microtasks \in Seq(Microtasks)
  BY DEF StreamInv, RuntimeOK
<1>2. DOMAIN contents \subseteq Chunks
  <2>1. Head(microtasks) \in Microtasks
    BY <1>1
  <2>2. \A t \in Microtasks : Settles(t) \subseteq Chunks
    BY CoversAre DEF Microtasks, Settles, Covers, Chunks
  <2> QED BY <2>1, <2>2
<1>3. \A c \in Chunks : NotSpeculated(rt, c) => NotSpeculated(rt', c)
  BY DEF NotSpeculated, SameJobs
<1>4. /\ ReadsOK' /\ Awaited' /\ Demands' = Demands /\ EndsOK(microtasks', reads')
      /\ \E who \in SUBSET Readers : microtasks' = Tail(microtasks) \o EndTasks(who, ok)
  <2>1. rt.pending \ DOMAIN contents \subseteq rt'.pending
    OBVIOUS
  <2> QED BY <1>1, <1>2, <1>3, <2>1, ReceiveRight
<1>5. PICK who \in SUBSET Readers : microtasks' = Tail(microtasks) \o EndTasks(who, ok)
  BY <1>4
<1> DEFINE tail == Tail(microtasks)
           ends == EndTasks(who, ok)
<1>6. OnlyEnds(ends, who)
  BY EndsAre
<1>7. RuntimeOK(rt', tail)
  BY <1>1, TailRight DEF SameJobs
<1>8. tail \in Seq(Microtasks) /\ \A k \in DOMAIN tail :
         k + 1 \in DOMAIN microtasks /\ tail[k] = microtasks[k + 1]
  BY <1>1
<1> HIDE DEF tail, ends
<1>9. RuntimeOK(rt', tail \o ends)
  <2>1. Joining(rt', ends)
    BY <1>6 DEF OnlyEnds, Joining
  <2>2. rt'.pending = rt'.pending \cup
                         {c \in Chunks : \E k \in DOMAIN ends : c \in Settles(ends[k])}
    BY <1>6 DEF OnlyEnds
  <2> QED BY <1>7, <2>1, <2>2, JoinRight
<1>10. microtasks' = tail \o ends
  BY <1>5 DEF tail, ends
<1>11. Follows(tail \o ends, microtasks)
  <2>1. Joined(tail \o ends, tail, ends)
    BY <1>6, <1>8, JoinIs DEF OnlyEnds
  <2> QED BY <2>1, <1>6, <1>8 DEF Joined, OnlyEnds, Follows
<1> QED BY <1>4, <1>9, <1>10, <1>11


\* The head of the microtask queue, by its kind.
LEMMA HeadIs ==
    ASSUME microtasks \in Seq(Microtasks), microtasks # <<>>
    PROVE  LET task == Head(microtasks)
           IN  /\ 1 \in DOMAIN microtasks /\ task = microtasks[1]
               /\ task.kind = "settled" => /\ task.first \in Chunks /\ task.last \in Chunks
                                           /\ {task.ok, task.fill} \subseteq BOOLEAN
                                           /\ Settles(task) = Covers(task)
               /\ task.kind = "jobEnds" => task.speculative \in BOOLEAN
               /\ task.kind = "diskRead" => /\ task.chunk \in Chunks
                                            /\ Settles(task) = {task.chunk}
               /\ task.kind = "readEnds" => /\ task.reader \in Readers /\ task.ok \in BOOLEAN
                                            /\ Settles(task) = {}
<1> DEFINE task == Head(microtasks)
<1>1. 1 \in DOMAIN microtasks /\ task = microtasks[1] /\ task \in Microtasks
  OBVIOUS
<1> HIDE DEF task
<1> QED BY <1>1 DEF Microtasks, Settles, task

LEMMA SettleStep == StreamInv /\ Settle => StreamInv'
<1> SUFFICES ASSUME StreamInv, Settle PROVE StreamInv'
  OBVIOUS
<1> DEFINE task == Head(microtasks)
           contents == Slices(task.first, task.last)
<1>1. /\ microtasks # <<>> /\ task.kind = "settled" /\ Receive(contents, task.ok)
      /\ rt' = [rt EXCEPT !.pending = @ \ Covers(task), !.fillBusy = @ /\ ~task.fill]
      /\ fillTimers' = IF task.fill THEN fillTimers + 1 ELSE fillTimers
      /\ UNCHANGED <<disk, firstFrame, posted, restarted, shuttingDown, mishaps>>
  BY DEF Settle, Runs, mainVars
<1>2. /\ microtasks \in Seq(Microtasks) /\ rt \in Runtimes /\ RuntimeOK(rt, microtasks)
  BY DEF StreamInv, RuntimeOK
<1>3. /\ task.first \in Chunks /\ task.last \in Chunks /\ task.ok \in BOOLEAN
      /\ task.fill \in BOOLEAN /\ Settles(task) = Covers(task)
  BY <1>1, <1>2, HeadIs
<1> HIDE DEF task
<1>4. /\ DOMAIN contents = Settles(task) /\ \A c \in DOMAIN contents : contents[c] = c
  BY <1>3, SlicesAre DEF Chunks, Covers
<1> HIDE DEF contents
<1>5. /\ rt' \in Runtimes /\ SameJobs(rt, rt') /\ rt'.filling = rt.filling
      /\ rt'.diskWritable = rt.diskWritable /\ rt'.fillCursor = rt.fillCursor
      /\ rt'.fillOver = rt.fillOver /\ rt'.pending = rt.pending \ Settles(task)
  <2> DEFINE a == [rt EXCEPT !.pending = @ \ Covers(task)]
             busy == rt.fillBusy /\ ~task.fill
  <2>1. /\ a \in Runtimes /\ SameJobs(rt, a) /\ a.filling = rt.filling
        /\ a.diskWritable = rt.diskWritable /\ a.fillCursor = rt.fillCursor
        /\ a.fillOver = rt.fillOver /\ a.pending = rt.pending \ Covers(task)
        /\ a.fillBusy = rt.fillBusy
    BY <1>2 DEF Runtimes, SameJobs
  <2>2. rt' = [a EXCEPT !.fillBusy = busy] /\ busy \in BOOLEAN
    BY <1>1, <2>1
  <2> HIDE DEF a, busy
  <2> QED BY <2>1, <2>2, <1>3 DEF Runtimes, SameJobs
<1>6. rt'.filling => rt'.diskWritable
  BY <1>2, <1>5 DEF RuntimeOK
<1>7. /\ RuntimeOK(rt', microtasks') /\ ReadsOK' /\ Awaited'
      /\ EndsOK(microtasks', reads') /\ Demands' = Demands
      /\ Follows(microtasks', microtasks)
  BY <1>1, <1>3, <1>4, <1>5, <1>6, OutcomeArrives DEF task
<1>8. rt'.demands = Cardinality(Demands')
  BY <1>5, <1>7 DEF StreamInv, SameJobs
<1>9. DiskOK' /\ FillOK'
  <2>1. Passed(rt) => Passed(rt')
    BY <1>5 DEF Passed
  <2> QED BY <1>1, <1>5, <1>7, <2>1, DiskStays, FillStays DEF StreamInv, SameJobs
<1>10. RestOK'
  BY <1>1, <1>3 DEF StreamInv, RestOK
<1> QED BY <1>7, <1>8, <1>9, <1>10 DEF StreamInv

LEMMA FinishDiskReadStep ==
    ASSUME StreamInv, NEW ok \in BOOLEAN, FinishDiskRead(ok) PROVE StreamInv'
<1> DEFINE c == Head(microtasks).chunk
           contents == [k \in {c} |-> disk[k]]
<1>1. /\ microtasks # <<>> /\ Head(microtasks).kind = "diskRead" /\ Receive(contents, ok)
      /\ rt' = [(IF ok THEN Remember(rt, c, disk[c]) ELSE rt) EXCEPT !.pending = @ \ {c}]
      /\ ok \/ mishaps < MaxMishaps
      /\ mishaps' = IF ok THEN mishaps ELSE mishaps + 1
      /\ UNCHANGED <<disk, fillTimers, firstFrame, posted, restarted, shuttingDown>>
  BY DEF FinishDiskRead, Runs, mainVars
<1>2. /\ microtasks \in Seq(Microtasks) /\ rt \in Runtimes /\ RuntimeOK(rt, microtasks)
  BY DEF StreamInv, RuntimeOK
<1>3. c \in Chunks /\ Settles(Head(microtasks)) = {c} /\ OnDisk(c)
  BY <1>1, <1>2, HeadIs DEF StreamInv, DiskOK
<1>4. disk[c] = c
  BY <1>3 DEF StreamInv, DiskOK, OnDisk
<1> HIDE DEF c
<1>5. /\ DOMAIN contents = Settles(Head(microtasks)) /\ \A k \in DOMAIN contents : contents[k] = k
  BY <1>3, <1>4
<1> HIDE DEF contents
<1>6. PICK new \in Seq(Entries) : Remember(rt, c, c) = [rt EXCEPT !.chunks = new]
  BY <1>2, <1>3, RememberIs
<1>7. /\ rt' \in Runtimes /\ SameJobs(rt, rt') /\ rt'.filling = rt.filling
      /\ rt'.diskWritable = rt.diskWritable /\ rt'.fillCursor = rt.fillCursor
      /\ rt'.fillOver = rt.fillOver /\ rt'.pending = rt.pending \ {c}
  <2> DEFINE a == IF ok THEN Remember(rt, c, disk[c]) ELSE rt
  <2>1. /\ a \in Runtimes /\ SameJobs(rt, a) /\ a.filling = rt.filling
        /\ a.diskWritable = rt.diskWritable /\ a.fillCursor = rt.fillCursor
        /\ a.fillOver = rt.fillOver /\ a.pending = rt.pending
    <3>1. a = rt \/ a = [rt EXCEPT !.chunks = new]
      BY <1>4, <1>6
    <3> HIDE DEF a
    <3>2. rt \in Runtimes
      BY <1>2
    <3> QED BY <3>1, <3>2 DEF Runtimes, SameJobs
  <2>2. rt' = [a EXCEPT !.pending = @ \ {c}]
    BY <1>1
  <2> HIDE DEF a
  <2> QED BY <2>1, <2>2 DEF Runtimes, SameJobs
<1>8. rt'.filling => rt'.diskWritable
  BY <1>2, <1>7 DEF RuntimeOK
<1>9. /\ RuntimeOK(rt', microtasks') /\ ReadsOK' /\ Awaited'
      /\ EndsOK(microtasks', reads') /\ Demands' = Demands
      /\ Follows(microtasks', microtasks)
  BY <1>1, <1>3, <1>5, <1>7, <1>8, OutcomeArrives
<1>10. rt'.demands = Cardinality(Demands')
  BY <1>7, <1>9 DEF StreamInv, SameJobs
<1>11. mishaps' \in 0..MaxMishaps /\ (mishaps' = 0 => mishaps = 0)
  BY <1>1, StreamConstants DEF StreamInv, RestOK
<1>12. DiskOK' /\ FillOK'
  <2>1. Passed(rt) => Passed(rt')
    BY <1>7 DEF Passed
  <2> QED BY <1>1, <1>7, <1>9, <1>11, <2>1, DiskStays, FillStays DEF StreamInv, SameJobs
<1>13. RestOK'
  BY <1>1, <1>11 DEF StreamInv, RestOK
<1> QED BY <1>9, <1>10, <1>12, <1>13 DEF StreamInv


\* A job is over: its slot is free.
Freed(s, speculative) ==
    [s EXCEPT !.active = @ - 1,
              !.speculativeActive = IF speculative THEN @ - 1 ELSE @]

LEMMA JobOver ==
    ASSUME NEW s, NEW tasks, RuntimeOK(s, tasks), tasks # <<>>,
           Head(tasks).kind = "jobEnds", Head(tasks).speculative \in BOOLEAN, NEW u,
           u = Freed(s, Head(tasks).speculative)
    PROVE  /\ RuntimePre(u, Tail(tasks)) /\ SameFill(s, u)
           /\ u.pending = s.pending /\ u.queue = s.queue
<1> DEFINE w == Tail(tasks)
           task == Head(tasks)
<1>1. /\ s \in Runtimes /\ tasks \in Seq(Microtasks) /\ Claims(s, tasks) /\ Counts(s, tasks)
  BY DEF RuntimeOK
<1>2. /\ w \in Seq(Microtasks) /\ 1 \in DOMAIN tasks /\ task = tasks[1]
      /\ \A k \in DOMAIN w : k + 1 \in DOMAIN tasks /\ k + 1 # 1 /\ w[k] = tasks[k + 1]
  BY <1>1
<1>3. Settles(task) = {}
  BY DEF Settles
<1>4. /\ \A k, l \in DOMAIN tasks : tasks[k].kind = "jobEnds" /\ tasks[l].kind = "jobEnds" => k = l
      /\ IsFiniteSet(s.running)
      /\ s.active = Cardinality(s.running) + Ending(tasks)
      /\ s.speculativeActive = Cardinality(Speculations(s.running)) + EndingSpeculation(tasks)
      /\ s.active <= MaxInflight /\ s.speculativeActive <= SpeculativeLimit
      /\ Cardinality(s.running) \in Nat /\ Cardinality(Speculations(s.running)) \in Nat
  BY <1>1, CountsAreNumbers DEF Counts
<1> HIDE DEF w, task
<1>5. Ending(tasks) = 1 /\ EndingSpeculation(tasks) = IF task.speculative THEN 1 ELSE 0
  <2>1. task.kind = "jobEnds" /\ task.speculative \in BOOLEAN
    BY DEF task
  <2>2. Ending(tasks) = 1
    BY <1>2, <2>1 DEF Ending
  <2>3. (\E k \in DOMAIN tasks : tasks[k].kind = "jobEnds" /\ tasks[k].speculative) <=>
           task.speculative
    BY <1>2, <1>4, <2>1
  <2> QED BY <2>2, <2>3 DEF EndingSpeculation
<1>6. \A k \in DOMAIN w : w[k].kind # "jobEnds"
  <2>1. task.kind = "jobEnds"
    BY DEF task
  <2> QED BY <1>2, <1>4, <2>1
<1>7. Ending(w) = 0 /\ EndingSpeculation(w) = 0
  BY <1>6 DEF Ending, EndingSpeculation
<1>8. /\ u \in Runtimes /\ SameFill(s, u) /\ u.pending = s.pending /\ u.queue = s.queue
      /\ u.running = s.running
      /\ u.active = Cardinality(s.running)
      /\ u.speculativeActive = Cardinality(Speculations(s.running))
      /\ u.active <= MaxInflight /\ u.speculativeActive <= SpeculativeLimit
  <2> DEFINE active == s.active - 1
             speculative == IF task.speculative THEN s.speculativeActive - 1
                            ELSE s.speculativeActive
             a == [s EXCEPT !.active = active]
  <2>1. /\ active = Cardinality(s.running) /\ active <= MaxInflight
        /\ speculative = Cardinality(Speculations(s.running))
        /\ speculative <= SpeculativeLimit
    BY <1>4, <1>5, SpeculativeLimitIs
  <2>2. u = [a EXCEPT !.speculativeActive = speculative]
    BY <1>1 DEF task, Freed, Runtimes
  <2> HIDE DEF active, speculative
  <2>3. /\ a \in Runtimes /\ SameFill(s, a) /\ a.pending = s.pending /\ a.queue = s.queue
        /\ a.running = s.running /\ a.active = active
    BY <1>1, <1>4, <2>1 DEF Runtimes, SameFill
  <2> HIDE DEF a
  <2>4. /\ u \in Runtimes /\ SameFill(a, u) /\ u.pending = a.pending /\ u.queue = a.queue
        /\ u.running = a.running /\ u.active = active /\ u.speculativeActive = speculative
    BY <1>4, <2>1, <2>2, <2>3 DEF Runtimes, SameFill
  <2> QED BY <2>1, <2>3, <2>4 DEF SameFill
<1>9. Claims(u, w)
  <2>1. u.pending = s.pending \ Settles(task)
    BY <1>3, <1>8
  <2> QED BY <1>1, <1>8, <2>1, TailClaims DEF w, task
<1>10. Counts(u, w)
  BY <1>4, <1>6, <1>7, <1>8 DEF Counts
<1>11. Ordered(u.queue) /\ LoneFill(u) /\ ClosedQuiet(u) /\ (u.filling => u.diskWritable)
  BY <1>8 DEF RuntimeOK, Blocked, LoneFill, ClosedQuiet, SameFill
<1> QED BY <1>2, <1>8, <1>9, <1>10, <1>11 DEF RuntimePre, w

\* pump, then pumpFill.
LEMMA PumpsRight ==
    ASSUME NEW s, NEW tasks, RuntimePre(s, tasks), NEW u, u = PumpFill(Pump(s))
    PROVE  /\ RuntimeOK(u, tasks) /\ FillFrame(s, u)
           /\ (s.diskWritable /\ ~s.closed => TasksOnDisk(tasks)) /\ Passed(s) => Passed(u)
<1> DEFINE p == Pump(s)
<1>1. RuntimeOK(p, tasks) /\ PumpFrame(s, p) /\ s \in Runtimes
  BY PumpRight DEF RuntimePre
<1>2. AskFrame(s, p) /\ p.pending = s.pending
  BY <1>1, PumpAsks
<1>3. u = PumpFill(p)
  OBVIOUS
<1> HIDE DEF p
<1>4. /\ RuntimeOK(u, tasks) /\ FillFrame(p, u)
      /\ (p.diskWritable /\ ~p.closed => TasksOnDisk(tasks)) /\ Passed(p) => Passed(u)
  BY <1>1, <1>3, PumpFillRight
<1>5. FillFrame(s, u)
  BY <1>2, <1>4 DEF FillFrame, AskFrame, SameFill
<1>6. Passed(s) => Passed(p)
  BY <1>2 DEF AskFrame, SameFill, Passed
<1>7. p.diskWritable = s.diskWritable /\ p.closed = s.closed
  BY <1>2 DEF AskFrame, SameFill
<1> QED BY <1>4, <1>5, <1>6, <1>7

LEMMA EndJobStep == StreamInv /\ EndJob => StreamInv'
<1> SUFFICES ASSUME StreamInv, EndJob PROVE StreamInv'
  OBVIOUS
<1> DEFINE task == Head(microtasks)
           s == Freed(rt, task.speculative)
<1>1. /\ microtasks # <<>> /\ task.kind = "jobEnds"
      /\ rt' = PumpFill(Pump(s)) /\ microtasks' = Tail(microtasks)
      /\ UNCHANGED <<disk, reads, fillTimers, firstFrame, posted, restarted, shuttingDown, mishaps>>
  BY DEF EndJob, Runs, mainVars, AfterJob, Freed
<1>2. /\ microtasks \in Seq(Microtasks) /\ rt \in Runtimes /\ RuntimeOK(rt, microtasks)
  BY DEF StreamInv, RuntimeOK
<1>3. task.speculative \in BOOLEAN
  BY <1>1, <1>2, HeadIs
<1>4. /\ RuntimePre(s, Tail(microtasks)) /\ SameFill(rt, s)
      /\ s.pending = rt.pending /\ s.queue = rt.queue
  BY <1>1, <1>2, <1>3, JobOver
<1> HIDE DEF s
<1>5. /\ RuntimeOK(rt', Tail(microtasks)) /\ FillFrame(s, rt')
      /\ (s.diskWritable /\ ~s.closed => TasksOnDisk(Tail(microtasks))) /\ Passed(s) => Passed(rt')
  BY <1>1, <1>4, PumpsRight
<1>6. FillFrame(rt, rt')
  BY <1>4, <1>5 DEF FillFrame, SameFill, NotSpeculated
<1>7. Follows(Tail(microtasks), microtasks)
  BY <1>1, <1>2 DEF Follows
<1>8. TasksOnDisk(microtasks) => TasksOnDisk(Tail(microtasks))
  BY <1>1, <1>2 DEF TasksOnDisk
<1>9. ReadsOK' /\ Awaited' /\ Demands' = Demands
  BY <1>1, <1>6, SameReads DEF StreamInv, FillFrame
<1>10. rt'.demands = Cardinality(Demands')
  BY <1>6, <1>9 DEF StreamInv, FillFrame
<1>11. EndsOK(microtasks', reads')
  BY <1>1, <1>2, EndsTail DEF StreamInv
<1>12. DiskOK' /\ FillOK'
  <2>1. (rt.diskWritable /\ ~rt.closed => TasksOnDisk(microtasks)) /\ Passed(rt) => Passed(rt')
    BY <1>4, <1>5, <1>8 DEF SameFill, Passed
  <2>2. Follows(microtasks', microtasks)
    BY <1>1, <1>7
  <2> QED BY <1>1, <1>6, <2>1, <2>2, DiskStays, FillStays DEF StreamInv, FillFrame
<1>13. RestOK'
  BY <1>1 DEF StreamInv, RestOK
<1> QED BY <1>1, <1>5, <1>9, <1>10, <1>11, <1>12, <1>13 DEF StreamInv


LEMMA OKIsPre ==
    ASSUME NEW s, NEW tasks, RuntimeOK(s, tasks) PROVE RuntimePre(s, tasks)
BY DEF RuntimeOK, RuntimePre, Blocked, LoneFill

\* A read is over.
LEMMA ReadOver ==
    ASSUME ReadsOK, Awaited, NEW r \in Readers, r \notin posted.reads, posted' = posted,
           reads' = [reads EXCEPT ![r] = NoRead],
           rt.pending \subseteq rt'.pending,
           \A c \in rt.pending : NotSpeculated(rt, c) => NotSpeculated(rt', c)
    PROVE  ReadsOK' /\ Awaited' /\ Demands' = Demands \ {r}
<1>1. /\ reads' = [q \in Readers |-> reads'[q]]
      /\ \A q \in Readers : reads'[q] = IF q = r THEN NoRead ELSE reads[q]
  BY DEF ReadsOK
<1>2. ReadsOK'
  BY <1>1 DEF ReadsOK, Idle, Unfinished
<1>3. \A q \in Readers, c \in Chunks : Awaits(q, c)' => Awaits(q, c) /\ reads'[q] = reads[q]
  BY <1>1 DEF Awaits, Unfinished, Idle
<1>4. Awaited'
  BY <1>3 DEF Awaited
<1>5. Demands' = Demands \ {r}
  BY <1>1 DEF Demands, Idle
<1> QED BY <1>2, <1>4, <1>5

LEMMA EndReadStep ==
    ASSUME StreamInv, NEW entryEnd \in 0..N, EndRead(entryEnd)
    PROVE  StreamInv'
<1> DEFINE r == Head(microtasks).reader
           ok == Head(microtasks).ok
           read == reads[r]
           end == read.first + Cardinality(DOMAIN read.parts)
           ahead == IF ok /\ read.sequential THEN Prefetch(rt, end, entryEnd) ELSE rt
           less == [ahead EXCEPT !.demands = IF read.demand THEN @ - 1 ELSE @]
           tail == Tail(microtasks)
<1>1. /\ microtasks # <<>> /\ Head(microtasks).kind = "readEnds"
      /\ rt' = PumpFill(Pump(less)) /\ reads' = [reads EXCEPT ![r] = NoRead]
      /\ microtasks' = tail /\ end <= entryEnd
      /\ UNCHANGED <<disk, fillTimers, firstFrame, posted, restarted, shuttingDown, mishaps>>
  BY DEF EndRead, Runs, mainVars
<1>2. /\ microtasks \in Seq(Microtasks) /\ rt \in Runtimes /\ RuntimeOK(rt, microtasks)
  BY DEF StreamInv, RuntimeOK
<1>3. /\ r \in Readers /\ ok \in BOOLEAN /\ Settles(Head(microtasks)) = {}
      /\ 1 \in DOMAIN microtasks /\ Head(microtasks) = microtasks[1]
  BY <1>1, <1>2, HeadIs
<1>4. read # NoRead /\ read.ended
  BY <1>1, <1>3 DEF StreamInv, EndsOK
<1>5. IsRead(read) /\ r \notin posted.reads
  BY <1>3, <1>4 DEF StreamInv, ReadsOK, Idle, Unfinished
<1>6. read.demand \in BOOLEAN /\ read.sequential \in BOOLEAN
  BY <1>5 DEF IsRead
<1> HIDE DEF r, ok, read
<1>7. end \in Nat /\ end <= N
  <2>1. PICK last \in Chunks : read.first <= last /\ DOMAIN read.parts = read.first..last
    BY <1>5, ReadIs
  <2>2. read.first \in Chunks /\ N \in Nat \ {0}
    BY <1>5, StreamConstants DEF IsRead
  <2>3. Cardinality(read.first..last) = last - read.first + 1
    BY <2>1, <2>2, FS_Interval DEF Chunks
  <2> QED BY <2>1, <2>2, <2>3 DEF Chunks
<1> HIDE DEF end
<1>8. RuntimeOK(ahead, microtasks) /\ AskFrame(rt, ahead)
  <2>1. CASE ok /\ read.sequential
    BY <2>1, <1>1, <1>2, <1>7, PrefetchRight
  <2>2. CASE ~(ok /\ read.sequential)
    BY <2>2, <1>2 DEF AskFrame, SameFill
  <2> QED BY <2>1, <2>2
<1> HIDE DEF ahead
<1>9. /\ IsFiniteSet(Demands) /\ Cardinality(Demands) \in Nat
      /\ (read.demand <=> r \in Demands)
  BY <1>3, <1>4, <1>5, DemandsAreFinite DEF Demands, Idle, read
<1>10. /\ IF read.demand THEN rt.demands - 1 = Cardinality(Demands \ {r})
                         ELSE rt.demands = Cardinality(Demands \ {r})
       /\ Cardinality(Demands \ {r}) \in Nat
  <2>1. rt.demands = Cardinality(Demands)
    BY DEF StreamInv
  <2>2. CASE read.demand
    <3>1. Cardinality(Demands \ {r}) = Cardinality(Demands) - 1
      BY <2>2, <1>9, FS_RemoveElement
    <3>2. IsFiniteSet(Demands \ {r})
      BY <1>9, FS_RemoveElement
    <3> QED BY <2>1, <2>2, <3>1, <3>2, FS_CardinalityType
  <2>3. CASE ~read.demand
    <3>1. Demands \ {r} = Demands
      BY <2>3, <1>9
    <3> QED BY <2>1, <2>3, <1>9, <3>1
  <2> QED BY <2>2, <2>3, <1>6
<1>11. /\ less \in Runtimes /\ less.demands = Cardinality(Demands \ {r})
       /\ less.queue = ahead.queue /\ less.running = ahead.running
       /\ less.active = ahead.active /\ less.speculativeActive = ahead.speculativeActive
       /\ less.closed = ahead.closed /\ less.filling = ahead.filling
       /\ less.diskWritable = ahead.diskWritable /\ less.pending = ahead.pending
       /\ less.fillCursor = ahead.fillCursor /\ less.fillOver = ahead.fillOver
  <2>1. ahead \in Runtimes /\ ahead.demands = rt.demands
    BY <1>8 DEF RuntimeOK, AskFrame, SameFill
  <2> DEFINE demands == IF read.demand THEN ahead.demands - 1 ELSE ahead.demands
  <2>2. demands \in Nat /\ demands = Cardinality(Demands \ {r})
    BY <1>10, <2>1
  <2>3. less = [ahead EXCEPT !.demands = demands]
    OBVIOUS
  <2> HIDE DEF demands, less
  <2> QED BY <2>1, <2>2, <2>3 DEF Runtimes
<1> HIDE DEF less
<1>12. RuntimePre(less, tail)
  <2>1. less.pending = ahead.pending \ Settles(Head(microtasks))
    BY <1>3, <1>11
  <2>2. less.filling => less.diskWritable
    BY <1>8, <1>11 DEF RuntimeOK
  <2>3. RuntimeOK(less, tail)
    BY <1>1, <1>8, <1>11, <2>1, <2>2, TailRight
  <2> QED BY <2>3, OKIsPre
<1>13. /\ RuntimeOK(rt', tail) /\ FillFrame(less, rt')
       /\ (less.diskWritable /\ ~less.closed => TasksOnDisk(tail)) /\ Passed(less) => Passed(rt')
  BY <1>1, <1>12, PumpsRight
<1>14. /\ rt.pending \subseteq rt'.pending
       /\ \A c \in rt.pending : NotSpeculated(rt, c) => NotSpeculated(rt', c)
       /\ rt'.demands = Cardinality(Demands \ {r})
       /\ rt'.closed = rt.closed /\ rt'.diskWritable = rt.diskWritable
  BY <1>8, <1>11, <1>13 DEF FillFrame, AskFrame, SameFill, NotSpeculated
<1>15. ReadsOK' /\ Awaited' /\ Demands' = Demands \ {r}
  BY <1>1, <1>3, <1>5, <1>14, ReadOver DEF StreamInv
<1>16. EndsOK(microtasks', reads')
  <2>1. /\ EndsOK(tail, reads) /\ tail \in Seq(Microtasks)
        /\ \A k \in DOMAIN tail : tail[k].kind = "readEnds" => tail[k].reader # r
    BY <1>1, <1>2, EndsTail DEF StreamInv, r
  <2>2. \A k \in DOMAIN tail : tail[k].kind = "readEnds" => tail[k].reader \in Readers
    BY <2>1 DEF Microtasks
  <2>3. \A q \in Readers : q # r => reads'[q] = reads[q]
    BY <1>1, <1>3 DEF StreamInv, ReadsOK
  <2> HIDE DEF tail
  <2>4. EndsOK(tail, reads')
    BY <2>1, <2>2, <2>3 DEF EndsOK
  <2> QED BY <2>4, <1>1
<1>17. DiskOK' /\ FillOK'
  <2>1. Follows(tail, microtasks)
    BY <1>1, <1>2 DEF Follows
  <2>2. TasksOnDisk(microtasks) => TasksOnDisk(tail)
    BY <1>1, <1>2 DEF TasksOnDisk
  <2>3. (rt.diskWritable /\ ~rt.closed => TasksOnDisk(microtasks)) /\ Passed(rt) => Passed(rt')
    BY <1>8, <1>11, <1>13, <2>2 DEF AskFrame, SameFill, Passed
  <2>4. Follows(microtasks', microtasks)
    BY <1>1, <2>1
  <2> QED BY <1>1, <1>14, <2>3, <2>4, DiskStays, FillStays DEF StreamInv
<1>18. RestOK'
  BY <1>1 DEF StreamInv, RestOK
<1> QED BY <1>1, <1>13, <1>14, <1>15, <1>16, <1>17, <1>18 DEF StreamInv


\* What a job that ends leaves of the runtime.
JobGone(s, u, job) ==
    /\ u \in Runtimes /\ u.pending = s.pending /\ u.queue = s.queue
    /\ u.running = s.running \ {job} /\ u.active = s.active
    /\ u.speculativeActive = s.speculativeActive /\ u.closed = s.closed
    /\ u.demands = s.demands /\ u.fillCursor = s.fillCursor /\ u.fillOver = s.fillOver
    /\ u.filling => u.diskWritable
    /\ u.diskWritable => s.diskWritable

\* The microtasks of a job that ends come from nothing else.
LEMMA OutcomeTasks ==
    ASSUME NEW job \in RunningJobs, NEW ok \in BOOLEAN, NEW tasks, Outcome(tasks, job, ok)
    PROVE  /\ \A k \in DOMAIN tasks : tasks[k].kind \in {"settled", "jobEnds"}
           /\ \A k \in DOMAIN tasks : Settles(tasks[k]) \subseteq Covers(job)
<1>1. PICK a \in {1, 2}, b \in {1, 2} :
         /\ a # b /\ DOMAIN tasks = {a, b}
         /\ tasks[a] = Settled(job.first, job.last, ok, job.fill)
         /\ tasks[b] = JobEnds(job.speculative)
  BY DEF Outcome
<1>2. /\ tasks[a].kind = "settled" /\ Settles(tasks[a]) = Covers(job)
      /\ tasks[b].kind = "jobEnds" /\ Settles(tasks[b]) = {}
  BY <1>1 DEF Settled, JobEnds, Settles, Covers
<1> QED BY <1>1, <1>2

LEMMA TransferSucceedsStep ==
    ASSUME StreamInv, NEW job \in rt.running, NEW refused, TransferSucceeds(job, refused)
    PROVE  StreamInv'
<1> DEFINE failed == refused <= job.last
           writes == ~rt.closed /\ rt.diskWritable
           written == IF writes THEN job.first..(refused - 1) ELSE {}
           stored == [rt EXCEPT !.running = @ \ {job},
                                !.diskWritable = @ /\ ~failed, !.filling = @ /\ ~failed]
           tasks == <<Settled(job.first, job.last, TRUE, job.fill), JobEnds(job.speculative)>>
<1>1. /\ microtasks = <<>> /\ microtasks' = tasks
      /\ refused \in job.first..(job.last + 1)
      /\ ~writes => refused = job.last + 1
      /\ disk' = [c \in Chunks |-> IF c \in written THEN Slices(job.first, job.last)[c]
                                   ELSE disk[c]]
      /\ mishaps' = IF failed THEN mishaps + 1 ELSE mishaps
      /\ mishaps' <= MaxMishaps
      /\ rt' = IF job.fill THEN stored
               ELSE Remember(stored, job.first, Slices(job.first, job.last)[job.first])
      /\ UNCHANGED <<reads, fillTimers, firstFrame, posted, restarted, shuttingDown>>
  BY DEF TransferSucceeds, Persist, mainVars
<1>2. /\ rt \in Runtimes /\ RuntimeOK(rt, <<>>) /\ job \in RunningJobs
  BY <1>1 DEF StreamInv, RuntimeOK, Runtimes
<1>3. /\ job.first \in Nat /\ job.last \in Nat /\ job.first \in Chunks /\ job.last \in Chunks
      /\ job.first <= job.last /\ job.fill \in BOOLEAN /\ job.speculative \in BOOLEAN
  BY <1>2 DEF RunningJobs, Chunks
<1>4. \A c \in job.first..job.last : Slices(job.first, job.last)[c] = c
  BY <1>3, SlicesAre
<1>5. PICK yes \in BOOLEAN : yes = TRUE
  OBVIOUS
<1>6. Outcome(tasks, job, yes)
  <2>1. tasks = <<Settled(job.first, job.last, yes, job.fill), JobEnds(job.speculative)>>
    BY <1>5
  <2> HIDE DEF tasks
  <2> QED BY <1>2, <2>1, OutcomeIs
<1> HIDE DEF tasks
<1>7. failed \in BOOLEAN
  OBVIOUS
<1> HIDE DEF failed
<1>8. JobGone(rt, stored, job) /\ (stored.diskWritable => ~failed)
  <2> DEFINE a == [rt EXCEPT !.running = @ \ {job}]
             writable == rt.diskWritable /\ ~failed
             filling == rt.filling /\ ~failed
             b == [a EXCEPT !.diskWritable = writable]
  <2>1. writable \in BOOLEAN /\ filling \in BOOLEAN /\ (filling => writable)
        /\ (writable => rt.diskWritable /\ ~failed)
    BY <1>2 DEF RuntimeOK
  <2>2. stored = [b EXCEPT !.filling = filling]
    BY <1>2 DEF Runtimes
  <2> HIDE DEF writable, filling
  <2>3. /\ a \in Runtimes /\ a.pending = rt.pending /\ a.queue = rt.queue
        /\ a.running = rt.running \ {job} /\ a.active = rt.active
        /\ a.speculativeActive = rt.speculativeActive /\ a.closed = rt.closed
        /\ a.demands = rt.demands /\ a.fillCursor = rt.fillCursor /\ a.fillOver = rt.fillOver
    BY <1>2 DEF Runtimes
  <2> HIDE DEF a
  <2>4. /\ b \in Runtimes /\ b.pending = rt.pending /\ b.queue = rt.queue
        /\ b.running = rt.running \ {job} /\ b.active = rt.active
        /\ b.speculativeActive = rt.speculativeActive /\ b.closed = rt.closed
        /\ b.demands = rt.demands /\ b.fillCursor = rt.fillCursor /\ b.fillOver = rt.fillOver
        /\ b.diskWritable = writable
    BY <2>1, <2>3 DEF Runtimes
  <2> HIDE DEF b, stored
  <2>5. /\ stored \in Runtimes /\ stored.pending = rt.pending /\ stored.queue = rt.queue
        /\ stored.running = rt.running \ {job} /\ stored.active = rt.active
        /\ stored.speculativeActive = rt.speculativeActive /\ stored.closed = rt.closed
        /\ stored.demands = rt.demands /\ stored.fillCursor = rt.fillCursor
        /\ stored.fillOver = rt.fillOver
        /\ stored.diskWritable = writable /\ stored.filling = filling
    BY <2>1, <2>2, <2>4 DEF Runtimes
  <2> QED BY <2>1, <2>5 DEF JobGone
<1> HIDE DEF stored
<1>9. JobGone(rt, rt', job) /\ (rt'.diskWritable => ~failed)
  <2>1. CASE job.fill
    BY <2>1, <1>1, <1>8
  <2>2. CASE ~job.fill
    <3>1. rt' = Remember(stored, job.first, job.first)
      BY <2>2, <1>1, <1>3, <1>4
    <3>2. stored \in Runtimes
      BY <1>8 DEF JobGone
    <3>3. PICK new \in Seq(Entries) :
             Remember(stored, job.first, job.first) = [stored EXCEPT !.chunks = new]
      BY <1>3, <3>2, RememberIs
    <3>4. rt' = [stored EXCEPT !.chunks = new]
      BY <3>1, <3>3
    <3>5. /\ rt' \in Runtimes /\ rt'.pending = stored.pending /\ rt'.queue = stored.queue
          /\ rt'.running = stored.running /\ rt'.active = stored.active
          /\ rt'.speculativeActive = stored.speculativeActive /\ rt'.closed = stored.closed
          /\ rt'.demands = stored.demands /\ rt'.fillCursor = stored.fillCursor
          /\ rt'.fillOver = stored.fillOver /\ rt'.diskWritable = stored.diskWritable
          /\ rt'.filling = stored.filling
      BY <3>2, <3>4 DEF Runtimes
    <3> QED BY <3>5, <1>8 DEF JobGone
  <2> QED BY <1>3, <2>1, <2>2
<1>10. RuntimeOK(rt', microtasks')
  <2>1. RuntimeOK(rt', tasks)
    BY <1>2, <1>6, <1>9, JobLeaves DEF JobGone
  <2> QED BY <1>1, <2>1
<1>11. /\ \A k \in DOMAIN tasks : tasks[k].kind \in {"settled", "jobEnds"}
       /\ \A k \in DOMAIN tasks : Settles(tasks[k]) \subseteq Covers(job)
  BY <1>2, <1>6, OutcomeTasks
<1>12. ReadsOK' /\ Awaited' /\ Demands' = Demands
  <2>1. rt.pending \subseteq rt'.pending
        /\ \A c \in rt.pending : NotSpeculated(rt, c) => NotSpeculated(rt', c)
    BY <1>9 DEF JobGone, NotSpeculated
  <2> QED BY <1>1, <2>1, SameReads DEF StreamInv
<1>13. rt'.demands = Cardinality(Demands')
  BY <1>9, <1>12 DEF StreamInv, JobGone
<1>14. EndsOK(microtasks', reads')
  BY <1>1, <1>11 DEF EndsOK
<1>15. \A c \in Chunks : /\ disk'[c] \in {disk[c], c}
                         /\ c \in written => disk'[c] = c
  <2>1. written \subseteq job.first..job.last
    BY <1>1, <1>3
  <2> HIDE DEF written
  <2> QED BY <1>1, <1>4, <2>1
<1>16. \A c \in Chunks : disk[c] \in {Absent, c} /\ c # Absent
  BY StreamConstants DEF StreamInv, DiskOK, Chunks
<1>17. DiskOK'
  <2>1. disk' = [c \in Chunks |-> disk'[c]]
    BY <1>1
  <2>2. \A k \in DOMAIN microtasks' : microtasks'[k].kind # "diskRead"
    BY <1>1, <1>11
  <2> QED BY <2>1, <2>2, <1>15, <1>16 DEF DiskOK
<1>18. mishaps \in Nat /\ mishaps' \in 0..MaxMishaps /\ (mishaps' = 0 => mishaps = 0 /\ ~failed)
  BY <1>1, <1>7, StreamConstants DEF StreamInv, RestOK
<1>19. FillOK'
  <2> SUFFICES ASSUME mishaps' = 0
               PROVE  /\ rt'.diskWritable /\ ~rt'.closed => TasksOnDisk(microtasks)'
                      /\ Passed(rt)'
    BY DEF FillOK
  <2>1. Passed(rt) /\ ~failed
    BY <1>18 DEF StreamInv, FillOK
  <2>2. Passed(rt)'
    BY <2>1, <1>9, <1>15, <1>16 DEF Passed, OnDisk, JobGone
  <2>3. ASSUME rt'.diskWritable, ~rt'.closed PROVE TasksOnDisk(microtasks)'
    <3>1. writes
      BY <2>3, <1>9 DEF JobGone
    <3>2. refused = job.last + 1
      BY <1>1, <1>3, <2>1 DEF failed
    <3>3. \A c \in Covers(job) : c \in Chunks /\ c \in written
      BY <1>3, <3>1, <3>2, CoversAre DEF Covers, Chunks
    <3> HIDE DEF written
    <3>4. \A c \in Covers(job) : disk'[c] # Absent
      BY <3>3, <1>15, <1>16
    <3> QED BY <3>4, <1>1, <1>11 DEF TasksOnDisk, OnDisk
  <2> QED BY <2>2, <2>3
<1>20. RestOK'
  BY <1>1, <1>18 DEF StreamInv, RestOK
<1> QED BY <1>10, <1>12, <1>13, <1>14, <1>17, <1>19, <1>20 DEF StreamInv


LEMMA TransferFailsStep ==
    ASSUME StreamInv, NEW job \in rt.running, NEW newVersion \in BOOLEAN,
           TransferFails(job, newVersion)
    PROVE  StreamInv'
<1> DEFINE failed == [rt EXCEPT !.running = @ \ {job}, !.filling = @ /\ ~job.fill]
           tasks == <<JobEnds(job.speculative),
                      Settled(job.first, job.last, FALSE, job.fill)>>
           more == IF newVersion THEN Rejections(rt) ELSE <<>>
<1>1. /\ microtasks = <<>> /\ microtasks' = tasks \o more
      /\ rt' = IF newVersion THEN Close(failed) ELSE failed
      /\ mishaps < MaxMishaps /\ mishaps' = mishaps + 1
      /\ UNCHANGED <<disk, reads, fillTimers, firstFrame, posted, restarted, shuttingDown>>
  BY DEF TransferFails, mainVars
<1>2. /\ rt \in Runtimes /\ RuntimeOK(rt, <<>>) /\ job \in RunningJobs
  BY <1>1 DEF StreamInv, RuntimeOK, Runtimes
<1>3. job.fill \in BOOLEAN
  BY <1>2 DEF RunningJobs
<1>4. PICK no \in BOOLEAN : no = FALSE
  OBVIOUS
<1>5. Outcome(tasks, job, no)
  <2>1. tasks = <<JobEnds(job.speculative), Settled(job.first, job.last, no, job.fill)>>
    BY <1>4
  <2> HIDE DEF tasks
  <2> QED BY <1>2, <2>1, OutcomeIs
<1> HIDE DEF tasks
<1>6. tasks \in Seq(Microtasks)
      /\ \A k \in DOMAIN tasks : tasks[k].kind \in {"settled", "jobEnds"}
  BY <1>2, <1>5, OutcomeTasks DEF Outcome
<1>7. JobGone(rt, failed, job)
  <2> DEFINE a == [rt EXCEPT !.running = @ \ {job}]
             filling == rt.filling /\ ~job.fill
  <2>1. filling \in BOOLEAN /\ (filling => rt.diskWritable)
    BY <1>2 DEF RuntimeOK
  <2>2. failed = [a EXCEPT !.filling = filling]
    BY <1>2 DEF Runtimes
  <2> HIDE DEF filling
  <2>3. /\ a \in Runtimes /\ a.pending = rt.pending /\ a.queue = rt.queue
        /\ a.running = rt.running \ {job} /\ a.active = rt.active
        /\ a.speculativeActive = rt.speculativeActive /\ a.closed = rt.closed
        /\ a.demands = rt.demands /\ a.fillCursor = rt.fillCursor /\ a.fillOver = rt.fillOver
        /\ a.diskWritable = rt.diskWritable
    BY <1>2 DEF Runtimes
  <2> HIDE DEF a, failed
  <2> QED BY <2>1, <2>2, <2>3 DEF Runtimes, JobGone
<1> HIDE DEF failed
<1>8. RuntimeOK(failed, tasks)
  BY <1>2, <1>5, <1>7, JobLeaves DEF JobGone
<1>9. CASE newVersion
  <2>1. rt' = Close(failed) /\ failed \in Runtimes
    BY <1>1, <1>7, <1>9 DEF JobGone
  <2>2. Rejections(rt) = Rejections(failed)
    BY <1>7 DEF JobGone, Rejections
  <2>3. microtasks' = tasks \o Rejections(failed)
    BY <1>1, <1>9, <2>2
  <2>4. RuntimeOK(Close(failed), tasks \o Rejections(failed))
        /\ Rejections(failed) \in Seq(Microtasks)
    BY <1>8, CloseRight
  <2>5. RuntimeOK(rt', microtasks')
    BY <2>1, <2>3, <2>4
  <2>6. rt'.pending = rt.pending /\ rt'.demands = rt.demands /\ rt'.queue = <<>>
    BY <1>7, <2>1, CloseIs DEF JobGone
  <2>7. ReadsOK' /\ Awaited' /\ Demands' = Demands
    <3>1. \A c \in rt.pending : NotSpeculated(rt, c) => NotSpeculated(rt', c)
      BY <2>6 DEF NotSpeculated
    <3> QED BY <1>1, <2>6, <3>1, SameReads DEF StreamInv
  <2>8. \A k \in DOMAIN microtasks' : microtasks'[k].kind \in {"settled", "jobEnds"}
    <3>1. \A k \in DOMAIN Rejections(failed) : Rejections(failed)[k].kind = "settled"
      BY DEF Rejections, Settled
    <3>2. Joined(tasks \o Rejections(failed), tasks, Rejections(failed))
      BY <1>6, <2>4, JoinIs
    <3> QED BY <1>6, <2>3, <3>1, <3>2 DEF Joined
  <2>9. EndsOK(microtasks', reads') /\ DiskOK' /\ FillOK' /\ RestOK'
    <3>1. mishaps' # 0 /\ mishaps' \in 0..MaxMishaps
      BY <1>1, StreamConstants DEF StreamInv, RestOK
    <3> QED BY <1>1, <2>8, <3>1 DEF StreamInv, EndsOK, DiskOK, FillOK, RestOK
  <2> QED BY <2>5, <2>6, <2>7, <2>9 DEF StreamInv
<1>10. CASE ~newVersion
  <2>1. rt' = failed
    BY <1>1, <1>10
  <2>2. microtasks' = tasks
    BY <1>1, <1>6, <1>10
  <2>3. rt'.pending = rt.pending /\ rt'.demands = rt.demands /\ rt'.queue = rt.queue
    BY <1>7, <2>1 DEF JobGone
  <2>4. ReadsOK' /\ Awaited' /\ Demands' = Demands
    <3>1. \A c \in rt.pending : NotSpeculated(rt, c) => NotSpeculated(rt', c)
      BY <2>3 DEF NotSpeculated
    <3> QED BY <1>1, <2>3, <3>1, SameReads DEF StreamInv
  <2>5. EndsOK(microtasks', reads') /\ DiskOK' /\ FillOK' /\ RestOK'
    <3>1. mishaps' # 0 /\ mishaps' \in 0..MaxMishaps
      BY <1>1, StreamConstants DEF StreamInv, RestOK
    <3> QED BY <1>1, <1>6, <2>2, <3>1 DEF StreamInv, EndsOK, DiskOK, FillOK, RestOK
  <2> QED BY <1>8, <2>1, <2>2, <2>3, <2>4, <2>5 DEF StreamInv
<1> QED BY <1>9, <1>10


\* pumpFill as a step: the fill is asked for, or a timer fires.
LEMMA FillGoesOn ==
    ASSUME StreamInv, NEW s \in Runtimes, SameJobs(rt, s), s.pending = rt.pending,
           s.diskWritable = rt.diskWritable, s.fillCursor = rt.fillCursor,
           s.fillOver = rt.fillOver, s.filling => s.diskWritable, rt' = PumpFill(s),
           UNCHANGED <<disk, microtasks, reads, mishaps>>,
           posted'.reads = posted.reads, posted'.fill \in BOOLEAN,
           posted' = [reads |-> posted'.reads, fill |-> posted'.fill], RestOK'
    PROVE  StreamInv'
<1>1. RuntimeOK(rt, microtasks) /\ microtasks \in Seq(Microtasks)
  BY DEF StreamInv, RuntimeOK
<1>2. RuntimeOK(s, microtasks)
  BY <1>1, SameTransfers DEF SameJobs
<1>3. /\ RuntimeOK(rt', microtasks) /\ FillFrame(s, rt')
      /\ (s.diskWritable /\ ~s.closed => TasksOnDisk(microtasks)) /\ Passed(s) => Passed(rt')
  BY <1>2, PumpFillRight
<1>4. /\ rt.pending \subseteq rt'.pending
      /\ \A c \in rt.pending : NotSpeculated(rt, c) => NotSpeculated(rt', c)
      /\ rt'.demands = rt.demands /\ rt'.closed = rt.closed
      /\ rt'.diskWritable = rt.diskWritable
  BY <1>3 DEF FillFrame, SameJobs, NotSpeculated
<1>5. ReadsOK'
  BY DEF StreamInv, ReadsOK, Idle, Unfinished
<1>6. Awaited'
  <2>1. \A r \in Readers, c \in Chunks : Awaits(r, c)' => Awaits(r, c)
    BY DEF Awaits, Unfinished, Idle
  <2> QED BY <1>4, <2>1 DEF StreamInv, Awaited
<1>7. Demands' = Demands
  BY DEF Demands, Idle
<1>8. rt'.demands = Cardinality(Demands')
  BY <1>4, <1>7 DEF StreamInv
<1>9. DiskOK' /\ FillOK'
  <2>1. (rt.diskWritable /\ ~rt.closed => TasksOnDisk(microtasks)) /\ Passed(rt) => Passed(rt')
    BY <1>3 DEF SameJobs, Passed
  <2>2. Follows(microtasks', microtasks)
    BY DEF Follows
  <2> QED BY <1>4, <2>1, <2>2, DiskStays, FillStays DEF StreamInv
<1> QED BY <1>3, <1>5, <1>6, <1>8, <1>9 DEF StreamInv

\* The runtime is told the order of the fill.
Ordering(order) == [rt EXCEPT !.fillOrder = order, !.filling = rt.diskWritable]

LEMMA OrderingIs ==
    ASSUME StreamInv, NEW order \in FillOrders, NEW s, s = Ordering(order)
    PROVE  /\ s \in Runtimes /\ SameJobs(rt, s) /\ s.pending = rt.pending
           /\ s.diskWritable = rt.diskWritable /\ s.fillCursor = rt.fillCursor
           /\ s.fillOver = rt.fillOver /\ (s.filling => s.diskWritable)
<1>1. rt \in Runtimes /\ order \in Seq(Chunks)
  BY StreamConstants DEF StreamInv, RuntimeOK, Chunks
<1> DEFINE a == [rt EXCEPT !.fillOrder = order]
<1>2. /\ a \in Runtimes /\ SameJobs(rt, a) /\ a.pending = rt.pending
      /\ a.diskWritable = rt.diskWritable /\ a.fillCursor = rt.fillCursor
      /\ a.fillOver = rt.fillOver
  BY <1>1 DEF Runtimes, SameJobs
<1>3. s = [a EXCEPT !.filling = rt.diskWritable] /\ rt.diskWritable \in BOOLEAN
  BY <1>1 DEF Ordering, Runtimes
<1> HIDE DEF a
<1> QED BY <1>2, <1>3 DEF Runtimes, SameJobs

LEMMA StartFillStep ==
    ASSUME StreamInv, NEW order \in FillOrders, StartFill(order) PROVE StreamInv'
<1>1. /\ rt' = PumpFill(Ordering(order)) /\ firstFrame' = <<order>>
      /\ UNCHANGED <<disk, microtasks, reads, fillTimers, posted, restarted, shuttingDown, mishaps>>
  BY DEF StartFill, Ordering
<1> DEFINE s == Ordering(order)
<1>2. /\ s \in Runtimes /\ SameJobs(rt, s) /\ s.pending = rt.pending
      /\ s.diskWritable = rt.diskWritable /\ s.fillCursor = rt.fillCursor
      /\ s.fillOver = rt.fillOver /\ (s.filling => s.diskWritable)
  BY OrderingIs
<1> HIDE DEF s
<1>3. RestOK'
  BY <1>1 DEF StreamInv, RestOK
<1>4. posted'.fill \in BOOLEAN /\ posted' = [reads |-> posted'.reads, fill |-> posted'.fill]
  BY <1>1 DEF StreamInv, ReadsOK
<1> QED BY <1>1, <1>2, <1>3, <1>4, FillGoesOn DEF s

LEMMA TakePostedFillStep == StreamInv /\ TakePostedFill => StreamInv'
<1> SUFFICES ASSUME StreamInv, TakePostedFill PROVE StreamInv'
  OBVIOUS
<1>1. /\ rt' = PumpFill(Ordering(firstFrame[1])) /\ posted.fill /\ posted.reads = {}
      /\ posted' = NothingPosted
      /\ UNCHANGED <<disk, microtasks, reads, fillTimers, firstFrame, restarted, shuttingDown, mishaps>>
  BY DEF TakePostedFill, Ordering
<1>2. PICK order \in FillOrders : firstFrame = <<order>>
  BY <1>1 DEF StreamInv, RestOK
<1> DEFINE s == Ordering(order)
<1>3. rt' = PumpFill(s)
  BY <1>1, <1>2
<1>4. /\ s \in Runtimes /\ SameJobs(rt, s) /\ s.pending = rt.pending
      /\ s.diskWritable = rt.diskWritable /\ s.fillCursor = rt.fillCursor
      /\ s.fillOver = rt.fillOver /\ (s.filling => s.diskWritable)
  BY OrderingIs
<1> HIDE DEF s
<1>5. RestOK'
  BY <1>1 DEF StreamInv, RestOK, NothingPosted
<1>6. /\ posted'.fill \in BOOLEAN /\ posted'.reads = posted.reads
      /\ posted' = [reads |-> posted'.reads, fill |-> posted'.fill]
  BY <1>1 DEF NothingPosted
<1> QED BY <1>1, <1>3, <1>4, <1>5, <1>6, FillGoesOn

LEMMA FillTimerFiresStep == StreamInv /\ FillTimerFires => StreamInv'
<1> SUFFICES ASSUME StreamInv, FillTimerFires PROVE StreamInv'
  OBVIOUS
<1>1. /\ fillTimers > 0 /\ fillTimers' = fillTimers - 1 /\ rt' = PumpFill(rt)
      /\ UNCHANGED <<disk, microtasks, reads, firstFrame, posted, restarted, shuttingDown, mishaps>>
  BY DEF FillTimerFires, mainVars
<1>2. RestOK'
  BY <1>1 DEF StreamInv, RestOK
<1>3. rt \in Runtimes /\ SameJobs(rt, rt) /\ (rt.filling => rt.diskWritable)
  BY DEF StreamInv, RuntimeOK, SameJobs
<1>4. posted'.fill \in BOOLEAN /\ posted' = [reads |-> posted'.reads, fill |-> posted'.fill]
  BY <1>1 DEF StreamInv, ReadsOK
<1> QED BY <1>1, <1>2, <1>3, <1>4, FillGoesOn

LEMMA CloseMessageStep == StreamInv /\ CloseMessage => StreamInv'
<1> SUFFICES ASSUME StreamInv, CloseMessage PROVE StreamInv'
  OBVIOUS
<1>1. /\ microtasks = <<>> /\ shuttingDown' = TRUE /\ rt' = Close(rt)
      /\ microtasks' = Rejections(rt)
      /\ UNCHANGED <<disk, reads, fillTimers, firstFrame, posted, restarted, mishaps>>
  BY DEF CloseMessage, Listens
<1>2. rt \in Runtimes /\ RuntimeOK(rt, <<>>)
  BY <1>1 DEF StreamInv, RuntimeOK
<1>3. Rejections(rt) \in Seq(Microtasks) /\ RuntimeOK(rt', <<>> \o Rejections(rt))
  BY <1>1, <1>2, CloseRight
<1>4. RuntimeOK(rt', microtasks')
  BY <1>1, <1>3
<1>5. /\ rt'.pending = rt.pending /\ rt'.demands = rt.demands /\ rt'.queue = <<>>
      /\ rt'.fillCursor = rt.fillCursor /\ rt'.fillOver = rt.fillOver /\ rt'.closed = TRUE
  BY <1>1, <1>2, CloseIs
<1>6. ReadsOK' /\ Awaited' /\ Demands' = Demands
  <2>1. \A c \in rt.pending : NotSpeculated(rt, c) => NotSpeculated(rt', c)
    BY <1>5 DEF NotSpeculated
  <2> QED BY <1>1, <1>5, <2>1, SameReads DEF StreamInv
<1>7. \A k \in DOMAIN microtasks' : microtasks'[k].kind = "settled"
  BY <1>1 DEF Rejections, Settled
<1>8. EndsOK(microtasks', reads')
  BY <1>7 DEF EndsOK
<1>9. DiskOK'
  BY <1>1, <1>7 DEF StreamInv, DiskOK
<1>10. FillOK'
  BY <1>1, <1>5 DEF StreamInv, FillOK, Passed, OnDisk
<1>11. RestOK'
  BY <1>1 DEF StreamInv, RestOK
<1> QED BY <1>4, <1>5, <1>6, <1>8, <1>9, <1>10, <1>11 DEF StreamInv


\* A new runtime.
LEMMA FreshRight ==
    ASSUME NEW writable \in BOOLEAN, NEW s, s = Fresh(writable)
    PROVE  /\ RuntimeOK(s, <<>>) /\ s.queue = <<>> /\ s.demands = 0
           /\ s.fillCursor = 0 /\ s.fillOver = FALSE
<1> DEFINE none == <<>>
<1>1. /\ s.chunks = none /\ s.pending = {} /\ s.queue = none /\ s.running = {} /\ s.active = 0
      /\ s.speculativeActive = 0 /\ s.demands = 0 /\ s.filling = FALSE /\ s.fillBusy = FALSE
      /\ s.fillCursor = 0 /\ s.fillOrder = none /\ s.fillOver = FALSE /\ s.closed = FALSE
      /\ s.diskWritable = writable
      /\ s = [chunks |-> s.chunks, pending |-> s.pending, queue |-> s.queue,
              running |-> s.running, active |-> s.active,
              speculativeActive |-> s.speculativeActive, demands |-> s.demands,
              filling |-> s.filling, fillBusy |-> s.fillBusy, fillCursor |-> s.fillCursor,
              fillOrder |-> s.fillOrder, fillOver |-> s.fillOver, closed |-> s.closed,
              diskWritable |-> s.diskWritable]
  BY DEF Fresh
<1>2. /\ none \in Seq(Entries) /\ none \in Seq(QueuedJobs) /\ none \in Seq(Chunks)
      /\ none \in Seq(Microtasks) /\ DOMAIN none = {} /\ 0 \in 0..N
  BY CoversAre
<1> HIDE DEF none
<1>3. s \in Runtimes
  <2>1. /\ s.chunks \in Seq(Entries) /\ s.pending \in SUBSET Chunks
        /\ s.queue \in Seq(QueuedJobs) /\ s.running \in SUBSET RunningJobs
        /\ s.active \in Nat /\ s.speculativeActive \in Nat /\ s.demands \in Nat
        /\ s.fillCursor \in 0..N /\ s.fillOrder \in Seq(Chunks)
    BY <1>1, <1>2
  <2>2. /\ s.filling \in BOOLEAN /\ s.fillBusy \in BOOLEAN /\ s.fillOver \in BOOLEAN
        /\ s.closed \in BOOLEAN /\ s.diskWritable \in BOOLEAN
    BY <1>1
  <2> QED BY <1>1, <2>1, <2>2 DEF Runtimes
<1>4. Claims(s, none)
  BY <1>1, <1>2 DEF Claims
<1>5. Counts(s, none)
  <2>1. Ending(none) = 0 /\ EndingSpeculation(none) = 0
    BY <1>2 DEF Ending, EndingSpeculation
  <2>2. Speculations(s.running) = {} /\ s.running = {}
    BY <1>1 DEF Speculations
  <2>3. /\ IsFiniteSet(s.running) /\ Cardinality(s.running) = 0
        /\ Cardinality(Speculations(s.running)) = 0
    BY <2>2, FS_EmptySet
  <2> QED BY <1>1, <1>2, <2>1, <2>3, SpeculativeLimitIs DEF Counts
<1>6. Ordered(s.queue) /\ Blocked(s) /\ ClosedQuiet(s) /\ ~s.filling
  BY <1>1, <1>2 DEF Ordered, Blocked, ClosedQuiet
<1>7. RuntimeOK(s, none)
  BY <1>2, <1>3, <1>4, <1>5, <1>6 DEF RuntimeOK
<1> QED BY <1>1, <1>7 DEF none

LEMMA InitStep == Init => StreamInv
<1> SUFFICES ASSUME Init PROVE StreamInv
  OBVIOUS
<1>1. PICK writable \in BOOLEAN : rt = Fresh(writable)
  BY DEF Init
<1>2. /\ RuntimeOK(rt, <<>>) /\ rt.demands = 0 /\ rt.fillCursor = 0 /\ rt.fillOver = FALSE
  BY <1>1, FreshRight
<1>3. \A r \in Readers : Idle(r)
  BY DEF Init, Idle
<1>4. ReadsOK /\ Awaited
  BY <1>3 DEF Init, ReadsOK, Awaited, Awaits, Unfinished, NothingPosted
<1>5. rt.demands = Cardinality(Demands)
  <2>1. Demands = {}
    BY <1>3 DEF Demands
  <2> QED BY <1>2, <2>1, FS_EmptySet
<1>6. DOMAIN microtasks = {}
  BY DEF Init
<1>7. EndsOK(microtasks, reads) /\ DiskOK /\ TasksOnDisk(microtasks)
  <2>1. EndsOK(microtasks, reads) /\ TasksOnDisk(microtasks)
    BY <1>6 DEF EndsOK, TasksOnDisk
  <2>2. disk = [c \in Chunks |-> disk[c]] /\ \A c \in Chunks : disk[c] \in {Absent, c}
    BY DEF Init
  <2> QED BY <1>6, <2>1, <2>2 DEF DiskOK
<1>8. FillOK
  BY <1>2, <1>7, CoversAre DEF FillOK, Passed, Chunks
<1>9. RestOK
  <2>1. /\ fillTimers = 0 /\ firstFrame = <<>> /\ ~posted.fill /\ restarted = FALSE
        /\ shuttingDown = FALSE /\ mishaps = 0
    BY DEF Init, NothingPosted
  <2>2. mishaps \in 0..MaxMishaps
    BY <2>1, StreamConstants
  <2>3. fillTimers \in Nat /\ {restarted, shuttingDown} \subseteq BOOLEAN
    BY <2>1
  <2> QED BY <2>1, <2>2, <2>3, Zenon DEF RestOK
<1>10. RuntimeOK(rt, microtasks)
  BY <1>2 DEF Init
<1> QED BY <1>4, <1>5, <1>7, <1>8, <1>9, <1>10 DEF StreamInv

LEMMA RestartFailsStep == StreamInv /\ RestartFails => StreamInv'
<1> SUFFICES ASSUME StreamInv, RestartFails PROVE StreamInv'
  OBVIOUS
<1>1. /\ mishaps < MaxMishaps /\ mishaps' = mishaps + 1
      /\ rt' = Close(Fresh(FALSE)) /\ reads' = [r \in Readers |-> NoRead]
      /\ microtasks' = <<>> /\ fillTimers' = 0 /\ posted' = NothingPosted
      /\ shuttingDown' = TRUE
      /\ UNCHANGED <<disk, firstFrame, restarted>>
  BY DEF RestartFails
<1>2. PICK no \in BOOLEAN : no = FALSE
  OBVIOUS
<1> DEFINE s == Fresh(no)
<1>3. RuntimeOK(s, <<>>) /\ s.queue = <<>> /\ s.demands = 0 /\ s \in Runtimes
  BY FreshRight DEF RuntimeOK
<1>4. rt' = Close(s)
  BY <1>1, <1>2
<1> HIDE DEF s
<1>5. RuntimeOK(rt', <<>> \o Rejections(s)) /\ Rejections(s) \in Seq(Microtasks)
  BY <1>3, <1>4, CloseRight
<1>6. DOMAIN Rejections(s) = {}
  BY <1>3 DEF Rejections
<1>7. Rejections(s) = <<>>
  BY <1>5, <1>6
<1>8. RuntimeOK(rt', microtasks')
  <2>1. <<>> \o <<>> = <<>>
    OBVIOUS
  <2>2. <<>> \o Rejections(s) = microtasks'
    BY <1>1, <1>7, <2>1
  <2> QED BY <1>5, <2>2
<1>9. rt'.demands = 0
  BY <1>3, <1>4, CloseIs
<1>10. \A r \in Readers : Idle(r)'
  BY <1>1 DEF Idle
<1>11. ReadsOK' /\ Awaited'
  BY <1>1, <1>10 DEF ReadsOK, Awaited, Awaits, Unfinished, NothingPosted
<1>12. rt'.demands = Cardinality(Demands')
  <2>1. Demands' = {}
    BY <1>10 DEF Demands
  <2> QED BY <1>9, <2>1, FS_EmptySet
<1>13. EndsOK(microtasks', reads') /\ DiskOK'
  BY <1>1 DEF StreamInv, EndsOK, DiskOK
<1>14. mishaps' # 0 /\ mishaps' \in 0..MaxMishaps
  BY <1>1, StreamConstants DEF StreamInv, RestOK
<1>15. FillOK' /\ RestOK'
  BY <1>1, <1>14 DEF StreamInv, FillOK, RestOK, NothingPosted
<1> QED BY <1>8, <1>11, <1>12, <1>13, <1>15 DEF StreamInv

LEMMA RestartStep ==
    ASSUME StreamInv, NEW dropped \in SUBSET Readers, NEW found, NEW writable \in BOOLEAN,
           Restart(dropped, found, writable)
    PROVE  StreamInv'
<1> DEFINE again == Unanswered(dropped)
           kept == IF writable THEN found ELSE {}
           renewed(r) == [reads[r] EXCEPT !.parts = [c \in DOMAIN @ |-> Absent], !.ended = FALSE]
<1>1. /\ mishaps < MaxMishaps /\ mishaps' = mishaps + 1 /\ rt' = Fresh(writable)
      /\ disk' = [c \in Chunks |-> CASE c \in kept /\ OnDisk(c) -> disk[c]
                                      [] c \in kept /\ ~OnDisk(c) -> Slices(c, c)[c]
                                      [] c \notin kept -> Absent]
      /\ microtasks' = <<>> /\ fillTimers' = 0
      /\ reads' = [r \in Readers |-> CASE r \in again -> renewed(r)
                                       [] r \in dropped -> NoRead
                                       [] OTHER -> reads[r]]
      /\ posted' = [reads |-> again, fill |-> firstFrame # <<>>]
      /\ restarted' = TRUE
      /\ UNCHANGED <<firstFrame, shuttingDown>>
  BY DEF Restart
<1>2. RuntimeOK(rt', <<>>) /\ rt'.demands = 0
  BY <1>1, FreshRight
<1>3. RuntimeOK(rt', microtasks')
  BY <1>1, <1>2
<1>4. again \subseteq Readers /\ \A r \in Readers : r \in again <=> ~Idle(r) /\ r \notin dropped
  BY DEF Unanswered
<1> HIDE DEF kept, again
<1>5. ASSUME NEW r \in again
      PROVE  IsRead(renewed(r)) /\ renewed(r).ended = FALSE
  <2>1. IsRead(reads[r])
    BY <1>4 DEF StreamInv, ReadsOK
  <2>2. PICK no \in BOOLEAN : no = FALSE
    OBVIOUS
  <2> DEFINE read == reads[r]
             parts == [c \in DOMAIN read.parts |-> Absent]
  <2>3. parts = [c \in DOMAIN read.parts |-> parts[c]]
        /\ \A c \in DOMAIN read.parts : parts[c] \in {Absent, c}
    OBVIOUS
  <2>4. renewed(r) = [read EXCEPT !.parts = parts, !.ended = no]
    BY <2>1, <2>2, ReadIs DEF WithParts
  <2> HIDE DEF read, parts
  <2>5. Updates(read, parts, no)
    BY <2>1, <2>3, WithPartsIs DEF read
  <2>6. IsRead(WithParts(read, parts, no)) /\ WithParts(read, parts, no).ended = no
        /\ WithParts(read, parts, no) = [read EXCEPT !.parts = parts, !.ended = no]
    BY <2>5 DEF Updates
  <2> HIDE DEF renewed
  <2> QED BY <2>2, <2>4, <2>6
<1> HIDE DEF renewed
<1>6. \A r \in Readers : /\ r \in again => reads'[r] = renewed(r)
                         /\ r \notin again => reads'[r] = NoRead
  BY <1>1, <1>4 DEF Idle
<1>7. \A r \in again : IsRead(reads'[r]) /\ Unfinished(r)'
  BY <1>4, <1>5, <1>6, ReadIs DEF Unfinished, Idle
<1>8. \A r \in Readers : r \notin again => Idle(r)'
  BY <1>6 DEF Idle
<1>9. posted'.reads = again /\ posted'.fill \in BOOLEAN
      /\ posted' = [reads |-> posted'.reads, fill |-> posted'.fill]
  BY <1>1
<1>10. ReadsOK'
  <2>1. reads' = [r \in Readers |-> reads'[r]]
    BY <1>1
  <2> QED BY <2>1, <1>4, <1>7, <1>8, <1>9 DEF ReadsOK
<1>11. Awaited'
  BY <1>8, <1>9 DEF Awaited, Awaits, Unfinished
<1>12. rt'.demands = Cardinality(Demands')
  <2>1. Demands' = {}
    BY <1>8, <1>9 DEF Demands
  <2> QED BY <1>2, <2>1, FS_EmptySet
<1>13. DiskOK'
  <2>1. \A c \in Chunks : Slices(c, c)[c] = c
    BY SlicesAre DEF Chunks
  <2>2. \A c \in Chunks : disk[c] \in {Absent, c}
    BY DEF StreamInv, DiskOK
  <2>3. \A c \in Chunks : disk'[c] \in {Absent, c}
    BY <1>1, <2>1, <2>2
  <2>4. disk' = [c \in Chunks |-> disk'[c]]
    BY <1>1
  <2> QED BY <1>1, <2>3, <2>4 DEF DiskOK
<1>14. EndsOK(microtasks', reads')
  BY <1>1 DEF EndsOK
<1>15. mishaps' # 0 /\ mishaps' \in 0..MaxMishaps
  BY <1>1, StreamConstants DEF StreamInv, RestOK
<1>16. FillOK' /\ RestOK'
  BY <1>1, <1>9, <1>15 DEF StreamInv, FillOK, RestOK
<1> QED BY <1>3, <1>10, <1>11, <1>12, <1>13, <1>14, <1>16 DEF StreamInv


\* A read that begins, as a new message or as one that was posted again.
Begins(r) ==
    /\ Idle(r) \/ r \in posted.reads
    /\ posted'.reads = posted.reads \ {r} /\ posted'.fill = posted.fill
    /\ posted' = [reads |-> posted'.reads, fill |-> posted'.fill]

LEMMA BeginReadRight ==
    ASSUME StreamInv, NEW r \in Readers, NEW first \in Chunks, NEW last \in Chunks,
           first <= last, NEW hint, hint.demand \in BOOLEAN, hint.sequential \in BOOLEAN,
           BeginRead(r, first, last, hint), Begins(r)
    PROVE  StreamInv'
<1> DEFINE counted == [rt EXCEPT !.demands = IF hint.demand THEN @ + 1 ELSE @]
           asked == Ask(counted, first, last, ~hint.demand)
           parts == [c \in first..last |-> IF Resident(rt, c) THEN ContentOf(rt, c) ELSE Absent]
           new == [first |-> first, demand |-> hint.demand, sequential |-> hint.sequential,
                   parts |-> parts, ended |-> Complete(parts)]
           more == IF Complete(parts) THEN <<ReadEnds(r, TRUE)>> ELSE <<>>
<1>1. /\ microtasks = <<>>
      /\ UNCHANGED <<disk, fillTimers, firstFrame, restarted, shuttingDown, mishaps>>
      /\ rt.closed => /\ reads' = [reads EXCEPT ![r] = NoRead]
                      /\ rt' = rt /\ microtasks' = microtasks
      /\ ~rt.closed => /\ rt' = asked.rt /\ reads' = [reads EXCEPT ![r] = new]
                       /\ microtasks' = asked.tasks \o more
  BY DEF BeginRead, Listens
<1>2. /\ rt \in Runtimes /\ RuntimeOK(rt, <<>>) /\ ReadsOK /\ Awaited /\ DiskOK /\ FillOK
      /\ rt.demands = Cardinality(Demands)
  BY <1>1 DEF StreamInv, RuntimeOK
<1>3. r \notin Demands
  BY DEF Begins, Demands
<1>4. RestOK'
  BY <1>1 DEF StreamInv, RestOK, Begins
<1>5. CASE rt.closed
  <2>1. /\ reads' = [q \in Readers |-> reads'[q]] /\ reads'[r] = NoRead
        /\ \A q \in Readers : q # r => reads'[q] = reads[q]
    BY <1>1, <1>2, <1>5 DEF ReadsOK
  <2>2. ReadsOK'
    <3>1. \A q \in Readers : Idle(q)' \/ IsRead(reads'[q])
      BY <1>2, <2>1 DEF ReadsOK, Idle
    <3>2. \A q \in posted'.reads : Unfinished(q)'
      BY <1>2, <2>1 DEF ReadsOK, Unfinished, Idle, Begins
    <3>3. posted'.reads \subseteq Readers /\ posted'.fill \in BOOLEAN
      BY <1>2 DEF ReadsOK, Begins
    <3> QED BY <2>1, <3>1, <3>2, <3>3 DEF ReadsOK, Begins
  <2>3. \A q \in Readers, c \in Chunks : Awaits(q, c)' => Awaits(q, c) /\ reads'[q] = reads[q]
    BY <2>1 DEF Awaits, Unfinished, Idle, Begins
  <2>4. Awaited' /\ rt' = rt
    BY <1>1, <1>2, <1>5, <2>3 DEF Awaited
  <2>5. Demands' = Demands
    BY <1>3, <2>1 DEF Demands, Idle, Begins
  <2>6. microtasks' = <<>>
    BY <1>1, <1>5
  <2>7. EndsOK(microtasks', reads') /\ DiskOK' /\ FillOK'
    BY <1>1, <1>2, <2>4, <2>6 DEF EndsOK, DiskOK, FillOK, TasksOnDisk, Passed, OnDisk
  <2>8. RuntimeOK(rt', microtasks') /\ rt'.demands = Cardinality(Demands')
    BY <1>2, <2>4, <2>5, <2>6
  <2> QED BY <1>4, <2>2, <2>4, <2>7, <2>8 DEF StreamInv
<1>6. CASE ~rt.closed
  <2>1. /\ counted \in Runtimes
        /\ counted.demands = IF hint.demand THEN rt.demands + 1 ELSE rt.demands
        /\ counted.chunks = rt.chunks /\ counted.pending = rt.pending
        /\ counted.queue = rt.queue /\ counted.running = rt.running
        /\ counted.active = rt.active /\ counted.speculativeActive = rt.speculativeActive
        /\ counted.closed = rt.closed /\ counted.filling = rt.filling
        /\ counted.diskWritable = rt.diskWritable
        /\ counted.fillCursor = rt.fillCursor /\ counted.fillOver = rt.fillOver
    <3> DEFINE demands == IF hint.demand THEN rt.demands + 1 ELSE rt.demands
    <3>1. counted = [rt EXCEPT !.demands = demands] /\ demands \in Nat
      BY <1>2 DEF Runtimes
    <3> HIDE DEF demands, counted
    <3>2. counted.demands = demands
      BY <1>2, <3>1 DEF Runtimes
    <3> QED BY <1>2, <3>1, <3>2 DEF Runtimes, SameFill, demands
  <2> HIDE DEF counted
  <2>2. RuntimeOK(counted, <<>>)
    <3>1. counted.filling => counted.diskWritable
      BY <1>2, <2>1 DEF RuntimeOK
    <3> QED BY <1>2, <2>1, <3>1, SameTransfers
  <2>3. PICK speculative \in BOOLEAN : speculative = ~hint.demand
    OBVIOUS
  <2>4. Asked(counted, asked, first, last - first + 1, speculative)
    <3>1. asked = Ask(counted, first, last, speculative)
      BY <2>3
    <3> HIDE DEF asked
    <3> QED BY <1>6, <2>1, <2>2, <3>1, AskRight
  <2> HIDE DEF asked
  <2>5. /\ RuntimeOK(asked.rt, asked.tasks) /\ AskFrame(counted, asked.rt)
        /\ \A c \in first..last : Resident(rt, c) \/ c \in asked.rt.pending
        /\ hint.demand => \A c \in first..last : Resident(rt, c) \/ NotSpeculated(asked.rt, c)
        /\ \A i \in DOMAIN asked.tasks : /\ asked.tasks[i].kind = "diskRead"
                                         /\ OnDisk(asked.tasks[i].chunk)
    <3>1. first + (last - first + 1) - 1 = last
      BY CoversAre DEF Chunks
    <3>2. \A c : Resident(counted, c) <=> Resident(rt, c)
      BY <2>1 DEF Resident
    <3> QED BY <2>3, <2>4, <3>1, <3>2 DEF Asked
  <2>6. /\ \A c \in first..last : c \in Chunks /\ parts[c] \in {Absent, c}
        /\ \A c \in first..last : parts[c] = Absent => ~Resident(rt, c)
        /\ DOMAIN parts = first..last /\ parts = [c \in first..last |-> parts[c]]
    <3>1. \A c \in first..last : c \in Chunks /\ c # Absent
      BY StreamConstants DEF Chunks
    <3>2. \A c \in first..last : Resident(rt, c) => ContentOf(rt, c) = c
      BY <1>2, <3>1, ContentIs
    <3> QED BY <3>1, <3>2
  <2>7. PICK complete \in BOOLEAN : complete = Complete(parts)
    BY DEF Complete
  <2> HIDE DEF parts
  <2>8. /\ new.first = first /\ new.demand = hint.demand /\ new.sequential = hint.sequential
        /\ new.parts = parts /\ new.ended = complete
        /\ new = [first |-> new.first, demand |-> new.demand, sequential |-> new.sequential,
                  parts |-> new.parts, ended |-> new.ended]
    BY <2>7
  <2> HIDE DEF new
  <2>9. IsRead(new) /\ new # NoRead
    <3>1. \E l \in Chunks : new.first <= l /\ new.parts = [c \in new.first..l |-> new.parts[c]]
      BY <2>6, <2>8
    <3>2. IsRead(new)
      BY <2>6, <2>8, <3>1 DEF IsRead
    <3> QED BY <3>2, ReadIs
  <2>10. /\ reads' = [q \in Readers |-> reads'[q]] /\ reads'[r] = new
         /\ \A q \in Readers : q # r => reads'[q] = reads[q]
    BY <1>1, <1>2, <1>6 DEF ReadsOK
  <2>11. ReadsOK'
    <3>1. \A q \in Readers : Idle(q)' \/ IsRead(reads'[q])
      BY <1>2, <2>9, <2>10 DEF ReadsOK, Idle
    <3>2. \A q \in posted'.reads : Unfinished(q)'
      BY <1>2, <2>10 DEF ReadsOK, Unfinished, Idle, Begins
    <3>3. posted'.reads \subseteq Readers /\ posted'.fill \in BOOLEAN
      BY <1>2 DEF ReadsOK, Begins
    <3> QED BY <2>10, <3>1, <3>2, <3>3 DEF ReadsOK, Begins
  <2>12. rt' = asked.rt /\ rt'.demands = counted.demands /\ rt'.closed = rt.closed
         /\ rt'.fillCursor = rt.fillCursor /\ rt'.fillOver = rt.fillOver
    BY <1>1, <1>6, <2>1, <2>5 DEF AskFrame, SameFill
  <2>13. Awaited'
    <3> SUFFICES ASSUME NEW q \in Readers, NEW c \in Chunks, Awaits(q, c)'
                 PROVE  c \in rt'.pending /\ (reads'[q].demand => NotSpeculated(rt', c))
      BY DEF Awaited
    <3>1. CASE q = r
      <4>1. c \in DOMAIN parts /\ parts[c] = Absent /\ reads'[q].demand = hint.demand
        BY <3>1, <2>8, <2>10 DEF Awaits
      <4> QED BY <4>1, <2>5, <2>6, <2>12
    <3>2. CASE q # r
      <4>1. Awaits(q, c) /\ reads'[q] = reads[q]
        BY <3>2, <2>10 DEF Awaits, Unfinished, Idle, Begins
      <4>2. c \in rt.pending /\ (reads[q].demand => NotSpeculated(rt, c))
        BY <1>2, <4>1 DEF Awaited
      <4>3. NotSpeculated(rt, c) => NotSpeculated(counted, c)
        BY <2>1 DEF NotSpeculated
      <4> QED BY <4>1, <4>2, <4>3, <2>1, <2>5, <2>12 DEF AskFrame
    <3> QED BY <3>1, <3>2
  <2>14. rt'.demands = Cardinality(Demands')
    <3>1. hint.demand => Demands' = Demands \cup {r}
      BY <2>8, <2>9, <2>10 DEF Demands, Idle, Begins
    <3>2. ~hint.demand => Demands' = Demands
      BY <1>3, <2>8, <2>9, <2>10 DEF Demands, Idle, Begins
    <3>3. Cardinality(Demands \cup {r}) = Cardinality(Demands) + 1
      BY <1>3, DemandsAreFinite, FS_AddElement
    <3> QED BY <1>2, <2>1, <2>12, <3>1, <3>2, <3>3
  <2>15. /\ more \in Seq(Microtasks)
         /\ \A k \in DOMAIN more : /\ more[k].kind = "readEnds" /\ Settles(more[k]) = {}
                                   /\ more[k].reader = r /\ complete
         /\ \A k, l \in DOMAIN more : k = l
    <3> DEFINE end == ReadEnds(r, TRUE)
    <3>1. end \in Microtasks /\ end.kind = "readEnds" /\ end.reader = r /\ Settles(end) = {}
      BY DEF ReadEnds, Microtasks, Settles
    <3> HIDE DEF end
    <3>2. CASE complete
      <4>1. more = <<end>>
        BY <2>7, <3>2 DEF end
      <4> HIDE DEF more
      <4> QED BY <3>1, <3>2, <4>1
    <3>3. CASE ~complete
      <4>1. more = <<>>
        BY <2>7, <3>3
      <4> HIDE DEF more
      <4> QED BY <4>1
    <3> QED BY <3>2, <3>3
  <2> HIDE DEF more
  <2>16. asked.tasks \in Seq(Microtasks) /\ asked.rt \in Runtimes
    BY <2>5 DEF RuntimeOK
  <2>17. RuntimeOK(rt', microtasks')
    <3>1. Joining(asked.rt, more)
      BY <2>15 DEF Joining
    <3>2. asked.rt.pending = asked.rt.pending \cup
             {c \in Chunks : \E k \in DOMAIN more : c \in Settles(more[k])}
      BY <2>15
    <3>3. asked.rt.filling => asked.rt.diskWritable
      BY <2>5 DEF RuntimeOK
    <3>4. RuntimeOK(asked.rt, asked.tasks \o more)
      BY <2>5, <2>16, <3>1, <3>2, <3>3, JoinRight
    <3> QED BY <1>1, <1>6, <2>12, <3>4
  <2>18. /\ \A k \in DOMAIN microtasks' :
              \/ microtasks'[k].kind = "diskRead" /\ OnDisk(microtasks'[k].chunk)
              \/ /\ microtasks'[k].kind = "readEnds" /\ Settles(microtasks'[k]) = {}
                 /\ microtasks'[k].reader = r /\ complete
         /\ \A k, l \in DOMAIN microtasks' :
              microtasks'[k].kind = "readEnds" /\ microtasks'[l].kind = "readEnds" => k = l
    <3> DEFINE w == asked.tasks \o more
    <3>1. Joined(w, asked.tasks, more)
      BY <2>15, <2>16, JoinIs
    <3>2. microtasks' = w
      BY <1>1, <1>6
    <3> HIDE DEF w
    <3>3. \A k \in DOMAIN w :
             \/ w[k].kind = "diskRead" /\ OnDisk(w[k].chunk)
             \/ /\ w[k].kind = "readEnds" /\ Settles(w[k]) = {}
                /\ w[k].reader = r /\ complete
      BY <3>1, <2>5, <2>15 DEF Joined
    <3>4. ASSUME NEW k \in DOMAIN w, NEW l \in DOMAIN w, w[k].kind = "readEnds",
                 w[l].kind = "readEnds"
          PROVE  k = l
      <4> DEFINE a == k - Len(asked.tasks)
                 b == l - Len(asked.tasks)
      <4>1. a \in DOMAIN more /\ b \in DOMAIN more
        BY <3>1, <3>4, <2>5 DEF Joined
      <4>2. a = b => k = l
        BY <3>1 DEF Joined
      <4> HIDE DEF a, b
      <4> QED BY <4>1, <4>2, <2>15
    <3> QED BY <3>2, <3>3, <3>4
  <2>19. EndsOK(microtasks', reads')
    BY <2>8, <2>9, <2>10, <2>18 DEF EndsOK
  <2>20. DiskOK'
    BY <1>1, <1>2, <2>18 DEF DiskOK, OnDisk
  <2>21. FillOK'
    <3>1. TasksOnDisk(microtasks)'
      BY <1>1, <2>18 DEF TasksOnDisk, OnDisk, Settles
    <3>2. Passed(rt) => Passed(rt)'
      BY <1>1, <2>12 DEF Passed, OnDisk
    <3> QED BY <1>1, <1>2, <3>1, <3>2 DEF FillOK
  <2> QED BY <1>4, <2>11, <2>13, <2>14, <2>17, <2>19, <2>20, <2>21 DEF StreamInv
<1> QED BY <1>5, <1>6


LEMMA StartReadStep ==
    ASSUME StreamInv, NEW r \in Readers, NEW first \in Chunks, NEW last \in Chunks,
           first <= last, NEW hint \in Hints, StartRead(r, first, last, hint)
    PROVE  StreamInv'
<1>1. BeginRead(r, first, last, hint) /\ Idle(r) /\ posted' = posted
  BY DEF StartRead
<1>2. hint.demand \in BOOLEAN /\ hint.sequential \in BOOLEAN
  BY StreamConstants
<1>3. ReadsOK
  BY DEF StreamInv
<1>4. posted.reads \ {r} = posted.reads
  BY <1>1, <1>3 DEF ReadsOK, Unfinished
<1>5. Begins(r)
  BY <1>1, <1>3, <1>4 DEF Begins, ReadsOK
<1> QED BY <1>1, <1>2, <1>5, BeginReadRight

LEMMA TakePostedReadStep ==
    ASSUME StreamInv, NEW r \in Readers, TakePostedRead(r) PROVE StreamInv'
<1> DEFINE read == reads[r]
           hint == [demand |-> read.demand, sequential |-> read.sequential]
           last == Max(DOMAIN read.parts)
<1>1. /\ r \in posted.reads /\ posted' = [posted EXCEPT !.reads = @ \ {r}]
      /\ BeginRead(r, read.first, last, hint)
  BY DEF TakePostedRead
<1>2. ReadsOK /\ IsRead(read)
  BY <1>1 DEF StreamInv, ReadsOK, Unfinished, Idle
<1>3. read.first \in Chunks /\ hint.demand \in BOOLEAN /\ hint.sequential \in BOOLEAN
  BY <1>2 DEF IsRead
<1>4. last \in Chunks /\ read.first <= last
  <2>1. PICK l \in Chunks : read.first <= l /\ DOMAIN read.parts = read.first..l
    BY <1>2, ReadIs
  <2>2. l \in Nat /\ read.first \in Nat
    BY <1>3 DEF Chunks
  <2>3. read.first..l \in SUBSET (0..l) /\ read.first \in read.first..l
        /\ read.first..l \subseteq Chunks
    BY <1>3, <2>1, <2>2, CoversAre DEF Chunks
  <2>4. last \in read.first..l
    BY <2>1, <2>2, <2>3, MaxIs
  <2> QED BY <2>2, <2>3, <2>4
<1>5. Begins(r)
  BY <1>1, <1>2 DEF Begins, ReadsOK
<1> HIDE DEF read, hint, last
<1> QED BY <1>1, <1>3, <1>4, <1>5, BeginReadRight

\* Every step keeps the invariant.
LEMMA StreamNext == StreamInv /\ [Next]_vars => StreamInv'
<1> SUFFICES ASSUME StreamInv, [Next]_vars PROVE StreamInv'
  OBVIOUS
<1>1. ASSUME NEW r \in Readers, NEW first \in Chunks, NEW last \in Chunks, NEW hint \in Hints,
             first <= last, StartRead(r, first, last, hint)
      PROVE  StreamInv'
  BY <1>1, StartReadStep
<1>2. ASSUME NEW job \in rt.running, NEW refused, TransferSucceeds(job, refused)
      PROVE  StreamInv'
  BY <1>2, TransferSucceedsStep
<1>3. ASSUME NEW job \in rt.running, NEW newVersion \in BOOLEAN, TransferFails(job, newVersion)
      PROVE  StreamInv'
  BY <1>3, TransferFailsStep
<1>4. CASE Settle
  BY <1>4, SettleStep
<1>5. CASE EndJob
  BY <1>5, EndJobStep
<1>6. ASSUME NEW ok \in BOOLEAN, FinishDiskRead(ok) PROVE StreamInv'
  BY <1>6, FinishDiskReadStep
<1>7. ASSUME NEW entryEnd \in 0..N, EndRead(entryEnd) PROVE StreamInv'
  BY <1>7, EndReadStep
<1>8. ASSUME NEW order \in FillOrders, StartFill(order) PROVE StreamInv'
  BY <1>8, StartFillStep
<1>9. CASE FillTimerFires
  BY <1>9, FillTimerFiresStep
<1>10. CASE CloseMessage
  BY <1>10, CloseMessageStep
<1>11. ASSUME NEW dropped \in SUBSET Readers, NEW found, NEW writable \in BOOLEAN,
              Restart(dropped, found, writable)
       PROVE  StreamInv'
  BY <1>11, RestartStep
<1>12. CASE RestartFails
  BY <1>12, RestartFailsStep
<1>13. ASSUME NEW r \in Readers, TakePostedRead(r) PROVE StreamInv'
  BY <1>13, TakePostedReadStep
<1>14. CASE TakePostedFill
  BY <1>14, TakePostedFillStep
<1>15. CASE UNCHANGED vars
  <2>1. /\ rt' = rt /\ disk' = disk /\ microtasks' = microtasks /\ reads' = reads
        /\ fillTimers' = fillTimers /\ firstFrame' = firstFrame /\ posted' = posted
        /\ restarted' = restarted /\ shuttingDown' = shuttingDown /\ mishaps' = mishaps
    BY <1>15 DEF vars, mainVars
  <2>2. RuntimeOK(rt', microtasks') /\ Demands' = Demands
    BY <2>1 DEF StreamInv, Demands, Idle
  <2>3. ReadsOK' /\ Awaited'
    BY <2>1 DEF StreamInv, ReadsOK, Awaited, Awaits, Unfinished, Idle
  <2>4. EndsOK(microtasks', reads') /\ DiskOK' /\ FillOK' /\ RestOK'
    BY <2>1 DEF StreamInv, DiskOK, FillOK, RestOK, TasksOnDisk, Passed, OnDisk
  <2> QED BY <2>1, <2>2, <2>3, <2>4 DEF StreamInv
<1> QED
  BY <1>1, <1>2, <1>3, <1>4, <1>5, <1>6, <1>7, <1>8, <1>9, <1>10, <1>11, <1>12, <1>13,
     <1>14, <1>15 DEF Next

-----------------------------------------------------------------------------
(* The theorems.                                                           *)

\* The inductive invariant holds in every reachable state: whatever is pending
\* is claimed once, the counters count what is under way and the reads wait for
\* what will be settled (pump, getChunk, read, startFill, close, recover).
THEOREM StreamInvHolds == Spec => []StreamInv
BY InitStep, StreamNext, PTL DEF Spec


\* The types of the runtime, the disk and the main worker's variables; the fill
\* is never left waiting in the queue (StreamIoRuntime, pumpFill).
THEOREM StreamTypes == Spec => []TypeOK
<1>1. StreamInv => TypeOK
  <2> SUFFICES ASSUME StreamInv PROVE TypeOK
    OBVIOUS
  <2>1. rt \in Runtimes /\ Blocked(rt)
    BY DEF StreamInv, RuntimeOK
  <2>2. /\ rt.pending \subseteq Chunks /\ rt.fillOrder \in Seq(Chunks)
        /\ {rt.filling, rt.fillBusy, rt.fillOver, rt.closed, rt.diskWritable} \subseteq BOOLEAN
        /\ {rt.active, rt.speculativeActive, rt.demands, rt.fillCursor} \subseteq Nat
    BY <2>1 DEF Runtimes
  <2>3. \A i \in DOMAIN rt.queue : rt.queue[i].priority \in 0..1
    BY <2>1 DEF Blocked
  <2>4. DOMAIN disk = Chunks /\ DOMAIN reads = Readers /\ posted.reads \subseteq Readers
    BY DEF StreamInv, DiskOK, ReadsOK
  <2>5. /\ fillTimers \in Nat /\ {restarted, shuttingDown} \subseteq BOOLEAN
        /\ mishaps \in 0..MaxMishaps
    BY DEF StreamInv, RestOK
  <2>6. Len(firstFrame) <= 1
    <3>1. CASE firstFrame = <<>>
      BY <3>1
    <3>2. ASSUME NEW order, firstFrame = <<order>> PROVE Len(firstFrame) <= 1
      BY <3>2
    <3> QED BY <3>1, <3>2 DEF StreamInv, RestOK
  <2> QED BY <2>2, <2>3, <2>4, <2>5, <2>6 DEF TypeOK
<1> QED BY <1>1, StreamInvHolds, PTL

\* A set without two elements.
LEMMA AtMostOne ==
    ASSUME NEW S, \A x, y \in S : x = y
    PROVE  IsFiniteSet(S) /\ Cardinality(S) = IF S = {} THEN 0 ELSE 1
<1>1. CASE S = {}
  BY <1>1, FS_EmptySet
<1>2. CASE S # {}
  <2>1. PICK x \in S : S = {x}
    BY <1>2
  <2>2. IsFiniteSet({x}) /\ Cardinality({x}) = 1
    BY FS_Singleton
  <2> QED BY <2>1, <2>2, <1>2
<1> QED BY <1>1, <1>2

\* The counters tell what is under way, through failures, promotions, crashes
\* and the close (pump, read).
THEOREM StreamCounters == Spec => []CountersExact
<1>1. StreamInv => CountersExact
  <2> SUFFICES ASSUME StreamInv PROVE CountersExact
    OBVIOUS
  <2>1. Counts(rt, microtasks) /\ rt.demands = Cardinality(Demands)
    BY DEF StreamInv, RuntimeOK
  <2>2. \A i, j \in Tasks("jobEnds") : i = j
    BY <2>1 DEF Counts, Tasks
  <2>3. Cardinality(Tasks("jobEnds")) = Ending(microtasks)
    <3>1. Tasks("jobEnds") = {} <=> ~\E k \in DOMAIN microtasks : microtasks[k].kind = "jobEnds"
      BY DEF Tasks
    <3> QED BY <2>2, <3>1, AtMostOne DEF Ending
  <2>4. Cardinality({i \in Tasks("jobEnds") : microtasks[i].speculative}) =
           EndingSpeculation(microtasks)
    <3> DEFINE S == {i \in Tasks("jobEnds") : microtasks[i].speculative}
    <3>1. \A i, j \in S : i = j
      BY <2>2
    <3>2. S = {} <=> ~\E k \in DOMAIN microtasks :
                         microtasks[k].kind = "jobEnds" /\ microtasks[k].speculative
      BY DEF Tasks
    <3> HIDE DEF S
    <3>3. Cardinality(S) = EndingSpeculation(microtasks)
      BY <3>1, <3>2, AtMostOne DEF EndingSpeculation
    <3> QED BY <3>3 DEF S
  <2>5. /\ rt.active = Cardinality(rt.running) + Ending(microtasks)
        /\ rt.speculativeActive = Cardinality({job \in rt.running : job.speculative}) +
                                     EndingSpeculation(microtasks)
    BY <2>1 DEF Counts, Speculations
  <2> QED BY <2>1, <2>3, <2>4, <2>5 DEF CountersExact, Demands
<1> QED BY <1>1, StreamInvHolds, PTL

\* A chunk is fetched once at a time, and who wants it meanwhile finds it in
\* pending (getChunk, pumpFill).
THEOREM StreamOneFetch == Spec => []OneFetch
<1>1. StreamInv => OneFetch
  <2> SUFFICES ASSUME StreamInv PROVE OneFetch
    OBVIOUS
  <2>1. rt \in Runtimes /\ Claims(rt, microtasks)
    BY DEF StreamInv, RuntimeOK
  <2>2. ASSUME NEW c \in Chunks
        PROVE  Cardinality({i \in DOMAIN rt.queue : c \in Covers(rt.queue[i])}) +
               Cardinality({job \in rt.running : c \in Covers(job)}) <= 1
    <3> DEFINE Q == {i \in DOMAIN rt.queue : c \in Covers(rt.queue[i])}
               R == {job \in rt.running : c \in Covers(job)}
    <3>1. (\A i, j \in Q : i = j) /\ (\A job, other \in R : job = other)
      BY <2>1 DEF Claims
    <3>2. Q = {} \/ R = {}
      BY <2>1 DEF Claims
    <3> HIDE DEF Q, R
    <3>3. /\ Cardinality(Q) = IF Q = {} THEN 0 ELSE 1
          /\ Cardinality(R) = IF R = {} THEN 0 ELSE 1
      BY <3>1, AtMostOne
    <3>4. Cardinality(Q) + Cardinality(R) <= 1
      BY <3>2, <3>3
    <3> QED BY <3>4 DEF Q, R
  <2>3. \A job \in Jobs(rt) : Covers(job) \subseteq rt.pending
    <3>1. ASSUME NEW job \in Jobs(rt)
          PROVE  /\ Covers(job) \subseteq Chunks
                 /\ job \in rt.running \/ \E i \in DOMAIN rt.queue : job = rt.queue[i]
      BY <2>1, CoversAre DEF Jobs, ToSet, Runtimes
    <3> QED BY <2>1, <3>1 DEF Claims
  <2> QED BY <2>2, <2>3 DEF OneFetch
<1> QED BY <1>1, StreamInvHolds, PTL

\* Bytes are those of the archive wherever they are kept, and a read returns
\* its range or an error (read, remember, startFill, persist).
THEOREM StreamBytes == Spec => []BytesRight
<1>1. StreamInv => BytesRight
  <2> SUFFICES ASSUME StreamInv PROVE BytesRight
    OBVIOUS
  <2>1. rt \in Runtimes /\ ReadsOK /\ DiskOK
    BY DEF StreamInv, RuntimeOK
  <2>2. \A i \in DOMAIN rt.chunks : rt.chunks[i].content = rt.chunks[i].chunk
    BY <2>1 DEF Runtimes, Entries
  <2>3. ASSUME NEW r \in Readers, NEW c \in DOMAIN reads[r].parts
        PROVE  reads[r].parts[c] \in {Absent, c}
    <3>1. CASE Idle(r)
      <4>1. DOMAIN reads[r].parts = {}
        BY <3>1 DEF Idle, NoRead
      <4> QED BY <4>1
    <3>2. CASE IsRead(reads[r])
      BY <3>2 DEF IsRead
    <3> QED BY <2>1, <3>1, <3>2 DEF ReadsOK
  <2> QED BY <2>1, <2>2, <2>3 DEF BytesRight, DiskOK
<1> QED BY <1>1, StreamInvHolds, PTL

\* What is pending has somebody who will settle it, also after a close or a
\* crash, and a read waits only for what is pending (getChunk, read, close).
THEOREM StreamReadersServed == Spec => []ReadersServed
<1>1. StreamInv => ReadersServed
  <2> SUFFICES ASSUME StreamInv PROVE ReadersServed
    OBVIOUS
  <2>1. /\ rt \in Runtimes /\ Claims(rt, microtasks) /\ Awaited
        /\ microtasks \in Seq(Microtasks)
    BY DEF StreamInv, RuntimeOK
  <2>2. ASSUME NEW c \in rt.pending PROVE c \in UnderWay
    <3>1. c \in Chunks
      BY <2>1 DEF Runtimes
    <3>2. \/ \E i \in DOMAIN rt.queue : c \in Covers(rt.queue[i])
          \/ \E job \in rt.running : c \in Covers(job)
          \/ \E k \in DOMAIN microtasks : c \in Settles(microtasks[k])
      BY <2>1, <3>1 DEF Claims
    <3>3. CASE \/ \E i \in DOMAIN rt.queue : c \in Covers(rt.queue[i])
               \/ \E job \in rt.running : c \in Covers(job)
      <4>1. \E job \in Jobs(rt) : c \in Covers(job)
        BY <3>3 DEF Jobs, ToSet
      <4> QED BY <4>1 DEF UnderWay
    <3>4. CASE \E k \in DOMAIN microtasks : c \in Settles(microtasks[k])
      <4>1. PICK k \in DOMAIN microtasks : c \in Settles(microtasks[k])
        BY <3>4
      <4>2. \/ microtasks[k].kind = "settled" /\ c \in Covers(microtasks[k])
            \/ microtasks[k].kind = "diskRead" /\ c = microtasks[k].chunk
        BY <4>1 DEF Settles
      <4> QED BY <4>2 DEF UnderWay, Tasks
    <3> QED BY <3>2, <3>3, <3>4
  <2>3. \A r \in Readers, c \in Chunks : Awaits(r, c) => c \in rt.pending
    BY <2>1 DEF Awaited
  <2> QED BY <2>2, <2>3 DEF ReadersServed
<1> QED BY <1>1, StreamInvHolds, PTL

\* Between tasks a demand waits for a slot only, and queued speculation for a
\* slot of speculation (pump, getChunk, close).
THEOREM StreamNoIdleSlot == Spec => []NoIdleSlot
<1>1. StreamInv => NoIdleSlot
  <2> SUFFICES ASSUME StreamInv, NEW i \in DOMAIN rt.queue, rt.active # MaxInflight
               PROVE  /\ rt.speculativeActive = SpeculativeLimit
                      /\ rt.queue[i].priority > 0 /\ ~Demanded(rt.queue[i])
    BY DEF NoIdleSlot
  <2>1. rt \in Runtimes /\ Blocked(rt) /\ Awaited
    BY DEF StreamInv, RuntimeOK
  <2>2. rt.speculativeActive = SpeculativeLimit /\ rt.queue[i].priority > 0
    BY <2>1 DEF Blocked
  <2>3. Covers(rt.queue[i]) \subseteq Chunks
    BY <2>1, CoversAre DEF Runtimes
  <2>4. ~Demanded(rt.queue[i])
    BY <2>1, <2>2, <2>3 DEF Demanded, Awaited, NotSpeculated
  <2> QED BY <2>2, <2>4
<1> QED BY <1>1, StreamInvHolds, PTL

\* A fill that ran to its end without a failure has left no hole (pumpFill,
\* startFill).
THEOREM StreamFillComplete == Spec => []FillComplete
<1>1. StreamInv => FillComplete
  BY DEF StreamInv, FillOK, Passed, FillComplete
<1> QED BY <1>1, StreamInvHolds, PTL

===============================================================================
