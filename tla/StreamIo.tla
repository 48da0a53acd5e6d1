------------------------------- MODULE StreamIo -------------------------------
(***************************************************************************)
(* The runtime of the I/O worker (stream-io-runtime.ts): reads of a range  *)
(* of the archive are made of whole chunks, which are resident, on disk or *)
(* fetched.  Demands, read-ahead and the background fill share the slots   *)
(* for transfers.                                                          *)
(*                                                                         *)
(* The worker is one JavaScript thread.  A message, the end of a transfer  *)
(* and a timer are tasks; what continues after an await runs as jobs of    *)
(* the microtask queue, in order, before the next task.  Variable rt holds *)
(* the fields of the StreamIoRuntime object and each method is an operator *)
(* from its value to the next.  All chunks have one size; the content of   *)
(* chunk c of the archive is c itself.                                     *)
(***************************************************************************)
EXTENDS Naturals, FiniteSets, Sequences, SequencesExt, FiniteSetsExt

CONSTANTS
    N,              \* number of chunks of the archive
    Readers,        \* bound: reads that are under way at a time
    Hints,          \* what a read may be: [demand, sequential]
    MaxLength,      \* bound: chunks in a read
    MaxInflight, CacheChunks, PrefetchChunks,   \* the options, in chunks
    BatchChunks,    \* chunks in a transfer of the fill
    FillOrders,     \* orders the main worker may ask for
    MaxMishaps,     \* bound: transfers and writes that fail, workers that crash
    Absent          \* no content

ASSUME StreamConstants ==
    /\ {N, MaxLength, MaxInflight, CacheChunks, BatchChunks} \subseteq Nat \ {0}
    /\ {PrefetchChunks, MaxMishaps} \subseteq Nat
    /\ Hints \subseteq [demand : BOOLEAN, sequential : BOOLEAN]
    /\ FillOrders \subseteq Seq(0..(N - 1))
    /\ Absent \notin 0..(N - 1)
    /\ IsFiniteSet(Readers)

VARIABLES
    rt,             \* the runtime object
    disk,           \* chunk -> its content in the disk cache
    microtasks,     \* what is still to run before the next task
    reads,          \* reader -> the read it awaits
    fillTimers,     \* timers of the fill that are armed
    firstFrame,     \* <<>>, then the order of the fill that was asked for
    posted,         \* what was posted again to a new I/O worker
    restarted,      \* the worker was replaced
    shuttingDown,   \* the worker was told to close, or is given up
    mishaps         \* transfers and writes that failed, crashes

mainVars == <<firstFrame, posted, restarted, shuttingDown>>
vars == <<rt, disk, microtasks, reads, fillTimers, mainVars, mishaps>>

Chunks == 0..(N - 1)

NoRead == [first |-> 0, demand |-> FALSE, sequential |-> FALSE,
           parts |-> <<>>, ended |-> FALSE]

NothingPosted == [reads |-> {}, fill |-> FALSE]

\* A new runtime; writable FALSE: as without a disk cache.
Fresh(writable) ==
        [chunks |-> <<>>, pending |-> {}, queue |-> <<>>, running |-> {},
         active |-> 0, speculativeActive |-> 0, demands |-> 0,
         filling |-> FALSE, fillBusy |-> FALSE, fillCursor |-> 0,
         fillOrder |-> <<>>, fillOver |-> FALSE, closed |-> FALSE,
         diskWritable |-> writable]

Init ==
    /\ \E writable \in BOOLEAN : rt = Fresh(writable)
    /\ \E cached \in SUBSET Chunks :      \* by earlier launches
          disk = [c \in Chunks |-> IF rt.diskWritable /\ c \in cached THEN c ELSE Absent]
    /\ microtasks = <<>>
    /\ reads = [r \in Readers |-> NoRead]
    /\ fillTimers = 0
    /\ firstFrame = <<>>
    /\ posted = NothingPosted
    /\ restarted = FALSE
    /\ shuttingDown = FALSE
    /\ mishaps = 0

OnDisk(c) == disk[c] # Absent
Resident(s, c) == \E i \in DOMAIN s.chunks : s.chunks[i].chunk = c
ContentOf(s, c) == (CHOOSE entry \in ToSet(s.chunks) : entry.chunk = c).content
Covers(job) == job.first..job.last

-----------------------------------------------------------------------------
(* Transfers.                                                              *)

SpeculativeLimit == Max({1, MaxInflight \div 2})

\* The queue is sorted by priority; a job joins it behind those that are as
\* urgent (the stable sort of pump).
Enqueue(queue, job) ==
    LET ahead == Max({0} \cup {i \in DOMAIN queue : queue[i].priority <= job.priority})
    IN  InsertAt(queue, ahead + 1, job)

Speculative(queue, n) == Cardinality({i \in 1..n : queue[i].priority > 0})

\* May the job at place i of the queue start, after those before it?
MayStart(s, queue, i) ==
    /\ s.active + i - 1 < MaxInflight
    /\ queue[i].priority > 0 => s.speculativeActive + Speculative(queue, i - 1) < SpeculativeLimit
    /\ queue[i].priority = 2 => s.demands = 0 /\ s.active + i - 1 = 0

\* pump: starts jobs from the head of the queue until one may not.
Pump(s) ==
    LET queue == s.queue
        n == Max({k \in 0..Len(queue) : \A i \in 1..k : MayStart(s, queue, i)})
    IN  IF s.closed THEN s
        ELSE [s EXCEPT
                !.queue = SubSeq(queue, n + 1, Len(queue)),
                !.running = @ \cup {[first |-> queue[i].first, last |-> queue[i].last,
                                     fill |-> queue[i].fill,
                                     speculative |-> queue[i].priority > 0] : i \in 1..n},
                !.active = @ + n,
                !.speculativeActive = @ + Speculative(queue, n)]

\* schedule, and the entries of the job's chunks in pending.
Schedule(s, first, last, fill, priority) ==
    LET job == [first |-> first, last |-> last, fill |-> fill, priority |-> priority]
    IN  Pump([s EXCEPT !.queue = Enqueue(@, job), !.pending = @ \cup (first..last)])

\* A demand joins what is under way for chunk c: if the job is still queued
\* it becomes a demand itself.
PromoteNothing(s, c) == s   \* mutant

Promote(s, c) ==
    LET queued == {i \in DOMAIN s.queue : c \in Covers(s.queue[i])}
        raised(i) == Enqueue(RemoveAt(s.queue, i), [s.queue[i] EXCEPT !.priority = 0])
    IN  IF \E i \in queued : s.queue[i].priority > 0
        THEN Pump([s EXCEPT !.queue = raised(CHOOSE i \in queued : s.queue[i].priority > 0)])
        ELSE Pump(s)

\* The resident chunks, from the one longest unused, without c.
Others(chunks, c) ==
    IF \E i \in DOMAIN chunks : chunks[i].chunk = c
    THEN RemoveAt(chunks, CHOOSE i \in DOMAIN chunks : chunks[i].chunk = c) ELSE chunks

\* getChunk, except for the read of a chunk on disk, which is a microtask.
Touch(s, c) ==
    [s EXCEPT !.chunks = Append(Others(@, c), [chunk |-> c, content |-> ContentOf(s, c)])]

ReadsDisk(s, c) == ~Resident(s, c) /\ c \notin s.pending /\ OnDisk(c)

GetChunk(s, c, speculative) ==
    CASE Resident(s, c) -> Touch(s, c)
      [] ~Resident(s, c) /\ c \in s.pending -> IF speculative THEN s ELSE Promote(s, c)
      [] ReadsDisk(s, c) -> [s EXCEPT !.pending = @ \cup {c}]
      [] OTHER -> Schedule(s, c, c, FALSE, IF speculative THEN 1 ELSE 0)

\* remember: the chunk becomes the newest resident one, the oldest are evicted.
Remember(s, c, content) ==
    LET kept == Append(Others(s.chunks, c), [chunk |-> c, content |-> content])
    IN  IF s.closed THEN s
        ELSE [s EXCEPT !.chunks =
                SubSeq(kept, 1 + Max({0, Len(kept) - CacheChunks}), Len(kept))]

\* prefetch: read-ahead of the chunks from up to entryEnd, the end of the
\* archive entry that is read, as long as queued and running speculation
\* leave room.
PrefetchOne(s, c) ==
    LET queued == Speculative(s.queue, Len(s.queue))
    IN  IF \/ s.closed \/ Resident(s, c) \/ OnDisk(c) \/ c \in s.pending
           \/ s.speculativeActive + queued >= SpeculativeLimit
        THEN s ELSE GetChunk(s, c, TRUE)

Prefetch(s, from, entryEnd) ==
    LET n == Min({PrefetchChunks, entryEnd - from})
        after[i \in 0..n] == IF i = 0 THEN s ELSE PrefetchOne(after[i - 1], from + i - 1)
    IN  after[n]

-----------------------------------------------------------------------------
(* The fill.                                                               *)

NotOnDisk(s, c) == ~OnDisk(c)    \* mutant

Wanted(s, c) == ~OnDisk(c) /\ c \notin s.pending

\* The fill order without the chunks at its head that are not wanted.
RestOfOrder(s) ==
    LET n == Max({k \in 0..Len(s.fillOrder) : \A i \in 1..k : ~Wanted(s, s.fillOrder[i])})
    IN  SubSeq(s.fillOrder, n + 1, Len(s.fillOrder))

NextInOrder(s) == Min({c \in s.fillCursor..N : c = N \/ Wanted(s, c)})

\* pumpFill: when nothing else is under way, the next batch of the fill.
PumpFillFrom(s, first) ==
    LET last == Max({l \in first..Min({N, first + BatchChunks} ) - 1 :
                        \A c \in (first + 1)..l : Wanted(s, c)})
    IN  Schedule([s EXCEPT !.fillBusy = TRUE], first, last, TRUE, 2)

PumpFillFollowingOrder(s) ==   \* mutant
    LET rest == RestOfOrder(s)
        cursor == IF rest = <<>> THEN NextInOrder(s) ELSE Head(rest) + 1
        begun == [s EXCEPT !.fillOrder = IF rest = <<>> THEN rest ELSE Tail(rest),
                           !.fillCursor = cursor]
    IN  CASE ~s.filling \/ s.fillBusy \/ s.closed \/ s.demands > 0 \/ s.active > 0
                \/ s.queue # <<>> -> s
          [] OTHER ->
               IF rest # <<>> THEN PumpFillFrom(begun, Head(rest))
               ELSE IF cursor < N THEN PumpFillFrom(begun, cursor)
               ELSE [begun EXCEPT !.filling = FALSE, !.fillOver = TRUE]

PumpFill(s) ==
    LET rest == RestOfOrder(s)
        cursor == IF rest = <<>> THEN NextInOrder(s) ELSE s.fillCursor
        begun == [s EXCEPT !.fillOrder = IF rest = <<>> THEN rest ELSE Tail(rest),
                           !.fillCursor = cursor]
    IN  CASE ~s.filling \/ s.fillBusy \/ s.closed \/ s.demands > 0 \/ s.active > 0
                \/ s.queue # <<>> -> s
          [] OTHER ->
               IF rest # <<>> THEN PumpFillFrom(begun, Head(rest))
               ELSE IF cursor < N THEN PumpFillFrom(begun, cursor)
               ELSE [begun EXCEPT !.filling = FALSE, !.fillOver = TRUE]

-----------------------------------------------------------------------------
(* Microtasks.                                                             *)

Settled(first, last, ok, fill) ==
    [kind |-> "settled", first |-> first, last |-> last, ok |-> ok, fill |-> fill]
JobEnds(speculative) == [kind |-> "jobEnds", speculative |-> speculative]
DiskRead(c) == [kind |-> "diskRead", chunk |-> c]
ReadEnds(r, ok) == [kind |-> "readEnds", reader |-> r, ok |-> ok]

\* close: queued jobs are rejected.
Close(s) == [s EXCEPT !.closed = TRUE, !.filling = FALSE, !.queue = <<>>]

NoRejections(s) == <<>>     \* mutant

Rejections(s) ==
    IF s.closed THEN <<>>
    ELSE [i \in DOMAIN s.queue |->
            Settled(s.queue[i].first, s.queue[i].last, FALSE, s.queue[i].fill)]

-----------------------------------------------------------------------------
(* Reads.                                                                  *)

Idle(r) == reads[r] = NoRead

Unfinished(r) == ~Idle(r) /\ ~reads[r].ended
\* The runtime has the read and c is one of the chunks it still waits for.
Awaits(r, c) ==
    Unfinished(r) /\ r \notin posted.reads /\ c \in DOMAIN reads[r].parts /\ reads[r].parts[c] = Absent

\* Promise.all: a read goes on when it has all its chunks.
Complete(parts) == \A c \in DOMAIN parts : parts[c] # Absent

\* The outcome for the chunks of contents reaches the reads that await them:
\* with ok they have the bytes, else they fail at once.
Receive(contents, ok) ==
    LET hit(r) == \E c \in DOMAIN contents : Awaits(r, c)
        parts(r) == [c \in DOMAIN reads[r].parts |->
                        IF c \in DOMAIN contents /\ Awaits(r, c) THEN contents[c]
                        ELSE reads[r].parts[c]]
        ends(r) == hit(r) /\ (~ok \/ Complete(parts(r)))
    IN  /\ reads' = [r \in Readers |->
                CASE ends(r) -> [reads[r] EXCEPT !.parts = IF ok THEN parts(r) ELSE @,
                                                 !.ended = TRUE]
                  [] hit(r) /\ ~ends(r) -> [reads[r] EXCEPT !.parts = parts(r)]
                  [] OTHER -> reads[r]]
        /\ microtasks' = Tail(microtasks) \o
                SetToSeq({ReadEnds(r, ok) : r \in {q \in Readers : ends(q)}})

\* The worker takes messages between tasks; what was posted again to a new
\* worker comes before what is posted after.
Listens == microtasks = <<>> /\ ~shuttingDown
PortEmpty == posted = NothingPosted

\* What read has asked for so far: the runtime, and the reads from disk.
AskFor(u, c, speculative) ==
    [rt |-> GetChunk(u.rt, c, speculative),
     tasks |-> IF ReadsDisk(u.rt, c) THEN Append(u.tasks, DiskRead(c)) ELSE u.tasks]

Ask(s, first, last, speculative) ==
    LET n == last - first + 1
        after[i \in 0..n] == IF i = 0 THEN [rt |-> s, tasks |-> <<>>]
                             ELSE AskFor(after[i - 1], first + i - 1, speculative)
    IN  after[n]

\* read, up to its await; a closed runtime rejects it.
BeginRead(r, first, last, hint) ==
    LET counted == [rt EXCEPT !.demands = IF hint.demand THEN @ + 1 ELSE @]
        asked == Ask(counted, first, last, ~hint.demand)
        parts == [c \in first..last |-> IF Resident(rt, c) THEN ContentOf(rt, c) ELSE Absent]
    IN  /\ Listens
        /\ IF rt.closed
           THEN /\ reads' = [reads EXCEPT ![r] = NoRead]
                /\ UNCHANGED <<rt, microtasks>>
           ELSE /\ rt' = asked.rt
                /\ reads' = [reads EXCEPT ![r] =
                       [first |-> first, demand |-> hint.demand,
                        sequential |-> hint.sequential,
                        parts |-> parts, ended |-> Complete(parts)]]
                /\ microtasks' = asked.tasks \o
                       (IF Complete(parts) THEN <<ReadEnds(r, TRUE)>> ELSE <<>>)
        /\ UNCHANGED <<disk, fillTimers, firstFrame, restarted, shuttingDown, mishaps>>

\* A demand or a read of read-ahead arrives.
StartRead(r, first, last, hint) ==
    /\ PortEmpty /\ Idle(r) /\ ~rt.closed
    /\ BeginRead(r, first, last, hint)
    /\ UNCHANGED posted

-----------------------------------------------------------------------------
(* The end of a transfer.                                                  *)

\* The bytes of first..last, cut into chunks.
SlicesShifted(first, last) ==   \* mutant
    LET bytes == [i \in 1..(last - first + 1) |-> first + i - 1]
    IN  [c \in first..last |-> bytes[last - c + 1]]

Slices(first, last) ==
    LET bytes == [i \in 1..(last - first + 1) |-> first + i - 1]
    IN  [c \in first..last |-> bytes[c - first + 1]]

\* persist, for each chunk of the job: a write that fails ends the fill and
\* later writes.
Persist(job, refused) ==
    LET writes == ~rt.closed /\ rt.diskWritable
        written == IF writes THEN job.first..(refused - 1) ELSE {}
    IN  /\ refused \in job.first..(job.last + 1)
        /\ ~writes => refused = job.last + 1
        /\ disk' = [c \in Chunks |-> IF c \in written THEN Slices(job.first, job.last)[c]
                                     ELSE disk[c]]
        /\ mishaps' = IF refused <= job.last THEN mishaps + 1 ELSE mishaps
        /\ mishaps' <= MaxMishaps

TransferSucceeds(job, refused) ==
    LET failed == refused <= job.last
        stored == [rt EXCEPT !.running = @ \ {job},
                             !.diskWritable = @ /\ ~failed, !.filling = @ /\ ~failed]
    IN  /\ microtasks = <<>> /\ job \in rt.running
        /\ Persist(job, refused)
        /\ rt' = IF job.fill THEN stored
                 ELSE Remember(stored, job.first, Slices(job.first, job.last)[job.first])
        /\ microtasks' = <<Settled(job.first, job.last, TRUE, job.fill),
                           JobEnds(job.speculative)>>
        /\ UNCHANGED <<reads, fillTimers, mainVars>>

\* A failed fill ends the fill.  A new version of the archive closes the runtime.
TransferFails(job, newVersion) ==
    LET failed == [rt EXCEPT !.running = @ \ {job}, !.filling = @ /\ ~job.fill]
    IN  /\ microtasks = <<>> /\ job \in rt.running
        /\ rt' = IF newVersion THEN Close(failed) ELSE failed
        /\ microtasks' = <<JobEnds(job.speculative),
                           Settled(job.first, job.last, FALSE, job.fill)>> \o
                         (IF newVersion THEN Rejections(rt) ELSE <<>>)
        /\ mishaps < MaxMishaps /\ mishaps' = mishaps + 1
        /\ UNCHANGED <<disk, reads, fillTimers, mainVars>>

-----------------------------------------------------------------------------
(* The microtasks.                                                         *)

Runs(kind) == microtasks # <<>> /\ Head(microtasks).kind = kind

\* The finally of getChunk and of the fill: the chunks are pending no longer.
SettleWithoutReset ==    \* mutant
    LET task == Head(microtasks)
    IN  /\ Runs("settled")
        /\ rt' = [rt EXCEPT !.pending = @ \ Covers(task)]
        /\ fillTimers' = IF task.fill THEN fillTimers + 1 ELSE fillTimers
        /\ Receive(Slices(task.first, task.last), task.ok)
        /\ UNCHANGED <<disk, mainVars, mishaps>>

Settle ==
    LET task == Head(microtasks)
    IN  /\ Runs("settled")
        /\ rt' = [rt EXCEPT !.pending = @ \ Covers(task),
                            !.fillBusy = @ /\ ~task.fill]
        /\ fillTimers' = IF task.fill THEN fillTimers + 1 ELSE fillTimers
        /\ Receive(Slices(task.first, task.last), task.ok)
        /\ UNCHANGED <<disk, mainVars, mishaps>>

\* The finally of a job: its slot is free.
AfterJobWithoutPump(s, speculative) ==    \* mutant
    PumpFill([s EXCEPT !.active = @ - 1,
                       !.speculativeActive = IF speculative THEN @ - 1 ELSE @])

AfterJobUncounted(s, speculative) ==    \* mutant
    PumpFill(Pump([s EXCEPT !.active = @ - 1]))

AfterAnyJob(s, speculative) ==    \* mutant
    PumpFill(Pump([s EXCEPT !.active = @ - 1, !.speculativeActive = @ - 1]))

AfterJob(s, speculative) ==
    PumpFill(Pump([s EXCEPT !.active = @ - 1,
                            !.speculativeActive = IF speculative THEN @ - 1 ELSE @]))

EndJob ==
    /\ Runs("jobEnds")
    /\ rt' = AfterJob(rt, Head(microtasks).speculative)
    /\ microtasks' = Tail(microtasks)
    /\ UNCHANGED <<disk, reads, fillTimers, mainVars, mishaps>>

\* readAsync, remember and the finally of getChunk for a chunk on disk.
FinishDiskRead(ok) ==
    LET c == Head(microtasks).chunk
    IN  /\ Runs("diskRead")
        /\ ok \/ mishaps < MaxMishaps
        /\ mishaps' = IF ok THEN mishaps ELSE mishaps + 1
        /\ rt' = [(IF ok THEN Remember(rt, c, disk[c]) ELSE rt) EXCEPT !.pending = @ \ {c}]
        /\ Receive([k \in {c} |-> disk[k]], ok)
        /\ UNCHANGED <<disk, fillTimers, mainVars>>

\* The rest of read, of an entry of the archive that ends at entryEnd.
EndRead(entryEnd) ==
    LET r == Head(microtasks).reader
        ok == Head(microtasks).ok
        read == reads[r]
        end == read.first + Cardinality(DOMAIN read.parts)
        ahead == IF ok /\ read.sequential THEN Prefetch(rt, end, entryEnd) ELSE rt
    IN  /\ Runs("readEnds")
        /\ end <= entryEnd
        /\ rt' = PumpFill(Pump([ahead EXCEPT !.demands = IF read.demand THEN @ - 1 ELSE @]))
        /\ reads' = [reads EXCEPT ![r] = NoRead]
        /\ microtasks' = Tail(microtasks)
        /\ UNCHANGED <<disk, fillTimers, mainVars, mishaps>>

-----------------------------------------------------------------------------
(* Messages and the timer.                                                 *)

\* The first frame: the fill is asked for, once.
StartFill(order) ==
    /\ Listens /\ PortEmpty
    /\ firstFrame = <<>>
    /\ firstFrame' = <<order>>
    /\ rt' = PumpFill([rt EXCEPT !.fillOrder = order, !.filling = rt.diskWritable])
    /\ UNCHANGED <<disk, microtasks, reads, fillTimers, posted, restarted, shuttingDown,
                   mishaps>>

FillTimerFires ==
    /\ microtasks = <<>> /\ fillTimers > 0
    /\ fillTimers' = fillTimers - 1
    /\ rt' = PumpFill(rt)
    /\ UNCHANGED <<disk, microtasks, reads, mainVars, mishaps>>

CloseMessage ==
    /\ Listens /\ PortEmpty
    /\ shuttingDown' = TRUE
    /\ rt' = Close(rt)
    /\ microtasks' = Rejections(rt)
    /\ UNCHANGED <<disk, reads, fillTimers, firstFrame, posted, restarted, mishaps>>

-----------------------------------------------------------------------------
(* The I/O worker crashes (sab-io-source.ts, recover).  The main worker     *)
(* replaces it once, if the archive is still the same, and posts again the  *)
(* asynchronous reads that have no answer, then the fill.  An answer that   *)
(* was posted has arrived.                                                  *)

\* What the new worker finds on disk: all that was written, by a transfer of
\* which only a part was when the worker ended too; nothing, if the cache was
\* full and became the archive.
CachesFound ==
    LET stored == {c \in Chunks : OnDisk(c)}
    IN  {stored} \cup
        (UNION {{stored \cup (job.first..k) : k \in Covers(job)} :
                   job \in {j \in rt.running : rt.diskWritable}}) \cup
        (IF stored = Chunks THEN {{}} ELSE {})

NoneUnanswered(dropped) == {}   \* mutant

\* The asynchronous reads without an answer.
Unanswered(dropped) == {r \in Readers : ~Idle(r)} \ dropped

\* dropped: the synchronous read under way, which the guest has given up.
Restart(dropped, found, writable) ==
    LET again == Unanswered(dropped)
        kept == IF writable THEN found ELSE {}
    IN  /\ ~restarted /\ ~shuttingDown /\ ~rt.closed
        /\ mishaps < MaxMishaps /\ mishaps' = mishaps + 1
        /\ rt' = Fresh(writable)
        /\ disk' = [c \in Chunks |-> CASE c \in kept /\ OnDisk(c) -> disk[c]
                                      [] c \in kept /\ ~OnDisk(c) -> Slices(c, c)[c]
                                      [] c \notin kept -> Absent]
        /\ microtasks' = <<>>
        /\ fillTimers' = 0
        /\ reads' = [r \in Readers |->
                CASE r \in again ->
                       [reads[r] EXCEPT !.parts = [c \in DOMAIN @ |-> Absent], !.ended = FALSE]
                  [] r \in dropped -> NoRead
                  [] OTHER -> reads[r]]
        /\ posted' = [reads |-> again, fill |-> firstFrame # <<>>]
        /\ restarted' = TRUE
        /\ UNCHANGED <<firstFrame, shuttingDown>>

\* A second crash, a worker that does not start, another version of the
\* archive: every read is rejected and none is posted any more (fail).
RestartFails ==
    /\ ~shuttingDown
    /\ mishaps < MaxMishaps /\ mishaps' = mishaps + 1
    /\ rt' = Close(Fresh(FALSE))
    /\ reads' = [r \in Readers |-> NoRead]
    /\ microtasks' = <<>> /\ fillTimers' = 0
    /\ posted' = NothingPosted
    /\ shuttingDown' = TRUE
    /\ UNCHANGED <<disk, firstFrame, restarted>>

\* A read that was posted again arrives; a closed runtime rejects it.
TakePostedRead(r) ==
    LET read == reads[r]
        hint == [demand |-> read.demand, sequential |-> read.sequential]
    IN  /\ r \in posted.reads
        /\ posted' = [posted EXCEPT !.reads = @ \ {r}]
        /\ BeginRead(r, read.first, Max(DOMAIN read.parts), hint)

TakePostedFill ==
    /\ Listens /\ posted.fill /\ posted.reads = {}
    /\ posted' = NothingPosted
    /\ rt' = PumpFill([rt EXCEPT !.fillOrder = firstFrame[1], !.filling = rt.diskWritable])
    /\ UNCHANGED <<disk, microtasks, reads, fillTimers, firstFrame, restarted, shuttingDown,
                   mishaps>>

Next ==
    \/ \E r \in Readers, first, last \in Chunks, hint \in Hints :
          /\ first <= last /\ last - first < MaxLength
          /\ StartRead(r, first, last, hint)
    \/ \E job \in rt.running, refused \in 0..N : TransferSucceeds(job, refused)
    \/ \E job \in rt.running, newVersion \in BOOLEAN : TransferFails(job, newVersion)
    \/ Settle
    \/ EndJob
    \/ \E ok \in BOOLEAN : FinishDiskRead(ok)
    \/ \E entryEnd \in 0..N : EndRead(entryEnd)
    \/ \E order \in FillOrders : StartFill(order)
    \/ FillTimerFires
    \/ CloseMessage
    \/ \E dropped \in SUBSET Readers, found \in CachesFound, writable \in BOOLEAN :
          /\ Cardinality(dropped) <= 1
          /\ Restart(dropped, found, writable)
    \/ RestartFails
    \/ \E r \in Readers : TakePostedRead(r)
    \/ TakePostedFill

\* The engine empties the microtask queue after every task and fires every
\* timer; a posted message arrives; a transfer ends, if only by its timeout.
Fairness ==
    /\ []<>(microtasks = <<>>)
    /\ []<>(fillTimers = 0)
    /\ []<>(posted = NothingPosted)
    /\ \A c \in Chunks : []<>(\A job \in rt.running : c \notin Covers(job))

Spec == Init /\ [][Next]_vars
FairSpec == Spec /\ Fairness

-----------------------------------------------------------------------------
(* Properties.                                                             *)

Tasks(kind) == {i \in DOMAIN microtasks : microtasks[i].kind = kind}
Jobs(s) == ToSet(s.queue) \cup s.running

TypeOK ==
    /\ rt.pending \subseteq Chunks
    /\ {rt.active, rt.speculativeActive, rt.demands, rt.fillCursor, fillTimers} \subseteq Nat
    /\ {rt.filling, rt.fillBusy, rt.fillOver, rt.closed, rt.diskWritable,
        restarted, shuttingDown} \subseteq BOOLEAN
    /\ rt.fillOrder \in Seq(Chunks)
    /\ \A i \in DOMAIN rt.queue : rt.queue[i].priority \in 0..1
    /\ DOMAIN disk = Chunks /\ DOMAIN reads = Readers
    /\ posted.reads \subseteq Readers /\ Len(firstFrame) <= 1 /\ mishaps \in 0..MaxMishaps

\* The counters that admit jobs tell what is under way, through failures,
\* promotions and the close: a counter that drifted would stop the transfers
\* of one class, or admit too many, for good (pump, read).
CountersExact ==
    /\ rt.active = Cardinality(rt.running) + Cardinality(Tasks("jobEnds"))
    /\ rt.speculativeActive =
          Cardinality({job \in rt.running : job.speculative}) +
          Cardinality({i \in Tasks("jobEnds") : microtasks[i].speculative})
    /\ rt.demands = Cardinality({r \in Readers \ posted.reads : ~Idle(r) /\ reads[r].demand})

\* A chunk is fetched once at a time: at most one job covers it, and who wants
\* the chunk while a job does finds it in pending (getChunk, pumpFill).
OneFetch ==
    /\ \A c \in Chunks :
          Cardinality({i \in DOMAIN rt.queue : c \in Covers(rt.queue[i])}) +
          Cardinality({job \in rt.running : c \in Covers(job)}) <= 1
    /\ UNION {Covers(job) : job \in Jobs(rt)} \subseteq rt.pending

\* Bytes are those of the archive wherever they are kept, and a read returns
\* its range or an error, however its chunks were joined, sliced from a batch
\* of the fill, evicted or read back (read, startFill).
BytesRight ==
    /\ \A i \in DOMAIN rt.chunks : rt.chunks[i].content = rt.chunks[i].chunk
    /\ \A c \in Chunks : disk[c] \in {Absent, c}
    /\ \A r \in Readers : \A c \in DOMAIN reads[r].parts : reads[r].parts[c] \in {Absent, c}

\* What is pending has somebody who will settle it, also after a close, and a
\* read waits only for what is pending (getChunk, read, close).
UnderWay ==
    (UNION {Covers(job) : job \in Jobs(rt)}) \cup
    (UNION {Covers(microtasks[i]) : i \in Tasks("settled")}) \cup
    {microtasks[i].chunk : i \in Tasks("diskRead")}

ReadersServed ==
    /\ rt.pending \subseteq UnderWay
    /\ \A r \in Readers, c \in Chunks : Awaits(r, c) => c \in rt.pending

\* A demand waits for a slot only: between tasks a job that is queued for one,
\* whoever scheduled it first, means that every slot is taken, and queued
\* speculation that every slot of speculation is, or every slot.  Nothing
\* would start it before the next read or the end of another transfer (pump,
\* getChunk, close).
Demanded(job) ==
    \E r \in Readers : reads[r].demand /\ \E c \in Covers(job) : Awaits(r, c)

NoIdleSlot ==
    microtasks = <<>> =>
        \A i \in DOMAIN rt.queue :
            \/ rt.active = MaxInflight
            \/ /\ rt.speculativeActive = SpeculativeLimit
               /\ rt.queue[i].priority > 0 /\ ~Demanded(rt.queue[i])

\* A fill that ran to its end without a failure has left no hole, whatever was
\* read, fetched ahead or joined meanwhile (pumpFill, startFill).
FillComplete ==
    rt.fillOver /\ mishaps = 0 => \A c \in Chunks : OnDisk(c)

\* Every demand is answered, while others go on, transfers fail, the fill runs
\* or the worker closes (read).
DemandsAnswered ==
    \A r \in Readers : (~Idle(r) /\ reads[r].demand) ~> Idle(r)

\* A fill ends, unless reads keep it out for ever or the runtime is
\* closed (pumpFill).
FillEnds ==
    rt.filling ~> (~rt.filling \/ rt.closed \/ \E r \in Readers : ~Idle(r))

=============================================================================
