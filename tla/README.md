# A TLA+ verification of BottleShip

BottleShip runs 32-bit Windows programs in a browser tab: an x86 core (v86, prebuilt)
executes guest code, and TypeScript in a web worker answers the Win32 calls the guest
makes. This directory holds TLA+ models of the parts whose correctness depends on the
order in which things happen, TLC configurations that check them on small instances,
and proofs, checked by TLAPS, that hold for every value of the constants.

Contents: [inventory](#1-the-system) · [modules](#2-the-modules) ·
[scheduler](#3-the-scheduler) · [critical sections](#4-critical-sections) ·
[SRW locks](#5-slim-readerwriter-locks) · [asynchronous calls](#6-asynchronous-calls) ·
[streamed reads](#7-synchronous-streamed-reads) · [I/O runtime](#8-the-streamed-io-runtime) ·
[disk cache](#9-the-sparse-disk-cache) · [findings](#10-findings) · [plan](#11-plan) ·
[running](#12-running-it)

Paths below are relative to `src/src/worker/` unless they start with `src/`.

## 1. The system

| Part | State it keeps | Operations | Interacts through |
|---|---|---|---|
| **Scheduler** `core/scheduler/scheduler.ts` | per thread: state, suspend count, priority, wait, saved context, APC queue, timer; the run queue, the current thread, bootstrap threads | create, terminate, suspend, resume, priority, yield, sleep, waits on handles and/or messages, APCs, timeouts, context switch, ExitProcess | calls from the Win32 modules; `setHostTimeout`/timer wheel; tick boundaries of the CPU |
| **Waitable objects** `core/scheduler/sync-objects.ts`, **wait engine** `wait-engine.ts` | events, semaphores, mutexes; handle → waiter index | check and consume a wait, signal, reset, pulse, release, abandon, alias, close | scheduler; mirror words the WASM fast paths read |
| **Critical sections, condition variables** `modules/kernel32/sync.ts` | the CRITICAL_SECTION in guest memory, an auto-reset event per section and per variable | Enter, TryEnter, Leave, Sleep/WakeConditionVariable | scheduler (park, hand over), WASM fast paths |
| **SRW locks** `modules/kernel32/srw-lock.ts` | a record and an event per lock | acquire, try, release, sleep on a variable | scheduler |
| **Timer wheel** `core/scheduler/timer-wheel.ts` | heap of timers, callbacks being run | add, cancel, reschedule, poll | every timed operation |
| **Thunk dispatcher** `core/thunking/` | call frames, calls in flight, answers not yet applied, park generations | guest call → host function → result, park, restore, callbacks into the guest | scheduler, all modules; promises |
| **WASM hypercalls** `core/cpu/hypercall-data.ts` | mirror words of events, mutexes, sections | fast paths inside JIT code | sync objects |
| **Synchronous streamed reads** `runtime/filesystem/sab-io-source.ts`, `sab-io-protocol.ts`, `io-worker.ts` | a SharedArrayBuffer: request words, control words, a one-slot arena; source state (live, recovering, failed) | readRangeSync, readRange, restart, fail, close | postMessage and futex between two workers |
| **Streamed I/O runtime** `stream-io-runtime.ts` | chunk cache, job queue, transfers under way, fill cursor | read, prefetch, fill, close | HTTP range source, sparse cache |
| **Sparse bundle cache** `sparse-wgb-cache.ts` | data file and slot table on OPFS, residency bits, the whole bundle and its version | open, restore, write, read, promote, download, evict | I/O runtime; the browser may die at any point |
| **VFS, registry** `runtime/filesystem/` | overlay of the game's files, registry tree | file operations, save | OPFS |
| **Message queue, windows** `runtime/windowing/` | posted messages, coalesced mouse moves and paints, waiters | post, send, peek, get, timeouts | scheduler, input from the page |
| **Named objects, child processes** `modules/kernel32/named-objects.ts`, `core/child-process.ts`, `process-ipc.ts` | names and reference counts, child workers | create, open, close, spawn, wait | worker messages |
| **Memory** `core/memory/` | address space, allocation table, surface leases | reserve, commit, free, lock | everything |
| **Audio** `src/src/audio/` | ring buffers in SharedArrayBuffers | play, stop, seek, mix | AudioWorklet |
| **Direct3D 9 render worker** `render/`, other graphics `backends/`, `modules/d3d*` | command stream, device state, fences | record, replay, query, device loss | another worker, WebGPU |
| **Frame pacer** `core/frame-pacer.ts` | permits per refresh | wait for a slot | requestAnimationFrame |
| **Networking** `net/`, `core/network-namespace.ts`, `modules/dplayx` | virtual LAN, relay link, port table in shared memory | bind, send, deliver, lease, reconnect | relay server, process workers |
| **LAN relay** `src/packages/lan`, `src/packages/lan-rust` | sessions, leases | relay | separate programs |
| **Formats, repack, PE loader, SEH, UI, harness, AOT tools** | — | pure functions, tools, user interface | — |

What is hard in it:

* **Wake-ups.** The guest's threads are coroutines on one CPU: each Win32 call is
  atomic, but a call that signals runs a loop over waiters, each of whose wake-ups may
  consume what the next one needed, and threads may be suspended, time out or die at any
  call. A lost wake-up freezes a game without an error anywhere.
* **Hand-over.** Locks are handed to a parked thread by the one that leaves, in the name
  of the parked thread. Anything that changes between parking and hand-over
  (suspension, a timeout, death, a condition variable) is an interleaving nobody tested.
* **Promises.** A call that is answered later parks its thread; the answer must find the
  thread that asked, still asking, whoever ran, was suspended or died in between.
* **Real concurrency.** The guest worker and the I/O worker share memory. The guest
  gives requests up; the answers come all the same.
* **Crashes.** The tab may die between two writes of the disk cache; a worker may die
  with requests under way.

Which property guards which hazard is listed in `PROJECT.json` (`hazards`), each at its
line of code. For each component the properties that make it correct are: *scheduler* —
no lost wake-up, exact queues, exclusive CPU, timers that belong to their wait, nothing
taken by a suspended thread, progress; *asynchronous calls* — a thread goes on with the
answer to its own call and with nothing else, and gets it; *locks* — exclusion, agreement of the record with
what the guest believes, nobody asleep on a free lock, every waiter served; *streamed
reads* — the right bytes or none, a still arena, no lost wake-up, termination; *sparse
cache* — never a byte that was not downloaded, after any crash; *I/O runtime* — a demand
is never stuck behind speculation, one transfer per chunk; *timer wheel* — a timer fires
once per period, never after it was cancelled, and a poll ends; *message queue* — input
in order, per-thread delivery; *audio* — no reading past the producer.

## 2. The modules

| Module | What it is | Models |
|---|---|---|
| `SyncObjects` | events, semaphores, mutexes as operators over their state | `sync-objects.ts`, `types.ts` |
| `Scheduler` | threads, waits, wake-ups; EXTENDS `SyncObjects` | `scheduler.ts`, `wait-engine.ts`, `apc-dispatch.ts` |
| `SchedulerProperties` | type invariant, safety, action and liveness properties, the inductive invariant | |
| `SchedulerProofs` | theorems about it | |
| `AsyncRestore` | threads parked on calls that promises answer | `thunk-dispatcher.ts`, `scheduler.ts` |
| `AsyncRestoreProofs` | theorems about it | |
| `ThreadQueues` | queues of threads: first that is awake, removal | `wait-engine.ts` |
| `CriticalSections` | one critical section with one condition variable | `sync.ts`, lock paths of `scheduler.ts` |
| `SrwLocks` | one reader/writer lock with one condition variable | `srw-lock.ts`, `sync.ts`, `scheduler.ts` |
| `ThreadQueueLemmas`, `CriticalSectionProofs`, `SrwProofs` | theorems about them | |
| `RangeReads` | abstract: what a caller of `readRangeSync` may see | `ZipSource` |
| `SabChannel` | the protocol over the SharedArrayBuffer, one load or store per step; implements `RangeReads` | `sab-io-source.ts`, `sab-io-protocol.ts`, `io-worker.ts` |
| `SabChannelProofs` | theorems about it, the refinement among them | |
| `ChunkStore` | abstract: which chunks a disk cache may forget, and when | `SparseWgbCache` |
| `SparseCache` | the files of a bundle, with what a crash leaves of unflushed writes; implements `ChunkStore` | `sparse-wgb-cache.ts`, `wgb-cache.ts`, `wgb-cache-integrity.ts`, `emulator.worker.ts` |
| `SparseCacheProofs` | theorems about it, the refinement among them | |
| `StreamIo` | the chunk scheduler between the two: transfers, joins, read-ahead, fill; the worker's replacement | `stream-io-runtime.ts`, `io-worker.ts`, `sab-io-source.ts` (recover) |
| `StreamIoProofs` | theorems about it | |
| `MC*` | instances for TLC | |

In every module, an operator marked `mutant` is a plausible slip in the definition that
follows it. It takes no part in the specification; replacing the definition by it must
violate the property named in `PROJECT.json`, which shows that the property depends on
that piece of code.

## 3. The scheduler

**State.** `state`, `suspendCount`, `priority`, `waitInfo`, `context`, `apcs` and
`alerted` are fields of a `Thread` (`types.ts`). `context` holds where a thread would
resume: "none" while it runs or before it exists, "saved" when it was switched out, or
the result that its wait ended with. `timers` is the set of
threads with an armed timeout, `runQueue` and `bootstrap` the arrays of that meaning,
`waiters` the wait engine's index in registration order. The wake-up in progress is
state of its own: `scanning` (the handle whose waiters are visited), `unvisited`,
`toWake` (handles still to be visited, after the death of a mutex owner), `pulsed`,
`exiting`.

**Actions.** One per call of the scheduler. A call that signals something starts a wake
loop (`StartWake`), whose rounds `VisitWaiter` and `EndVisit` follow
`wakeWaitingThreadsForHandle` waiter by waiter; no other action is enabled until it
ends (`Quiet`), as in the code, where the loop is synchronous. Everything a
handler does on its way - consuming a signal, clearing the timer, requeueing, granting
a mutex - is part of its action. `PerformSwitch` is the tick boundary.

**Left out.** Asynchronous parks, reaping and stacks are in `AsyncRestore`. Left out are
the kernel pin, TLS, handle aliases and CloseHandle, the diagnostic counters and the `__no...` switches.
`blockThread`'s re-check for a lost wake-up can find nothing in a model where calls are
atomic: it guards against WASM fast paths, which are left to a module about the
mirrors. The termination of a thread whose context cannot be saved is `TerminateThread`.
Zero-timeout waits change nothing when the object is not ready and are omitted. Handle
arrays have no duplicates. A terminated thread stays in `bootstrap` and keeps its timer,
as in the code. Handles without waiters are skipped when a wake loop starts.

Two paths that end waits are left out as well. `wakeThread` resumes a CPU that idles
because every thread is blocked (`wakeEarlyFromIdleYield`, line 4853): when a host
callback is what signals, answers are delivered, timers polled and the guest restarted
from within the wake loop, between two rounds that are contiguous here. And when no
thread can run and no timer is armed, `detectDeadlock` (line 5037) wakes one waiter of a
critical section with success; the wait for any other object it leaves alone.

**Runs.**

| Run | Instance | Shows |
|---|---|---|
| `MCEvents` | 3 threads, an auto-reset and a manual-reset event, arrays `<<auto>>` and `<<manual, auto>>`, suspension, two priorities | `NoLostWakeup`, `QueuesExact`, `SuspendedTakesNothing` |
| `MCMutexes` | a mutex taken up to twice, a semaphore, timed and alertable waits for the mutex and for both together, one APC each; suspension, deaths | `TypeOK`, `NoLostWakeup`, `MutexOwnerAlive`, `AbandonmentReported`, `TimersExact`, `AlertableWaitsHaveNoApc`, `ContextSaved` |
| `MCFairness` | 3 threads of one priority, created suspended or to run at once, timed waits for a thread's end and for messages | `ReadyThreadsRun`, `TimedWaitsEnd`, `ExitEndsAll` |
| `MCWaitAllAuto` | a manual-reset and an auto-reset event waited for together | must fail: [finding](#10-findings) 1 |

Three threads are enough for a signaller, a waiter that takes the signal and one that is
passed over; the arrays are chosen so that the order of the handles decides what is
consumed. The two created threads are interchangeable (`SYMMETRY`; not in runs with
liveness). Bounds: `MaxCount`, `MaxRecursion`, `MaxSuspend`
(`MAXIMUM_SUSPEND_COUNT`, 127 in the code), `MaxApcs`. Deadlock checking is off in
all runs: every thread may end, and then nothing happens any more.

**Fairness.** `SchedulerProperties!Fairness`: a wake loop runs to its end; the tick
boundary comes again and again, because the retired-instruction quantum expires for a
thread that computes and a thread that blocks requests the switch itself; an armed timer
is polled there. Strong fairness, since a guest may make the boundary come and go. No
guest call is ever owed. Priorities are strict, as on Windows, and starvation across
them is by design, so `ReadyThreadsRun` is checked with one priority; threads that were
created to run and have not blocked yet precede the others (`Precede`).

**Proved** (`SchedulerProofs`), for any number of threads, objects and handle arrays:
`TypeCorrect`, `QueuesAgree`, `TimersBelong`, `ContextsSaved`, `ApcsDelivered` and
`OwnersAlive`, for the invariants of the first two runs; `OffersComplete` (`[]IInv`) and
`NoWakeupLost` (`[]NoLostWakeup`); and the two action properties, `SuspendedGetNothing`
and `AbandonmentTold`, step by step from the types: the second rests on a wait taking
only what is ready for its own thread (`DecisionsReady`). What is left to TLC is the
liveness of `MCFairness`. The queues are
inductive with the types. Timers, contexts and APCs are one invariant (`RecordInv`),
because each is what another one rests on: a thread in an alertable wait takes an APC
only since it has a context, and only waiting threads have timers. For `ContextSaved`
the context switch must find somebody in a queue that is not empty; that a set of
positions has a best one is `BestExists`, by the least counterexample.
`NoLostWakeup` speaks of states at rest and is not
inductive: the invariant says what is true in the middle of a wake loop, namely that
whatever a waiting thread could take is *about to be offered* to it (`Offered`: every
ready handle of a wait for any is among the handles being visited or still to be
visited for that thread; some handle of a satisfied wait for all is). Its step for
`VisitWaiter` is where it matters that the visit may stop early only when the handle
being signalled is no longer ready - which is so for auto-reset events, but only if
those are not in waits for all. Hence the hypothesis `NoAutoInWaitAll`, without which
the theorem is false (`MCWaitAllAuto`).

## 4. Critical sections

One section, one condition variable, any number of threads. `csOwner`, `csRecursion`
and `lockSemaphore` are the fields in guest memory and the event at CS+16; `csQueue` and
`cvQueue` the parked threads in order; `inside` counts, for each thread, the Enters that
returned minus the Leaves - what the guest believes; it appears in guards only where a
well-behaved guest's next call depends on it. Any thread that is neither parked nor
suspended may make the next call. `WakeConditionVariable` always leaves the variable's
event unsignalled, so the "already signalled" branch of sleeping is unreachable and not
modelled. The suspend count is a set here.

A thread that dies as the owner is succeeded by a waiter that is not suspended. With
suspended waiters only, the event is left signalled and the dead thread stays in the
record. What the next Enter does depends on whether the `Thread` record of that owner is
still there: if it is, the caller takes the section over (`StealFromDead`, `sync.ts:624`);
once it is reaped (`tryReap`), the section is reset (`RecoverFromReaped`,
`normalizeCriticalSectionState` and `setCriticalSectionUnlocked`, `sync.ts:423-497`). The
reset takes the event out of the section: `csQueue` and `lockSemaphore` begin anew, and
the old event with its waiters becomes a member of `forgotten`, from which waiters leave
only by their own resumption or death. Reaping itself changes nothing that the section
sees, so the model takes either branch. `csTracked` is the owner the scheduler has noted;
the reset is refused with a fatal guard if there is one, which `OwnerNoted` shows never
to be the case: for the paths in `sync.ts`, that is. The WASM fast paths, which are
outside the repository, write the owner without a note (comment at `scheduler.ts:5208`);
what they would leave noted is not modelled.

Left out is `detectDeadlock` (section 3), which hands the section to a waiter over
the head of its owner when no thread can run and no timer is armed. What is said here is
thus said of programs of which some thread can run or wait with a timeout, and the
threads of the model do not block on anything else inside the section.

| Run | Instance | Shows |
|---|---|---|
| `MCSections` | three guests, each with deaths: `Plain` (4 threads, recursion 2), `Suspending` (4 threads, recursion 1), `Both` (3 threads, recursion 2, suspensions, sleeps with every timeout); fair; 45 000 states | of a guest that only enters and leaves: `OwnerIsInside`, `WaitersEnter`; of one that does not suspend: `EnterReturns`; of every guest: `NoSleepOnFreeSection` |
| `MCSectionsCondition` | 3 threads and the condition variable | must fail: [finding](#10-findings) 2 |

`guest` says what the program does: the threads it has, how often one enters without
leaving, whether it suspends threads, and with what timeouts it sleeps on the condition
variable. It is chosen once, and each property names the guests it is about
(`PlainGuest`), because suspension and the condition variable each break the agreement
of the record with the guest ([finding 2](#10-findings) and the notes below it). Three
threads give an owner, an heir and one behind it, any of which may die; the fourth is
the one that enters a section whose dead owner left it to two suspended waiters. A
second level of recursion or the condition variable adds nothing to that, so
`Suspending` has neither. `OwnerIsInside` implies `CsExclusion`. Fairness: a thread that
may leave leaves, weakly for an inner Leave and strongly for the last one, since the
thread may enter again before it. With a third level of recursion an owner may go back
and forth between the inner two and never come to the last Leave, so two levels are the
most for which `WaitersEnter` may be asked.

`NoSleepOnFreeSection` has two parts. A waiter on the section's event sleeps on a free
section, or on one with a dead owner, only while suspended, and then the event is
signalled. A waiter on a forgotten event is suspended as long as that event is signalled.
The code keeps no more than that: the first waiter that is resumed takes the signal with
the section, its Leave does not find the others, and they are asleep for good
([notes](#10-findings)). This exception is named in the property and in the theorem.

**Proved** (`CriticalSectionProofs`): `SectionQueuesExact`, `NobodyStranded` (with the
exception just named) and `OwnerNoted` for every guest; `SectionExclusive` and
`SectionTellsOwner` - exclusion, agreement of the owner and recursion fields with what
was entered, and no fatal guard - for a plain one, of which no owner is ever dead on
record, so that no reset happens; `EnterComesBack` for a guest that suspends nobody.
`SectionInv` is types, exact queues and "nobody sleeps on a free section"; `BeliefInv`
adds that the record's owner and recursion are those of the thread inside; `AwakeInv`,
for `EnterComesBack`, that a guest that suspends nobody never leaves the event
signalled. Facts about removing a thread from a queue are `ThreadQueueLemmas`.

## 5. Slim reader/writer locks

`lock` is the `SrwLockState` record, `waitEvent` its event, `srwQueue`, `cvQueue`,
`cvTimers` the parked threads, `wanted` the mode a parked thread asks for, `holds` the
mode the guest believes it has. A woken sleeper that cannot have the lock is moved to
the lock's queue (`requeueSrwWait`).

Terminating a thread leaves its locks held, as on Windows. A zero timeout may return
without the lock; `lapsed` are the threads that did, and what they believe to hold is
not counted (`Entitled`).

`MCSrw` (3 threads, both modes, timeouts of every kind, suspension, deaths):
`HoldersExact` - the record says exactly who holds the lock, so a writer is alone -,
`NoSleepOnFreeLock`, and `WaitersAcquire`. Fairness: whoever holds releases, and a
wake-up runs to its end. `WaitersAcquire` excepts what can keep a thread waiting for
ever: suspension, a holder that died, and readers, which the code admits while a writer
waits.

**Proved** (`SrwProofs`), for any number of threads and everything on:
`NobodyAsleepOnFreeLock`, `HoldersAgree`, `LockQueuesExact`, `WriterAlone`. `LockInv`
adds to the queues that the record is coherent (a writer or readers, not both) and that
a parked thread asks for a mode; `HoldersInv` adds that parked threads hold nothing.

## 6. Asynchronous calls

A handler may return a promise. The dispatcher then keeps a record of the call
(`inFlight`) with the thread and its park generation, and the thread stands at a spin
loop until the answer, queued in `pending`, is put into its registers. Answers are
applied at tick boundaries and at the end of thunks (`PollCompletions`): those of other
threads by writing their saved context, that of the current thread into the CPU; an
answer whose generation is not the thread's is dropped. When nobody can run, the engine
yields to the host (`idle`). `eip` says whether the CPU is at the loop; `context`, where
a thread that is switched out stands; `awaiting` is what the guest believes, the
generation of the call it is in.

A turn of the JavaScript thread is atomic, and `stage` says how far it is: nothing but
its next step is enabled before it is over. Between turns promises settle in any order
and the guest of the current thread calls, spins, creates, suspends, resumes or
terminates threads; dead threads are reaped and their stacks given to new ones.

`MCAsync` (3 threads, 2 stacks, 3 generations, one suspension at a time and 2 in a run;
707 000 states) checks `NoRunAhead`: guest code goes on with the answer to its own call
and never without one; `NoLostAnswer`: the answer a thread waits for is still to come,
or queued and valid; `StacksHeld`: no handler at work loses the stack it points into,
and nobody stands on a freed one; and `CallsEnd`. Three threads are the one that waits,
the one whose answer comes first, and one that suspends, kills or replaces another;
three generations let a stale answer meet a later call. Fairness is stated of states:
promises settle, boundaries keep coming, the idle timer ends, and a READY thread gets
its turn - the order of the run queue is `Scheduler`'s business, and READY is a set here.

`NoLostAnswer` and `CallsEnd` except a thread that the safety net parked twice, which
does lose its answer: `MCAsyncLost`, [finding](#10-findings) 3.

**Left out.** Callback chains and suspended frames, pins, dispatcher epochs and reset,
the validity of stack addresses and the retries when a page is not writable for the
moment, the spin fallback for old thunks, the order of the run queue, CreateThread's own
reaping when memory is full, and CREATE_SUSPENDED.

**Proved** (`AsyncRestoreProofs`), for any number of threads, stacks and calls:
`OwnAnswerOnly`, `OneCallEach` (a thread has at most one call outstanding, which the
look-up by thread rests on), `AnswersKept`, `StacksStay`, and the types
(`AsyncTypeCorrect`). The invariant relates the call a thread awaits to its place: a
thread that awaits one is at the loop, in the CPU or in its context, and its generation
is that of the call or a later one; and every call of a thread that lives, in flight or
answered, is the one it awaits.

## 7. Synchronous streamed reads

The guest worker writes offset, length and a tag into the buffer, posts a message and
sleeps on `CTL_RESP_SEQ`; the I/O worker takes the message, loads the request, fetches,
and publishes payload, length, state and last the tag, then notifies. Every load and
store that the other side can see is a step, so the two interleave as memory allows
(the accesses are `Atomics`, ordered before and after plain ones by them and by the
message). The guest gives up after 30 s, or when the heartbeat stops - then the I/O
worker is replaced once, and the next time the source fails. The I/O worker keeps
reading for requests given up, and for several at once.

Bytes are abstracted to their position in the file, so that a byte from elsewhere is
told apart; `RangeReads` states the contract: the bytes of the range, all of them, or
null, or an exception. `KeepsPromise` is that contract as a property of `SabChannel`,
with `asked` and `answer` mapped to themselves.

Left out: `CTL_ERRNO` (never read), counters, reads refused at once (policy
`must-not-block`, recovering, failed: they change nothing), the asynchronous channel,
fill and close (for these, as the I/O worker sees them, see `StreamIo`). `terminate()` stops the I/O worker at once. The chunk cache behind the
I/O worker is "the bytes, or an error". One assumption is worth knowing: when the guest
gives up at the deadline the message of that request has been taken (guard of
`Deadline`). The heartbeat is a timer on the same event loop as the message handler
and has to be younger than 4 s, and the message is 30 s old. Without the guard a handler may load the
request while the guest writes the next one - offset of one, length of the other -
and `KeepsPromise` fails.

`MCSab` (file of 3 bytes, arena of 2, three tags, all faults; 447 000 states): three
tags are one given up, one under way that takes two pieces, and one after a restart.
`KeepsPromise`, `ArenaHeldStill`, `NoLostWakeup`, and `ReadsEnd` under weak fairness of
both workers and of the transfers, and none for the 500 ms slices of `Atomics.wait` nor
for any fault. `MaxSeq` bounds the tags; the wrap-around at 2^32 is not modelled.

**Proved** (`SabChannelProofs`), for any file, arena and number of requests:
`ArenaStill`, `WakeupComes`, and `PromiseKept`, that `SabChannel` implements
`RangeReads`. The invariant says of the current tag that it is in at most one of the
stages "message not taken", "being read", "being published", "published", and what the
words hold in each; and that older tags are never published once the current one is.
The comparison with `CTL_REQ_SEQ` happens long before the last store, and is enough
because the guest changes that word only after it has given up, which it does not do
while it copies.

## 8. The streamed I/O runtime

Behind the I/O worker, `StreamIoRuntime` makes a read of the chunks it covers, each
resident, on disk, or fetched. `rt` holds the fields of that object: the resident chunks
in order of use, `pending` (a promise for the chunk exists), the job queue, the running
transfers and the counters that admit jobs, the fill and its cursor. A message, the end
of a transfer or of the fill's timer is a task; what continues after an `await` is a
`microtasks` entry and runs, in order, before the next task - the order in which the
ends of a job, its readers and the fill run is what decides here. `GetChunk`, `Pump`,
`PumpFill` and the others are operators from one value of the object to the next,
named after its methods.

The I/O worker may crash at any point, between two microtasks too. The main worker
replaces it once (`Restart`): the object is new and empty, the disk cache is opened again
with all that was written, with part of a batch that was being written, without what
became the archive, or not at all. The asynchronous reads without an answer and the fill
are posted again (`posted`) and arrive before anything newer; a synchronous read has been
given up by then. A second crash, or a worker that does not start, rejects every read
(`RestartFails`). The crash, the start of the new worker and the posting are one step:
a read asked for meanwhile is posted with the others, as if asked for just before. An
answer counts as received when it is posted; were it lost with the old worker, the read
would be posted again and answered again, and an answer to a read that has one is
dropped (`onWorkerMessage`). The time limit of a read on the main worker is left out:
`DemandsAnswered` holds without it.

`MCStream` (3 chunks, 2 readers, each a sequential demand or a speculative read of up to
2 chunks, 1 resident chunk, 2 transfer slots of which speculation may use one, fill
batches of 2, one mishap: a transfer that fails or finds a new version of the archive, a
write that fails, or a crash of the worker; 445 000 states; without a disk, or with one
on which earlier launches left any of the chunks; a close at any point; a read-ahead up
to the end of the entry, wherever that is):

* `CountersExact` - the counters tell what is under way, through failures and the close;
* `OneFetch` - at most one job covers a chunk; `BytesRight` - slices of batches, joins
  and evictions never mix up the bytes;
* `ReadersServed` - what is pending has a job or a microtask that will settle it, and a
  read waits only for what is pending, or is among what was posted again;
* `NoIdleSlot` - between tasks a job that a demand awaits, whoever scheduled it first,
  waits only because every slot is taken;
* `FillComplete` - a fill that ran to its end without a mishap leaves no hole;
* `DemandsAnswered` and `FillEnds`, if transfers end, microtasks drain, timers fire and
  posted messages arrive; a demand is answered also across the replacement.
  `FillEnds` excepts reads that keep the fill out for ever.

Two readers, one chunk resident and two slots are the least for which reads join,
evict each other's chunks and queue up behind the other class. Seen while modelling:
`pumpFill` in the end of a job (line 55) starts the next batch in the same drain,
contrary to the comment at line 256; a prefetch that fails at the fill's cursor is still
pending when the end of its job runs `pumpFill`, so the cursor passes over it and the
fill ends with a hole, which stays until the next launch or worker (`FillComplete`
without `mishaps = 0`); jobs of the fill always start at once, so none is ever queued.

**Left out.** Statistics, the sizes of chunks (all have one, and reads end at their
ends), and everything of `io-worker.ts` that `SabChannel` has. The disk is one map here;
`SparseCache` is what is behind it.

**Proved** (`StreamIoProofs`), for any number of chunks, readers and transfer slots, any
size of the batches, the read-ahead and the resident set, any fill orders and any number
of failures: the invariants that `MCStream` checks, `TypeOK` to `FillComplete`
(`StreamTypes`, `StreamCounters`, `StreamOneFetch`, `StreamBytes`, `StreamReadersServed`,
`StreamNoIdleSlot`, `StreamFillComplete`). The assumption on the constants is
`StreamConstants`: a chunk and a slot at least, finitely many readers.

None of them is inductive, and none can be proved without the others: whether a
transfer may start depends on the counters, what a read waits for on who settles a chunk.
So there is one invariant, `StreamInv`, and one theorem `StreamInvHolds` from which the
rest follows. Its parts:

* `Claims` - a chunk is pending exactly if a queued job, a running one or a microtask will
  settle it, and only one of them will. This is where it matters that the code puts a
  chunk in `pending` before it schedules a job and takes it out in a microtask;
* `Counts` - the counters count the running jobs and the end of a job that is still to
  run, of which there is at most one, and never exceed their limits;
* `Ordered`, `Blocked` - the queue is sorted, and whatever waits in it waits for a slot.
  `PumpRight` shows that `Pump` restores this, though it stops at the first job that may
  not start: in a sorted queue the jobs behind it may not either. The ends of a read and
  of a job first disturb it and then pump. With `PumpFillRight` it also shows that a job
  of the fill is never left in the queue;
* `ReadsOK`, `Awaited` - a read that is not complete waits for pending chunks only, and
  a demand for none that is queued as speculation. `ReceiveRight` is the lemma about what
  a microtask hands to the readers: whoever waits for a chunk that was settled has it or
  has ended;
* `EndsOK` and the conjunct on `demands` - a read ends once, so the counter of demands is
  taken down once for each;
* `DiskOK`, `FillOK` - what the disk holds is right, and as long as nothing failed, what
  the fill has passed and what microtasks are about to settle is on disk. The fill
  passes over a chunk that is pending, so this needs that nothing is queued or running
  then, hence that only a microtask can settle it (`Claims`).

TLC checked each part on the instance of `MCStream` before it was proved. The two
recursive functions, the read-ahead and the chunks of a read, are covered by induction
on the number of chunks taken, by the least counterexample: the prover can use no
induction theorem. `DemandsAnswered` and `FillEnds` are liveness and stay with TLC.

## 9. The sparse disk cache

A streamed bundle's chunks are appended to a packed file in the order of their arrival;
the table says in which slot each is. When all are there the cache is promoted: copied in
order to a new file that is renamed to the bundle's own name. A launch that finds a file
of that name plays from it, unless the server has another version; a bundle that cannot
be streamed is downloaded whole, to a new file, or into the file of that name itself.
`packed`, `table`, `part`, `archive` and `archiveVersion` are the five files of a bundle,
each with what a reader sees now and what was flushed last; `slots`, `complete` and
`writable` are the fields of `SparseWgbCache` and the `diskWritable` of its owner. `pc`
says which write is next; an action flushes one file and writes to the next, and the
program may stop between any two (a crash between the flush and the write leaves one of
the states that a crash after both leaves). Restoring and writing are synchronous.
Promotion is not, but it starts when all the chunks are there, after which a write
returns at once.

`TabDies` leaves the files as they read now; `MachineStops` leaves what a stopped machine
may leave, as unfavourably as the browser allows: of the writes since the last flush each
cell - a chunk, a slot, the header, the length - keeps its old or new value,
independently, or is torn. Renaming, removing, and closing a writable stream are atomic.
`Restart` is a new I/O worker in a session that goes on. The other actions of the world:
a write, a download or a promotion that throws, another bundle that needs space, a new
version on the server. All versions are taken to have one size, the worst case for the
check by length; the last chunk stands for the one with the end-of-directory record.

`MCSparse` (3 chunks, 2 versions; 271 000 states) checks `PresentIsRight`: a chunk the
cache says it has is that chunk of the version that is played; `ArchiveRight`: what a
launch takes for the whole bundle is one, of the version the server confirmed; and
`KeepsPromise`, the refinement of `ChunkStore`: what was stored survives every crash, a
half-done promotion included. The abstract set is the chunks the table or the archive has
of the version played - while closed, of the one the server has - in every state. Three
chunks are an earlier one, one that is being written and one that is not there; two
versions are enough for a table of the one over data of the other.

**Proved** (`SparseCacheProofs`), for any number of chunks and versions: `PresentRight`,
`ArchiveIsRight` and `Implements`. The heart of the invariant is `FilesAgree`, a relation
between the packed file and the table, each as it is now and as flushed: either nothing
is in the packed file, or, if the table is of a version that may still be opened, every
one of the two tables fits every one of the two packed files, and they differ in one slot
at most. A crash then leaves one of the two tables, whole, over a file it fits. Its
steps use the order of the flushes when a chunk is written (`BeforeData`, `BeforeSlot`,
`BeforeCommit`) and when the cache is emptied.
`Promote` copies through the table, hence makes a whole archive by `PresentIsRight`; the
refinement needs that the archive is complete on disk before the table goes.

Seen while modelling:

* `ArchiveRight` has an exception (`Holed /\ inPlace`). `downloadWithProgress` and
  `writeCacheFile` may write under the bundle's own name, which the comment at
  `wgb-cache.ts:345` advises against. A machine that stops before the flush can leave a
  file of full size with a hole and a good tail; and if `version.json` of that version is
  left from an earlier copy, as after an eviction, the next launch plays it. Partial
  files are caught by their size or the missing end record.
* A new I/O worker after a promotion opens an empty packed file although the archive is
  on disk, and downloads everything again.
* `stageInBackground` has no caller.

**Left out.** Errors of reading or truncating while restoring, after which the cache is
emptied; bundles without a strong validator, which are not cached; the sizes and the
layout that `restore` checks beside the slots; bundles mounted from the user's disk, which
overwrite a file of the same name; several tabs; the access times that choose what is
evicted.

## 10. Findings

Three are runs that TLC must find violated.

1. `MCWaitAllAuto` - *code bug*, `core/scheduler/scheduler.ts:4878`. The loop over the
   waiters of a handle ends as soon as a woken waiter consumed an auto-reset event, even
   another one than the handle signalled: SetEvent on a manual-reset event that
   satisfies a wait for both leaves the next waiter of the manual-reset event asleep.
2. `MCSectionsCondition` - *code bug*, `scheduler.ts:4793`. A woken
   `SleepConditionVariableCS` takes the section without looking whether it is held: a
   guest that signals inside the section, the usual way, loses it.
3. `MCAsyncLost` - *code bug*, `scheduler.ts:1099`. The safety net of the tick boundary
   parks a thread that it finds at the spin loop again as soon as an answer is queued for
   *any* thread. A thread that was suspended and resumed while its promise is unsettled
   is found there; the new park gives it a new generation, its own answer is dropped as
   stale, and it waits for ever. `hasPendingAsyncRestoreForThread` asks the right
   question.

Others were seen while modelling. The properties except the situation; each shows again
with the change given in brackets.

* `modules/kernel32/sync.ts:728`: with only suspended waiters, Leave keeps the old owner
  in the record; it may re-enter, and the resumed waiter is written as owner over it
  (`OwnerIsInside` without `PlainGuest`).
* `sync.ts:462` against the comment at 619 ("steal ownership instead of parking
  forever"): the reset of a section whose owner was reaped forgets the event that
  suspended waiters are parked on. Of two such waiters the first that is resumed takes
  the section; the second stays asleep on its event when the section is free again
  (`NoSleepOnFreeSection` with the first conjunct for the waiters in `forgotten`, too).
* `scheduler.ts:2886` against `sync.ts:662`: a contended Enter that finds the event
  signalled owns the section and is sent to the spin loop all the same (`EnterReturns`
  without its condition).
* `scheduler.ts:3006` against the comment at 4806: `SleepConditionVariableSRW` with a
  zero timeout may return without the lock (`HoldersExact` of `holds` instead of
  `Entitled`).
* `scheduler.ts:2543` against the comment at 2422: a wait for all handles *and input*
  ends on the handles alone.
* `scheduler.ts:4966` against the comment at 4314: threads that have never waited are
  preferred without end; two of them starve everyone else (`ReadyThreadsRun` without
  `bootstrap` in `Precede`).
* `thunk-dispatcher.ts:3763`: an answer whose stack page is not writable for the moment
  is retried in the first phase of the poll, but the second phase applies the current
  thread's answer in the same poll regardless, and `applyAsyncRestoreCpuState` rejects it
  and stops the worker, against the comment at 3764 (not modelled).
* Those of the [I/O runtime](#8-the-streamed-io-runtime) and of the
  [disk cache](#9-the-sparse-disk-cache), in their sections.

## 11. Plan

Done: 1 `SyncObjects`, `Scheduler`; 2 `CriticalSections`, `SrwLocks`; 3 `RangeReads`,
`SabChannel`; 4 `ChunkStore`, `SparseCache`; 5 `StreamIo`; 6 `AsyncRestore`; and theorems
of each.

What could follow, in this order:

7. `SabAsync` - the asynchronous channel with its time limits, message by message:
   every read is settled once. Composed with `SabChannel` over one source state.
8. `TimerWheel` - callbacks that add, cancel and reschedule inside the poll; implements
   an abstract set of timers.
9. `EventMirror`, `MutexMirror` - WASM fast paths against the scheduler.
10. `AudioRing`, `MessageQueue`, then `RelayLink`, `AtomicPorts`.

A theorem still wanted: that `Scheduler` implements an abstract "Win32 wait"
specification, which is still to be written.

Not modelled, and why: the timer wheel and guest memory are sequential data structures
that unit tests reach; the handlers that read the mirrors are WASM outside the
repository; CloseHandle with waiters is undefined on Windows as well; the message
queue, the audio rings, the render worker, child processes and networking each need a
module of their own and touch the core modelled here only by its wake-ups; graphics,
codecs, formats, the PE loader, tools and the user interface are translation, without a
protocol. `PROJECT.json` says it for each part, and for each hazard that no property
covers.

Out of the prover's reach, and checked by TLC only: liveness, ENABLED, and what
recursive definitions compute.

## 12. Running it

    tlc -config MCEvents.cfg MCScheduler      # a run: see PROJECT.json for the module of each
    tlapm SchedulerProofs.tla                 # a proof module

Each run takes at most two minutes on a laptop, all the proofs together half an hour.
