----------------------------- MODULE SabChannel -----------------------------
(***************************************************************************)
(* Synchronous file reads over a SharedArrayBuffer: the guest worker       *)
(* (sab-io-source.ts) writes a request into the buffer, posts a message to *)
(* the I/O worker (io-worker.ts) and sleeps on the word CTL_RESP_SEQ until *)
(* the I/O worker has published the answer there (sab-io-protocol.ts).     *)
(*                                                                         *)
(* Each load and store of the buffer is a step of its own, and the two     *)
(* workers interleave.  The guest may give a request up, after 30 s or     *)
(* when the I/O worker's heartbeat stops; the I/O worker may still be      *)
(* reading for it, and reads for several requests at a time.  The I/O      *)
(* worker may stop at any point: nothing makes it take a step.             *)
(*                                                                         *)
(* The arena is one slot of DataBytes bytes; longer reads take several     *)
(* requests.  CTL_ERRNO is written and never read, and left out, as are    *)
(* the counters.  terminate() is taken to stop the I/O worker at once.     *)
(***************************************************************************)
EXTENDS Naturals

CONSTANTS
    Size,           \* of the file
    DataBytes,      \* DATA_BYTES: what the arena holds
    MaxSeq,         \* bound: the tag after which no read is started
    Faults          \* which of these happen: "deadline", "stale", "error"

ASSUME SabConstants ==
    /\ Size \in Nat \ {0}
    /\ DataBytes \in Nat \ {0}
    /\ MaxSeq \in Nat
    /\ Faults \subseteq {"deadline", "stale", "error"}

VARIABLES
    \* the buffer
    meta,           \* META_REQ_OFF, META_REQ_LEN and META_REQ_SEQ
    reqSeq,         \* CTL_REQ_SEQ
    state,          \* CTL_STATE
    respLen,        \* CTL_RESP_LEN
    respSeq,        \* CTL_RESP_SEQ
    arena,          \* the payload
    \* the guest
    pc,             \* what it does next
    asked,          \* the range of the read under way
    done, out,      \* how many bytes it has so far, and the bytes
    seq,            \* _seq: tag of its last request
    seen,           \* what it last loaded from CTL_RESP_SEQ
    answer,         \* what the last read came to
    source,         \* "live", "recovering" or "failed"
    restarted,      \* the I/O worker has been replaced once
    \* the I/O worker
    mailbox,        \* messages it has not taken yet
    taking,         \* the request its handler is loading
    reading,        \* requests it awaits the bytes of
    publishing      \* the answer it is publishing

ctlVars == <<reqSeq, state, respLen, respSeq>>
sabVars == <<meta, ctlVars, arena>>
readVars == <<asked, done, out, answer>>
guestVars == <<pc, readVars, seq, seen, source, restarted>>
workerVars == <<mailbox, taking, reading, publishing>>
vars == <<sabVars, guestVars, workerVars>>

Promise == INSTANCE RangeReads

-----------------------------------------------------------------------------
Blank == Size       \* what a byte nobody has written holds: no byte of the file

NoRequest == [off |-> 0, len |-> 0, seq |-> 0]
NoHandler == [step |-> "none", off |-> 0, len |-> 0]
NoAnswer == [step |-> "none", req |-> NoRequest, ok |-> FALSE]

BlankArena == [i \in 0..(DataBytes - 1) |-> Blank]

Init ==
    /\ meta = NoRequest
    /\ reqSeq = 0 /\ state = "idle" /\ respLen = 0 /\ respSeq = 0
    /\ arena = BlankArena
    /\ pc = "idle"
    /\ asked = Promise!NoRange
    /\ done = 0 /\ out = Promise!NoBytes
    /\ seq = 0 /\ seen = 0
    /\ answer = Promise!Null
    /\ source = "live"
    /\ restarted = FALSE
    /\ mailbox = 0
    /\ taking = NoHandler
    /\ reading = {}
    /\ publishing = NoAnswer

Smaller(m, n) == IF m < n THEN m ELSE n

\* The request under way: the next piece of the read.
Request == [off |-> asked.start + done,
            len |-> Smaller(DataBytes, asked.total - done),
            seq |-> seq]

-----------------------------------------------------------------------------
(* The guest: readRangeSync, and request() for each piece.                 *)

\* The read under way ends.
Return(a) ==
    /\ answer' = a
    /\ pc' = "idle"
    /\ asked' = Promise!NoRange
    /\ done' = 0 /\ out' = Promise!NoBytes

\* A read starts.  While the I/O worker is being replaced, and once the
\* source has failed, it is refused at once.
StartRead(range) ==
    /\ pc = "idle"
    /\ source = "live"
    /\ seq < MaxSeq
    /\ asked' = range
    /\ pc' = "tag"
    /\ UNCHANGED <<sabVars, done, out, answer, seq, seen, source, restarted, workerVars>>

NextTag ==
    /\ pc = "tag"
    /\ seq' = seq + 1
    /\ pc' = "off"
    /\ UNCHANGED <<sabVars, readVars, seen, source, restarted, workerVars>>

StoreOff ==
    /\ pc = "off"
    /\ meta' = [meta EXCEPT !.off = Request.off]
    /\ pc' = "len"
    /\ UNCHANGED <<ctlVars, arena, readVars, seq, seen, source, restarted, workerVars>>

StoreLen ==
    /\ pc = "len"
    /\ meta' = [meta EXCEPT !.len = Request.len]
    /\ pc' = "seq"
    /\ UNCHANGED <<ctlVars, arena, readVars, seq, seen, source, restarted, workerVars>>

StoreSeq ==
    /\ pc = "seq"
    /\ meta' = [meta EXCEPT !.seq = seq]
    /\ pc' = "reqSeq"
    /\ UNCHANGED <<ctlVars, arena, readVars, seq, seen, source, restarted, workerVars>>

StoreReqSeq ==
    /\ pc = "reqSeq"
    /\ reqSeq' = seq
    /\ pc' = "state"
    /\ UNCHANGED <<meta, state, respLen, respSeq, arena, readVars, seq, seen, source,
                   restarted, workerVars>>

StoreState ==
    /\ pc = "state"
    /\ state' = "req"
    /\ pc' = "post"
    /\ UNCHANGED <<meta, reqSeq, respLen, respSeq, arena, readVars, seq, seen, source,
                   restarted, workerVars>>

PostMessage ==
    /\ pc = "post"
    /\ mailbox' = mailbox + 1
    /\ pc' = "load"
    /\ UNCHANGED <<sabVars, readVars, seq, seen, source, restarted, taking, reading,
                   publishing>>

\* Is the answer there, and is it the answer to this request?
LoadRespSeqAny ==       \* mutant
    /\ pc = "load"
    /\ seen' = respSeq
    /\ pc' = IF respSeq # seen THEN "answered" ELSE "wait"
    /\ UNCHANGED <<sabVars, readVars, seq, source, restarted, workerVars>>

LoadRespSeq ==
    /\ pc = "load"
    /\ seen' = respSeq
    /\ pc' = IF respSeq = seq THEN "answered" ELSE "wait"
    /\ UNCHANGED <<sabVars, readVars, seq, source, restarted, workerVars>>

\* Atomics.wait: sleep, unless the word has changed since it was loaded.
WaitRegardless ==       \* mutant
    /\ pc = "wait"
    /\ pc' = "asleep"
    /\ UNCHANGED <<sabVars, readVars, seq, seen, source, restarted, workerVars>>

Wait ==
    /\ pc = "wait"
    /\ pc' = IF respSeq = seen THEN "asleep" ELSE "awake"
    /\ UNCHANGED <<sabVars, readVars, seq, seen, source, restarted, workerVars>>

\* The 500 ms slice of Atomics.wait is over.
SliceExpires ==
    /\ pc = "asleep"
    /\ pc' = "awake"
    /\ UNCHANGED <<sabVars, readVars, seq, seen, source, restarted, workerVars>>

LookAgain ==
    /\ pc = "awake"
    /\ pc' = "load"
    /\ UNCHANGED <<sabVars, readVars, seq, seen, source, restarted, workerVars>>

\* The 30 s are over.  By then the I/O worker, whose heartbeat has not
\* stopped, has taken the message.
Deadline ==
    /\ "deadline" \in Faults
    /\ pc = "awake"
    /\ respSeq # seq
    /\ mailbox = 0 /\ taking = NoHandler
    /\ state' = "idle"
    /\ Return(Promise!Thrown)
    /\ UNCHANGED <<meta, reqSeq, respLen, respSeq, arena, seq, seen, source, restarted,
                   workerVars>>

\* recover: the first time, the I/O worker is terminated and the control
\* words are zeroed for the next one; the second time, the source fails.
Recover ==
    IF restarted
    THEN /\ source' = "failed"
         /\ UNCHANGED <<sabVars, restarted, workerVars>>
    ELSE /\ source' = "recovering"
         /\ restarted' = TRUE
         /\ reqSeq' = 0 /\ state' = "idle" /\ respLen' = 0 /\ respSeq' = 0
         /\ mailbox' = 0
         /\ taking' = NoHandler
         /\ reading' = {}
         /\ publishing' = NoAnswer
         /\ UNCHANGED <<meta, arena>>

\* The heartbeat is more than 4 s old: the read returns null, or throws.
HeartbeatStops ==
    /\ "stale" \in Faults
    /\ pc = "awake"
    /\ Recover
    /\ Return(IF restarted THEN Promise!Thrown ELSE Promise!Null)
    /\ UNCHANGED <<seq, seen>>

\* onerror, which reaches the guest between reads only.
WorkerError ==
    /\ "error" \in Faults
    /\ pc = "idle"
    /\ source = "live"
    /\ Recover
    /\ UNCHANGED <<pc, readVars, seq, seen>>

\* The new I/O worker is ready, or could not be initialised.
RecoveryEnds ==
    /\ pc = "idle"
    /\ source = "recovering"
    /\ source' \in {"live", "failed"}
    /\ UNCHANGED <<sabVars, pc, readVars, seq, seen, restarted, workerVars>>

\* The answer is an error.
ReadError ==
    /\ pc = "answered"
    /\ state = "err"
    /\ state' = "idle"
    /\ Return(Promise!Thrown)
    /\ UNCHANGED <<meta, reqSeq, respLen, respSeq, arena, seq, seen, source, restarted,
                   workerVars>>

\* The bytes are copied out and the slot is released; a short answer is a
\* failed read.
Copied ==
    [i \in 0..(done + respLen - 1) |-> IF i < done THEN out[i] ELSE arena[i - done]]

Copy ==
    /\ pc = "answered"
    /\ state # "err"
    /\ state' = "idle"
    /\ IF respLen # Request.len
       THEN Return(Promise!Thrown)
       ELSE IF done + respLen = asked.total
            THEN Return(Promise!Bytes(Copied))
            ELSE /\ done' = done + respLen
                 /\ out' = Copied
                 /\ pc' = "tag"
                 /\ UNCHANGED <<asked, answer>>
    /\ UNCHANGED <<meta, reqSeq, respLen, respSeq, arena, seq, seen, source, restarted,
                   workerVars>>

-----------------------------------------------------------------------------
(* The I/O worker: one thread, which runs a handler up to its await.       *)

\* The handler of a message loads the request.
TakeMessage ==
    /\ mailbox > 0
    /\ taking = NoHandler /\ publishing = NoAnswer
    /\ mailbox' = mailbox - 1
    /\ taking' = [step |-> "len", off |-> meta.off, len |-> 0]
    /\ UNCHANGED <<sabVars, guestVars, reading, publishing>>

LoadLen ==
    /\ taking.step = "len"
    /\ taking' = [taking EXCEPT !.step = "seq", !.len = meta.len]
    /\ UNCHANGED <<sabVars, guestVars, mailbox, reading, publishing>>

LoadSeq ==
    /\ taking.step = "seq"
    /\ reading' = reading \cup {[off |-> taking.off, len |-> taking.len, seq |-> meta.seq]}
    /\ taking' = NoHandler
    /\ UNCHANGED <<sabVars, guestVars, mailbox, publishing>>

\* The bytes of a request have arrived, or failed to: publish the answer, or
\* drop it when the request is no longer the current one.
BeginPublishUnchecked(req, ok) ==       \* mutant
    /\ taking = NoHandler /\ publishing = NoAnswer
    /\ reading' = reading \ {req}
    /\ publishing' = [step |-> IF ok THEN "data" ELSE "state", req |-> req, ok |-> ok]
    /\ UNCHANGED <<sabVars, guestVars, mailbox, taking>>

BeginPublish(req, ok) ==
    /\ taking = NoHandler /\ publishing = NoAnswer
    /\ reading' = reading \ {req}
    /\ publishing' =
         IF req.seq = reqSeq
         THEN [step |-> IF ok THEN "data" ELSE "state", req |-> req, ok |-> ok]
         ELSE NoAnswer
    /\ UNCHANGED <<sabVars, guestVars, mailbox, taking>>

PublishStep(from, to) ==
    /\ publishing.step = from
    /\ publishing' = [publishing EXCEPT !.step = to]
    /\ UNCHANGED <<meta, reqSeq, guestVars, mailbox, taking, reading>>

PublishData ==
    /\ PublishStep("data", "len")
    /\ arena' = [i \in DOMAIN arena |->
                   IF i < publishing.req.len THEN publishing.req.off + i ELSE arena[i]]
    /\ UNCHANGED <<state, respLen, respSeq>>

PublishLen ==
    /\ PublishStep("len", "state")
    /\ respLen' = publishing.req.len
    /\ UNCHANGED <<arena, state, respSeq>>

PublishState ==
    /\ PublishStep("state", "seq")
    /\ state' = IF publishing.ok THEN "done" ELSE "err"
    /\ UNCHANGED <<arena, respLen, respSeq>>

PublishSeq ==
    /\ PublishStep("seq", "notify")
    /\ respSeq' = publishing.req.seq
    /\ UNCHANGED <<arena, state, respLen>>

Notify ==
    /\ publishing.step = "notify"
    /\ publishing' = NoAnswer
    /\ pc' = IF pc = "asleep" THEN "awake" ELSE pc
    /\ UNCHANGED <<sabVars, readVars, seq, seen, source, restarted, mailbox, taking,
                   reading>>

-----------------------------------------------------------------------------
GuestNext ==
    \/ NextTag \/ StoreOff \/ StoreLen \/ StoreSeq \/ StoreReqSeq \/ StoreState
    \/ PostMessage \/ LoadRespSeq \/ Wait \/ LookAgain \/ ReadError \/ Copy

FaultNext ==
    SliceExpires \/ Deadline \/ HeartbeatStops \/ WorkerError \/ RecoveryEnds

WorkerNext ==
    \/ TakeMessage \/ LoadLen \/ LoadSeq
    \/ PublishData \/ PublishLen \/ PublishState \/ PublishSeq \/ Notify

Next ==
    \/ \E range \in Promise!Ranges : StartRead(range)
    \/ GuestNext
    \/ FaultNext
    \/ WorkerNext
    \/ \E req \in reading, ok \in BOOLEAN : BeginPublish(req, ok)

Spec == Init /\ [][Next]_vars

\* Neither worker stops, and an answer that can be published some day is;
\* the slices of Atomics.wait need not expire.
FairSpec ==
    /\ Spec
    /\ WF_vars(GuestNext)
    /\ WF_vars(WorkerNext)
    /\ WF_vars(\E req \in reading, ok \in BOOLEAN : BeginPublish(req, ok))

-----------------------------------------------------------------------------
(* Properties.                                                             *)

\* Every variable keeps its type.
TypeOK ==
    /\ meta \in [off : Nat, len : Nat, seq : Nat]
    /\ reqSeq \in Nat /\ respLen \in Nat /\ respSeq \in Nat
    /\ state \in {"idle", "req", "done", "err"}
    /\ arena \in [0..(DataBytes - 1) -> Nat]
    /\ pc \in {"idle", "tag", "off", "len", "seq", "reqSeq", "state", "post",
               "load", "wait", "asleep", "awake", "answered"}
    /\ asked \in Promise!Ranges \cup {Promise!NoRange}
    /\ seq \in Nat /\ seen \in Nat
    /\ source \in {"live", "recovering", "failed"}
    /\ restarted \in BOOLEAN
    /\ mailbox \in Nat
    /\ done \in Nat

(* A read that returns bytes returns the bytes of the range it was asked   *)
(* for: never a late answer to a request that was given up, "the right     *)
(* LENGTH of bytes from the wrong offset" (sab-io-seq.test.ts), nor bytes  *)
(* of two answers mixed.                                                   *)
KeepsPromise == Promise!Spec

(* The arena stays as it is while the guest copies out of it: the I/O      *)
(* worker "drops a completion whose sequence is no longer current BEFORE   *)
(* touching the shared payload arena" (sab-io-protocol.ts), although it    *)
(* looks at the sequence once, well before its last store.                 *)
ArenaHeldStill == pc = "answered" => publishing.step \in {"none", "notify"}

(* A guest that sleeps while the word it sleeps on has changed is about to *)
(* be notified: re-loading the observed value before each wait "closes the *)
(* lost-wakeup race" (request), without help from the 500 ms slices.       *)
NoLostWakeup == pc = "asleep" /\ respSeq # seen => publishing.step = "notify"

(* When nothing is given up, every read ends, and by notification alone.   *)
ReadsEnd == pc # "idle" ~> pc = "idle"
=============================================================================
