-------------------------- MODULE SabChannelProofs --------------------------
(***************************************************************************)
(* The channel keeps the promise of readRangeSync, for every file, arena   *)
(* and number of requests.  The inductive invariant says, of every         *)
(* request the I/O worker still works for, whether it is the current one,  *)
(* and if so how far its answer has got: at most one of "not yet taken",   *)
(* "being read", "being published" and "published" holds of a tag, and an  *)
(* answer to an older tag cannot be published once that of the current     *)
(* one has been, since it was dropped at the comparison with CTL_REQ_SEQ.  *)
(***************************************************************************)
EXTENDS SabChannel, TLAPS

Writing == {"off", "len", "seq", "reqSeq", "state", "post"}
Waiting == {"load", "wait", "asleep", "awake"}

Requests == [off : Nat, len : Nat, seq : Nat]
Answers ==
    [step : {"none", "data", "len", "state", "seq", "notify"}, req : Requests, ok : BOOLEAN]
Handlers == [step : {"none", "len", "seq"}, off : Nat, len : Nat]

Types ==
    /\ TypeOK
    /\ reading \subseteq Requests
    /\ publishing \in Answers
    /\ taking \in Handlers
    /\ publishing.step = "none" => publishing = NoAnswer
    /\ taking.step = "none" => taking = NoHandler
    /\ publishing.step \in {"data", "len"} => publishing.ok
    /\ source # "live" => pc = "idle"

\* The read under way has the first bytes of its range.
ReadSoFar ==
    /\ pc = "idle" <=> asked = Promise!NoRange
    /\ pc = "idle" => done = 0
    /\ pc # "idle" =>
         /\ asked \in Promise!Ranges
         /\ done < asked.total
         /\ \A i \in 0..(done - 1) : out[i] = asked.start + i

\* What the buffer says of the request under way.
Requested ==
    /\ pc \in (Writing \ {"off"}) \cup Waiting => meta.off = Request.off
    /\ pc \in (Writing \ {"off", "len"}) \cup Waiting => meta.len = Request.len
    /\ pc \in {"reqSeq", "state", "post"} \cup Waiting => meta.seq = seq
    /\ pc \in {"state", "post", "answered"} \cup Waiting => reqSeq = seq

\* The message of a request is taken while the guest waits for its answer.
Delivered ==
    /\ mailbox > 0 =>
         /\ mailbox = 1
         /\ taking.step = "none"
         /\ pc \in Waiting \/ source = "failed"
    /\ taking.step # "none" =>
         /\ publishing.step = "none"
         /\ pc \in Waiting \/ source = "failed"
         /\ taking.off = meta.off
    /\ taking.step = "seq" => taking.len = meta.len

\* No tag is from the future.
Tagged ==
    /\ meta.seq <= seq /\ reqSeq <= seq /\ respSeq <= seq
    /\ \A r \in reading : r.seq <= seq
    /\ publishing.req.seq <= seq

\* Nothing has been done yet for the current tag.
Untouched ==
    /\ respSeq < seq
    /\ \A r \in reading : r.seq < seq
    /\ publishing.req.seq < seq

Untaken ==
    /\ pc \in Writing => Untouched
    /\ pc \in Waiting /\ (mailbox > 0 \/ taking.step # "none") => Untouched

\* The arena holds the bytes of the request, and the words say so.
HasBytes == \A i \in 0..(Request.len - 1) : arena[i] = Request.off + i
HasAnswer ==
    state = "err" \/ (state = "done" /\ respLen = Request.len /\ HasBytes)

\* The current request is read once, and published once it has been read.
BeingRead ==
    pc \in Waiting =>
        \A r \in reading : r.seq = seq =>
            r = Request /\ respSeq < seq /\ publishing.req.seq < seq

BeingPublished ==
    pc \in Waiting /\ publishing.step # "none" /\ publishing.req.seq = seq =>
        /\ publishing.req = Request
        /\ \A r \in reading : r.seq < seq
        /\ publishing.step = "len" => HasBytes
        /\ publishing.step = "state" /\ publishing.ok =>
             HasBytes /\ respLen = Request.len
        /\ publishing.step \in {"seq", "notify"} => HasAnswer
        /\ publishing.step # "notify" => respSeq < seq

Published ==
    pc \in Waiting \cup {"answered"} /\ respSeq = seq =>
        /\ HasAnswer
        /\ mailbox = 0 /\ taking.step = "none"
        /\ publishing.step \in {"none", "notify"}
        /\ \A r \in reading : r.seq < seq

\* The guest copies only what answers its request.
AnsweredNow == pc = "answered" => respSeq = seq

IInv ==
    /\ Types /\ ReadSoFar /\ Requested /\ Delivered /\ Tagged /\ Untaken
    /\ BeingRead /\ BeingPublished /\ Published /\ AnsweredNow
    /\ NoLostWakeup
-----------------------------------------------------------------------------
(* Every step of either worker keeps the types.                            *)
LEMMA TypesKept == IInv /\ [Next]_vars => Types'
<1> SUFFICES ASSUME IInv, [Next]_vars
             PROVE  Types'
    OBVIOUS
<1> USE SabConstants
    DEF IInv, Types, TypeOK, vars, sabVars, ctlVars, guestVars, readVars, workerVars
<1>1. /\ NoHandler \in Handlers /\ NoHandler.step = "none"
      /\ NoAnswer \in Answers /\ NoAnswer.step = "none"
    BY DEF NoHandler, NoAnswer, NoRequest, Handlers, Answers, Requests
<1>2. ASSUME NEW range \in Promise!Ranges, StartRead(range)
      PROVE  Types'
    BY <1>2 DEF StartRead
<1>3. CASE NextTag
    BY <1>3 DEF NextTag
<1>4. CASE StoreOff
  <2>0. asked.start \in Nat /\ asked.total \in Nat /\ done < asked.total
    BY <1>4 DEF StoreOff, ReadSoFar, Promise!Ranges
  <2>1. Request.off \in Nat
    BY <2>0 DEF Request, Smaller
  <2>2. meta' \in [off : Nat, len : Nat, seq : Nat]
    BY <1>4, <2>1 DEF StoreOff
  <2> QED
    BY <1>4, <2>2 DEF StoreOff
<1>5. CASE StoreLen
  <2>0. asked.start \in Nat /\ asked.total \in Nat /\ done < asked.total
    BY <1>5 DEF StoreLen, ReadSoFar, Promise!Ranges
  <2>1. Request.len \in Nat
    BY <2>0 DEF Request, Smaller
  <2>2. meta' \in [off : Nat, len : Nat, seq : Nat]
    BY <1>5, <2>1 DEF StoreLen
  <2> QED
    BY <1>5, <2>2 DEF StoreLen
<1>6. CASE StoreSeq
    BY <1>6 DEF StoreSeq
<1>7. CASE StoreReqSeq
    BY <1>7 DEF StoreReqSeq
<1>8. CASE StoreState
    BY <1>8 DEF StoreState
<1>9. CASE PostMessage
    BY <1>9 DEF PostMessage
<1>10. CASE LoadRespSeq
    BY <1>10 DEF LoadRespSeq
<1>11. CASE Wait
    BY <1>11 DEF Wait
<1>12. CASE LookAgain
    BY <1>12 DEF LookAgain
<1>13. CASE ReadError
    BY <1>13 DEF ReadError, Return
<1>14. CASE Copy
  <2>1. done' \in Nat /\ asked' \in Promise!Ranges \cup {Promise!NoRange}
    BY <1>14 DEF Copy, Return
  <2>2. pc' \in {"idle", "tag"} /\ state' = "idle" /\ source = "live"
    BY <1>14 DEF Copy, Return
  <2> QED
    BY <1>14, <2>1, <2>2 DEF Copy
<1>15. CASE SliceExpires
    BY <1>15 DEF SliceExpires
<1>16. CASE Deadline
    BY <1>16 DEF Deadline, Return
<1>17. CASE HeartbeatStops
  <2>1. CASE restarted
    BY <1>17, <2>1 DEF HeartbeatStops, Return, Recover
  <2>2. CASE ~restarted
    BY <1>1, <1>17, <2>2 DEF HeartbeatStops, Return, Recover
  <2> QED
    BY <2>1, <2>2
<1>18. CASE WorkerError
  <2>1. CASE restarted
    BY <1>18, <2>1 DEF WorkerError, Recover
  <2>2. CASE ~restarted
    BY <1>1, <1>18, <2>2 DEF WorkerError, Recover
  <2> QED
    BY <2>1, <2>2
<1>19. CASE RecoveryEnds
    BY <1>19 DEF RecoveryEnds
<1>20. CASE TakeMessage
    BY <1>20, <1>1 DEF TakeMessage, Handlers
<1>21. CASE LoadLen
    BY <1>21 DEF LoadLen, Handlers
<1>22. CASE LoadSeq
    BY <1>22, <1>1 DEF LoadSeq, Handlers, Requests
<1>23. CASE PublishData
  <2>1. publishing' \in Answers /\ publishing'.step = "len" /\ publishing'.ok = publishing.ok
    BY <1>23 DEF PublishData, PublishStep, Answers
  <2>2. \A i \in 0..(DataBytes - 1) : publishing.req.off + i \in Nat
    BY DEF Answers, Requests
  <2>3. arena' \in [0..(DataBytes - 1) -> Nat]
    BY <1>23, <2>2 DEF PublishData, PublishStep
  <2> QED
    BY <1>23, <2>1, <2>3 DEF PublishData, PublishStep
<1>24. CASE PublishLen
  <2>1. publishing' \in Answers /\ publishing'.step = "state" /\ publishing'.ok = publishing.ok
    BY <1>24 DEF PublishLen, PublishStep, Answers
  <2> QED
    BY <1>24, <2>1 DEF PublishLen, PublishStep, Answers, Requests
<1>25. CASE PublishState
  <2>1. publishing' \in Answers /\ publishing'.step = "seq" /\ publishing'.ok = publishing.ok
    BY <1>25 DEF PublishState, PublishStep, Answers
  <2> QED
    BY <1>25, <2>1 DEF PublishState, PublishStep, Answers, Requests
<1>26. CASE PublishSeq
  <2>1. publishing' \in Answers /\ publishing'.step = "notify" /\ publishing'.ok = publishing.ok
    BY <1>26 DEF PublishSeq, PublishStep, Answers
  <2> QED
    BY <1>26, <2>1 DEF PublishSeq, PublishStep, Answers, Requests
<1>27. CASE Notify
    BY <1>27, <1>1 DEF Notify
<1>28. ASSUME NEW req \in reading, NEW ok \in BOOLEAN, BeginPublish(req, ok)
      PROVE  Types'
  <2>1. publishing' \in Answers
    BY <1>1, <1>28 DEF BeginPublish, Answers
  <2> QED
    BY <1>28, <2>1 DEF BeginPublish, NoAnswer
<1>29. CASE UNCHANGED vars
    BY <1>29
<1> QED
    BY <1>2, <1>3, <1>4, <1>5, <1>6, <1>7, <1>8, <1>9, <1>10, <1>11, <1>12, <1>13, <1>14, <1>15, <1>16, <1>17, <1>18, <1>19, <1>20, <1>21, <1>22, <1>23, <1>24, <1>25, <1>26, <1>27, <1>28, <1>29 DEF Next, GuestNext, FaultNext, WorkerNext

(* Every step of either worker keeps the invariant.                        *)
LEMMA Inductive == IInv /\ [Next]_vars => IInv'
<1> SUFFICES ASSUME IInv, [Next]_vars
             PROVE  IInv'
    OBVIOUS
<1> USE SabConstants
    DEF vars, sabVars, ctlVars, guestVars, readVars, workerVars, Writing, Waiting,
        IInv, ReadSoFar, Requested, Delivered, Tagged, Untouched, Untaken, BeingRead,
        BeingPublished, Published, AnsweredNow, NoLostWakeup, HasAnswer, HasBytes,
        Request
<1>1. Types'
    BY TypesKept
<1>2. /\ seq \in Nat /\ reqSeq \in Nat /\ respSeq \in Nat /\ seen \in Nat
      /\ mailbox \in Nat /\ done \in Nat /\ respLen \in Nat
      /\ meta \in [off : Nat, len : Nat, seq : Nat]
      /\ publishing \in Answers /\ publishing.req.seq \in Nat
      /\ \A r \in reading : r \in Requests /\ r.seq \in Nat
      /\ taking \in Handlers
      /\ publishing.step = "none" => publishing = NoAnswer
      /\ taking.step = "none" => taking = NoHandler
      /\ publishing.step \in {"data", "len"} => publishing.ok
      /\ source # "live" => pc = "idle"
      /\ NoHandler.step = "none" /\ NoAnswer.step = "none" /\ NoAnswer.req.seq = 0
    BY DEF Types, TypeOK, Answers, Requests, NoHandler, NoAnswer, NoRequest
<1>3. ASSUME NEW range \in Promise!Ranges, StartRead(range)
      PROVE  IInv'
  <2>1. ReadSoFar'
    <3>1. range \in Promise!Ranges /\ range # Promise!NoRange /\ 0 < range.total
        BY DEF Promise!Ranges, Promise!NoRange
    <3> QED
        BY <1>2, <1>3, <3>1 DEF StartRead
  <2> QED
    BY <1>1, <1>2, <1>3, <2>1 DEF StartRead
<1>4. CASE NextTag
    BY <1>1, <1>2, <1>4 DEF NextTag
<1>5. CASE StoreOff
    BY <1>1, <1>2, <1>5 DEF StoreOff
<1>6. CASE StoreLen
    BY <1>1, <1>2, <1>6 DEF StoreLen
<1>7. CASE StoreSeq
    BY <1>1, <1>2, <1>7 DEF StoreSeq
<1>8. CASE StoreReqSeq
    BY <1>1, <1>2, <1>8 DEF StoreReqSeq
<1>9. CASE StoreState
    BY <1>1, <1>2, <1>9 DEF StoreState
<1>10. CASE PostMessage
    BY <1>1, <1>2, <1>10 DEF PostMessage
<1>11. CASE LoadRespSeq
    BY <1>1, <1>2, <1>11 DEF LoadRespSeq
<1>12. CASE Wait
    BY <1>1, <1>2, <1>12 DEF Wait
<1>13. CASE LookAgain
    BY <1>1, <1>2, <1>13 DEF LookAgain
<1>14. CASE ReadError
    BY <1>1, <1>2, <1>14 DEF ReadError, Return
<1>15. CASE Copy
  <2>1. ReadSoFar'
    <3>1. CASE pc' = "idle"
        BY <1>2, <1>15, <3>1 DEF Copy, Return
    <3>2. CASE pc' # "idle"
      <4>1. /\ respLen = Request.len /\ HasBytes
            /\ done' = done + respLen /\ done + respLen # asked.total
            /\ out' = Copied /\ pc' = "tag" /\ asked' = asked
        BY <1>2, <1>15, <3>2 DEF Copy, Return
      <4>2. asked.start \in Nat /\ asked.total \in Nat /\ done < asked.total
        BY <1>15 DEF Copy, Promise!Ranges
      <4>3. done' \in Nat /\ done' < asked.total
        BY <1>2, <4>1, <4>2 DEF Smaller
      <4>4. ASSUME NEW i \in 0..(done' - 1)
            PROVE  out'[i] = asked.start + i
        <5>1. out'[i] = IF i < done THEN out[i] ELSE arena[i - done]
            BY <1>2, <4>1 DEF Copied
        <5>2. CASE i < done
            BY <1>2, <1>15, <5>1, <5>2 DEF Copy
        <5>3. CASE ~(i < done)
          <6>1. i - done \in 0..(Request.len - 1)
            BY <1>2, <4>1, <4>2, <5>3
          <6>2. arena[i - done] = Request.off + (i - done)
            BY <4>1, <6>1
          <6> QED
            BY <1>2, <4>2, <5>1, <5>3, <6>2
        <5> QED
            BY <5>2, <5>3
      <4> QED
        BY <1>15, <4>1, <4>3, <4>4 DEF Copy
    <3> QED
        BY <3>1, <3>2
  <2> QED
    BY <1>1, <1>2, <1>15, <2>1 DEF Copy, Return
<1>16. CASE SliceExpires
    BY <1>1, <1>2, <1>16 DEF SliceExpires
<1>17. CASE Deadline
    BY <1>1, <1>2, <1>17 DEF Deadline, Return
<1>18. CASE HeartbeatStops
    BY <1>1, <1>2, <1>18 DEF HeartbeatStops, Return, Recover
<1>19. CASE WorkerError
    BY <1>1, <1>2, <1>19 DEF WorkerError, Recover
<1>20. CASE RecoveryEnds
    BY <1>1, <1>2, <1>20 DEF RecoveryEnds
<1>21. CASE TakeMessage
    BY <1>1, <1>2, <1>21 DEF TakeMessage
<1>22. CASE LoadLen
    BY <1>1, <1>2, <1>22 DEF LoadLen
<1>23. CASE LoadSeq
    BY <1>1, <1>2, <1>23 DEF LoadSeq
<1>24. CASE PublishData
  <2>1. /\ publishing.step = "data" /\ publishing'.step = "len"
        /\ publishing'.req = publishing.req /\ publishing'.ok = publishing.ok
    BY <1>2, <1>24 DEF PublishData, PublishStep, Answers
  <2>2. ASSUME publishing.req = Request, Request.len <= DataBytes
        PROVE  HasBytes'
    <3>1. Request.len \in Nat /\ Request' = Request
        BY <1>2, <1>24, <2>2 DEF PublishData, PublishStep, Answers, Requests
    <3>2. \A i \in 0..(DataBytes - 1) :
             arena'[i] = IF i < Request.len THEN Request.off + i ELSE arena[i]
        BY <1>24, <2>2 DEF PublishData, Types, TypeOK
    <3> HIDE DEF Request
    <3> QED
        BY <2>2, <3>1, <3>2
  <2>3. pc \in Waiting => Request.len <= DataBytes
    BY <1>2 DEF Smaller, Promise!Ranges
  <2>4. BeingPublished'
    BY <1>2, <1>24, <2>1, <2>2, <2>3 DEF PublishData, PublishStep
  <2> QED
    BY <1>1, <1>2, <1>24, <2>1, <2>4 DEF PublishData, PublishStep
<1>25. CASE PublishLen
    BY <1>1, <1>2, <1>25 DEF PublishLen, PublishStep
<1>26. CASE PublishState
    BY <1>1, <1>2, <1>26 DEF PublishState, PublishStep
<1>27. CASE PublishSeq
    BY <1>1, <1>2, <1>27 DEF PublishSeq, PublishStep
<1>28. CASE Notify
    BY <1>1, <1>2, <1>28 DEF Notify
<1>29. ASSUME NEW req \in reading, NEW ok \in BOOLEAN, BeginPublish(req, ok)
      PROVE  IInv'
    BY <1>1, <1>2, <1>29 DEF BeginPublish
<1>30. CASE UNCHANGED vars
    BY <1>1, <1>2, <1>30
<1> HIDE DEF IInv, vars
<1> QED
    BY <1>3, <1>4, <1>5, <1>6, <1>7, <1>8, <1>9, <1>10, <1>11, <1>12, <1>13,
       <1>14, <1>15, <1>16, <1>17, <1>18, <1>19, <1>20, <1>21, <1>22, <1>23,
       <1>24, <1>25, <1>26, <1>27, <1>28, <1>29, <1>30
    DEF Next, GuestNext, FaultNext, WorkerNext

(* It holds of a fresh buffer and an idle guest.                           *)
LEMMA Start == Init => IInv
<1> SUFFICES ASSUME Init
             PROVE  IInv
    OBVIOUS
<1> USE SabConstants DEF Init
<1>1. Types
    BY DEF Types, TypeOK, BlankArena, Blank, NoRequest, NoAnswer, NoHandler, Requests,
           Answers, Handlers
<1>2. ReadSoFar /\ Requested /\ Delivered /\ Tagged /\ Untaken
    BY DEF ReadSoFar, Requested, Delivered, Tagged, Untaken, NoRequest, NoAnswer,
           NoHandler, Writing, Waiting
<1>3. BeingRead /\ BeingPublished /\ Published /\ AnsweredNow /\ NoLostWakeup
    BY DEF BeingRead, BeingPublished, Published, AnsweredNow, NoLostWakeup, Waiting
<1> QED
    BY <1>1, <1>2, <1>3 DEF IInv

(* The strengthening holds throughout.                                     *)
LEMMA Invariant == Spec => []IInv
    BY Start, Inductive, PTL DEF Spec

(* The arena stays as it is while the guest copies out of it.              *)
THEOREM ArenaStill == Spec => []ArenaHeldStill
<1>1. IInv => ArenaHeldStill
    BY DEF IInv, AnsweredNow, Published, ArenaHeldStill
<1> QED
    BY <1>1, Invariant, PTL

(* The guest is never left asleep on a word that has changed.              *)
THEOREM WakeupComes == Spec => []NoLostWakeup
<1>1. IInv => NoLostWakeup
    BY DEF IInv
<1> QED
    BY <1>1, Invariant, PTL

-----------------------------------------------------------------------------
(* When the last piece is copied, the bytes are those of the range.        *)
LEMMA CopiedRight ==
    ASSUME IInv, pc = "answered", state # "err",
           respLen = Request.len, done + respLen = asked.total
    PROVE  Copied = Promise!BytesOf(asked)
<1>1. /\ done \in Nat /\ respLen \in Nat
      /\ asked.start \in Nat /\ asked.total \in Nat
      /\ \A i \in 0..(done - 1) : out[i] = asked.start + i
    BY SabConstants DEF IInv, Types, TypeOK, ReadSoFar, Promise!Ranges
<1>2. HasBytes
    BY DEF IInv, AnsweredNow, Published, HasAnswer
<1>3. ASSUME NEW i \in 0..(asked.total - 1)
      PROVE  (IF i < done THEN out[i] ELSE arena[i - done]) = asked.start + i
  <2>1. CASE i < done
    BY <1>1, <2>1
  <2>2. CASE ~(i < done)
    <3>1. i - done \in 0..(Request.len - 1)
        BY <1>1, <2>2
    <3>2. arena[i - done] = asked.start + done + (i - done)
        BY <1>2, <3>1 DEF HasBytes, Request
    <3> QED
        BY <1>1, <2>2, <3>2
  <2> QED
    BY <2>1, <2>2
<1>4. done + respLen - 1 = asked.total - 1
    BY <1>1
<1> QED
    BY <1>3, <1>4, Zenon DEF Copied, Promise!BytesOf

(* A step starts a read, answers one, or shows nothing to the caller.      *)
LEMMA StepRefines ==
    IInv /\ [Next]_vars => [Promise!Ask \/ Promise!Answer]_<<asked, answer>>
<1> SUFFICES ASSUME IInv, [Next]_vars
             PROVE  (Promise!Ask \/ Promise!Answer) \/ UNCHANGED <<asked, answer>>
    OBVIOUS
<1>1. ASSUME NEW a \in {Promise!Null, Promise!Thrown, Promise!Bytes(Promise!BytesOf(asked))},
             Return(a), pc # "idle"
      PROVE  Promise!Answer
    BY <1>1 DEF Return, IInv, ReadSoFar, Promise!Answer
<1>2. ASSUME NEW range \in Promise!Ranges, StartRead(range)
      PROVE  Promise!Ask
    BY <1>2 DEF StartRead, IInv, ReadSoFar, Promise!Ask
<1>3. CASE ReadError \/ Deadline \/ HeartbeatStops
    BY <1>1, <1>3 DEF ReadError, Deadline, HeartbeatStops
<1>4. CASE Copy
  <2>1. CASE respLen # Request.len
    BY <1>1, <1>4, <2>1 DEF Copy
  <2>2. CASE respLen = Request.len /\ done + respLen = asked.total
    BY <1>1, <1>4, <2>2, CopiedRight DEF Copy
  <2>3. CASE respLen = Request.len /\ done + respLen # asked.total
    BY <1>4, <2>3 DEF Copy
  <2> QED
    BY <2>1, <2>2, <2>3
<1>5. CASE \/ NextTag \/ StoreOff \/ StoreLen \/ StoreSeq \/ StoreReqSeq \/ StoreState
           \/ PostMessage \/ LoadRespSeq \/ Wait \/ LookAgain \/ SliceExpires
    BY <1>5 DEF NextTag, StoreOff, StoreLen, StoreSeq, StoreReqSeq, StoreState,
                PostMessage, LoadRespSeq, Wait, LookAgain, SliceExpires, readVars
<1>6. CASE WorkerError \/ RecoveryEnds \/ UNCHANGED vars
    BY <1>6 DEF WorkerError, RecoveryEnds, vars, guestVars, readVars
<1>7. CASE WorkerNext
    BY <1>7 DEF WorkerNext, TakeMessage, LoadLen, LoadSeq, PublishData, PublishLen,
                PublishState, PublishSeq, PublishStep, Notify, guestVars, readVars
<1>8. ASSUME NEW req \in reading, NEW ok \in BOOLEAN, BeginPublish(req, ok)
      PROVE  UNCHANGED <<asked, answer>>
    BY <1>8 DEF BeginPublish, guestVars, readVars
<1> QED
    BY <1>2, <1>3, <1>4, <1>5, <1>6, <1>7, <1>8 DEF Next, GuestNext, FaultNext

(* The protocol implements readRangeSync as its callers know it: a read    *)
(* returns the bytes of its range, null, or an exception.                  *)
THEOREM PromiseKept == Spec => KeepsPromise
<1>1. Init => Promise!Init
    BY DEF Init, Promise!Init
<1> QED
    BY <1>1, Invariant, StepRefines, PTL DEF Spec, KeepsPromise, Promise!Spec
=============================================================================
