---------------------------- MODULE ThreadQueues ----------------------------
(***************************************************************************)
(* Queues of threads as the code keeps them: the run queue is an array,    *)
(* the waiters of a handle a JavaScript Set, both in insertion order and   *)
(* with no thread in them twice.                                           *)
(***************************************************************************)
EXTENDS Naturals, Sequences, SequencesExt

\* removeFromRunQueue, and Set.delete.
Without(s, x) ==
    IF x \in ToSet(s) THEN RemoveAt(s, CHOOSE i \in DOMAIN s : s[i] = x) ELSE s

LastAwake(queue, suspended) ==      \* mutant
    {queue[i] : i \in {j \in DOMAIN queue :
        /\ queue[j] \notin suspended
        /\ \A k \in (j + 1)..Len(queue) : queue[k] \in suspended}}

\* The waiter a signal reaches: the first that is not suspended.  Empty when
\* there is none, a singleton otherwise.
FirstAwake(queue, suspended) ==
    {queue[i] : i \in {j \in DOMAIN queue :
        /\ queue[j] \notin suspended
        /\ \A k \in 1..(j - 1) : queue[k] \in suspended}}
=============================================================================
