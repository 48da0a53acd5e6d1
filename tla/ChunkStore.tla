----------------------------- MODULE ChunkStore -----------------------------
(***************************************************************************)
(* What the disk cache of a streamed bundle promises: a chunk that was     *)
(* stored is there until it is evicted or the bundle is replaced on the    *)
(* server, whatever crashes in between.                                    *)
(***************************************************************************)
EXTENDS Integers

CONSTANTS
    Chunks,
    Versions

VARIABLES
    current,        \* the version the server has
    wanted,         \* the version the cache is open for, 0 when it is closed
    stored          \* the chunks it holds, each of some version

AllOf(v) == [version : {v}, chunk : Chunks]

Init == current = 1 /\ wanted = 0 /\ stored = {}

Open ==
    /\ wanted = 0
    /\ wanted' = current
    /\ UNCHANGED <<current, stored>>

\* A chunk that arrives; or any of them while the cache is closed, when the
\* bundle is downloaded whole.
Store ==
    /\ stored \subseteq stored'
    /\ IF wanted = 0 THEN stored' \in SUBSET (stored \cup AllOf(current))
                     ELSE \E s \in AllOf(wanted) : stored' = stored \cup {s}
    /\ UNCHANGED <<current, wanted>>

\* The program ends at any point, in the middle of storing chunks as well.
\* What is not of the server's version is of no more use.
Stop ==
    /\ wanted # 0
    /\ wanted' = 0
    /\ stored' \in SUBSET AllOf(current)
    /\ {s \in stored : s.version = current} \subseteq stored'
    /\ UNCHANGED current

\* Space is needed for another bundle.
Evict ==
    /\ wanted = 0
    /\ stored' \in SUBSET stored
    /\ UNCHANGED <<current, wanted>>

\* The bundle is replaced on the server.  A program that runs keeps its own.
Replace ==
    /\ current' = current + 1
    /\ stored' = IF wanted = 0 THEN {} ELSE stored
    /\ UNCHANGED wanted

Next == Open \/ Store \/ Stop \/ Evict \/ Replace

Spec == Init /\ [][Next]_<<current, wanted, stored>>
=============================================================================
