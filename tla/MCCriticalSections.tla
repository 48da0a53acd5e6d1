------------------------- MODULE MCCriticalSections -------------------------
(* Small instances of the critical section for TLC.                        *)
EXTENDS CriticalSections

CONSTANTS t1, t2, t3, t4

Three == {t1, t2, t3}
Four == {t1, t2, t3, t4}

Plain == [threads |-> Four, recursion |-> 2, suspends |-> FALSE, sleeps |-> {}]
Sleeping == [threads |-> Three, recursion |-> 2, suspends |-> FALSE, sleeps |-> {"infinite"}]
Suspending == [threads |-> Four, recursion |-> 1, suspends |-> TRUE, sleeps |-> {}]
Both == [threads |-> Three, recursion |-> 2, suspends |-> TRUE,
         sleeps |-> {"finite", "infinite", "zero"}]

PlainAndSuspending == {Plain, Suspending, Both}
OnlySleeping == {Sleeping}
=============================================================================
