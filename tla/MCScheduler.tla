---------------------------- MODULE MCScheduler ----------------------------
(* Small instances of the scheduler for TLC.                               *)
EXTENDS SchedulerProperties

CONSTANTS t1, t2, t3, auto, manual, sem, mutex

\* Two workers are interchangeable, the main thread is not.
WorkerSymmetry == Permutations(Threads \ {Main})

NoLists == {}
\* Two arrays in which the order of the handles decides what is taken.
MixedLists == {<<auto>>, <<manual, auto>>}
OneThread == {<<t2>>}
OneMutex == {<<mutex>>}
\* Waits for all: two objects that are consumed, neither of them an event,
\* and a pair with an auto-reset event in it.
SemAndMutex == {<<sem, mutex>>}
ManualOnly == {<<manual>>}
AllWithAuto == {<<manual, auto>>}
Zero == {0}
TwoPriorities == {0, 1}
=============================================================================
