----------------------------- MODULE MCSrwLocks -----------------------------
(* Small instances of the lock for TLC.                                    *)
EXTENDS SrwLocks
=============================================================================
