---------------------------- MODULE MCSparseCache ----------------------------
(* Small instances of the disk cache for TLC.                              *)
EXTENDS SparseCache
=============================================================================
