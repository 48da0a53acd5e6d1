---------------------------- MODULE MCSabChannel ----------------------------
(* Small instances of the channel for TLC.                                 *)
EXTENDS SabChannel
=============================================================================
