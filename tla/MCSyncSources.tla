---------------------------- MODULE MCSyncSources ----------------------------
(***************************************************************************)
(* Instances of SyncSources for TLC: one source, wiki, and the directories *)
(* of the server.                                                          *)
(***************************************************************************)
EXTENDS SyncSources, TLC

CONSTANT wiki
=============================================================================
