------------------------------- MODULE MCSyncJob -------------------------------
(* Finite instances of SyncJob. *)
EXTENDS SyncJob

CONSTANTS j1, j2, c1
================================================================================
