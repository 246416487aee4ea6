----------------------------- MODULE MCSyncQueue -----------------------------
(* SyncQueue for TLC, with as many callers as can tell coalescing apart. *)
EXTENDS SyncQueue

=============================================================================
