----------------------------- MODULE MCWatcher -----------------------------
(* RealtimeWatcher for TLC. *)
EXTENDS RealtimeWatcher
=============================================================================
