--------------------------- MODULE MCOrchestrator ---------------------------
(* SurfaceOrchestrator for TLC. *)
EXTENDS SurfaceOrchestrator
=============================================================================
