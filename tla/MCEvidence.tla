----------------------------- MODULE MCEvidence -----------------------------
(* EvidencePipeline for TLC. *)
EXTENDS EvidencePipeline
=============================================================================
