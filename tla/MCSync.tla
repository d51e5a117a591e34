------------------------------- MODULE MCSync -------------------------------
(* IncrementalSync for TLC: one file uses another. *)
EXTENDS IncrementalSync

CONSTANTS caller, callee

CallerUsesCallee == {<<caller, callee>>}
=============================================================================
