----------------------------- MODULE MCConsole -----------------------------
(* The console's server for TLC: its reports, and the events of the audit  *)
(* log that it gets from the relays.  They share no variable, so a         *)
(* behaviour is one of either: `part' says which, and only its processes   *)
(* have to go on.                                                          *)
EXTENDS ConsoleReports, EvidencePipeline

VARIABLE part

consoleVars == <<part, vars, auditVars>>

ConsoleInit == Init /\ AuditInit /\ part \in {"reports", "audit"}

ConsoleNext ==
  /\ UNCHANGED part
  /\ \/ part = "reports" /\ Next /\ UNCHANGED auditVars
     \/ part = "audit" /\ AuditNext /\ UNCHANGED vars

\* The fairness of ConsoleReports and of EvidencePipeline, each in its own part.
ConsoleFairness ==
  /\ \A t \in Threads : WF_vars(part = "reports" /\ Proceed(t))
  /\ WF_vars(part = "reports" /\ RescanRuns)
  /\ \A r \in Repos : WF_vars(part = "reports" /\ JobEnds(r))
  /\ WF_auditVars(part = "audit" /\ EndLine)
  /\ WF_auditVars(part = "audit" /\ (Start \/ Poll \/ Post \/ PostBroken \/ SaveOffset))
  /\ WF_auditVars(part = "audit" /\ \E q \in deliveries : MakeFile(q) \/ FillFile(q))
  /\ WF_auditVars(part = "audit" /\ (ReadOldest \/ Ingest \/ Rejected \/ Unlink))

ConsoleSpec == ConsoleInit /\ [][ConsoleNext]_consoleVars /\ ConsoleFairness
=============================================================================
