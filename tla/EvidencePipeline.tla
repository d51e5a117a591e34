-------------------------- MODULE EvidencePipeline --------------------------
(***************************************************************************)
(* How an audit record of the surface host reaches the report it belongs   *)
(* to: audit_collector.py tails audit.log and posts batches to the relay;  *)
(* runtime_relay.py spools each batch in a file and forwards the oldest    *)
(* file until the server answers 2xx; server.runtime_ingest appends the    *)
(* events to the report's jsonl file.                                      *)
(*                                                                         *)
(* An event is the number of its line in the order auditd wrote it; lines  *)
(* that are not executions are left out, as are the contents of events.    *)
(* Offsets count lines.  auditd writes a line in two steps, so a reader    *)
(* may find it half written.  A relay request is served by a thread of its *)
(* own, which first makes the spool file and then fills it.                *)
(*                                                                         *)
(* _forward catches OSError and URLError around its request only: any      *)
(* other exception ends the relay's worker thread while the relay goes on  *)
(* to accept batches.  In the collector, which has one thread, it ends the *)
(* process, and that is a restart.                                         *)
(*                                                                         *)
(* Faults are drawn from a budget, so that the system is left alone in the *)
(* end.  A request that the server handles after the relay gave up on it   *)
(* counts as handled before that.                                          *)
(***************************************************************************)
EXTENDS Naturals, Sequences, SequencesExt

CONSTANTS
  MaxEvents,  \* bound: lines auditd writes
  ChunkSize,  \* events in one post of the collector (1000)
  MaxAuditFaults,  \* bound: restarts, refusals, lost answers, full disks and rotations
  NoOffset    \* the checkpoint file does not exist

ASSUME AuditBounds == MaxEvents \in Nat /\ MaxAuditFaults \in Nat
ASSUME ChunkAssumption == ChunkSize \in Nat \ {0}
ASSUME NoOffsetAssumption == NoOffset \notin Nat

Events == 1..MaxEvents

VARIABLES
  log,        \* the lines of the current audit.log
  open,       \* whether its last line is still being written
  written,    \* lines begun so far
  offset,     \* the collector's position in the log, in memory
  checkpoint, \* CHECKPOINT
  collector,  \* where the collector is, and what it has left to post in this round
  deliveries, \* requests the relay's threads are serving
  spool,      \* the files of SPOOL, oldest first
  forwarder,  \* the relay's worker thread: the file it read and what it read
  received,   \* the events in the report's jsonl file
  tornTail,   \* whether that file ends in the middle of a line
  nextId,     \* the name of the next spool file
  auditFaults, \* faults so far
  acked,      \* history: events the relay wrote before it answered 202
  skipped,    \* history: events the collector read past without posting them
  spoilt      \* history: events whose file was unlinked unread, or merged into a torn line

auditVars == <<log, open, written, offset, checkpoint, collector, deliveries, spool, forwarder,
               received, tornTail, nextId, auditFaults, acked, skipped, spoilt>>

logVars       == <<log, open, written>>
collectorVars == <<offset, checkpoint, collector, skipped>>
relayVars     == <<deliveries, spool, nextId, acked>>
serverVars    == <<received, tornTail>>

SpoolFile == [id : Nat, events : Seq(Events), state : {"empty", "full", "torn"}]

AuditTypeOK ==
  /\ log \in Seq(Events) /\ open \in BOOLEAN /\ written \in 0..MaxEvents
  /\ offset \in 0..MaxEvents
  /\ checkpoint \in (0..MaxEvents) \cup {NoOffset}
  /\ collector \in [pc : {"start", "poll", "post", "wait", "save"}, batch : Seq(Events), id : Nat]
  /\ deliveries \subseteq [id : Nat, events : Seq(Events), made : BOOLEAN]
  /\ spool \in Seq(SpoolFile)
  /\ forwarder \in [pc : {"idle", "sent", "answered", "dead"}, body : Seq(Events), torn : BOOLEAN]
  /\ received \subseteq Events /\ tornTail \in BOOLEAN
  /\ nextId \in Nat /\ auditFaults \in 0..MaxAuditFaults
  /\ acked \subseteq Events /\ skipped \subseteq Events /\ spoilt \subseteq Events

Quiet == [pc |-> "idle", body |-> <<>>, torn |-> FALSE]

AuditInit ==
  /\ log = <<>> /\ open = FALSE /\ written = 0
  /\ offset = 0 /\ checkpoint = NoOffset
  /\ collector = [pc |-> "start", batch |-> <<>>, id |-> 0]
  /\ deliveries = {} /\ spool = <<>> /\ forwarder = Quiet
  /\ received = {} /\ tornTail = FALSE
  /\ nextId = 1 /\ auditFaults = 0
  /\ acked = {} /\ skipped = {} /\ spoilt = {}

AuditFault == auditFaults < MaxAuditFaults /\ auditFaults' = auditFaults + 1

-----------------------------------------------------------------------------
(* auditd *)

BeginLine ==
  /\ ~open /\ written < MaxEvents
  /\ log' = Append(log, written + 1)
  /\ written' = written + 1
  /\ open' = TRUE
  /\ UNCHANGED <<collectorVars, relayVars, forwarder, serverVars, auditFaults, spoilt>>

EndLine ==
  /\ open
  /\ open' = FALSE
  /\ UNCHANGED <<log, written, collectorVars, relayVars, forwarder, serverVars, auditFaults, spoilt>>

\* The log is moved away and begun anew: nobody reads the old one to its end.
Rotate ==
  /\ AuditFault
  /\ ~open /\ log # <<>>
  /\ log' = <<>>
  /\ skipped' = skipped \cup (ToSet(log) \ acked)
  /\ UNCHANGED <<open, written, offset, checkpoint, collector, relayVars, forwarder, serverVars,
                 spoilt>>

-----------------------------------------------------------------------------
(* The collector *)

\* The log is not the one that begins with the first line.
Rotated == log # <<>> /\ Head(log) # 1

Complete == IF open THEN Len(log) - 1 ELSE Len(log)

\* A restart that continues from the end of the log whatever CHECKPOINT says.
StartAtEnd ==
  /\ collector.pc = "start"
  /\ offset' = Len(log)
  /\ collector' = [collector EXCEPT !.pc = "poll"]
  /\ UNCHANGED <<logVars, checkpoint, skipped, relayVars, forwarder, serverVars, auditFaults, spoilt>>

\* main, up to its loop: go on from CHECKPOINT, or, the first time, from the end of
\* the log.
Start ==
  /\ collector.pc = "start"
  /\ IF checkpoint = NoOffset
     THEN offset' = Len(log) /\ skipped' = skipped \cup (ToSet(log) \ acked)
     ELSE offset' = checkpoint /\ UNCHANGED skipped
  /\ collector' = [collector EXCEPT !.pc = "poll"]
  /\ UNCHANGED <<logVars, checkpoint, relayVars, forwarder, serverVars, auditFaults, spoilt>>

\* One pass over the new lines.  A half-written last line is read too: neither of
\* its halves is recognised as an execution.  A log shorter than the offset is a
\* new one; one that grew past the offset meanwhile is taken for the old one.
Poll ==
  /\ collector.pc = "poll"
  /\ LET from  == IF Len(log) < offset THEN 0 ELSE offset
         batch == SubSeq(log, from + 1, Complete) IN
       /\ collector' = [collector EXCEPT !.pc = IF batch = <<>> THEN "save" ELSE "post",
                                         !.batch = batch]
       /\ skipped' = skipped \cup (IF Rotated THEN {log[i] : i \in 1..from} \ acked ELSE {})
                               \cup (IF open THEN {Last(log)} ELSE {})
  /\ offset' = Len(log)
  /\ UNCHANGED <<logVars, checkpoint, relayVars, forwarder, serverVars, auditFaults, spoilt>>

ChunkEnd   == IF ChunkSize < Len(collector.batch) THEN ChunkSize ELSE Len(collector.batch)
NextChunk  == SubSeq(collector.batch, 1, ChunkEnd)
AfterChunk == SubSeq(collector.batch, ChunkEnd + 1, Len(collector.batch))

\* The next 1000 events go to the relay, which names their spool file.
Post ==
  /\ collector.pc = "post"
  /\ deliveries' = deliveries \cup
       {[id |-> nextId, events |-> NextChunk, made |-> FALSE]}
  /\ nextId' = nextId + 1
  /\ collector' = [collector EXCEPT !.pc = "wait", !.id = nextId]
  /\ UNCHANGED <<logVars, offset, checkpoint, skipped, spool, acked, forwarder, serverVars,
                 auditFaults, spoilt>>

\* _post returned False: the rest of the batch is given up, and the next round
\* starts where this one ended.
GiveUp ==
  /\ collector' = [pc |-> "poll", batch |-> <<>>, id |-> 0]
  /\ skipped' = skipped \cup ToSet(collector.batch)
  /\ UNCHANGED <<logVars, offset, checkpoint, relayVars, forwarder, serverVars, spoilt>>

\* The relay cannot be reached.
PostRefused ==
  /\ AuditFault
  /\ collector.pc = "post"
  /\ GiveUp

\* No answer within 10 s; the relay may still be at work on the request.
PostTimesOut ==
  /\ AuditFault
  /\ collector.pc = "wait"
  /\ GiveUp

\* The relay's thread died with the request.
PostBroken ==
  /\ collector.pc = "wait"
  /\ \A q \in deliveries : q.id # collector.id
  /\ GiveUp
  /\ UNCHANGED auditFaults

\* The whole batch was accepted, or there was none.
SaveOffset ==
  /\ collector.pc = "save"
  /\ checkpoint' = offset
  /\ collector' = [collector EXCEPT !.pc = "poll"]
  /\ UNCHANGED <<logVars, offset, skipped, relayVars, forwarder, serverVars, auditFaults, spoilt>>

\* The collector is killed and started again.  write_text first empties the file,
\* and an empty CHECKPOINT reads as 0.
CollectorRestarts ==
  /\ AuditFault
  /\ collector' = [pc |-> "start", batch |-> <<>>, id |-> 0]
  /\ checkpoint' \in {checkpoint} \cup (IF collector.pc = "save" THEN {0} ELSE {})
  /\ UNCHANGED <<logVars, offset, skipped, relayVars, forwarder, serverVars, spoilt>>

-----------------------------------------------------------------------------
(* The relay's request threads *)

IsSpooled(f) == \E i \in 1..Len(spool) : spool[i].id = f

\* open(path, "wb"): the file is there, and empty.
MakeFile(q) ==
  /\ q \in deliveries /\ ~q.made
  /\ spool' = Append(spool, [id |-> q.id, events |-> <<>>, state |-> "empty"])
  /\ deliveries' = (deliveries \ {q}) \cup {[q EXCEPT !.made = TRUE]}
  /\ UNCHANGED <<logVars, collectorVars, nextId, acked, forwarder, serverVars, auditFaults, spoilt>>

\* The collector saves its position once the first 1000 are accepted.
AnsweredForAll(q) ==
  IF collector.pc = "wait" /\ collector.id = q.id
  THEN collector' = [pc |-> "save", batch |-> <<>>, id |-> 0]
  ELSE UNCHANGED collector

\* The collector, if it still waits for this answer, goes on to its next 1000.
Answered(q) ==
  IF collector.pc = "wait" /\ collector.id = q.id
  THEN collector' = [pc |-> IF AfterChunk = <<>> THEN "save" ELSE "post", batch |-> AfterChunk,
                     id |-> 0]
  ELSE UNCHANGED collector

\* 202 as soon as the file is made, before its content is written.
AnswerBeforeWriting(q) ==
  /\ q \in deliveries /\ q.made
  /\ deliveries' = deliveries \ {q}
  /\ acked' = acked \cup ToSet(q.events)
  /\ Answered(q)
  /\ UNCHANGED <<logVars, offset, checkpoint, skipped, spool, nextId, forwarder, serverVars,
                 auditFaults, spoilt>>

\* The content is written and 202 is answered.  The worker thread may have
\* forwarded and unlinked the empty file meanwhile.
FillFile(q) ==
  /\ q \in deliveries /\ q.made
  /\ deliveries' = deliveries \ {q}
  /\ spool' = [i \in 1..Len(spool) |->
                 IF spool[i].id = q.id THEN [id |-> q.id, events |-> q.events, state |-> "full"]
                                       ELSE spool[i]]
  /\ acked' = acked \cup ToSet(q.events)
  /\ spoilt' = spoilt \cup (IF IsSpooled(q.id) THEN {} ELSE ToSet(q.events))
  /\ Answered(q)
  /\ UNCHANGED <<logVars, offset, checkpoint, skipped, nextId, forwarder, serverVars, auditFaults>>

TornFile(f) ==
  [i \in 1..Len(spool) |-> IF spool[i].id = f THEN [spool[i] EXCEPT !.state = "torn"] ELSE spool[i]]

\* The disk is full: the file is cut off in a line and no answer is sent.
WriteFails(q) ==
  /\ AuditFault
  /\ q \in deliveries /\ q.made
  /\ deliveries' = deliveries \ {q}
  /\ spool' = TornFile(q.id)
  /\ UNCHANGED <<logVars, collectorVars, nextId, acked, forwarder, serverVars, spoilt>>

\* The relay is killed and started again; files it was writing stay empty or torn.
RelayRestarts ==
  /\ AuditFault
  /\ deliveries' = {}
  /\ spool' \in {spool} \cup {TornFile(q.id) : q \in deliveries}
  /\ forwarder' = Quiet
  /\ UNCHANGED <<logVars, collectorVars, nextId, acked, serverVars, spoilt>>

-----------------------------------------------------------------------------
(* The relay's worker thread and the server.  A round forwards the files in the *)
(* order of their names and stops at the first failure, so it is always the     *)
(* oldest file that is tried; nobody else unlinks one, so it stays the first.    *)

\* _forward reads the file as it is now, complete or not.
ReadOldest ==
  /\ forwarder.pc = "idle"
  /\ spool # <<>>
  /\ forwarder' = [pc |-> "sent", body |-> Head(spool).events,
                   torn |-> Head(spool).state = "torn"]
  /\ UNCHANGED <<logVars, collectorVars, relayVars, serverVars, auditFaults, spoilt>>

\* append_events to a file whose last line is cut off: the first event is
\* written behind the cut and read back with it as one broken line.
WholeLines(events) == ToSet(IF tornTail /\ events # <<>> THEN Tail(events) ELSE events)
Merged(events)   == ToSet(events) \ WholeLines(events)

\* runtime_ingest: an empty body is a batch of no events.
Ingest ==
  /\ forwarder.pc = "sent" /\ ~forwarder.torn
  /\ received' = received \cup WholeLines(forwarder.body)
  /\ spoilt' = spoilt \cup Merged(forwarder.body)
  /\ tornTail' = (tornTail /\ forwarder.body = <<>>)
  /\ forwarder' = [forwarder EXCEPT !.pc = "answered"]
  /\ UNCHANGED <<logVars, collectorVars, relayVars, auditFaults>>

\* The server is killed while it appends: some whole lines and one cut off.
IngestDies ==
  /\ AuditFault
  /\ forwarder.pc = "sent" /\ ~forwarder.torn /\ forwarder.body # <<>>
  /\ \E k \in 0..(Len(forwarder.body) - 1) :
       received' = received \cup WholeLines(SubSeq(forwarder.body, 1, k))
  /\ tornTail' = TRUE
  /\ forwarder' = Quiet
  /\ UNCHANGED <<logVars, collectorVars, relayVars, spoilt>>

\* A body that is cut off in a line is answered 400: the file stays.
Rejected ==
  /\ forwarder.pc = "sent" /\ forwarder.torn
  /\ forwarder' = Quiet
  /\ UNCHANGED <<logVars, collectorVars, relayVars, serverVars, auditFaults, spoilt>>

\* The server cannot be reached, or does not have the report yet, or its answer
\* is lost: the file stays and is tried again.
ForwardFails ==
  /\ AuditFault
  /\ forwarder.pc \in {"sent", "answered"}
  /\ forwarder' = Quiet
  /\ UNCHANGED <<logVars, collectorVars, relayVars, serverVars, spoilt>>

\* An exception that _forward does not catch ends the worker thread: the file could
\* not be read or unlinked, or the request raised http.client.HTTPException, whether
\* the server handled it or not.  Only a restart of the relay brings it back.
ForwarderDies ==
  /\ AuditFault
  /\ forwarder.pc # "dead" /\ spool # <<>>
  /\ forwarder' = [Quiet EXCEPT !.pc = "dead"]
  /\ UNCHANGED <<logVars, collectorVars, relayVars, serverVars, spoilt>>

\* The file unlinked whatever the server answered.
UnlinkAlways ==
  /\ forwarder.pc \in {"sent", "answered"}
  /\ spool' = Tail(spool)
  /\ forwarder' = Quiet
  /\ UNCHANGED <<logVars, collectorVars, deliveries, nextId, acked, serverVars, auditFaults, spoilt>>

\* 2xx: the file is unlinked, with whatever was written to it since it was read.
Unlink ==
  /\ forwarder.pc = "answered"
  /\ spoilt' = spoilt \cup (ToSet(Head(spool).events) \ ToSet(forwarder.body))
  /\ spool' = Tail(spool)
  /\ forwarder' = Quiet
  /\ UNCHANGED <<logVars, collectorVars, deliveries, nextId, acked, serverVars, auditFaults>>

-----------------------------------------------------------------------------
Auditd    == BeginLine \/ EndLine \/ Rotate
Collector == \/ Start \/ Poll \/ Post \/ PostBroken \/ SaveOffset
             \/ PostRefused \/ PostTimesOut \/ CollectorRestarts
Relay     == \E q \in deliveries : MakeFile(q) \/ FillFile(q) \/ WriteFails(q)
Forwarder == \/ ReadOldest \/ Ingest \/ Rejected \/ Unlink
             \/ IngestDies \/ ForwardFails \/ ForwarderDies

AuditNext == Auditd \/ Collector \/ Relay \/ RelayRestarts \/ Forwarder

\* The loops of the collector and of the relay's worker go on while their threads
\* live, request threads finish, and auditd finishes a line it began.
AuditFairness ==
  /\ WF_auditVars(EndLine)
  /\ WF_auditVars(Start \/ Poll \/ Post \/ PostBroken \/ SaveOffset)
  /\ WF_auditVars(\E q \in deliveries : MakeFile(q) \/ FillFile(q))
  /\ WF_auditVars(ReadOldest \/ Ingest \/ Rejected \/ Unlink)

AuditSpec == AuditInit /\ [][AuditNext]_auditVars /\ AuditFairness

-----------------------------------------------------------------------------
(* Properties *)

Spooled == UNION {ToSet(spool[i].events) : i \in 1..Len(spool)}

\* Nothing leaves the spool any more.
Blocked == forwarder.pc = "dead" \/ \E i \in 1..Len(spool) : spool[i].state = "torn"

\* What the relay answered 202 for stays in its spool until the server has it:
\* through lost answers, refusals and restarts of either side, only an event whose
\* file was read before it was written, or whose line the server cut off, is
\* spoilt (runtime_relay.py:23-52, 71-77).
AckedIsKept == acked \subseteq Spooled \cup received \cup spoilt

\* While the log is not rotated, CHECKPOINT never runs ahead of what the relay
\* has: a restart goes on from it, so a line at or below it is in the relay's hands
\* or was given up before (audit_collector.py:60-78).
CheckpointIsHonest ==
  checkpoint # NoOffset /\ log # <<>> /\ ~Rotated =>
    \A i \in 1..checkpoint : log[i] \in acked \cup skipped

\* In the end every line auditd wrote is in the report's file, unless the collector
\* read past it, its line or file was spoilt, or a torn file or the death of the
\* worker thread holds up the spool.
LinesArrive ==
  <>[](Blocked \/ \A e \in Events : e <= written => e \in received \cup skipped \cup spoilt)

\* README.md:45-46: audit events are attached to the corresponding report.  A line
\* the collector has read as an execution arrives, whatever a spool file or the
\* relay's worker thread suffers.
PolledLinesArrive ==
  \A e \in Events : e \in ToSet(collector.batch) ~> e \in received \cup spoilt \/ Blocked
=============================================================================
