----------------------- MODULE EvidencePipelineProofs -----------------------
(* Theorems about EvidencePipeline, for any number of lines, any size of a   *)
(* post and any number of faults: its types, that nothing the relay has      *)
(* accepted is lost without a trace, and that CHECKPOINT is honest.          *)
EXTENDS EvidencePipeline, SequenceTheorems, TLAPS

USE AuditBounds, ChunkAssumption, NoOffsetAssumption

-----------------------------------------------------------------------------
(* Sequences and the sets of their elements *)

LEMMA Elements ==
  ASSUME NEW S, NEW s \in Seq(S)
  PROVE  /\ ToSet(s) \subseteq S
         /\ \A i \in 1..Len(s) : s[i] \in ToSet(s)
         /\ \A e \in ToSet(s) : \E i \in 1..Len(s) : s[i] = e
  BY LenProperties DEF ToSet

LEMMA NoElements == ToSet(<<>>) = {}
<1>1. <<>> \in Seq({}) /\ Len(<<>>) = 0
  BY EmptySeq
<1>2. \A e \in ToSet(<<>>) : \E i \in 1..Len(<<>>) : <<>>[i] = e
  BY <1>1, Elements
<1>3. 1..Len(<<>>) = {}
  BY <1>1
<1> QED
  BY <1>2, <1>3, Zenon

LEMMA Part ==
  ASSUME NEW S, NEW s \in Seq(S), NEW m \in Nat \ {0}, NEW n \in Int, n <= Len(s)
  PROVE  /\ SubSeq(s, m, n) \in Seq(S)
         /\ \A i \in m..n : s[i] \in ToSet(SubSeq(s, m, n))
         /\ ToSet(SubSeq(s, m, n)) \subseteq ToSet(s)
<1>1. Len(s) \in Nat /\ \A i \in 1..Len(s) : s[i] \in S
  BY LenProperties
<1>2. \A i \in m..n : i \in 1..Len(s)
  BY <1>1
<1>3. \A i \in m..n : s[i] \in S
  BY <1>1, <1>2
<1>4. /\ SubSeq(s, m, n) \in Seq(S)
      /\ Len(SubSeq(s, m, n)) = IF m <= n THEN n - m + 1 ELSE 0
      /\ \A i \in 1..(n - m + 1) : SubSeq(s, m, n)[i] = s[m + i - 1]
  BY <1>3, SubSeqProperties
<1>5. ASSUME NEW i \in m..n
      PROVE  s[i] \in ToSet(SubSeq(s, m, n))
  <2>1. i - m + 1 \in 1..(n - m + 1) /\ m + (i - m + 1) - 1 = i /\ m <= n
    BY <1>5
  <2>2. SubSeq(s, m, n)[i - m + 1] = s[i] /\ i - m + 1 \in 1..Len(SubSeq(s, m, n))
    BY <1>4, <2>1
  <2> QED
    BY <1>4, <2>2, Elements
<1>6. ASSUME NEW e \in ToSet(SubSeq(s, m, n))
      PROVE  e \in ToSet(s)
  <2>1. PICK i \in 1..Len(SubSeq(s, m, n)) : SubSeq(s, m, n)[i] = e
    BY <1>4, <1>6, Elements
  <2>2. i \in 1..(n - m + 1) /\ m + i - 1 \in 1..Len(s)
    BY <1>1, <1>4
  <2>3. e = s[m + i - 1]
    BY <1>4, <2>1, <2>2
  <2> QED
    BY <2>2, <2>3, Elements
<1> QED
  BY <1>4, <1>5, <1>6

-----------------------------------------------------------------------------
(* Types *)

\* The parts of the type invariant, by the process that keeps them.
LineTypes == log \in Seq(Events) /\ written \in 0..MaxEvents /\ Len(log) <= written
OpenTypes == open \in BOOLEAN /\ (open => log # <<>>)
CollectorTypes ==
  /\ offset \in 0..MaxEvents
  /\ checkpoint \in (0..MaxEvents) \cup {NoOffset}
  /\ collector \in [pc : {"start", "poll", "post", "wait", "save"}, batch : Seq(Events), id : Nat]
  /\ skipped \subseteq Events
RelayTypes ==
  /\ deliveries \subseteq [id : Nat, events : Seq(Events), made : BOOLEAN]
  /\ spool \in Seq(SpoolFile)
  /\ nextId \in Nat
  /\ acked \subseteq Events
ServerTypes ==
  /\ forwarder \in [pc : {"idle", "sent", "answered", "dead"}, body : Seq(Events), torn : BOOLEAN]
  /\ received \subseteq Events /\ tornTail \in BOOLEAN
  /\ spoilt \subseteq Events
FaultTypes == auditFaults \in 0..MaxAuditFaults

AuditTypes == LineTypes /\ OpenTypes /\ CollectorTypes /\ RelayTypes /\ ServerTypes /\ FaultTypes

LEMMA TypesAreRight == AuditTypes => AuditTypeOK
  BY Zenon DEF AuditTypes, AuditTypeOK, LineTypes, OpenTypes, CollectorTypes, RelayTypes, ServerTypes,
     FaultTypes

LEMMA InitTypes == AuditInit => AuditTypes
<1> SUFFICES ASSUME AuditInit PROVE AuditTypes
  OBVIOUS
<1>1. LineTypes
  BY EmptySeq DEF AuditInit, LineTypes
<1>6. OpenTypes
  BY Zenon DEF AuditInit, OpenTypes
<1>2. CollectorTypes
  BY EmptySeq DEF AuditInit, CollectorTypes
<1>3. RelayTypes
  BY EmptySeq DEF AuditInit, RelayTypes
<1>4. ServerTypes
  BY EmptySeq DEF AuditInit, ServerTypes, Quiet
<1>5. FaultTypes
  BY DEF AuditInit, FaultTypes
<1> QED
  BY <1>1, <1>2, <1>3, <1>4, <1>5, <1>6 DEF AuditTypes

LEMMA AuditFaultTypes == FaultTypes /\ AuditFault => FaultTypes'
  BY DEF FaultTypes, AuditFault

LEMMA LinesOfLog ==
  ASSUME LineTypes, OpenTypes
  PROVE  /\ Len(log) \in 0..MaxEvents
         /\ open => Last(log) \in Events
         /\ ToSet(log) \subseteq Events
         /\ \A i \in 1..Len(log) : log[i] \in Events
         /\ Complete \in Int /\ Complete <= Len(log)
<1>1. Len(log) \in Nat /\ Len(log) <= MaxEvents /\ \A i \in 1..Len(log) : log[i] \in Events
  BY LenProperties DEF LineTypes
<1>2. log # <<>> => Len(log) # 0
  BY EmptySeq DEF LineTypes
<1>3. log # <<>> => Last(log) \in Events
  BY <1>1, <1>2 DEF Last
<1>4. Complete \in {Len(log) - 1, Len(log)}
  BY Zenon DEF Complete
<1> QED
  BY <1>1, <1>3, <1>4, Elements DEF LineTypes, OpenTypes

LEMMA AuditdTypes ==
  ASSUME AuditTypes, Auditd
  PROVE  AuditTypes'
<1> USE DEF AuditTypes
<1>1. CASE BeginLine
  <2>1. LineTypes'
    <3>1. written + 1 \in Events /\ log \in Seq(Events) /\ Len(log) <= written
      BY <1>1 DEF BeginLine, LineTypes, Events
    <3>2. Append(log, written + 1) \in Seq(Events) /\ Len(Append(log, written + 1)) = Len(log) + 1
      BY <3>1, AppendProperties
    <3> QED
      BY <1>1, <3>1, <3>2, LenProperties DEF BeginLine, LineTypes, Events
  <2>2. OpenTypes'
    <3>1. Append(log, written + 1) # <<>>
      <4>1. written + 1 \in Events /\ log \in Seq(Events)
        BY <1>1 DEF BeginLine, LineTypes, Events
      <4> QED
        BY <4>1, AppendProperties
    <3>2. log' # <<>> /\ open' = TRUE
      BY <1>1, <3>1 DEF BeginLine
    <3> QED
      BY <3>2, Zenon DEF OpenTypes
  <2>3. CollectorTypes' /\ RelayTypes' /\ ServerTypes' /\ FaultTypes'
    BY <1>1, Zenon DEF BeginLine, CollectorTypes, RelayTypes, ServerTypes, FaultTypes, collectorVars,
       relayVars, serverVars
  <2> QED
    BY <2>1, <2>2, <2>3
<1>2. CASE EndLine
  <2>1. LineTypes' /\ CollectorTypes' /\ RelayTypes' /\ ServerTypes' /\ FaultTypes'
    BY <1>2, Zenon DEF EndLine, LineTypes, CollectorTypes, RelayTypes, ServerTypes, FaultTypes,
       collectorVars, relayVars, serverVars
  <2>2. OpenTypes'
    BY <1>2, Zenon DEF EndLine, OpenTypes
  <2> QED
    BY <2>1, <2>2
<1>3. CASE Rotate
  <2>1. LineTypes'
    BY <1>3, EmptySeq DEF Rotate, LineTypes
  <2>2. OpenTypes'
    <3>1. ~open /\ UNCHANGED open
      BY <1>3 DEF Rotate
    <3> QED
      BY <3>1, Zenon DEF OpenTypes
  <2>3. RelayTypes' /\ ServerTypes'
    BY <1>3, Zenon DEF Rotate, RelayTypes, ServerTypes, relayVars, serverVars
  <2>4. CollectorTypes'
    BY <1>3, LinesOfLog DEF Rotate, CollectorTypes
  <2>5. FaultTypes'
    BY <1>3, AuditFaultTypes DEF Rotate
  <2> QED
    BY <2>1, <2>2, <2>3, <2>4, <2>5
<1> QED
  BY <1>1, <1>2, <1>3 DEF Auditd

\* What an action leaves alone keeps its types.
LEMMA Untouched ==
  /\ AuditTypes /\ UNCHANGED logVars => LineTypes' /\ OpenTypes'
  /\ AuditTypes /\ UNCHANGED collectorVars => CollectorTypes'
  /\ AuditTypes /\ UNCHANGED relayVars => RelayTypes'
  /\ AuditTypes /\ UNCHANGED <<forwarder, serverVars, spoilt>> => ServerTypes'
  /\ AuditTypes /\ UNCHANGED auditFaults => FaultTypes'
<1>1. ASSUME AuditTypes, UNCHANGED logVars PROVE LineTypes' /\ OpenTypes'
  BY <1>1, Zenon DEF AuditTypes, LineTypes, OpenTypes, logVars
<1>2. ASSUME AuditTypes, UNCHANGED collectorVars PROVE CollectorTypes'
  BY <1>2, Zenon DEF AuditTypes, CollectorTypes, collectorVars
<1>3. ASSUME AuditTypes, UNCHANGED relayVars PROVE RelayTypes'
  BY <1>3, Zenon DEF AuditTypes, RelayTypes, relayVars
<1>4. ASSUME AuditTypes, UNCHANGED <<forwarder, serverVars, spoilt>> PROVE ServerTypes'
  BY <1>4, Zenon DEF AuditTypes, ServerTypes, serverVars
<1>5. ASSUME AuditTypes, UNCHANGED auditFaults PROVE FaultTypes'
  BY <1>5, Zenon DEF AuditTypes, FaultTypes
<1> QED
  BY <1>1, <1>2, <1>3, <1>4, <1>5

\* The chunk that is posted and what is left after it.
LEMMA Chunks ==
  ASSUME CollectorTypes
  PROVE  /\ NextChunk \in Seq(Events) /\ AfterChunk \in Seq(Events)
         /\ ToSet(collector.batch) \subseteq ToSet(NextChunk) \cup ToSet(AfterChunk)
         /\ ToSet(NextChunk) \subseteq ToSet(collector.batch)
         /\ ToSet(collector.batch) \subseteq Events
<1> DEFINE b == collector.batch
<1>1. b \in Seq(Events) /\ Len(b) \in Nat
  BY LenProperties DEF CollectorTypes
<1>2. ChunkEnd \in Nat /\ ChunkEnd <= Len(b)
  BY <1>1 DEF ChunkEnd
<1>3. /\ NextChunk \in Seq(Events) /\ \A i \in 1..ChunkEnd : b[i] \in ToSet(NextChunk)
      /\ ToSet(NextChunk) \subseteq ToSet(b)
  <2>1. 1 \in Nat \ {0} /\ ChunkEnd \in Int
    BY <1>2
  <2> QED
    BY <1>1, <1>2, <2>1, Part DEF NextChunk
<1>4. AfterChunk \in Seq(Events) /\ \A i \in (ChunkEnd + 1)..Len(b) : b[i] \in ToSet(AfterChunk)
  <2>1. ChunkEnd + 1 \in Nat \ {0} /\ Len(b) \in Int /\ Len(b) <= Len(b)
    BY <1>1, <1>2
  <2> QED
    BY <1>1, <2>1, Part DEF AfterChunk
<1>5. ASSUME NEW e \in ToSet(b)
      PROVE  e \in ToSet(NextChunk) \cup ToSet(AfterChunk)
  <2>1. PICK i \in 1..Len(b) : b[i] = e
    BY <1>1, Elements
  <2>2. i \in 1..ChunkEnd \/ i \in (ChunkEnd + 1)..Len(b)
    BY <1>1, <1>2
  <2> QED
    BY <1>3, <1>4, <2>1, <2>2
<1> QED
  BY <1>1, <1>3, <1>4, <1>5, Elements

LEMMA GiveUpTypes == AuditTypes /\ GiveUp => CollectorTypes'
<1> SUFFICES ASSUME AuditTypes, GiveUp PROVE CollectorTypes'
  OBVIOUS
<1>1. collector' = [pc |-> "poll", batch |-> <<>>, id |-> 0] /\ <<>> \in Seq(Events)
  BY EmptySeq DEF GiveUp
<1>2. skipped' \subseteq Events
  BY Chunks DEF GiveUp, AuditTypes, CollectorTypes
<1> QED
  BY <1>1, <1>2 DEF GiveUp, AuditTypes, CollectorTypes

LEMMA CollectorKeepsTypes ==
  ASSUME AuditTypes, Collector
  PROVE  AuditTypes'
<1> USE DEF AuditTypes
<1>1. LineTypes' /\ OpenTypes'
  BY Untouched, Zenon DEF Collector, Start, Poll, Post, PostBroken, SaveOffset, PostRefused, PostTimesOut,
     CollectorRestarts, GiveUp
<1>2. ServerTypes'
  <2>1. UNCHANGED <<forwarder, serverVars, spoilt>>
    BY Zenon DEF Collector, Start, Poll, Post, PostBroken, SaveOffset, PostRefused,
       PostTimesOut, CollectorRestarts, GiveUp
  <2> QED
    BY <2>1, Untouched
<1>3. FaultTypes'
  BY Untouched, AuditFaultTypes, Zenon DEF Collector, Start, Poll, Post, PostBroken, SaveOffset,
     PostRefused, PostTimesOut, CollectorRestarts, GiveUp
<1>4. CASE Start
  <2>1. RelayTypes'
    BY <1>4, Untouched DEF Start
  <2>2. collector' \in [pc : {"start", "poll", "post", "wait", "save"}, batch : Seq(Events), id : Nat]
    BY <1>4 DEF Start, CollectorTypes
  <2>3. offset' \in 0..MaxEvents /\ UNCHANGED checkpoint
    BY <1>4, LinesOfLog DEF Start, CollectorTypes
  <2>4. skipped' \subseteq Events
    <3>1. skipped' \subseteq skipped \cup ToSet(log)
      BY <1>4, Zenon DEF Start
    <3> QED
      BY <3>1, LinesOfLog DEF CollectorTypes
  <2>5. CollectorTypes'
    BY <2>2, <2>3, <2>4 DEF CollectorTypes
  <2> QED
    BY <1>1, <1>2, <1>3, <2>1, <2>5
<1>5. CASE Poll
  <2>1. RelayTypes'
    BY <1>5, Untouched DEF Poll
  <2> DEFINE from == IF Len(log) < offset THEN 0 ELSE offset
             batch == SubSeq(log, from + 1, Complete)
  <2>2. from \in Nat /\ from <= Len(log) /\ Len(log) \in 0..MaxEvents
    BY LinesOfLog DEF CollectorTypes
  <2>3. batch \in Seq(Events)
    <3>1. from + 1 \in Nat \ {0} /\ Complete \in Int /\ Complete <= Len(log)
      BY <2>2, LinesOfLog
    <3> QED
      BY <3>1, Part DEF LineTypes
  <2>4. {log[i] : i \in 1..from} \subseteq Events
    BY <2>2, LinesOfLog
  <2>5. skipped' \subseteq Events
    <3>1. skipped' \subseteq skipped \cup {log[i] : i \in 1..from} \cup (IF open THEN {Last(log)} ELSE {})
      BY <1>5, Zenon DEF Poll
    <3>2. (IF open THEN {Last(log)} ELSE {}) \subseteq Events
      BY LinesOfLog, Zenon
    <3> QED
      BY <2>4, <3>1, <3>2 DEF CollectorTypes
  <2>6. collector' = [collector EXCEPT !.pc = IF batch = <<>> THEN "save" ELSE "post", !.batch = batch]
    BY <1>5, Zenon DEF Poll
  <2>7. offset' \in 0..MaxEvents /\ UNCHANGED checkpoint
    BY <1>5, <2>2 DEF Poll
  <2> HIDE DEF batch, from
  <2>8. CollectorTypes'
    BY <2>3, <2>5, <2>6, <2>7 DEF CollectorTypes
  <2> QED
    BY <1>1, <1>2, <1>3, <2>1, <2>8
<1>6. CASE Post
  <2> DEFINE new == [id |-> nextId, events |-> NextChunk, made |-> FALSE]
  <2>1. new \in [id : Nat, events : Seq(Events), made : BOOLEAN]
    BY Chunks DEF RelayTypes
  <2>4. deliveries' = deliveries \cup {new} /\ nextId' = nextId + 1 /\ UNCHANGED <<spool, acked>>
    BY <1>6 DEF Post
  <2> HIDE DEF new
  <2>2. RelayTypes'
    BY <2>1, <2>4 DEF RelayTypes
  <2>3. CollectorTypes'
    BY <1>6 DEF Post, CollectorTypes, RelayTypes
  <2> QED
    BY <1>1, <1>2, <1>3, <2>2, <2>3
<1>7. CASE PostBroken \/ PostRefused \/ PostTimesOut
  <2>1. GiveUp
    BY <1>7, Zenon DEF PostBroken, PostRefused, PostTimesOut
  <2>2. RelayTypes'
    BY <2>1, Untouched DEF GiveUp
  <2> QED
    BY <1>1, <1>2, <1>3, <2>1, <2>2, GiveUpTypes
<1>8. CASE SaveOffset
  <2>1. RelayTypes' /\ CollectorTypes'
    BY <1>8, Untouched DEF SaveOffset, CollectorTypes
  <2> QED
    BY <1>1, <1>2, <1>3, <2>1
<1>9. CASE CollectorRestarts
  <2>1. RelayTypes'
    BY <1>9, Untouched DEF CollectorRestarts
  <2>2. CollectorTypes'
    BY <1>9, EmptySeq DEF CollectorRestarts, CollectorTypes
  <2> QED
    BY <1>1, <1>2, <1>3, <2>1, <2>2
<1> QED
  BY <1>4, <1>5, <1>6, <1>7, <1>8, <1>9 DEF Collector

\* The files of the spool after one is filled, torn or taken away.
LEMMA TornTypes ==
  ASSUME spool \in Seq(SpoolFile), NEW f
  PROVE  /\ TornFile(f) \in Seq(SpoolFile) /\ Len(TornFile(f)) = Len(spool)
         /\ \A i \in 1..Len(spool) : /\ TornFile(f)[i].id = spool[i].id
                                      /\ TornFile(f)[i].events = spool[i].events
<1> DEFINE t(i) == IF spool[i].id = f THEN [spool[i] EXCEPT !.state = "torn"] ELSE spool[i]
<1>1. Len(spool) \in Nat /\ \A i \in 1..Len(spool) : spool[i] \in SpoolFile
  BY LenProperties
<1>2. \A i \in 1..Len(spool) : t(i) \in SpoolFile /\ t(i).id = spool[i].id /\ t(i).events = spool[i].events
  BY <1>1 DEF SpoolFile
<1>3. TornFile(f) = [i \in 1..Len(spool) |-> t(i)]
  BY DEF TornFile
<1> HIDE DEF t
<1>4. [i \in 1..Len(spool) |-> t(i)] \in Seq(SpoolFile)
  BY <1>1, <1>2, IsASeq
<1>5. Len([i \in 1..Len(spool) |-> t(i)]) = Len(spool)
  BY <1>1
<1> QED
  BY <1>2, <1>3, <1>4, <1>5

Filled(q, i) ==
  IF spool[i].id = q.id THEN [id |-> q.id, events |-> q.events, state |-> "full"] ELSE spool[i]

LEMMA FilledTypes ==
  ASSUME RelayTypes, NEW q \in deliveries, FillFile(q)
  PROVE  /\ spool' \in Seq(SpoolFile) /\ Len(spool') = Len(spool)
         /\ \A i \in 1..Len(spool) : spool'[i] = Filled(q, i)
<1>1. q.id \in Nat /\ q.events \in Seq(Events)
  BY DEF RelayTypes
<1>2. Len(spool) \in Nat /\ \A i \in 1..Len(spool) : spool[i] \in SpoolFile
  BY LenProperties DEF RelayTypes
<1>3. \A i \in 1..Len(spool) : Filled(q, i) \in SpoolFile
  BY <1>1, <1>2 DEF SpoolFile, Filled
<1>4. spool' = [i \in 1..Len(spool) |-> Filled(q, i)]
  BY Zenon DEF FillFile, Filled
<1>5. [i \in 1..Len(spool) |-> Filled(q, i)] \in Seq(SpoolFile)
  BY <1>2, <1>3, IsASeq
<1>6. Len([i \in 1..Len(spool) |-> Filled(q, i)]) = Len(spool)
  BY <1>2
<1> QED
  BY <1>4, <1>5, <1>6

LEMMA RelayKeepsTypes ==
  ASSUME AuditTypes, NEW q \in deliveries, MakeFile(q) \/ FillFile(q) \/ WriteFails(q)
  PROVE  AuditTypes'
<1> USE DEF AuditTypes
<1>1. LineTypes' /\ OpenTypes'
  BY Untouched, Zenon DEF MakeFile, FillFile, WriteFails
<1>2. FaultTypes'
  BY Untouched, AuditFaultTypes, Zenon DEF MakeFile, FillFile, WriteFails
<1>3. q.id \in Nat /\ q.events \in Seq(Events)
  BY DEF RelayTypes
<1>4. CASE MakeFile(q)
  <2>1. [id |-> q.id, events |-> <<>>, state |-> "empty"] \in SpoolFile
    BY <1>3, EmptySeq DEF SpoolFile
  <2>2. spool' \in Seq(SpoolFile)
    BY <1>4, <2>1, AppendProperties DEF MakeFile, RelayTypes
  <2>3. [q EXCEPT !.made = TRUE] \in [id : Nat, events : Seq(Events), made : BOOLEAN]
    BY DEF RelayTypes
  <2>4. RelayTypes'
    BY <1>4, <2>2, <2>3 DEF MakeFile, RelayTypes
  <2>5. ServerTypes' /\ CollectorTypes'
    BY <1>4, Untouched DEF MakeFile
  <2> QED
    BY <1>1, <1>2, <2>4, <2>5
<1>5. CASE FillFile(q)
  <2>1. spool' \in Seq(SpoolFile)
    BY <1>5, FilledTypes
  <2>2. ToSet(q.events) \subseteq Events
    BY <1>3, Elements
  <2>3. RelayTypes'
    BY <1>5, <2>1, <2>2 DEF FillFile, RelayTypes
  <2>4. spoilt' \subseteq Events
    BY <1>5, <2>2 DEF FillFile, ServerTypes
  <2>5. ServerTypes'
    BY <1>5, <2>4, Zenon DEF FillFile, ServerTypes, serverVars
  <2>6. collector' \in [pc : {"start", "poll", "post", "wait", "save"}, batch : Seq(Events), id : Nat]
    BY <1>5, Chunks DEF FillFile, Answered, CollectorTypes
  <2>7. CollectorTypes'
    BY <1>5, <2>6 DEF FillFile, CollectorTypes
  <2> QED
    BY <1>1, <1>2, <2>3, <2>5, <2>7
<1>6. CASE WriteFails(q)
  <2>1. RelayTypes'
    BY <1>6, TornTypes DEF WriteFails, RelayTypes
  <2>2. ServerTypes' /\ CollectorTypes'
    BY <1>6, Untouched DEF WriteFails
  <2> QED
    BY <1>1, <1>2, <2>1, <2>2
<1> QED
  BY <1>4, <1>5, <1>6

LEMMA RestartKeepsTypes ==
  ASSUME AuditTypes, RelayRestarts
  PROVE  AuditTypes'
<1> USE DEF AuditTypes
<1>1. LineTypes' /\ OpenTypes' /\ CollectorTypes'
  BY Untouched DEF RelayRestarts
<1>2. FaultTypes'
  BY AuditFaultTypes DEF RelayRestarts
<1>3. RelayTypes'
  <2>1. spool' \in Seq(SpoolFile)
    BY TornTypes DEF RelayRestarts, RelayTypes
  <2> QED
    BY <2>1 DEF RelayRestarts, RelayTypes
<1>4. ServerTypes'
  <2>1. Quiet \in [pc : {"idle", "sent", "answered", "dead"}, body : Seq(Events), torn : BOOLEAN]
    BY EmptySeq DEF Quiet
  <2> QED
    BY <2>1, Zenon DEF RelayRestarts, ServerTypes, serverVars
<1> QED
  BY <1>1, <1>2, <1>3, <1>4

LEMMA LinesAreEvents ==
  ASSUME NEW s \in Seq(Events)
  PROVE  WholeLines(s) \subseteq ToSet(s) /\ ToSet(s) \subseteq Events
<1>1. ToSet(s) \subseteq Events
  BY Elements
<1>2. s # <<>> => ToSet(Tail(s)) \subseteq ToSet(s)
  <2> SUFFICES ASSUME s # <<>> PROVE ToSet(Tail(s)) \subseteq ToSet(s)
    OBVIOUS
  <2>1. /\ Tail(s) \in Seq(Events) /\ Len(s) \in Nat /\ Len(Tail(s)) = Len(s) - 1
        /\ \A i \in 1..Len(Tail(s)) : Tail(s)[i] = s[i + 1]
    BY HeadTailProperties, LenProperties
  <2>2. ASSUME NEW e \in ToSet(Tail(s)) PROVE e \in ToSet(s)
    <3>1. PICK i \in 1..Len(Tail(s)) : Tail(s)[i] = e
      BY <2>1, Elements
    <3>2. i + 1 \in 1..Len(s) /\ s[i + 1] = e
      BY <2>1, <3>1
    <3> QED
      BY <3>2, Elements
  <2> QED
    BY <2>2
<1>3. WholeLines(s) = ToSet(s) \/ (s # <<>> /\ WholeLines(s) = ToSet(Tail(s)))
  BY Zenon DEF WholeLines
<1> QED
  BY <1>1, <1>2, <1>3

\* The file the worker has read is still the first one.
ReadIsThere == forwarder.pc # "idle" => spool # <<>>

LEMMA ForwarderKeepsTypes ==
  ASSUME AuditTypes, ReadIsThere, Forwarder
  PROVE  AuditTypes'
<1> USE DEF AuditTypes
<1> DEFINE Fwd == [pc : {"idle", "sent", "answered", "dead"}, body : Seq(Events), torn : BOOLEAN]
<1>1. LineTypes' /\ OpenTypes' /\ CollectorTypes'
  BY Untouched, Zenon DEF Forwarder, ReadOldest, Ingest, Rejected, Unlink, IngestDies, ForwardFails,
     ForwarderDies
<1>2. FaultTypes'
  BY Untouched, AuditFaultTypes, Zenon DEF Forwarder, ReadOldest, Ingest, Rejected, Unlink, IngestDies,
     ForwardFails, ForwarderDies
<1>3. Quiet \in Fwd
  BY EmptySeq DEF Quiet
<1>4. CASE ReadOldest
  <2>1. RelayTypes'
    BY <1>4, Untouched DEF ReadOldest
  <2>2. Head(spool) \in SpoolFile
    BY <1>4, HeadTailProperties DEF ReadOldest, RelayTypes
  <2>3. Head(spool).events \in Seq(Events)
    BY <2>2 DEF SpoolFile
  <2> DEFINE torn == Head(spool).state = "torn"
  <2>4. torn \in BOOLEAN
    BY Zenon
  <2>5. forwarder' = [pc |-> "sent", body |-> Head(spool).events, torn |-> torn]
    BY <1>4, Zenon DEF ReadOldest
  <2> HIDE DEF torn
  <2>6. [pc |-> "sent", body |-> Head(spool).events, torn |-> torn] \in Fwd
    BY <2>3, <2>4
  <2>7. forwarder' \in Fwd
    BY <2>5, <2>6, Zenon
  <2>8. ServerTypes'
    BY <1>4, <2>7, Zenon DEF ReadOldest, ServerTypes, serverVars
  <2> QED
    BY <1>1, <1>2, <2>1, <2>8
<1>5. CASE Ingest
  <2>1. RelayTypes'
    BY <1>5, Untouched DEF Ingest
  <2>2. forwarder.body \in Seq(Events)
    BY DEF ServerTypes
  <2>3. ToSet(forwarder.body) \subseteq Events
    BY <2>2, Elements
  <2>4. WholeLines(forwarder.body) \subseteq Events
    BY <2>2, <2>3, LinesAreEvents, Zenon
  <2>5. Merged(forwarder.body) \subseteq Events
    BY <2>3, Zenon DEF Merged
  <2>6. received' \subseteq Events /\ spoilt' \subseteq Events
    BY <1>5, <2>4, <2>5, Zenon DEF Ingest, ServerTypes
  <2>7. forwarder' \in Fwd
    BY <1>5 DEF Ingest, ServerTypes
  <2>8. tornTail' \in BOOLEAN
    BY <1>5, Zenon DEF Ingest
  <2>9. ServerTypes'
    BY <2>6, <2>7, <2>8, Zenon DEF ServerTypes
  <2> QED
    BY <1>1, <1>2, <2>1, <2>9
<1>6. CASE IngestDies
  <2>1. RelayTypes'
    BY <1>6, Untouched DEF IngestDies
  <2>2. forwarder.body \in Seq(Events)
    BY DEF ServerTypes
  <2>3. PICK k \in 0..(Len(forwarder.body) - 1) :
          received' = received \cup WholeLines(SubSeq(forwarder.body, 1, k))
    BY <1>6, Zenon DEF IngestDies
  <2>4. SubSeq(forwarder.body, 1, k) \in Seq(Events)
    <3>1. 1 \in Nat \ {0} /\ k \in Int /\ k <= Len(forwarder.body)
      BY <2>2, LenProperties
    <3> QED
      BY <2>2, <3>1, Part
  <2>5. received' \subseteq Events
    BY <2>3, <2>4, LinesAreEvents, Zenon DEF ServerTypes
  <2>6. ServerTypes'
    BY <1>3, <1>6, <2>5, Zenon DEF IngestDies, ServerTypes
  <2> QED
    BY <1>1, <1>2, <2>1, <2>6
<1>7. CASE Rejected \/ ForwardFails \/ ForwarderDies
  <2>1. /\ UNCHANGED <<relayVars, serverVars, spoilt>>
        /\ forwarder' \in {Quiet, [Quiet EXCEPT !.pc = "dead"]}
    BY <1>7, Zenon DEF Rejected, ForwardFails, ForwarderDies
  <2>2. RelayTypes'
    BY <2>1, Untouched
  <2>3. [Quiet EXCEPT !.pc = "dead"] \in Fwd
    BY EmptySeq DEF Quiet
  <2>4. ServerTypes'
    BY <1>3, <2>1, <2>3, Zenon DEF ServerTypes, serverVars
  <2> QED
    BY <1>1, <1>2, <2>2, <2>4
<1>8. CASE Unlink
  <2>1. spool # <<>>
    BY <1>8 DEF Unlink, ReadIsThere
  <2>2. Head(spool) \in SpoolFile /\ Tail(spool) \in Seq(SpoolFile)
    BY <2>1, HeadTailProperties DEF RelayTypes
  <2>3. ToSet(Head(spool).events) \subseteq Events
    BY <2>2, Elements DEF SpoolFile
  <2>4. RelayTypes'
    BY <1>8, <2>2 DEF Unlink, RelayTypes
  <2>5. spoilt' \subseteq Events
    BY <1>8, <2>3 DEF Unlink, ServerTypes
  <2>6. ServerTypes'
    BY <1>3, <1>8, <2>5, Zenon DEF Unlink, ServerTypes, serverVars
  <2> QED
    BY <1>1, <1>2, <2>4, <2>6
<1> QED
  BY <1>4, <1>5, <1>6, <1>7, <1>8 DEF Forwarder

LEMMA ReadStaysThere ==
  ASSUME AuditTypes, ReadIsThere, AuditNext
  PROVE  ReadIsThere'
<1>1. CASE UNCHANGED <<forwarder, spool>>
  BY <1>1 DEF ReadIsThere
<1>2. ASSUME NEW q \in deliveries, MakeFile(q) PROVE ReadIsThere'
  <2>1. spool' # <<>>
    <3>1. spool \in Seq(SpoolFile) /\ [id |-> q.id, events |-> <<>>, state |-> "empty"] \in SpoolFile
      BY EmptySeq DEF AuditTypes, RelayTypes, SpoolFile
    <3> QED
      BY <1>2, <3>1, AppendProperties DEF MakeFile
  <2> QED
    BY <2>1 DEF ReadIsThere
<1>3. ASSUME NEW q \in deliveries, FillFile(q) PROVE ReadIsThere'
  <2>1. spool \in Seq(SpoolFile) /\ spool' \in Seq(SpoolFile) /\ Len(spool') = Len(spool)
    BY <1>3, FilledTypes DEF AuditTypes, RelayTypes
  <2>2. spool # <<>> => spool' # <<>>
    BY <2>1, EmptySeq
  <2>3. UNCHANGED forwarder
    BY <1>3 DEF FillFile
  <2> QED
    BY <2>2, <2>3 DEF ReadIsThere
<1>4. ASSUME NEW q \in deliveries, WriteFails(q) PROVE ReadIsThere'
  <2>1. spool \in Seq(SpoolFile) /\ spool' \in Seq(SpoolFile) /\ Len(spool') = Len(spool)
    BY <1>4, TornTypes DEF AuditTypes, RelayTypes, WriteFails
  <2>2. spool # <<>> => spool' # <<>>
    BY <2>1, EmptySeq
  <2>3. UNCHANGED forwarder
    BY <1>4 DEF WriteFails
  <2> QED
    BY <2>2, <2>3 DEF ReadIsThere
<1>5. CASE ReadOldest
  BY <1>5 DEF ReadOldest, ReadIsThere, relayVars
<1>6. CASE Ingest
  <2>1. forwarder.pc = "sent" /\ UNCHANGED spool
    BY <1>6 DEF Ingest, relayVars
  <2> QED
    BY <2>1 DEF ReadIsThere
<1>7. CASE forwarder' = Quiet
  BY <1>7 DEF ReadIsThere, Quiet
<1>8. Auditd => UNCHANGED <<forwarder, spool>>
  BY Zenon DEF Auditd, BeginLine, EndLine, Rotate, relayVars
<1>9. Collector => UNCHANGED <<forwarder, spool>>
  BY Zenon DEF Collector, Start, Poll, Post, PostBroken, SaveOffset, PostRefused, PostTimesOut,
     CollectorRestarts, GiveUp, relayVars
<1>10. RelayRestarts \/ Rejected \/ Unlink \/ IngestDies \/ ForwardFails => forwarder' = Quiet
  BY Zenon DEF RelayRestarts, Rejected, Unlink, IngestDies, ForwardFails
<1>11. CASE ForwarderDies
  BY <1>11 DEF ForwarderDies, ReadIsThere, relayVars
<1> QED
  BY <1>1, <1>2, <1>3, <1>4, <1>5, <1>6, <1>7, <1>8, <1>9, <1>10, <1>11
  DEF AuditNext, Relay, Forwarder

TypeInv == AuditTypes /\ ReadIsThere

LEMMA InitTypeInv == AuditInit => TypeInv
  BY InitTypes DEF AuditInit, Quiet, ReadIsThere, TypeInv

LEMMA StepTypeInv == TypeInv /\ [AuditNext]_auditVars => TypeInv'
<1>1. ASSUME TypeInv, UNCHANGED auditVars PROVE TypeInv'
  <2>1. ReadIsThere'
    BY <1>1 DEF auditVars, TypeInv, ReadIsThere
  <2>2. UNCHANGED <<logVars, collectorVars, relayVars, forwarder, serverVars, spoilt, auditFaults>>
    BY <1>1 DEF auditVars, logVars, collectorVars, relayVars, serverVars
  <2>3. AuditTypes'
    BY <1>1, <2>2, Untouched DEF AuditTypes, TypeInv
  <2> QED
    BY <2>1, <2>3 DEF TypeInv
<1>2. ASSUME TypeInv, AuditNext PROVE TypeInv'
  BY <1>2, AuditdTypes, CollectorKeepsTypes, RelayKeepsTypes, RestartKeepsTypes, ForwarderKeepsTypes,
     ReadStaysThere DEF TypeInv, AuditNext, Relay
<1> QED
  BY <1>1, <1>2

\* The variables keep their types, whatever the interleaving and the faults.
THEOREM TypesHold == AuditSpec => []AuditTypeOK
<1>1. TypeInv => AuditTypeOK
  BY TypesAreRight DEF TypeInv
<1> QED
  BY InitTypeInv, StepTypeInv, <1>1, PTL DEF AuditSpec
-----------------------------------------------------------------------------
(* What the relay accepted *)

\* Every request has a name of its own, and its file is empty until it is filled.
NamesDiffer ==
  /\ \A q \in deliveries : q.id < nextId
  /\ \A p, q \in deliveries : p.id = q.id => p = q
  /\ \A i \in 1..Len(spool) : spool[i].id < nextId
UnfilledIsEmpty ==
  \A q \in deliveries, i \in 1..Len(spool) : spool[i].id = q.id => spool[i].events = <<>>

\* What the server has answered 2xx for, it has.
AnsweredIsThere == forwarder.pc = "answered" => ToSet(forwarder.body) \subseteq received \cup spoilt

KeptInv == NamesDiffer /\ UnfilledIsEmpty /\ AnsweredIsThere /\ AckedIsKept

LEMMA InSpool ==
  \A e : e \in Spooled <=> \E i \in 1..Len(spool) : e \in ToSet(spool[i].events)
  BY Zenon DEF Spooled

LEMMA InitKept == AuditInit => KeptInv
<1> SUFFICES ASSUME AuditInit PROVE KeptInv
  OBVIOUS
<1>1. Len(spool) = 0 /\ deliveries = {} /\ acked = {} /\ forwarder.pc = "idle"
  BY EmptySeq DEF AuditInit, Quiet
<1> QED
  BY <1>1 DEF KeptInv, NamesDiffer, UnfilledIsEmpty, AnsweredIsThere, AckedIsKept

\* Nothing that the invariant is about changes.
LEMMA KeptAlone ==
  ASSUME KeptInv, UNCHANGED <<relayVars, forwarder, received, spoilt>>
  PROVE  KeptInv'
<1>1. UNCHANGED <<deliveries, spool, nextId, acked, forwarder, received, spoilt>>
  BY DEF relayVars
<1>2. NamesDiffer'
  BY <1>1, Zenon DEF KeptInv, NamesDiffer
<1>3. UnfilledIsEmpty'
  BY <1>1, Zenon DEF KeptInv, UnfilledIsEmpty
<1>4. AnsweredIsThere' /\ AckedIsKept'
  BY <1>1, Zenon DEF KeptInv, AnsweredIsThere, AckedIsKept, Spooled
<1> QED
  BY <1>2, <1>3, <1>4 DEF KeptInv

\* The spool's events stay and at most the requests and the worker change.
LEMMA KeptInSpool ==
  ASSUME AckedIsKept, Len(spool') = Len(spool),
         \A i \in 1..Len(spool) : spool'[i].events = spool[i].events,
         UNCHANGED acked, received \subseteq received', spoilt \subseteq spoilt'
  PROVE  AckedIsKept'
<1>1. ASSUME NEW e \in Spooled PROVE e \in Spooled'
  <2>1. PICK i \in 1..Len(spool) : e \in ToSet(spool[i].events)
    BY InSpool
  <2>2. i \in 1..Len(spool') /\ e \in ToSet(spool'[i].events)
    BY <2>1
  <2> QED
    BY <2>2 DEF Spooled
<1> QED
  BY <1>1 DEF AckedIsKept

LEMMA PostKeeps ==
  ASSUME TypeInv, KeptInv, Post
  PROVE  KeptInv'
<1> DEFINE new == [id |-> nextId, events |-> NextChunk, made |-> FALSE]
<1>1. /\ deliveries' = deliveries \cup {new} /\ nextId' = nextId + 1 /\ nextId \in Nat
      /\ UNCHANGED <<spool, acked, forwarder, received, spoilt>>
  BY DEF Post, TypeInv, AuditTypes, RelayTypes, serverVars
<1>2. new.id = nextId
  OBVIOUS
<1> HIDE DEF new
<1>3. /\ \A q \in deliveries : q.id \in Nat
      /\ \A i \in 1..Len(spool) : spool[i].id \in Nat
  <2>1. \A q \in deliveries : q.id \in Nat
    BY DEF TypeInv, AuditTypes, RelayTypes
  <2>2. \A i \in 1..Len(spool) : spool[i] \in SpoolFile
    BY LenProperties DEF TypeInv, AuditTypes, RelayTypes
  <2> QED
    BY <2>1, <2>2 DEF SpoolFile
<1>4. NamesDiffer'
  BY <1>1, <1>2, <1>3 DEF KeptInv, NamesDiffer
<1>5. UnfilledIsEmpty'
  BY <1>1, <1>2, <1>3 DEF KeptInv, NamesDiffer, UnfilledIsEmpty
<1>6. AnsweredIsThere' /\ AckedIsKept'
  BY <1>1, Zenon DEF KeptInv, AnsweredIsThere, AckedIsKept, Spooled
<1> QED
  BY <1>4, <1>5, <1>6 DEF KeptInv

LEMMA MakeKeeps ==
  ASSUME TypeInv, KeptInv, NEW q \in deliveries, MakeFile(q)
  PROVE  KeptInv'
<1> DEFINE file == [id |-> q.id, events |-> <<>>, state |-> "empty"]
           made == [q EXCEPT !.made = TRUE]
<1>1. /\ spool' = Append(spool, file) /\ deliveries' = (deliveries \ {q}) \cup {made}
      /\ UNCHANGED <<nextId, acked, forwarder, received, spoilt>>
  BY DEF MakeFile, serverVars
<1>2. file.id = q.id /\ file.events = <<>> /\ file \in SpoolFile /\ made.id = q.id
  BY EmptySeq DEF TypeInv, AuditTypes, RelayTypes, SpoolFile
<1> HIDE DEF file, made
<1>3. /\ Len(spool) \in Nat /\ Len(spool') = Len(spool) + 1
      /\ \A i \in 1..Len(spool) : spool'[i] = spool[i]
      /\ spool'[Len(spool) + 1] = file
  BY <1>1, <1>2, AppendProperties, LenProperties DEF TypeInv, AuditTypes, RelayTypes
<1>4. \A i \in 1..Len(spool') : i \in 1..Len(spool) \/ i = Len(spool) + 1
  BY <1>3
<1>5. NamesDiffer'
  BY <1>1, <1>2, <1>3, <1>4 DEF KeptInv, NamesDiffer
<1>6. UnfilledIsEmpty'
  BY <1>1, <1>2, <1>3, <1>4 DEF KeptInv, NamesDiffer, UnfilledIsEmpty
<1>7. AnsweredIsThere'
  BY <1>1 DEF KeptInv, AnsweredIsThere
<1>8. AckedIsKept'
  <2>1. ASSUME NEW e \in Spooled PROVE e \in Spooled'
    <3>1. PICK i \in 1..Len(spool) : e \in ToSet(spool[i].events)
      BY InSpool
    <3>2. i \in 1..Len(spool') /\ e \in ToSet(spool'[i].events)
      BY <1>3, <3>1
    <3> QED
      BY <3>2 DEF Spooled
  <2> QED
    BY <1>1, <2>1 DEF KeptInv, AckedIsKept
<1> QED
  BY <1>5, <1>6, <1>7, <1>8 DEF KeptInv

LEMMA FillKeeps ==
  ASSUME TypeInv, KeptInv, NEW q \in deliveries, FillFile(q)
  PROVE  KeptInv'
<1>1. /\ deliveries' = deliveries \ {q}
      /\ acked' = acked \cup ToSet(q.events)
      /\ UNCHANGED <<nextId, forwarder, received>>
      /\ spoilt \subseteq spoilt' /\ (~IsSpooled(q.id) => ToSet(q.events) \subseteq spoilt')
  BY Zenon DEF FillFile, serverVars
<1>2. Len(spool') = Len(spool) /\ \A i \in 1..Len(spool) : spool'[i] = Filled(q, i)
  BY FilledTypes DEF TypeInv, AuditTypes
<1>3. \A i \in 1..Len(spool) : /\ Filled(q, i).id = spool[i].id
                               /\ spool[i].id = q.id => Filled(q, i).events = q.events
                               /\ spool[i].id # q.id => Filled(q, i).events = spool[i].events
  BY DEF Filled
<1>4. NamesDiffer'
  BY <1>1, <1>2, <1>3 DEF KeptInv, NamesDiffer
<1>5. UnfilledIsEmpty'
  BY <1>1, <1>2, <1>3 DEF KeptInv, NamesDiffer, UnfilledIsEmpty
<1>6. AnsweredIsThere'
  BY <1>1 DEF KeptInv, AnsweredIsThere
<1>7. AckedIsKept'
  <2>1. ASSUME NEW e \in Spooled PROVE e \in Spooled'
    <3>1. PICK i \in 1..Len(spool) : e \in ToSet(spool[i].events)
      BY InSpool
    <3>2. spool[i].id # q.id
      BY <3>1, NoElements DEF KeptInv, UnfilledIsEmpty
    <3>3. i \in 1..Len(spool') /\ e \in ToSet(spool'[i].events)
      BY <1>2, <1>3, <3>1, <3>2
    <3> QED
      BY <3>3 DEF Spooled
  <2>2. ToSet(q.events) \subseteq Spooled' \cup spoilt'
    <3>1. CASE IsSpooled(q.id)
      <4>1. PICK i \in 1..Len(spool) : spool[i].id = q.id
        BY <3>1 DEF IsSpooled
      <4>2. i \in 1..Len(spool') /\ spool'[i].events = q.events
        BY <1>2, <1>3, <4>1
      <4> QED
        BY <4>2 DEF Spooled
    <3>2. CASE ~IsSpooled(q.id)
      BY <1>1, <3>2
    <3> QED
      BY <3>1, <3>2
  <2> QED
    BY <1>1, <2>1, <2>2 DEF KeptInv, AckedIsKept
<1> QED
  BY <1>4, <1>5, <1>6, <1>7 DEF KeptInv

\* Some requests end, and a file may be torn.
LEMMA TearingKeeps ==
  ASSUME TypeInv, KeptInv, deliveries' \subseteq deliveries, NEW f, spool' \in {spool, TornFile(f)},
         UNCHANGED <<nextId, acked, received, spoilt>>, forwarder' \in {forwarder, Quiet}
  PROVE  KeptInv'
<1>1. /\ Len(spool') = Len(spool)
      /\ \A i \in 1..Len(spool) : spool'[i].id = spool[i].id /\ spool'[i].events = spool[i].events
  BY TornTypes DEF TypeInv, AuditTypes, RelayTypes
<1>2. NamesDiffer'
  BY <1>1 DEF KeptInv, NamesDiffer
<1>3. UnfilledIsEmpty'
  BY <1>1 DEF KeptInv, UnfilledIsEmpty
<1>4. AnsweredIsThere'
  BY DEF KeptInv, AnsweredIsThere, Quiet
<1>5. AckedIsKept'
  BY <1>1, KeptInSpool DEF KeptInv
<1> QED
  BY <1>2, <1>3, <1>4, <1>5 DEF KeptInv

LEMMA UnlinkKeeps ==
  ASSUME TypeInv, KeptInv, Unlink
  PROVE  KeptInv'
<1>1. /\ forwarder.pc = "answered" /\ forwarder' = Quiet /\ spool' = Tail(spool)
      /\ spoilt' = spoilt \cup (ToSet(Head(spool).events) \ ToSet(forwarder.body))
      /\ UNCHANGED <<deliveries, nextId, acked, received>>
  BY Zenon DEF Unlink, serverVars
<1>2. spool # <<>> /\ spool \in Seq(SpoolFile)
  BY <1>1 DEF TypeInv, ReadIsThere, AuditTypes, RelayTypes
<1>3. /\ Len(spool) \in Nat /\ Len(spool') = Len(spool) - 1
      /\ \A i \in 1..Len(spool') : spool'[i] = spool[i + 1]
      /\ Head(spool) = spool[1]
  BY <1>1, <1>2, HeadTailProperties, LenProperties
<1>4. \A i \in 1..Len(spool') : i + 1 \in 1..Len(spool)
  BY <1>3
<1>5. NamesDiffer'
  BY <1>1, <1>3, <1>4 DEF KeptInv, NamesDiffer
<1>6. UnfilledIsEmpty'
  BY <1>1, <1>3, <1>4 DEF KeptInv, UnfilledIsEmpty
<1>7. AnsweredIsThere'
  BY <1>1 DEF AnsweredIsThere, Quiet
<1>8. AckedIsKept'
  <2>1. ASSUME NEW e \in Spooled PROVE e \in Spooled' \cup received' \cup spoilt'
    <3>1. PICK i \in 1..Len(spool) : e \in ToSet(spool[i].events)
      BY InSpool
    <3>2. CASE i = 1
      <4>1. e \in ToSet(forwarder.body) \/ e \in spoilt'
        BY <1>1, <1>3, <3>1, <3>2
      <4> QED
        BY <1>1, <4>1 DEF KeptInv, AnsweredIsThere
    <3>3. CASE i # 1
      <4>1. i - 1 \in 1..Len(spool') /\ (i - 1) + 1 = i
        BY <1>3, <3>3
      <4>2. e \in ToSet(spool'[i - 1].events)
        BY <1>3, <3>1, <4>1
      <4> QED
        BY <4>1, <4>2 DEF Spooled
    <3> QED
      BY <3>2, <3>3
  <2> QED
    BY <1>1, <2>1 DEF KeptInv, AckedIsKept
<1> QED
  BY <1>5, <1>6, <1>7, <1>8 DEF KeptInv

\* The worker and the server, short of the unlinking.
LEMMA ForwardingKeeps ==
  ASSUME KeptInv, UNCHANGED relayVars, received \subseteq received', spoilt \subseteq spoilt',
         \/ forwarder'.pc # "answered"
         \/ ToSet(forwarder'.body) \subseteq received' \cup spoilt'
  PROVE  KeptInv'
<1>1. UNCHANGED <<deliveries, spool, nextId, acked>>
  BY DEF relayVars
<1>2. NamesDiffer'
  BY <1>1, Zenon DEF KeptInv, NamesDiffer
<1>3. UnfilledIsEmpty'
  BY <1>1, Zenon DEF KeptInv, UnfilledIsEmpty
<1>4. AnsweredIsThere'
  BY Zenon DEF AnsweredIsThere
<1>5. AckedIsKept'
  BY <1>1, KeptInSpool DEF KeptInv
<1> QED
  BY <1>2, <1>3, <1>4, <1>5 DEF KeptInv

LEMMA ForwarderKeeps ==
  ASSUME TypeInv, KeptInv, Forwarder
  PROVE  KeptInv'
<1>1. CASE ReadOldest
  <2>1. UNCHANGED <<relayVars, received, spoilt>> /\ forwarder'.pc = "sent"
    BY <1>1 DEF ReadOldest, serverVars
  <2> QED
    BY <2>1, ForwardingKeeps
<1>2. CASE Ingest
  <2>1. /\ UNCHANGED relayVars
        /\ received' = received \cup WholeLines(forwarder.body)
        /\ spoilt' = spoilt \cup Merged(forwarder.body)
        /\ forwarder'.body = forwarder.body
    BY <1>2 DEF Ingest, TypeInv, AuditTypes, ServerTypes
  <2>2. ToSet(forwarder.body) \subseteq WholeLines(forwarder.body) \cup Merged(forwarder.body)
    BY Zenon DEF Merged
  <2> QED
    BY <2>1, <2>2, ForwardingKeeps
<1>3. CASE Rejected \/ IngestDies \/ ForwardFails \/ ForwarderDies
  <2>1. /\ UNCHANGED <<relayVars, spoilt>> /\ received \subseteq received'
        /\ forwarder' \in {Quiet, [Quiet EXCEPT !.pc = "dead"]}
    BY <1>3, Zenon DEF Rejected, IngestDies, ForwardFails, ForwarderDies, serverVars
  <2>2. forwarder'.pc # "answered"
    BY <2>1 DEF Quiet
  <2> QED
    BY <2>1, <2>2, ForwardingKeeps
<1> QED
  BY <1>1, <1>2, <1>3, UnlinkKeeps DEF Forwarder

LEMMA StepKept == TypeInv /\ KeptInv /\ [AuditNext]_auditVars => KeptInv'
<1>1. ASSUME KeptInv, Auditd \/ UNCHANGED auditVars PROVE KeptInv'
  <2>1. UNCHANGED <<relayVars, forwarder, received, spoilt>>
    BY <1>1, Zenon DEF Auditd, BeginLine, EndLine, Rotate, auditVars, relayVars, serverVars
  <2> QED
    BY <1>1, <2>1, KeptAlone
<1>2. ASSUME TypeInv, KeptInv, Collector PROVE KeptInv'
  <2>1. Post \/ UNCHANGED <<relayVars, forwarder, received, spoilt>>
    BY <1>2, Zenon DEF Collector, Start, Poll, PostBroken, SaveOffset, PostRefused, PostTimesOut,
       CollectorRestarts, GiveUp, serverVars
  <2> QED
    BY <1>2, <2>1, KeptAlone, PostKeeps
<1>3. ASSUME TypeInv, KeptInv, NEW q \in deliveries, MakeFile(q) \/ FillFile(q) \/ WriteFails(q)
      PROVE  KeptInv'
  <2>1. CASE WriteFails(q)
    <3>1. /\ deliveries' \subseteq deliveries /\ spool' = TornFile(q.id)
          /\ UNCHANGED <<nextId, acked, received, spoilt, forwarder>>
      BY <2>1, Zenon DEF WriteFails, serverVars
    <3> QED
      BY <1>3, <3>1, TearingKeeps
  <2> QED
    BY <1>3, <2>1, MakeKeeps, FillKeeps
<1>4. ASSUME TypeInv, KeptInv, RelayRestarts PROVE KeptInv'
  <2>1. /\ deliveries' \subseteq deliveries /\ forwarder' = Quiet
        /\ spool' \in {spool} \cup {TornFile(q.id) : q \in deliveries}
        /\ UNCHANGED <<nextId, acked, received, spoilt>>
    BY <1>4, Zenon DEF RelayRestarts, serverVars
  <2>2. \E f : spool' \in {spool, TornFile(f)}
    BY <2>1
  <2> QED
    BY <1>4, <2>1, <2>2, TearingKeeps
<1> QED
  BY <1>1, <1>2, <1>3, <1>4, ForwarderKeeps DEF AuditNext, Relay

\* What the relay answered 202 for is in its spool or with the server, unless its
\* file was read before it was written or its line was cut off (runtime_relay.py:23-77).
THEOREM AckedKept == AuditSpec => []AckedIsKept
<1>1. AuditInit => TypeInv /\ KeptInv
  BY InitTypeInv, InitKept
<1>2. TypeInv /\ KeptInv /\ [AuditNext]_auditVars => (TypeInv /\ KeptInv)'
  BY StepTypeInv, StepKept
<1>3. KeptInv => AckedIsKept
  BY DEF KeptInv
<1> QED
  BY <1>1, <1>2, <1>3, PTL DEF AuditSpec
-----------------------------------------------------------------------------
(* The checkpoint *)

\* The log is still the one that begins with the first line.
FirstLog == written = 0 \/ (log # <<>> /\ log[1] = 1)

\* The lines before n are with the relay, were given up, or are in s.
Read(n, s) == n <= Len(log) /\ \A i \in 1..n : log[i] \in acked \cup skipped \cup s

CheckpointRead == checkpoint # NoOffset => Read(checkpoint, {})
OffsetRead ==
  /\ collector.pc \in {"poll", "save"} => Read(offset, {})
  /\ collector.pc \in {"post", "wait"} => Read(offset, ToSet(collector.batch))
ChunkIsPosted ==
  collector.pc = "wait" =>
    /\ collector.id < nextId
    /\ \A q \in deliveries : q.id = collector.id => q.events = NextChunk

HonestInv == (FirstLog => CheckpointRead /\ OffsetRead) /\ ChunkIsPosted

LEMMA InitHonest == AuditInit => HonestInv
<1> SUFFICES ASSUME AuditInit PROVE HonestInv
  OBVIOUS
<1>1. collector.pc = "start" /\ checkpoint = NoOffset
  BY DEF AuditInit
<1> QED
  BY <1>1 DEF HonestInv, CheckpointRead, OffsetRead, ChunkIsPosted

LEMMA HonestMeans == TypeInv /\ HonestInv => CheckpointIsHonest
<1> SUFFICES ASSUME TypeInv, HonestInv, checkpoint # NoOffset, log # <<>>, ~Rotated
             PROVE  \A i \in 1..checkpoint : log[i] \in acked \cup skipped
  BY DEF CheckpointIsHonest
<1>1. Head(log) = 1 /\ Head(log) = log[1]
  BY DEF Rotated, TypeInv, AuditTypes, LineTypes
<1>2. FirstLog
  BY <1>1 DEF FirstLog
<1> QED
  BY <1>2 DEF HonestInv, CheckpointRead, Read

\* More lines, more read: what was read stays read.
LEMMA ReadMore ==
  ASSUME NEW n \in Nat, NEW s, Read(n, s), Len(log) \in Nat, Len(log') \in Nat,
         Len(log) <= Len(log'), \A i \in 1..Len(log) : log'[i] = log[i],
         NEW t, acked \cup skipped \cup s \subseteq acked' \cup skipped' \cup t
  PROVE  n <= Len(log') /\ \A i \in 1..n : log'[i] \in acked' \cup skipped' \cup t
<1>1. \A i \in 1..n : i \in 1..Len(log)
  BY DEF Read
<1> QED
  BY <1>1 DEF Read

\* The types the steps below need.
LEMMA Places ==
  ASSUME TypeInv
  PROVE  /\ Len(log) \in Nat /\ offset \in Nat /\ nextId \in Nat /\ NoOffset \notin Nat
         /\ checkpoint # NoOffset => checkpoint \in Nat
         /\ log \in Seq(Events)
  BY LenProperties DEF TypeInv, AuditTypes, LineTypes, CollectorTypes, RelayTypes

\* The collector and the requests are left alone, the log stays or grows, and more
\* lines are with the relay or given up.
LEMMA HonestAlone ==
  ASSUME TypeInv, TypeInv', HonestInv, FirstLog' => FirstLog,
         FirstLog' => Len(log) <= Len(log') /\ \A i \in 1..Len(log) : log'[i] = log[i],
         UNCHANGED <<offset, checkpoint, collector, nextId>>, 
         \A q \in deliveries' : \E p \in deliveries : q.id = p.id /\ q.events = p.events,
         acked \subseteq acked', skipped \subseteq skipped'
  PROVE  HonestInv'
<1>1. ASSUME FirstLog' PROVE CheckpointRead' /\ OffsetRead'
  <2>1. CheckpointRead /\ OffsetRead
    BY <1>1 DEF HonestInv
  <2>2. /\ Len(log) \in Nat /\ Len(log') \in Nat
        /\ Len(log) <= Len(log') /\ \A i \in 1..Len(log) : log'[i] = log[i]
    BY <1>1, Places
  <2>3. \A s : acked \cup skipped \cup s \subseteq acked' \cup skipped' \cup s
    OBVIOUS
  <2>4. ASSUME NEW n \in Nat, NEW s, Read(n, s) 
        PROVE  n <= Len(log') /\ \A i \in 1..n : log'[i] \in acked' \cup skipped' \cup s
    BY <2>2, <2>3, <2>4, ReadMore
  <2>5. CheckpointRead'
    BY <2>1, <2>4, Places DEF CheckpointRead, Read
  <2>6. OffsetRead'
    BY <2>1, <2>4, Places DEF OffsetRead, Read
  <2> QED
    BY <2>5, <2>6
<1>2. ChunkIsPosted'
  BY DEF HonestInv, ChunkIsPosted, NextChunk, ChunkEnd
<1> QED
  BY <1>1, <1>2 DEF HonestInv

LEMMA AuditdHonest ==
  ASSUME TypeInv, TypeInv', HonestInv, Auditd
  PROVE  HonestInv'
<1>1. CASE BeginLine
  <2>1. /\ log' = Append(log, written + 1) /\ written' = written + 1
        /\ UNCHANGED <<offset, checkpoint, collector, nextId, deliveries, acked, skipped>>
    BY <1>1, Zenon DEF BeginLine, collectorVars, relayVars
  <2>2. log \in Seq(Events) /\ written + 1 \in Events /\ written \in Nat /\ Len(log) <= written
    BY <1>1 DEF BeginLine, TypeInv, AuditTypes, LineTypes, Events
  <2>3. /\ Len(log) \in Nat /\ Len(log') = Len(log) + 1
        /\ \A i \in 1..Len(log) : log'[i] = log[i]
        /\ log'[Len(log) + 1] = written + 1
    BY <2>1, <2>2, AppendProperties, LenProperties
  <2>4. FirstLog' => FirstLog
    <3>1. CASE log = <<>>
      <4>1. Len(log) = 0
        BY <2>2, <3>1, EmptySeq
      <4>2. log'[1] = written + 1
        BY <2>3, <4>1
      <4> QED
        BY <2>1, <2>2, <4>2 DEF FirstLog
    <3>2. CASE log # <<>>
      <4>1. Len(log) # 0
        BY <2>2, <3>2, EmptySeq
      <4>2. log'[1] = log[1]
        BY <2>3, <4>1
      <4> QED
        BY <2>1, <2>2, <3>2, <4>2 DEF FirstLog
    <3> QED
      BY <3>1, <3>2
  <2>5. Len(log) <= Len(log')
    BY <2>3
  <2> QED
    BY <2>1, <2>3, <2>4, <2>5, HonestAlone
<1>2. CASE EndLine
  <2>1. UNCHANGED <<log, written, offset, checkpoint, collector, nextId, deliveries, acked, skipped>>
    BY <1>2, Zenon DEF EndLine, collectorVars, relayVars
  <2>2. FirstLog' => FirstLog
    BY <2>1 DEF FirstLog
  <2> QED
    BY <2>1, <2>2, HonestAlone, Places
<1>3. CASE Rotate
  <2>1. /\ log' = <<>> /\ log # <<>> /\ skipped \subseteq skipped'
        /\ UNCHANGED <<written, offset, checkpoint, collector, nextId, deliveries, acked>>
    BY <1>3, Zenon DEF Rotate, relayVars
  <2>2. ~FirstLog'
    <3>1. written # 0
      BY <2>1, EmptySeq, LenProperties DEF TypeInv, AuditTypes, LineTypes
    <3> QED
      BY <2>1, <3>1 DEF FirstLog
  <2> QED
    BY <2>1, <2>2, HonestAlone
<1> QED
  BY <1>1, <1>2, <1>3 DEF Auditd
\* An action that leaves the log alone.
LEMMA HonestHere ==
  ASSUME TypeInv, HonestInv, UNCHANGED <<log, written>>,
         acked \subseteq acked', skipped \subseteq skipped',
         FirstLog => checkpoint' = checkpoint \/ (checkpoint' # NoOffset => Read(checkpoint', {})),
         FirstLog /\ collector'.pc \in {"poll", "save"} =>
           offset' <= Len(log) /\ \A i \in 1..offset' : log[i] \in acked' \cup skipped',
         FirstLog /\ collector'.pc \in {"post", "wait"} =>
           /\ offset' <= Len(log)
           /\ \A i \in 1..offset' : log[i] \in acked' \cup skipped' \cup ToSet(collector'.batch),
         ChunkIsPosted'
  PROVE  HonestInv'
<1>1. FirstLog' <=> FirstLog
  BY DEF FirstLog
<1>2. ASSUME FirstLog PROVE CheckpointRead'
  BY <1>2 DEF HonestInv, CheckpointRead, Read
<1>3. ASSUME FirstLog PROVE OffsetRead'
  BY <1>3 DEF OffsetRead, Read
<1> QED
  BY <1>1, <1>2, <1>3 DEF HonestInv

LEMMA GiveUpHonest ==
  ASSUME TypeInv, HonestInv, GiveUp, collector.pc \in {"post", "wait"}
  PROVE  HonestInv'
<1>1. /\ collector' = [pc |-> "poll", batch |-> <<>>, id |-> 0]
      /\ skipped' = skipped \cup ToSet(collector.batch)
      /\ UNCHANGED <<log, written, offset, checkpoint, acked>>
  BY DEF GiveUp, logVars, relayVars
<1>2. FirstLog => offset <= Len(log)
                  /\ \A i \in 1..offset : log[i] \in acked \cup skipped \cup ToSet(collector.batch)
  BY DEF HonestInv, OffsetRead, Read
<1>3. ChunkIsPosted'
  BY <1>1 DEF ChunkIsPosted
<1> QED
  BY <1>1, <1>2, <1>3, HonestHere

LEMMA CollectorHonest ==
  ASSUME TypeInv, KeptInv, HonestInv, Collector
  PROVE  HonestInv'
<1>1. CASE Start
  <2>1. /\ collector.pc = "start" /\ collector'.pc = "poll"
        /\ skipped \subseteq skipped' /\ UNCHANGED <<log, written, checkpoint, acked>>
        /\ IF checkpoint = NoOffset
           THEN offset' = Len(log) /\ skipped' = skipped \cup (ToSet(log) \ acked)
           ELSE offset' = checkpoint /\ UNCHANGED skipped
    BY <1>1 DEF Start, TypeInv, AuditTypes, CollectorTypes, logVars, relayVars
  <2>2. FirstLog => offset' <= Len(log) /\ \A i \in 1..offset' : log[i] \in acked' \cup skipped'
    <3>1. CASE checkpoint = NoOffset
      <4>1. \A i \in 1..Len(log) : log[i] \in ToSet(log)
        BY Places, Elements
      <4> QED
        BY <2>1, <3>1, <4>1, Places
    <3>2. CASE checkpoint # NoOffset
      BY <2>1, <3>2 DEF HonestInv, CheckpointRead, Read
    <3> QED
      BY <3>1, <3>2
  <2>3. ChunkIsPosted'
    BY <2>1 DEF ChunkIsPosted
  <2> QED
    BY <2>1, <2>2, <2>3, HonestHere
<1>2. CASE Poll
  <2> DEFINE from == IF Len(log) < offset THEN 0 ELSE offset
             batch == SubSeq(log, from + 1, Complete)
  <2>1. /\ collector.pc = "poll" /\ offset' = Len(log) /\ skipped \subseteq skipped'
        /\ UNCHANGED <<log, written, checkpoint, acked>>
    BY <1>2, Zenon DEF Poll, logVars, relayVars
  <2>2. open => Last(log) \in skipped'
    BY <1>2, Zenon DEF Poll
  <2>3. /\ collector'.pc = IF batch = <<>> THEN "save" ELSE "post"
        /\ collector'.batch = batch
    <3>1. collector' = [collector EXCEPT !.pc = IF batch = <<>> THEN "save" ELSE "post", !.batch = batch]
      BY <1>2, Zenon DEF Poll
    <3> HIDE DEF batch
    <3> QED
      BY <3>1 DEF TypeInv, AuditTypes, CollectorTypes
  <2>4. from \in Nat /\ from <= Len(log) /\ Len(log) \in Nat
    BY Places
  <2>5. \A i \in (from + 1)..Complete : log[i] \in ToSet(batch)
    <3>1. from + 1 \in Nat \ {0} /\ Complete \in Int /\ Complete <= Len(log)
      BY <2>4, LinesOfLog DEF TypeInv, AuditTypes
    <3> QED
      BY <3>1, Places, Part
  <2>6. Complete = Len(log) \/ (open /\ Complete = Len(log) - 1)
    BY Zenon DEF Complete
  <2>7. batch = <<>> => ToSet(batch) = {}
    BY NoElements
  <2>8. FirstLog => \A i \in 1..from : log[i] \in acked \cup skipped
    BY <2>1, <2>4 DEF HonestInv, OffsetRead, Read
  <2> HIDE DEF from, batch
  <2>9. ASSUME FirstLog, NEW i \in 1..Len(log)
        PROVE  log[i] \in acked' \cup skipped' \cup ToSet(batch)
    <3>1. CASE i \in 1..from
      BY <2>1, <2>8, <2>9, <3>1
    <3>2. CASE i \in (from + 1)..Complete
      BY <2>5, <3>2
    <3>3. CASE open /\ i = Len(log)
      BY <2>2, <3>3 DEF Last
    <3> QED
      BY <2>4, <2>6, <3>1, <3>2, <3>3
  <2>10. ChunkIsPosted'
    BY <2>3 DEF ChunkIsPosted
  <2>11. FirstLog /\ collector'.pc \in {"poll", "save"} =>
           offset' <= Len(log) /\ \A i \in 1..offset' : log[i] \in acked' \cup skipped'
    BY <2>1, <2>3, <2>4, <2>7, <2>9
  <2>12. FirstLog /\ collector'.pc \in {"post", "wait"} =>
           /\ offset' <= Len(log)
           /\ \A i \in 1..offset' : log[i] \in acked' \cup skipped' \cup ToSet(collector'.batch)
    BY <2>1, <2>3, <2>4, <2>9
  <2> QED
    BY <2>1, <2>10, <2>11, <2>12, HonestHere
<1>3. CASE Post
  <2> DEFINE new == [id |-> nextId, events |-> NextChunk, made |-> FALSE]
  <2>1. /\ collector.pc = "post" /\ deliveries' = deliveries \cup {new} /\ nextId' = nextId + 1
        /\ UNCHANGED <<log, written, offset, checkpoint, acked, skipped>>
    BY <1>3 DEF Post, logVars
  <2>2. collector'.pc = "wait" /\ collector'.id = nextId /\ collector'.batch = collector.batch
    BY <1>3 DEF Post, TypeInv, AuditTypes, CollectorTypes
  <2>3. new.id = nextId /\ new.events = NextChunk
    OBVIOUS
  <2> HIDE DEF new
  <2>4. NextChunk' = NextChunk
    BY <2>2 DEF NextChunk, ChunkEnd
  <2>5. ChunkIsPosted'
    BY <2>1, <2>2, <2>3, <2>4, Places DEF ChunkIsPosted, KeptInv, NamesDiffer
  <2>6. FirstLog => offset <= Len(log)
                    /\ \A i \in 1..offset : log[i] \in acked \cup skipped \cup ToSet(collector.batch)
    BY <2>1 DEF HonestInv, OffsetRead, Read
  <2> QED
    BY <2>1, <2>2, <2>5, <2>6, HonestHere
<1>4. CASE PostBroken \/ PostRefused \/ PostTimesOut
  <2>1. GiveUp /\ collector.pc \in {"post", "wait"}
    BY <1>4, Zenon DEF PostBroken, PostRefused, PostTimesOut
  <2> QED
    BY <2>1, GiveUpHonest
<1>5. CASE SaveOffset
  <2>1. /\ collector.pc = "save" /\ collector'.pc = "poll" /\ checkpoint' = offset
        /\ UNCHANGED <<log, written, offset, acked, skipped>>
    BY <1>5 DEF SaveOffset, TypeInv, AuditTypes, CollectorTypes, logVars, relayVars
  <2>2. FirstLog => Read(offset, {})
    BY <2>1 DEF HonestInv, OffsetRead
  <2>3. ChunkIsPosted'
    BY <2>1 DEF ChunkIsPosted
  <2>4. FirstLog => offset <= Len(log) /\ \A i \in 1..offset : log[i] \in acked \cup skipped
    BY <2>2 DEF Read
  <2> QED
    BY <2>1, <2>2, <2>3, <2>4, HonestHere
<1>6. CASE CollectorRestarts
  <2>1. /\ collector'.pc = "start" /\ checkpoint' \in {checkpoint, 0}
        /\ UNCHANGED <<log, written, acked, skipped>>
    BY <1>6 DEF CollectorRestarts, logVars, relayVars
  <2>2. Read(0, {})
    BY Places DEF Read
  <2>3. ChunkIsPosted'
    BY <2>1 DEF ChunkIsPosted
  <2> QED
    BY <2>1, <2>2, <2>3, HonestHere
<1> QED
  BY <1>1, <1>2, <1>3, <1>4, <1>5, <1>6 DEF Collector

LEMMA FillHonest ==
  ASSUME TypeInv, KeptInv, HonestInv, NEW q \in deliveries, FillFile(q)
  PROVE  HonestInv'
<1>1. /\ deliveries' = deliveries \ {q} /\ acked' = acked \cup ToSet(q.events)
      /\ UNCHANGED <<log, written, offset, checkpoint, skipped, nextId>>
  BY Zenon DEF FillFile, logVars
<1>2. CASE collector.pc = "wait" /\ collector.id = q.id
  <2>1. /\ collector'.pc = IF AfterChunk = <<>> THEN "save" ELSE "post"
        /\ collector'.batch = AfterChunk
    BY <1>2 DEF FillFile, Answered
  <2>2. q.events = NextChunk
    BY <1>2 DEF HonestInv, ChunkIsPosted
  <2>3. ToSet(collector.batch) \subseteq ToSet(NextChunk) \cup ToSet(AfterChunk)
    BY Chunks DEF TypeInv, AuditTypes
  <2>4. AfterChunk = <<>> => ToSet(AfterChunk) = {}
    BY NoElements
  <2>5. FirstLog => offset <= Len(log)
                    /\ \A i \in 1..offset : log[i] \in acked' \cup skipped \cup ToSet(AfterChunk)
    BY <1>1, <1>2, <2>2, <2>3 DEF HonestInv, OffsetRead, Read
  <2>6. ChunkIsPosted'
    BY <2>1 DEF ChunkIsPosted
  <2> QED
    BY <1>1, <2>1, <2>4, <2>5, <2>6, HonestHere
<1>3. CASE ~(collector.pc = "wait" /\ collector.id = q.id)
  <2>1. UNCHANGED collector
    BY <1>3 DEF FillFile, Answered
  <2>2. FirstLog /\ collector.pc \in {"poll", "save"} =>
          offset <= Len(log) /\ \A i \in 1..offset : log[i] \in acked \cup skipped
    BY DEF HonestInv, OffsetRead, Read
  <2>3. FirstLog /\ collector.pc \in {"post", "wait"} =>
          /\ offset <= Len(log)
          /\ \A i \in 1..offset : log[i] \in acked \cup skipped \cup ToSet(collector.batch)
    BY DEF HonestInv, OffsetRead, Read
  <2>4. ChunkIsPosted'
    BY <1>1, <2>1 DEF HonestInv, ChunkIsPosted, NextChunk, ChunkEnd
  <2> QED
    BY <1>1, <2>1, <2>2, <2>3, <2>4, HonestHere
<1> QED
  BY <1>2, <1>3

LEMMA OthersHonest ==
  ASSUME TypeInv, TypeInv', HonestInv,
         UNCHANGED <<log, written, offset, checkpoint, collector, nextId, acked, skipped>>,
         \A q \in deliveries' : \E p \in deliveries : q.id = p.id /\ q.events = p.events
  PROVE  HonestInv'
<1>1. FirstLog' => FirstLog
  BY DEF FirstLog
<1> QED
  BY <1>1, HonestAlone, Places

LEMMA StepHonest == TypeInv /\ TypeInv' /\ KeptInv /\ HonestInv /\ [AuditNext]_auditVars => HonestInv'
<1> SUFFICES ASSUME TypeInv, TypeInv', KeptInv, HonestInv, [AuditNext]_auditVars PROVE HonestInv'
  OBVIOUS
<1>1. ASSUME Forwarder \/ UNCHANGED auditVars PROVE HonestInv'
  <2>1. UNCHANGED <<log, written, offset, checkpoint, collector, nextId, acked, skipped, deliveries>>
    BY <1>1, Zenon DEF Forwarder, ReadOldest, Ingest, Rejected, IngestDies, ForwardFails,
       ForwarderDies, Unlink, auditVars, relayVars, collectorVars, logVars
  <2> QED
    BY <2>1, OthersHonest
<1>2. ASSUME NEW q \in deliveries, WriteFails(q) PROVE HonestInv'
  <2>1. /\ UNCHANGED <<log, written, offset, checkpoint, collector, nextId, acked, skipped>>
        /\ deliveries' = deliveries \ {q}
    BY <1>2, Zenon DEF WriteFails, collectorVars, logVars
  <2> QED
    BY <2>1, OthersHonest
<1>3. ASSUME NEW q \in deliveries, MakeFile(q) PROVE HonestInv'
  <2>1. /\ UNCHANGED <<log, written, offset, checkpoint, collector, nextId, acked, skipped>>
        /\ deliveries' = (deliveries \ {q}) \cup {[q EXCEPT !.made = TRUE]}
    BY <1>3, Zenon DEF MakeFile, collectorVars, logVars
  <2>2. [q EXCEPT !.made = TRUE].id = q.id /\ [q EXCEPT !.made = TRUE].events = q.events
    BY DEF TypeInv, AuditTypes, RelayTypes
  <2>3. \A p \in deliveries' : \E r \in deliveries : p.id = r.id /\ p.events = r.events
    BY <2>1, <2>2, Zenon
  <2> QED
    BY <2>1, <2>3, OthersHonest
<1>4. ASSUME RelayRestarts PROVE HonestInv'
  <2>1. /\ UNCHANGED <<log, written, offset, checkpoint, collector, nextId, acked, skipped>>
        /\ deliveries' = {}
    BY <1>4, Zenon DEF RelayRestarts, collectorVars, logVars
  <2> QED
    BY <2>1, OthersHonest
<1> QED
  BY <1>1, <1>2, <1>3, <1>4, AuditdHonest, CollectorHonest, FillHonest DEF AuditNext, Relay

\* CHECKPOINT never runs ahead of what the relay has or the collector gave up, as
\* long as the log is not rotated (audit_collector.py:60-78).
THEOREM CheckpointHonest == AuditSpec => []CheckpointIsHonest
<1>1. AuditInit => TypeInv /\ KeptInv /\ HonestInv
  BY InitTypeInv, InitKept, InitHonest
<1>2. TypeInv /\ KeptInv /\ HonestInv /\ [AuditNext]_auditVars => (TypeInv /\ KeptInv /\ HonestInv)'
  BY StepTypeInv, StepKept, StepHonest
<1>3. TypeInv /\ KeptInv /\ HonestInv => CheckpointIsHonest
  BY HonestMeans
<1> QED
  BY <1>1, <1>2, <1>3, PTL DEF AuditSpec
=============================================================================
