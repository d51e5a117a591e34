----------------------- MODULE IncrementalSyncProofs -----------------------
(***************************************************************************)
(* That an index called current is current, for every repository and any   *)
(* number of changes, runs and accidents (IncrementalSync).  The argument  *)
(* is in the invariant below: what the hash cache claims holds of the disk *)
(* and of the graph, but for the files a run could not read or that were   *)
(* written behind its back, and a run keeps an account of what it still    *)
(* has to do before the claim it saves is true.                            *)
(***************************************************************************)
EXTENDS IncrementalSync, TLAPS

-----------------------------------------------------------------------------
(* Types *)

LEMMA FlushedTyped ==
  ASSUME NEW g \in Graph, NEW b \in Graph
  PROVE  Flushed(g, b) \in Graph
BY DEF Flushed, Graph

LEMMA WithoutTyped ==
  ASSUME NEW g \in Graph, NEW S
  PROVE  Without(g, S) \in Graph
BY DEF Without, Graph

RunType == [pc : Pcs, full : BOOLEAN, old : [Files -> Versions], new : [Files -> Versions],
            todo : SUBSET Files, unread : SUBSET Files, inGraph : SUBSET Files,
            changed : [Files -> Versions], fresh : SUBSET Files,
            captured : SUBSET (Files \X Files), buffer : Graph, late : SUBSET Files]

LEMMA NoRunTyped == NoRun \in RunType /\ NoGraph \in Graph /\ Nothing \in [Files -> Versions]
BY SyncBounds DEF NoRun, NoGraph, Nothing, Versions, RunType, Graph, Pcs

LEMMA TypeStep ==
  ASSUME SyncTypeOK, [SyncNext]_syncVars
  PROVE  SyncTypeOK'
<1> USE SyncBounds, UsesAssumption
<1>0. /\ run \in RunType /\ graph \in Graph /\ run.buffer \in Graph /\ NoRun \in RunType
      /\ NoGraph \in Graph /\ Nothing \in [Files -> Versions] /\ 0 \in Versions
      /\ Known(graph) \subseteq Files /\ UsableCache \in [Files -> Versions]
      /\ OnDisk \subseteq Files /\ Keys(run.changed) \subseteq Files
  BY NoRunTyped DEF SyncTypeOK, RunType, Versions, Known, UsableCache, OnDisk, Keys
<1>1. ASSUME NEW f \in Files, Write(f) PROVE SyncTypeOK'
  BY <1>1, <1>0 DEF Write, SyncTypeOK, RunType, Versions
<1>2. ASSUME NEW f \in Files, Delete(f) PROVE SyncTypeOK'
  BY <1>2, <1>0 DEF Delete, SyncTypeOK, RunType, Versions
<1>3. ASSUME NEW force \in BOOLEAN, StartRun(force) PROVE SyncTypeOK'
  <2> DEFINE old == IF force THEN Nothing ELSE UsableCache
  <2>1. old \in [Files -> Versions]
    BY <1>0
  <2>2. run' = [NoRun EXCEPT !.pc = "scan", !.full = (Keys(old) = {}), !.old = old,
                             !.todo = OnDisk, !.inGraph = Known(graph)]
    BY <1>3 DEF StartRun
  <2> HIDE DEF old
  <2>3. run' \in RunType
    BY <2>1, <2>2, <1>0 DEF RunType, Pcs
  <2> QED
    <3>1. cache' \in [Files -> Versions] /\ runs' \in 0..MaxRuns
      BY <1>3, <1>0 DEF StartRun, SyncTypeOK
    <3>2. stale' \subseteq {"saved", "walked"}
      BY <1>3 DEF StartRun, SyncTypeOK
    <3>3. /\ disk' = disk /\ newer' = newer /\ graph' = graph /\ edits' = edits /\ deaths' = deaths
          /\ unread' = unread /\ behind' = behind /\ missed' = missed /\ damaged' = damaged
      BY <1>3 DEF StartRun
    <3> QED
      BY <2>3, <3>1, <3>2, <3>3 DEF SyncTypeOK, RunType
<1>4. ASSUME NEW f \in Files, SkipFile(f) \/ ReadFile(f) \/ MissFile(f) PROVE SyncTypeOK'
  <2>1. run' \in RunType
    <3>1. CASE SkipFile(f)
      <4>1. [run.new EXCEPT ![f] = run.old[f]] \in [Files -> Versions]
        BY <1>0 DEF RunType
      <4> QED
        BY <3>1, <4>1, <1>0 DEF SkipFile, Scanned, RunType
    <3>2. CASE ReadFile(f)
      <4>1. /\ [run.new EXCEPT ![f] = disk[f]] \in [Files -> Versions]
            /\ [run.changed EXCEPT ![f] = IF run.old[f] = disk[f] THEN 0 ELSE disk[f]]
                 \in [Files -> Versions]
        BY <1>0 DEF RunType, SyncTypeOK
      <4> QED
        BY <3>2, <4>1, <1>0 DEF ReadFile, Scanned, RunType
    <3>3. CASE MissFile(f)
      BY <3>3, <1>0 DEF MissFile, Scanned, RunType
    <3> QED
      BY <1>4, <3>1, <3>2, <3>3
  <2>2. unread' \in 0..MaxUnread
    BY <1>4 DEF SkipFile, ReadFile, MissFile, SyncTypeOK
  <2> QED
    BY <1>4, <2>1, <2>2 DEF SkipFile, ReadFile, MissFile, Scanned, SyncTypeOK, RunType
<1>5. ASSUME NEW f \in Files, Reindex(f) PROVE SyncTypeOK'
  <2>1. [run.buffer.nodes EXCEPT ![f] = @ \cup {run.changed[f]}] \in [Files -> SUBSET Versions]
    BY <1>0 DEF RunType, Graph
  <2>2. [run.buffer EXCEPT !.nodes[f] = @ \cup {run.changed[f]}] \in Graph
    BY <2>1, <1>0 DEF Graph
  <2>3. run' \in RunType
    BY <1>5, <1>0, <2>2 DEF Reindex, RunType
  <2>4. graph' \in Graph
    BY <1>5, <1>0, WithoutTyped DEF Reindex
  <2> QED
    BY <1>5, <2>3, <2>4 DEF Reindex, SyncTypeOK, RunType, counters
<1>6. CASE Expand
  BY <1>6, <1>0 DEF Expand, SyncTypeOK, RunType, Pcs, Callers, counters, Graph
<1>7. CASE FlushSome
  BY <1>7, <1>0, FlushedTyped DEF FlushSome, SyncTypeOK, RunType, counters
<1>8. CASE Sweep
  BY <1>8, <1>0, WithoutTyped DEF Sweep, SyncTypeOK, RunType, Pcs, counters, Graph
<1>9. CASE SaveCache
  BY <1>9, <1>0 DEF SaveCache, SyncTypeOK, RunType, Pcs, counters
<1>10. CASE ResolveCalls
  BY <1>10, <1>0 DEF ResolveCalls, SyncTypeOK, RunType, Pcs, counters, Graph
<1>11. CASE FlushRest
  BY <1>11, <1>0, FlushedTyped DEF FlushRest, SyncTypeOK, RunType, Pcs, counters
<1>12. CASE Prune
  BY <1>12, <1>0, WithoutTyped DEF Prune, SyncTypeOK, RunType, Pcs, counters
<1>13. CASE RunDies
  BY <1>13, <1>0, FlushedTyped DEF RunDies, SyncTypeOK, RunType, Pcs, counters
<1>14. CASE WipeGraph
  BY <1>14, <1>0 DEF WipeGraph, SyncTypeOK
<1>15. CASE UNCHANGED syncVars
  BY <1>15 DEF syncVars, SyncTypeOK
<1> QED
  BY <1>1, <1>2, <1>3, <1>4, <1>5, <1>6, <1>7, <1>8, <1>9, <1>10, <1>11, <1>12, <1>13,
     <1>14, <1>15 DEF SyncNext

LEMMA InitTyped == SyncInit => SyncTypeOK
<1> SUFFICES ASSUME SyncInit PROVE SyncTypeOK
  OBVIOUS
<1>1. disk \in [Files -> Versions] /\ newer \subseteq Files
  BY SyncBounds DEF SyncInit, Versions
<1> QED
  <2>1. edits \in 0..MaxEdits /\ runs \in 0..MaxRuns /\ deaths \in 0..MaxDeaths /\ unread \in 0..MaxUnread
    BY SyncBounds DEF SyncInit
  <2>2. /\ cache \in [Files -> Versions] /\ graph \in Graph /\ run \in RunType
    BY NoRunTyped DEF SyncInit
  <2>3. stale \subseteq {"saved", "walked"} /\ behind \subseteq Files /\ missed \subseteq Files
    BY DEF SyncInit
  <2>4. damaged \in BOOLEAN
    BY DEF SyncInit
  <2> QED
    BY <1>1, <2>1, <2>2, <2>3, <2>4 DEF SyncTypeOK, RunType

\* A hash cache and a graph are what their readers expect, whatever happens to a run.
THEOREM SyncTypeCorrect == SyncSpec => []SyncTypeOK
<1> QED
  BY InitTyped, TypeStep, PTL DEF SyncSpec

-----------------------------------------------------------------------------
(* The inductive invariant *)

\* The files a run could not read, and those written behind its back, once it is over.
UnreadRun == run.unread \cup (IF run.full THEN {} ELSE missed)
LateRun   == run.late \cup (IF run.full THEN {} ELSE behind)

\* The files the cache is not to be believed about: it is the run's once it is saved.
Saved   == run.pc \in {"calls", "flush", "prune"}
NotRead == IF Saved THEN UnreadRun ELSE missed
NotSeen == IF Saved THEN LateRun ELSE behind

\* The versions of a file the graph has or will have when the buffer is flushed.
NodesIn(f) == graph.nodes[f] \cup run.buffer.nodes[f]

\* The next change of a file makes a version nobody has seen.
VersionsAreOld ==
  \A f \in Files : /\ disk[f] <= edits + 1 /\ cache[f] <= edits + 1
                   /\ run.new[f] <= edits + 1 /\ run.old[f] <= edits + 1

\* A file that is not newer than the cache is as the cache says, and a file the
\* cache does not know came after the listing that was saved with it.
CacheIsHonest ==
  /\ \A f \in Files \ (NotSeen \cup NotRead) :
        f \notin newer /\ disk[f] # 0 /\ cache[f] # 0 => disk[f] = cache[f]
  /\ Keys(cache) # {} =>
       \A f \in OnDisk \ NotRead : cache[f] = 0 => f \in Created /\ "saved" \in stale

\* Between the runs the graph is as the cache says.
GraphIsHonest ==
  run.pc \in {"idle", "scan"} /\ ~damaged =>
    /\ \A f \in Files \ missed :
         /\ cache[f] = 0 => graph.nodes[f] = {}
         /\ Known(graph) # {} /\ cache[f] # 0 =>
              /\ disk[f] = cache[f] /\ f \notin behind => graph.nodes[f] = {cache[f]}
              /\ disk[f] # 0 /\ f \notin Created => graph.nodes[f] # {}
    /\ \A e \in Uses : e[1] \in Known(graph) \ missed /\ e[2] \in Known(graph) \ missed
                         => e \in graph.edges

EdgesHaveEnds ==
  /\ graph.edges \subseteq Uses /\ run.buffer.edges \subseteq Uses /\ run.captured \subseteq Uses
  /\ \A e \in graph.edges : graph.nodes[e[1]] # {} /\ graph.nodes[e[2]] # {}

RunIsSane ==
  /\ run.pc = "idle" => run = NoRun
  /\ Saved => cache = run.new
  /\ run.pc \in {"scan", "prune"} => run.buffer = NoGraph
  /\ run.full => run.old = Nothing
  /\ run.pc = "reindex" => run.buffer.edges = {}

\* What the run is going to write into the cache.
ReadsAreAccounted ==
  run.pc \in {"scan", "reindex", "save"} =>
    \A f \in Files :
      /\ f \notin UnreadRun \cup LateRun /\ run.new[f] # 0 /\ disk[f] # 0 => disk[f] = run.new[f]
      /\ f \in OnDisk \ run.unread /\ ~(run.pc = "scan" /\ f \in run.todo) /\ run.new[f] = 0
           => f \in Created /\ "walked" \in stale

ScanIsAccounted ==
  run.pc = "scan" =>
    /\ run.inGraph = Known(graph)
    /\ ~run.full => run.old = cache /\ Known(graph) # {} /\ Keys(cache) # {}
    /\ \A f \in run.todo : run.new[f] = 0 /\ run.changed[f] = 0 /\ f \notin run.unread \cup run.late
    /\ \A f \in Files : /\ run.changed[f] \in {0, run.new[f]}
                        /\ run.changed[f] = 0 => run.new[f] \in {0, run.old[f]}
    /\ ~run.full /\ ~damaged =>
         \A f \in Files \ (Created \cup UnreadRun) : run.changed[f] # 0 => graph.nodes[f] # {}

\* A run that died changed the graph in ways only a full build mends.
Trusted == run.full \/ ~damaged

FileReindexed(f) ==
  /\ f \in run.todo => /\ run.changed[f] # 0 /\ run.buffer.nodes[f] = {}
                       /\ f \in run.fresh => graph.nodes[f] = {}
  /\ run.changed[f] # 0 /\ f \notin run.todo => NodesIn(f) = {run.changed[f]}
  /\ run.changed[f] = 0 => run.buffer.nodes[f] = {}
  /\ run.new[f] # 0 /\ disk[f] = run.new[f] /\ f \notin LateRun =>
       run.changed[f] = run.new[f] \/ (run.changed[f] = 0 /\ graph.nodes[f] = {run.new[f]})
  /\ run.new[f] = 0 => /\ run.changed[f] = 0
                       /\ graph.nodes[f] = {} \/ f \in Keys(run.old) \cup Preexisting
  /\ f \notin Created /\ run.new[f] # 0 /\ disk[f] # 0 => run.changed[f] # 0 \/ graph.nodes[f] # {}
  /\ run.full /\ run.changed[f] = 0 => run.new[f] = 0

\* The edges into re-parsed files are in the graph, or captured from it.
EdgesReindexed ==
  /\ \A e \in graph.edges : e[2] \in run.todo \ run.fresh /\ run.changed[e[1]] = 0
                              => e \in run.captured
  /\ ~run.full => \A e \in Uses :
       e[1] \notin UnreadRun /\ e[2] \notin UnreadRun
         /\ run.changed[e[1]] = 0 /\ graph.nodes[e[1]] # {}
         /\ (graph.nodes[e[2]] # {} \/ run.changed[e[2]] # 0) => e \in graph.edges \cup run.captured

ReindexIsAccounted ==
  run.pc = "reindex" /\ Trusted =>
    (\A f \in Files \ UnreadRun : FileReindexed(f)) /\ EdgesReindexed

FileSwept(f) ==
  /\ run.new[f] # 0 /\ disk[f] = run.new[f] /\ f \notin LateRun => NodesIn(f) = {run.new[f]}
  /\ run.new[f] = 0 => NodesIn(f) = {}
  /\ f \notin Created /\ run.new[f] # 0 /\ disk[f] # 0 => NodesIn(f) # {}

\* From the sweep on only calls of re-parsed files are missing.
EdgesSwept ==
  \A e \in Uses : e[1] \notin UnreadRun /\ e[2] \notin UnreadRun
                    /\ NodesIn(e[1]) # {} /\ NodesIn(e[2]) # {} =>
      \/ e \in graph.edges \cup run.buffer.edges
      \/ run.pc \in {"save", "calls"} /\ run.changed[e[1]] # 0

RestIsAccounted ==
  run.pc \in {"save", "calls", "flush", "prune"} /\ Trusted =>
    (\A f \in Files \ UnreadRun : FileSwept(f)) /\ EdgesSwept

SyncInv ==
  /\ SyncTypeOK /\ VersionsAreOld /\ CacheIsHonest /\ GraphIsHonest /\ EdgesHaveEnds
  /\ RunIsSane /\ ReadsAreAccounted /\ ScanIsAccounted /\ ReindexIsAccounted /\ RestIsAccounted

-----------------------------------------------------------------------------
(* One step *)

LEMMA FlushedGraph ==
  ASSUME NEW g \in Graph, NEW b \in Graph
  PROVE  /\ \A f \in Files : Flushed(g, b).nodes[f] = g.nodes[f] \cup b.nodes[f]
         /\ \A e : e \in Flushed(g, b).edges <=>
              \/ e \in g.edges
              \/ e \in b.edges /\ Flushed(g, b).nodes[e[1]] # {} /\ Flushed(g, b).nodes[e[2]] # {}
BY DEF Flushed, Graph

LEMMA WithoutGraph ==
  ASSUME NEW g \in Graph, NEW S
  PROVE  /\ \A f \in Files : Without(g, S).nodes[f] = IF f \in S THEN {} ELSE g.nodes[f]
         /\ \A e : e \in Without(g, S).edges <=> e \in g.edges /\ e[1] \notin S /\ e[2] \notin S
BY DEF Without, Graph

LEMMA UsesAreOfFiles == \A e \in Uses : e[1] \in Files /\ e[2] \in Files
BY UsesAssumption

LEMMA VersionsAreNumbers ==
  ASSUME SyncTypeOK
  PROVE  /\ edits \in Nat
         /\ \A f \in Files : disk[f] \in Nat /\ cache[f] \in Nat /\ run.new[f] \in Nat
                             /\ run.old[f] \in Nat /\ run.changed[f] \in Nat
BY SyncBounds DEF SyncTypeOK, Versions

LEMMA WriteStep ==
  ASSUME SyncInv, NEW f \in Files, Write(f)
  PROVE  SyncInv'
<1> USE VersionsAreNumbers DEF SyncInv
<1>1. SyncTypeOK'
  BY TypeStep DEF SyncNext
<1>2. run \in RunType
  BY DEF SyncTypeOK, RunType
<1>3. /\ run'.pc = run.pc /\ run'.full = run.full /\ run'.old = run.old /\ run'.new = run.new
      /\ run'.todo = run.todo /\ run'.unread = run.unread /\ run'.inGraph = run.inGraph
      /\ run'.changed = run.changed /\ run'.fresh = run.fresh /\ run'.captured = run.captured
      /\ run'.buffer = run.buffer
      /\ cache' = cache /\ graph' = graph /\ missed' = missed /\ damaged' = damaged
  BY <1>2 DEF Write, RunType
<1>4. /\ \A g \in Files : disk'[g] = IF g = f THEN edits + 2 ELSE disk[g]
      /\ newer' = newer \cup {f} /\ edits' = edits + 1
      /\ disk[f] # 0 \/ f \in Created
      /\ stale \subseteq stale' /\ (disk[f] # 0 \/ stale' = {"saved", "walked"})
  BY DEF Write, SyncTypeOK
<1>5. \A g \in Files \ {f} : /\ g \in run'.late <=> g \in run.late
                             /\ g \in behind' <=> g \in behind
  BY <1>2 DEF Write, RunType
<1>6. f \in run.todo /\ run.pc = "scan" => f \notin run'.late
  BY <1>2 DEF Write, RunType, ReadUnsaved
<1>7. VersionsAreOld'
  BY <1>3, <1>4 DEF VersionsAreOld
<1>8. \A g \in Files \ {f} : /\ g \in LateRun' <=> g \in LateRun
                             /\ g \in NotSeen' <=> g \in NotSeen
  BY <1>3, <1>5 DEF LateRun, NotSeen, Saved
<1>9. UnreadRun' = UnreadRun /\ NotRead' = NotRead
  BY <1>3 DEF UnreadRun, NotRead, Saved
<1>10. CacheIsHonest'
  BY <1>3, <1>4, <1>8, <1>9 DEF CacheIsHonest, Keys, OnDisk
<1>11. GraphIsHonest'
  BY <1>3, <1>4, <1>5 DEF GraphIsHonest, Known, VersionsAreOld
<1>12. EdgesHaveEnds' /\ ScanIsAccounted'
  BY <1>3, <1>4, <1>5, <1>6, <1>9 DEF EdgesHaveEnds, ScanIsAccounted, Known, Keys, SyncTypeOK
<1>13. RunIsSane'
  BY <1>2, <1>3 DEF RunIsSane, Saved, NoRun, RunType, Write, ReadUnsaved
<1>14. ReadsAreAccounted'
  <2> SUFFICES ASSUME (run.pc \in {"scan", "reindex", "save"})', NEW g \in Files
               PROVE  (/\ g \notin UnreadRun \cup LateRun /\ run.new[g] # 0 /\ disk[g] # 0
                            => disk[g] = run.new[g]
                       /\ g \in OnDisk \ run.unread /\ ~(run.pc = "scan" /\ g \in run.todo)
                            /\ run.new[g] = 0 => g \in Created /\ "walked" \in stale)'
    BY DEF ReadsAreAccounted
  <2>1. CASE g = f
    <3>1. f \in run'.late \/ (run.pc = "scan" /\ f \in run.todo)
      BY <1>2, <1>3 DEF Write, RunType, ReadUnsaved
    <3>2. f \in LateRun' \/ run.new[f] = 0
      BY <3>1 DEF LateRun, ScanIsAccounted
    <3>3. f \in OnDisk \/ (f \in Created /\ "walked" \in stale')
      BY <1>4 DEF OnDisk, Keys
    <3> QED
      BY <1>3, <1>4, <2>1, <3>2, <3>3 DEF ReadsAreAccounted
  <2>2. CASE g # f
    BY <1>3, <1>4, <1>8, <1>9, <2>2 DEF ReadsAreAccounted, OnDisk, Keys
  <2> QED
    BY <2>1, <2>2
<1>15. ReindexIsAccounted'
  <2>1. ASSUME NEW g \in Files, FileReindexed(g) PROVE FileReindexed(g)'
    BY <1>3, <1>4, <1>8, <2>1 DEF FileReindexed, VersionsAreOld, NodesIn, Keys, Preexisting
  <2> QED
    BY <1>3, <1>9, <2>1 DEF ReindexIsAccounted, EdgesReindexed, Trusted
<1>16. RestIsAccounted'
  <2>1. ASSUME NEW g \in Files, FileSwept(g) PROVE FileSwept(g)'
    BY <1>3, <1>4, <1>8, <2>1 DEF FileSwept, VersionsAreOld, NodesIn
  <2> QED
    BY <1>3, <1>9, <2>1 DEF RestIsAccounted, EdgesSwept, Trusted, NodesIn
<1> QED
  BY <1>1, <1>7, <1>10, <1>11, <1>12, <1>13, <1>14, <1>15, <1>16

LEMMA DeleteStep ==
  ASSUME SyncInv, NEW f \in Files, Delete(f)
  PROVE  SyncInv'
<1> USE VersionsAreNumbers DEF SyncInv
<1>1. SyncTypeOK'
  BY TypeStep DEF SyncNext
<1>3. run' = run /\ cache' = cache /\ graph' = graph /\ missed' = missed /\ damaged' = damaged
      /\ behind' = behind
  BY DEF Delete
<1>4. /\ \A g \in Files : disk'[g] = IF g = f THEN 0 ELSE disk[g]
      /\ newer' = newer \ {f} /\ edits' = edits + 1 /\ stale' = {"saved", "walked"}
  BY DEF Delete, SyncTypeOK
<1>7. VersionsAreOld'
  BY <1>3, <1>4 DEF VersionsAreOld
<1>8. /\ LateRun' = LateRun /\ NotSeen' = NotSeen /\ UnreadRun' = UnreadRun /\ NotRead' = NotRead
      /\ Saved' = Saved /\ Trusted' = Trusted
  BY <1>3 DEF LateRun, NotSeen, Saved, UnreadRun, NotRead, Trusted
<1>10. CacheIsHonest'
  BY <1>3, <1>4, <1>8 DEF CacheIsHonest, Keys, OnDisk
<1>11. GraphIsHonest'
  BY <1>3, <1>4 DEF GraphIsHonest, Known
<1>12. EdgesHaveEnds' /\ ScanIsAccounted'
  BY <1>3, <1>8 DEF EdgesHaveEnds, ScanIsAccounted, Known, Keys
<1>13. RunIsSane'
  BY <1>3, <1>8 DEF RunIsSane
<1>14. ReadsAreAccounted'
  BY <1>3, <1>4, <1>8 DEF ReadsAreAccounted, OnDisk, Keys
<1>15. ReindexIsAccounted'
  <2>1. ASSUME NEW g \in Files, FileReindexed(g) PROVE FileReindexed(g)'
    BY <1>3, <1>4, <1>8, <2>1 DEF FileReindexed, NodesIn, Keys, Preexisting
  <2> QED
    BY <1>3, <1>8, <2>1 DEF ReindexIsAccounted, EdgesReindexed
<1>16. RestIsAccounted'
  <2>1. ASSUME NEW g \in Files, FileSwept(g) PROVE FileSwept(g)'
    BY <1>3, <1>4, <1>8, <2>1 DEF FileSwept, NodesIn
  <2> QED
    BY <1>3, <1>8, <2>1 DEF RestIsAccounted, EdgesSwept, NodesIn
<1> QED
  BY <1>1, <1>7, <1>10, <1>11, <1>12, <1>13, <1>14, <1>15, <1>16

LEMMA StartStep ==
  ASSUME SyncInv, NEW force \in BOOLEAN, StartRun(force)
  PROVE  SyncInv'
<1> USE VersionsAreNumbers DEF SyncInv
<1>1. SyncTypeOK'
  BY TypeStep DEF SyncNext
<1> DEFINE old == IF force THEN Nothing ELSE UsableCache
<1>2. run' = [NoRun EXCEPT !.pc = "scan", !.full = (Keys(old) = {}), !.old = old,
                           !.todo = OnDisk, !.inGraph = Known(graph)]
  BY DEF StartRun
<1>3. /\ run'.pc = "scan" /\ run'.full = (Keys(old) = {}) /\ run'.old = old
      /\ run'.new = Nothing /\ run'.todo = OnDisk /\ run'.unread = {}
      /\ run'.inGraph = Known(graph) /\ run'.changed = Nothing /\ run'.captured = {}
      /\ run'.buffer = NoGraph /\ run'.late = {}
  <2> HIDE DEF old
  <2> QED
    BY <1>2, NoRunTyped DEF NoRun
<1>4. /\ old \in [Files -> Versions]
      /\ \A f \in Files : old[f] \in {0, cache[f]} /\ cache'[f] \in {0, cache[f]}
      /\ Known(graph) # {} => cache' = cache
      /\ Keys(old) # {} => old = cache' /\ Known(graph) # {}
      /\ Keys(cache') # {} => cache' = cache
      /\ cache' = cache \/ cache' = Nothing
  BY NoRunTyped DEF StartRun, UsableCache, SyncTypeOK, Nothing, Keys
<1>5. run.pc = "idle"
  BY DEF StartRun, RunAt
<1>6. /\ disk' = disk /\ newer' = newer /\ graph' = graph /\ edits' = edits /\ stale' = stale \ {"walked"}
      /\ behind' = behind /\ missed' = missed /\ damaged' = damaged
  BY DEF StartRun
<1>7. VersionsAreOld'
  BY <1>3, <1>4, <1>6 DEF VersionsAreOld, Nothing
<1>8. NotSeen' = behind /\ NotSeen = behind /\ NotRead' = missed /\ NotRead = missed
  BY <1>3, <1>5, <1>6 DEF NotSeen, NotRead, Saved
<1>10. CacheIsHonest'
  BY <1>4, <1>6, <1>8 DEF CacheIsHonest, Keys, OnDisk
<1>11. GraphIsHonest'
  BY <1>3, <1>4, <1>5, <1>6 DEF GraphIsHonest, Known, Nothing
<1>12. EdgesHaveEnds'
  BY <1>3, <1>6 DEF EdgesHaveEnds, NoGraph
<1>13. RunIsSane'
  BY <1>3, <1>4 DEF RunIsSane, Saved, Keys, Nothing
<1>14. ReadsAreAccounted'
  BY <1>3, <1>6 DEF ReadsAreAccounted, OnDisk, Keys, Nothing
<1>15. ScanIsAccounted'
  <2>1. (Known(graph))' = Known(graph) /\ (Keys(cache))' = Keys(cache')
    BY <1>6 DEF Known, Keys
  <2>2. ~run'.full => run'.old = cache' /\ Known(graph) # {} /\ Keys(cache') # {}
    <3> HIDE DEF old
    <3> QED
      BY <1>3, <1>4
  <2>3. \A f \in Files : run'.new[f] = 0 /\ run'.changed[f] = 0
    BY <1>3 DEF Nothing
  <2>4. OnDisk \subseteq Files
    BY DEF OnDisk, Keys
  <2> HIDE DEF old
  <2> QED
    BY <1>3, <2>1, <2>2, <2>3, <2>4 DEF ScanIsAccounted
<1>16. ReindexIsAccounted' /\ RestIsAccounted'
  BY <1>3 DEF ReindexIsAccounted, RestIsAccounted
<1> QED
  BY <1>1, <1>7, <1>10, <1>11, <1>12, <1>13, <1>14, <1>15, <1>16

\* What skipping, reading and missing a file have in common.
LEMMA ScannedStep ==
  ASSUME SyncInv, NEW f \in Files, SkipFile(f) \/ ReadFile(f) \/ MissFile(f)
  PROVE  SyncInv'
<1> USE VersionsAreNumbers DEF SyncInv
<1>1. SyncTypeOK'
  BY TypeStep DEF SyncNext
<1>2. run \in RunType
  BY DEF SyncTypeOK, RunType
<1>3. /\ run.pc = "scan" /\ f \in run.todo
      /\ run'.pc = "scan" /\ run'.full = run.full /\ run'.old = run.old
      /\ run'.todo = run.todo \ {f} /\ run'.inGraph = run.inGraph
      /\ run'.fresh = run.fresh /\ run'.captured = run.captured
      /\ run'.buffer = run.buffer /\ run'.late = run.late
      /\ \A g \in Files \ {f} : /\ run'.new[g] = run.new[g] /\ run'.changed[g] = run.changed[g]
                                /\ g \in run'.unread <=> g \in run.unread
  <2>1. CASE SkipFile(f)
    BY <1>2, <2>1 DEF SkipFile, Scanned, RunAt, RunType
  <2>2. CASE ReadFile(f)
    BY <1>2, <2>2 DEF ReadFile, Scanned, RunAt, RunType
  <2>3. CASE MissFile(f)
    BY <1>2, <2>3 DEF MissFile, Scanned, RunAt, RunType
  <2> QED
    BY <2>1, <2>2, <2>3
<1>4. /\ disk' = disk /\ newer' = newer /\ stale' = stale /\ cache' = cache /\ graph' = graph
      /\ edits' = edits /\ behind' = behind /\ missed' = missed /\ damaged' = damaged
  BY DEF SkipFile, ReadFile, MissFile, Scanned
<1>5. \/ /\ run.old[f] # 0 /\ f \notin newer /\ disk[f] # 0
         /\ run'.new[f] = run.old[f] /\ run'.changed[f] = 0
      \/ /\ run'.new[f] = disk[f] /\ disk[f] # 0
         /\ run'.changed[f] = IF run.old[f] = disk[f] THEN 0 ELSE disk[f]
      \/ f \in run'.unread /\ run'.new[f] = 0 /\ run'.changed[f] = 0
  <2>1. run.new[f] = 0 /\ run.changed[f] = 0
    BY <1>3 DEF ScanIsAccounted
  <2>2. CASE SkipFile(f)
    BY <1>2, <2>1, <2>2 DEF SkipFile, Scanned, RunType, ToRead
  <2>3. CASE ReadFile(f)
    BY <1>2, <2>1, <2>3 DEF ReadFile, Scanned, RunType
  <2>4. CASE MissFile(f)
    BY <1>2, <2>1, <2>4 DEF MissFile, Scanned, RunType
  <2> QED
    BY <2>2, <2>3, <2>4
<1>6. run.unread \subseteq run'.unread /\ \A g \in Files \ {f} : g \in UnreadRun' <=> g \in UnreadRun
  BY <1>2, <1>3, <1>4 DEF UnreadRun, SkipFile, ReadFile, MissFile, Scanned, RunType
<1>7. LateRun' = LateRun
  BY <1>3, <1>4 DEF LateRun
<1>8. VersionsAreOld'
  BY <1>3, <1>4, <1>5 DEF VersionsAreOld
<1>9. CacheIsHonest'
  BY <1>3, <1>4 DEF CacheIsHonest, Keys, OnDisk, NotRead, NotSeen, Saved
<1>10. GraphIsHonest'
  BY <1>3, <1>4 DEF GraphIsHonest, Known
<1>11. EdgesHaveEnds'
  BY <1>3, <1>4 DEF EdgesHaveEnds
<1>12. RunIsSane'
  BY <1>3, <1>4 DEF RunIsSane, Saved
<1>13. ~run.full => \/ f \in run'.unread
                    \/ run.old[f] = cache[f] /\ (f \in missed => f \in UnreadRun')
                                             /\ (f \in behind => f \in LateRun')
  BY <1>3, <1>4 DEF ScanIsAccounted, UnreadRun, LateRun
<1>14. ReadsAreAccounted'
  <2> SUFFICES ASSUME NEW g \in Files
               PROVE  (/\ g \notin UnreadRun \cup LateRun /\ run.new[g] # 0 /\ disk[g] # 0
                            => disk[g] = run.new[g]
                       /\ g \in OnDisk \ run.unread /\ ~(run.pc = "scan" /\ g \in run.todo)
                            /\ run.new[g] = 0 => g \in Created /\ "walked" \in stale)'
    BY DEF ReadsAreAccounted
  <2>1. CASE g = f
    <3>1. run.full => run.old[f] = 0
      BY DEF RunIsSane, Nothing
    <3>2. f \in newer \/ cache[f] = 0 \/ disk[f] = 0 \/ disk[f] = cache[f] \/ f \in behind \cup missed
      BY <1>3 DEF CacheIsHonest, NotSeen, NotRead, Saved
    <3>3. f \in run'.unread => f \in UnreadRun'
      BY DEF UnreadRun
    <3> QED
      BY <1>3, <1>4, <1>5, <1>13, <2>1, <3>1, <3>2, <3>3
  <2>2. CASE g # f
    BY <1>3, <1>4, <1>6, <1>7, <2>2 DEF ReadsAreAccounted, OnDisk, Keys
  <2> QED
    BY <2>1, <2>2
<1>15. ScanIsAccounted'
  <2>1. \A g \in run.todo \ {f} : g \in Files
    BY <1>2 DEF RunType
  <2>2. ~run.full /\ ~damaged /\ f \notin Created \cup UnreadRun' /\ run'.changed[f] # 0
          => graph.nodes[f] # {}
    <3> SUFFICES ASSUME ~run.full, ~damaged, f \notin Created \cup UnreadRun', run'.changed[f] # 0
                 PROVE  graph.nodes[f] # {}
      OBVIOUS
    <3>1. f \notin run'.unread /\ f \notin missed /\ disk[f] # 0
      BY <1>3, <1>4, <1>5 DEF UnreadRun
    <3>2. Keys(cache) # {} /\ Known(graph) # {}
      BY <1>3 DEF ScanIsAccounted
    <3>3. cache[f] # 0
      BY <1>3, <3>1, <3>2 DEF CacheIsHonest, OnDisk, Keys, NotRead, Saved
    <3> QED
      BY <1>3, <3>1, <3>2, <3>3 DEF GraphIsHonest
  <2>3. (Known(graph))' = Known(graph) /\ (Keys(cache))' = Keys(cache)
    BY <1>4 DEF Known, Keys
  <2>4. \A g \in Files : /\ run'.changed[g] \in {0, run'.new[g]}
                         /\ run'.changed[g] = 0 => run'.new[g] \in {0, run'.old[g]}
    BY <1>3, <1>5 DEF ScanIsAccounted
  <2>5. ~run.full /\ ~damaged => \A g \in Files \ (Created \cup UnreadRun') :
                                    run'.changed[g] # 0 => graph.nodes[g] # {}
    BY <1>3, <1>6, <2>2 DEF ScanIsAccounted
  <2> QED
    BY <1>3, <1>4, <2>1, <2>3, <2>4, <2>5 DEF ScanIsAccounted
<1>16. ReindexIsAccounted' /\ RestIsAccounted'
  BY <1>3 DEF ReindexIsAccounted, RestIsAccounted
<1> QED
  BY <1>1, <1>8, <1>9, <1>10, <1>11, <1>12, <1>14, <1>15, <1>16

\* A file parsed for the first time had its uses resolved when it first appeared:
\* this is where a use of a file that is created later would go unnoticed.
LEMMA ExpandStep ==
  ASSUME SyncInv, \A e \in Uses : e[2] \notin Created, Expand
  PROVE  SyncInv'
<1> USE VersionsAreNumbers DEF SyncInv
<1>1. SyncTypeOK'
  BY TypeStep DEF SyncNext
<1>2. run \in RunType
  BY DEF SyncTypeOK, RunType
<1> DEFINE fresh     == {f \in Keys(run.changed) : run.old[f] = 0 /\ f \notin Preexisting}
           stored    == Keys(run.changed) \ fresh
           affected  == {f \in Callers(stored) \ Keys(run.changed) :
                           f \in Keys(run.new) \cup run.unread /\ disk[f] # 0}
           reindexed == stored \cup affected
<1>3. /\ run.pc = "scan" /\ run.todo = {}
      /\ run'.pc = "reindex" /\ run'.full = run.full /\ run'.old = run.old /\ run'.new = run.new
      /\ run'.unread = run.unread /\ run'.inGraph = run.inGraph
      /\ run'.buffer = run.buffer /\ run'.late = run.late
      /\ run'.fresh = fresh /\ run'.todo = Keys(run.changed) \cup affected
      /\ run'.changed = [f \in Files |-> IF f \in affected THEN disk[f] ELSE run.changed[f]]
      /\ run'.captured = {e \in graph.edges : e[2] \in reindexed /\ e[1] \notin reindexed}
  <2>1. /\ RunAt("scan") /\ run.todo = {}
        /\ run' = [run EXCEPT !.pc = "reindex", !.fresh = fresh,
                     !.changed = [f \in Files |-> IF f \in affected THEN disk[f] ELSE @[f]],
                     !.todo = Keys(run.changed) \cup affected,
                     !.captured = {e \in graph.edges : e[2] \in reindexed /\ e[1] \notin reindexed}]
    BY DEF Expand
  <2> HIDE DEF fresh, affected, reindexed
  <2> QED
    BY <1>2, <2>1 DEF RunAt, RunType
<1>4. /\ disk' = disk /\ newer' = newer /\ stale' = stale /\ cache' = cache /\ graph' = graph
      /\ edits' = edits /\ behind' = behind /\ missed' = missed /\ damaged' = damaged
  BY DEF Expand, counters
<1>5. /\ LateRun' = LateRun /\ UnreadRun' = UnreadRun /\ NotSeen' = NotSeen /\ NotRead' = NotRead
      /\ Trusted' = Trusted
  BY <1>3, <1>4 DEF LateRun, UnreadRun, NotSeen, NotRead, Saved, Trusted
<1>6. /\ affected \subseteq Files /\ \A f \in affected : disk[f] # 0 /\ run.changed[f] = 0
      /\ \A f \in affected : f \in Keys(run.new) \cup run.unread
      /\ \A f \in affected : \E e \in graph.edges : e[1] = f
  BY DEF Callers, Keys
<1>7. \A f \in Files : /\ f \in affected => run'.changed[f] = disk[f]
                       /\ f \notin affected => run'.changed[f] = run.changed[f]
                       /\ f \in run'.todo <=> run'.changed[f] # 0
                       /\ run.changed[f] # 0 => run'.changed[f] = run.changed[f]
  <2> HIDE DEF affected
  <2> QED
    BY <1>3, <1>6 DEF Keys
<1>8. \A f \in Files : /\ f \in fresh <=> run.changed[f] # 0 /\ run.old[f] = 0 /\ f \notin Preexisting
                       /\ f \in reindexed <=> run'.todo # {} /\ f \in run'.todo \ fresh
  <2>1. \A f \in Files : f \in fresh <=> run.changed[f] # 0 /\ run.old[f] = 0 /\ f \notin Preexisting
    BY DEF Keys
  <2>2. fresh \cap affected = {}
    BY DEF Keys
  <2> HIDE DEF fresh, affected
  <2> QED
    BY <1>3, <2>1, <2>2
<1> HIDE DEF fresh, stored, affected, reindexed
<1>9. VersionsAreOld' /\ CacheIsHonest'
  BY <1>3, <1>4, <1>5 DEF VersionsAreOld, CacheIsHonest, Keys, OnDisk
<1>10. GraphIsHonest' /\ ScanIsAccounted' /\ RestIsAccounted'
  BY <1>3 DEF GraphIsHonest, ScanIsAccounted, RestIsAccounted
<1>11. EdgesHaveEnds'
  BY <1>3, <1>4 DEF EdgesHaveEnds
<1>12. RunIsSane'
  BY <1>3, <1>4 DEF RunIsSane, Saved, NoGraph
<1>13. ReadsAreAccounted'
  BY <1>3, <1>4, <1>5 DEF ReadsAreAccounted, OnDisk, Keys
<1>14. /\ run.full => run.old = Nothing /\ Preexisting = Known(graph)
       /\ ~run.full => /\ run.old = cache /\ Known(graph) # {} /\ Keys(cache) # {}
                       /\ Preexisting = {}
       /\ run.buffer = NoGraph
  BY <1>3 DEF ScanIsAccounted, RunIsSane, Preexisting
<1>15. ASSUME Trusted, NEW f \in Files \ UnreadRun PROVE FileReindexed(f)'
  <2>1. /\ run.buffer.nodes[f] = {} /\ run.changed[f] \in {0, run.new[f]}
        /\ run.changed[f] = 0 => run.new[f] \in {0, run.old[f]}
    BY <1>3, <1>14 DEF NoGraph, ScanIsAccounted
  <2>2. f \in affected => run.new[f] # 0 /\ disk[f] # 0
    BY <1>6 DEF UnreadRun, Keys
  <2>3. run.full => run.old[f] = 0 /\ (f \in Preexisting <=> graph.nodes[f] # {})
    BY <1>14 DEF Nothing, Known
  <2>4. ~run.full =>
          /\ run.old[f] = cache[f]
          /\ cache[f] = 0 => graph.nodes[f] = {}
          /\ cache[f] # 0 => /\ disk[f] = cache[f] /\ f \notin LateRun => graph.nodes[f] = {cache[f]}
                             /\ disk[f] # 0 /\ f \notin Created => graph.nodes[f] # {}
    BY <1>3, <1>14, <1>15 DEF GraphIsHonest, Trusted, UnreadRun, LateRun
  <2>5. (f \in Keys(run.old) \cup Preexisting)' <=> (run.old[f] # 0 \/ f \in Preexisting)
    BY <1>3 DEF Keys, Preexisting
  <2>6. /\ (f \in run.todo)' => (run.changed[f])' # 0 /\ (f \in run.fresh => graph.nodes[f] = {})'
        /\ (run.buffer.nodes[f])' = {}
    BY <1>3, <1>4, <1>7, <1>8, <2>1, <2>3, <2>4, <1>14
  <2>7. (run.new[f] # 0 /\ disk[f] = run.new[f] /\ f \notin LateRun =>
          run.changed[f] = run.new[f] \/ (run.changed[f] = 0 /\ graph.nodes[f] = {run.new[f]}))'
    BY <1>3, <1>4, <1>5, <1>7, <2>1, <2>2, <2>3, <2>4
  <2>8. (run.new[f] = 0 => run.changed[f] = 0 /\ (graph.nodes[f] = {} \/ run.old[f] # 0))' \/ f \in Preexisting
    BY <1>3, <1>4, <1>7, <2>1, <2>2, <2>3, <2>4
  <2>9. (f \notin Created /\ run.new[f] # 0 /\ disk[f] # 0 => run.changed[f] # 0 \/ graph.nodes[f] # {})'
    BY <1>3, <1>4, <1>7, <2>1, <2>2, <2>3, <2>4
  <2>10. (run.full /\ run.changed[f] = 0 => run.new[f] = 0)'
    BY <1>3, <1>7, <2>1, <2>2, <2>3, <1>6
  <2>11. (run.new[f] = 0 => run.changed[f] = 0)'
    BY <1>3, <1>7, <2>1, <2>2
  <2> QED
    BY <1>3, <1>7, <2>5, <2>6, <2>7, <2>8, <2>9, <2>10, <2>11 DEF FileReindexed
<1>16. ASSUME Trusted PROVE EdgesReindexed'
  <2>1. ASSUME NEW e \in graph.edges, e[2] \in run'.todo \ run'.fresh, run'.changed[e[1]] = 0
        PROVE  e \in run'.captured
    <3>1. e[1] \in Files /\ e[2] \in Files
      BY UsesAreOfFiles DEF EdgesHaveEnds
    <3> QED
      BY <1>3, <1>7, <1>8, <2>1, <3>1
  <2>2. ASSUME ~run.full, NEW e \in Uses, e[1] \notin UnreadRun, e[2] \notin UnreadRun,
               graph.nodes[e[1]] # {}, graph.nodes[e[2]] # {} \/ run'.changed[e[2]] # 0
        PROVE  e \in graph.edges
    <3>1. e[1] \in Files /\ e[2] \in Files /\ e[2] \notin Created
      BY UsesAreOfFiles
    <3>2. graph.nodes[e[2]] # {}
      <4>1. CASE e[2] \in affected
        BY <1>6, <4>1 DEF EdgesHaveEnds
      <4>2. CASE e[2] \notin affected
        BY <1>3, <1>7, <1>16, <2>2, <3>1, <4>2 DEF ScanIsAccounted, Trusted
      <4> QED
        BY <4>1, <4>2
    <3> QED
      BY <1>3, <1>16, <2>2, <3>1, <3>2 DEF GraphIsHonest, Known, Trusted, UnreadRun
  <2> QED
    BY <1>3, <1>4, <1>5, <2>1, <2>2 DEF EdgesReindexed
<1> QED
  BY <1>1, <1>5, <1>9, <1>10, <1>11, <1>12, <1>13, <1>15, <1>16 DEF ReindexIsAccounted

LEMMA ReindexStep ==
  ASSUME SyncInv, NEW f \in Files, Reindex(f)
  PROVE  SyncInv'
<1> USE VersionsAreNumbers DEF SyncInv
<1>1. SyncTypeOK'
  BY TypeStep DEF SyncNext
<1>2. run \in RunType /\ graph \in Graph /\ run.buffer \in Graph
  BY DEF SyncTypeOK, RunType
<1>3. /\ run.pc = "reindex" /\ f \in run.todo
      /\ run'.pc = "reindex" /\ run'.full = run.full /\ run'.old = run.old /\ run'.new = run.new
      /\ run'.unread = run.unread /\ run'.inGraph = run.inGraph /\ run'.changed = run.changed
      /\ run'.fresh = run.fresh /\ run'.captured = run.captured /\ run'.late = run.late
      /\ run'.todo = run.todo \ {f}
      /\ run'.buffer = [run.buffer EXCEPT !.nodes[f] = @ \cup {run.changed[f]}]
  BY <1>2 DEF Reindex, RunAt, RunType
<1>4. /\ run'.buffer.edges = run.buffer.edges
      /\ \A g \in Files : run'.buffer.nodes[g] =
           IF g = f THEN run.buffer.nodes[g] \cup {run.changed[f]} ELSE run.buffer.nodes[g]
  <2>1. run.buffer.nodes \in [Files -> SUBSET Versions]
    BY <1>2 DEF Graph
  <2>2. /\ run'.buffer.edges = run.buffer.edges
        /\ run'.buffer.nodes = [run.buffer.nodes EXCEPT ![f] = @ \cup {run.changed[f]}]
    BY <1>2, <1>3 DEF Graph
  <2> QED
    BY <2>1, <2>2
<1>5. /\ disk' = disk /\ newer' = newer /\ stale' = stale /\ cache' = cache
      /\ edits' = edits /\ behind' = behind /\ missed' = missed /\ damaged' = damaged
  BY DEF Reindex, counters
<1>6. /\ \A g \in Files \ {f} : graph'.nodes[g] = graph.nodes[g]
      /\ graph'.nodes[f] = IF f \in run.fresh THEN graph.nodes[f] ELSE {}
      /\ graph'.edges \subseteq graph.edges
      /\ \A e \in graph.edges : e \in graph'.edges \/ (f \notin run.fresh /\ (e[1] = f \/ e[2] = f))
      /\ \A e \in graph'.edges : f \in run.fresh \/ (e[1] # f /\ e[2] # f)
  BY <1>2, WithoutGraph DEF Reindex
<1>7. /\ LateRun' = LateRun /\ UnreadRun' = UnreadRun /\ NotSeen' = NotSeen /\ NotRead' = NotRead
      /\ Trusted' = Trusted /\ Preexisting' = Preexisting /\ (Keys(run.old))' = Keys(run.old)
  BY <1>3, <1>5 DEF LateRun, UnreadRun, NotSeen, NotRead, Saved, Trusted, Preexisting, Keys
<1>8. VersionsAreOld' /\ CacheIsHonest'
  BY <1>3, <1>5, <1>7 DEF VersionsAreOld, CacheIsHonest, Keys, OnDisk
<1>9. GraphIsHonest' /\ ScanIsAccounted' /\ RestIsAccounted'
  BY <1>3 DEF GraphIsHonest, ScanIsAccounted, RestIsAccounted
<1>10. EdgesHaveEnds'
  <2>1. \A e \in graph.edges : e[1] \in Files /\ e[2] \in Files
    BY UsesAreOfFiles DEF EdgesHaveEnds
  <2> QED
    BY <1>3, <1>4, <1>6, <2>1 DEF EdgesHaveEnds
<1>11. RunIsSane'
  BY <1>3, <1>4, <1>5 DEF RunIsSane, Saved
<1>12. ReadsAreAccounted'
  BY <1>3, <1>5, <1>7 DEF ReadsAreAccounted, OnDisk, Keys
<1>13. ASSUME Trusted, NEW g \in Files \ UnreadRun PROVE FileReindexed(g)'
  <2>1. FileReindexed(g)
    BY <1>3, <1>13 DEF ReindexIsAccounted
  <2>2. CASE g = f
    BY <1>3, <1>4, <1>5, <1>6, <1>7, <2>1, <2>2 DEF FileReindexed, NodesIn
  <2>3. CASE g # f
    BY <1>3, <1>4, <1>5, <1>6, <1>7, <2>1, <2>3 DEF FileReindexed, NodesIn
  <2> QED
    BY <2>2, <2>3
<1>14. ASSUME Trusted PROVE EdgesReindexed'
  <2>1. EdgesReindexed /\ (f \notin UnreadRun => run.changed[f] # 0)
    BY <1>3, <1>14 DEF ReindexIsAccounted, FileReindexed
  <2>2. ASSUME NEW e \in graph'.edges, e[2] \in run'.todo \ run'.fresh, run'.changed[e[1]] = 0
        PROVE  e \in run'.captured
    BY <1>3, <1>6, <2>1, <2>2 DEF EdgesReindexed
  <2>3. ASSUME ~run.full, NEW e \in Uses, e[1] \notin UnreadRun, e[2] \notin UnreadRun,
               run.changed[e[1]] = 0, graph'.nodes[e[1]] # {},
               graph'.nodes[e[2]] # {} \/ run.changed[e[2]] # 0
        PROVE  e \in graph'.edges \cup run.captured
    <3>1. e[1] \in Files /\ e[2] \in Files /\ e[1] # f
      BY <2>1, <2>3, UsesAreOfFiles
    <3>2. e \in graph.edges \cup run.captured
      BY <1>6, <2>1, <2>3, <3>1 DEF EdgesReindexed
    <3>3. CASE e[2] = f /\ f \notin run.fresh
      BY <1>3, <2>1, <2>3, <3>2, <3>3 DEF EdgesReindexed
    <3>4. CASE ~(e[2] = f /\ f \notin run.fresh)
      BY <1>6, <3>1, <3>2, <3>4
    <3> QED
      BY <3>3, <3>4
  <2> QED
    BY <1>3, <1>7, <2>2, <2>3 DEF EdgesReindexed
<1> QED
  BY <1>1, <1>7, <1>8, <1>9, <1>10, <1>11, <1>12, <1>13, <1>14 DEF ReindexIsAccounted

LEMMA FlushSomeStep ==
  ASSUME SyncInv, FlushSome
  PROVE  SyncInv'
<1> USE VersionsAreNumbers DEF SyncInv
<1>1. SyncTypeOK'
  BY TypeStep DEF SyncNext
<1>2. run \in RunType /\ graph \in Graph /\ run.buffer \in Graph
  BY DEF SyncTypeOK, RunType
<1>3. /\ run.pc = "reindex"
      /\ run'.pc = "reindex" /\ run'.full = run.full /\ run'.old = run.old /\ run'.new = run.new
      /\ run'.unread = run.unread /\ run'.inGraph = run.inGraph /\ run'.changed = run.changed
      /\ run'.fresh = run.fresh /\ run'.captured = run.captured /\ run'.late = run.late
      /\ run'.todo = run.todo /\ run'.buffer = NoGraph
  BY <1>2 DEF FlushSome, RunAt, RunType
<1>4. run'.buffer.edges = {} /\ \A g \in Files : run'.buffer.nodes[g] = {}
  BY <1>3 DEF NoGraph
<1>5. /\ disk' = disk /\ newer' = newer /\ stale' = stale /\ cache' = cache
      /\ edits' = edits /\ behind' = behind /\ missed' = missed /\ damaged' = damaged
  BY DEF FlushSome, counters
<1>6. /\ \A g \in Files : graph'.nodes[g] = graph.nodes[g] \cup run.buffer.nodes[g]
      /\ graph'.edges = graph.edges
  <2>1. run.buffer.edges = {}
    BY <1>3 DEF RunIsSane
  <2>2. graph' = Flushed(graph, run.buffer)
    BY DEF FlushSome
  <2>3. \A e : e \in graph'.edges <=> e \in graph.edges
    BY <1>2, <2>1, <2>2, FlushedGraph
  <2> QED
    BY <1>2, <2>2, <2>3, FlushedGraph
<1>7. /\ LateRun' = LateRun /\ UnreadRun' = UnreadRun /\ NotSeen' = NotSeen /\ NotRead' = NotRead
      /\ Trusted' = Trusted /\ Preexisting' = Preexisting /\ (Keys(run.old))' = Keys(run.old)
  BY <1>3, <1>5 DEF LateRun, UnreadRun, NotSeen, NotRead, Saved, Trusted, Preexisting, Keys
<1>8. VersionsAreOld' /\ CacheIsHonest'
  BY <1>3, <1>5, <1>7 DEF VersionsAreOld, CacheIsHonest, Keys, OnDisk
<1>9. GraphIsHonest' /\ ScanIsAccounted' /\ RestIsAccounted'
  BY <1>3 DEF GraphIsHonest, ScanIsAccounted, RestIsAccounted
<1>10. EdgesHaveEnds'
  <2>1. \A e \in graph.edges : e[1] \in Files /\ e[2] \in Files
    BY UsesAreOfFiles DEF EdgesHaveEnds
  <2> QED
    BY <1>3, <1>4, <1>6, <2>1 DEF EdgesHaveEnds
<1>11. RunIsSane'
  BY <1>3, <1>4, <1>5 DEF RunIsSane, Saved
<1>12. ReadsAreAccounted'
  BY <1>3, <1>5, <1>7 DEF ReadsAreAccounted, OnDisk, Keys
<1>13. ASSUME Trusted, NEW g \in Files \ UnreadRun PROVE FileReindexed(g)'
  <2>1. FileReindexed(g)
    BY <1>3, <1>13 DEF ReindexIsAccounted
  <2> QED
    BY <1>3, <1>4, <1>5, <1>6, <1>7, <2>1 DEF FileReindexed, NodesIn
<1>14. ASSUME Trusted PROVE EdgesReindexed'
  <2>1. EdgesReindexed /\ \A g \in Files \ UnreadRun : run.changed[g] = 0 => run.buffer.nodes[g] = {}
    BY <1>3, <1>14 DEF ReindexIsAccounted, FileReindexed
  <2>2. ASSUME ~run.full, NEW e \in Uses, e[1] \notin UnreadRun, e[2] \notin UnreadRun,
               run.changed[e[1]] = 0, graph'.nodes[e[1]] # {},
               graph'.nodes[e[2]] # {} \/ run.changed[e[2]] # 0
        PROVE  e \in graph.edges \cup run.captured
    BY <1>6, <2>1, <2>2, UsesAreOfFiles DEF EdgesReindexed
  <2> QED
    BY <1>3, <1>6, <1>7, <2>1, <2>2 DEF EdgesReindexed
<1> QED
  BY <1>1, <1>7, <1>8, <1>9, <1>10, <1>11, <1>12, <1>13, <1>14 DEF ReindexIsAccounted

LEMMA SweepStep ==
  ASSUME SyncInv, Sweep
  PROVE  SyncInv'
<1> USE VersionsAreNumbers DEF SyncInv
<1>1. SyncTypeOK'
  BY TypeStep DEF SyncNext
<1>2. run \in RunType /\ graph \in Graph /\ run.buffer \in Graph
  BY DEF SyncTypeOK, RunType
<1>3. /\ run.pc = "reindex" /\ run.todo = {} /\ run.buffer.edges = {}
      /\ run'.pc = "save" /\ run'.full = run.full /\ run'.old = run.old /\ run'.new = run.new
      /\ run'.unread = run.unread /\ run'.changed = run.changed
      /\ run'.captured = run.captured /\ run'.late = run.late
      /\ run'.buffer = [run.buffer EXCEPT !.edges = @ \cup run.captured]
  BY <1>2 DEF Sweep, RunAt, RunType, RunIsSane
<1>4. run'.buffer.edges = run.captured /\ run'.buffer.nodes = run.buffer.nodes
  BY <1>2, <1>3 DEF Graph
<1>5. /\ disk' = disk /\ newer' = newer /\ stale' = stale /\ cache' = cache
      /\ edits' = edits /\ behind' = behind /\ missed' = missed /\ damaged' = damaged
  BY DEF Sweep, counters
<1> DEFINE gone == ((Keys(run.old) \cup Preexisting) \ Keys(run.new)) \ run.unread
<1>6. /\ \A g \in Files : graph'.nodes[g] = IF g \in gone THEN {} ELSE graph.nodes[g]
      /\ \A e : e \in graph'.edges <=> e \in graph.edges /\ e[1] \notin gone /\ e[2] \notin gone
  <2>1. graph' = Without(graph, gone)
    BY DEF Sweep
  <2> HIDE DEF gone
  <2> QED
    BY <1>2, <2>1, WithoutGraph
<1>7. /\ LateRun' = LateRun /\ UnreadRun' = UnreadRun /\ NotSeen' = NotSeen /\ NotRead' = NotRead
      /\ Trusted' = Trusted
  BY <1>3, <1>5 DEF LateRun, UnreadRun, NotSeen, NotRead, Saved, Trusted
<1>8. VersionsAreOld' /\ CacheIsHonest'
  BY <1>3, <1>5, <1>7 DEF VersionsAreOld, CacheIsHonest, Keys, OnDisk
<1>9. GraphIsHonest' /\ ScanIsAccounted' /\ ReindexIsAccounted'
  BY <1>3 DEF GraphIsHonest, ScanIsAccounted, ReindexIsAccounted
<1>10. EdgesHaveEnds'
  <2>1. \A e \in graph.edges : e[1] \in Files /\ e[2] \in Files
    BY UsesAreOfFiles DEF EdgesHaveEnds
  <2> HIDE DEF gone
  <2> QED
    BY <1>3, <1>4, <1>6, <2>1 DEF EdgesHaveEnds
<1>11. RunIsSane'
  BY <1>3, <1>4, <1>5 DEF RunIsSane, Saved
<1>12. ReadsAreAccounted'
  BY <1>3, <1>5, <1>7 DEF ReadsAreAccounted, OnDisk, Keys
<1>13. \A g \in Files \ UnreadRun : g \in gone <=> /\ g \in Keys(run.old) \cup Preexisting
                                                   /\ run.new[g] = 0
  BY DEF Keys, UnreadRun
<1> HIDE DEF gone
<1>14. ASSUME Trusted, NEW g \in Files \ UnreadRun PROVE FileSwept(g)'
  <2>1. FileReindexed(g)
    BY <1>3, <1>14 DEF ReindexIsAccounted
  <2> QED
    BY <1>3, <1>4, <1>5, <1>6, <1>7, <1>13, <2>1 DEF FileReindexed, FileSwept, NodesIn
<1>15. ASSUME Trusted PROVE EdgesSwept'
  <2> SUFFICES ASSUME NEW e \in Uses, e[1] \notin UnreadRun, e[2] \notin UnreadRun,
                      NodesIn(e[1])' # {}, NodesIn(e[2])' # {}, run.changed[e[1]] = 0
               PROVE  e \in graph'.edges \cup run'.buffer.edges
    BY <1>3, <1>7 DEF EdgesSwept
  <2>1. EdgesReindexed /\ e[1] \in Files /\ e[2] \in Files
    BY <1>3, <1>15, UsesAreOfFiles DEF ReindexIsAccounted
  <2>2. FileReindexed(e[1]) /\ FileReindexed(e[2]) /\ FileSwept(e[1])' /\ FileSwept(e[2])'
    BY <1>3, <1>14, <1>15, <2>1 DEF ReindexIsAccounted
  <2>3. run.new[e[1]] # 0 /\ run.new[e[2]] # 0
    BY <1>3, <2>2 DEF FileSwept
  <2>4. ~run.full /\ e[1] \notin gone /\ e[2] \notin gone
    BY <1>13, <2>1, <2>2, <2>3 DEF FileReindexed
  <2>5. /\ NodesIn(e[1])' = graph.nodes[e[1]] \cup run.buffer.nodes[e[1]]
        /\ NodesIn(e[2])' = graph.nodes[e[2]] \cup run.buffer.nodes[e[2]]
    BY <1>4, <1>6, <2>1, <2>4 DEF NodesIn
  <2>6. graph.nodes[e[1]] # {} /\ (graph.nodes[e[2]] # {} \/ run.changed[e[2]] # 0)
    BY <2>2, <2>5 DEF FileReindexed
  <2>7. e \in graph.edges \cup run.captured
    BY <2>1, <2>4, <2>6 DEF EdgesReindexed
  <2> QED
    BY <1>4, <1>6, <2>4, <2>7
<1> QED
  BY <1>1, <1>3, <1>7, <1>8, <1>9, <1>10, <1>11, <1>12, <1>14, <1>15 DEF RestIsAccounted

LEMMA SaveStep ==
  ASSUME SyncInv, SaveCache
  PROVE  SyncInv'
<1> USE VersionsAreNumbers DEF SyncInv
<1>1. SyncTypeOK'
  BY TypeStep DEF SyncNext
<1>2. run \in RunType
  BY DEF SyncTypeOK, RunType
<1>3. /\ run.pc = "save"
      /\ run'.pc = "calls" /\ run'.full = run.full /\ run'.old = run.old /\ run'.new = run.new
      /\ run'.unread = run.unread /\ run'.changed = run.changed
      /\ run'.captured = run.captured /\ run'.late = run.late /\ run'.buffer = run.buffer
  BY <1>2 DEF SaveCache, RunAt, RunType
<1>4. /\ disk' = disk /\ newer' = {} /\ cache' = run.new /\ graph' = graph
      /\ "walked" \in stale => "saved" \in stale'
      /\ edits' = edits /\ behind' = behind /\ missed' = missed /\ damaged' = damaged
  BY DEF SaveCache, counters
<1>5. /\ LateRun' = LateRun /\ UnreadRun' = UnreadRun /\ NotSeen' = LateRun /\ NotRead' = UnreadRun
      /\ Trusted' = Trusted
  BY <1>3, <1>4 DEF LateRun, UnreadRun, NotSeen, NotRead, Saved, Trusted
<1>6. VersionsAreOld'
  BY <1>3, <1>4 DEF VersionsAreOld
<1>7. CacheIsHonest'
  BY <1>3, <1>4, <1>5 DEF CacheIsHonest, ReadsAreAccounted, Keys, OnDisk, UnreadRun
<1>8. GraphIsHonest' /\ ScanIsAccounted' /\ ReindexIsAccounted' /\ ReadsAreAccounted'
  BY <1>3 DEF GraphIsHonest, ScanIsAccounted, ReindexIsAccounted, ReadsAreAccounted
<1>9. EdgesHaveEnds' /\ RunIsSane'
  BY <1>3, <1>4 DEF EdgesHaveEnds, RunIsSane, Saved
<1>10. RestIsAccounted'
  <2>1. ASSUME NEW g \in Files, FileSwept(g) PROVE FileSwept(g)'
    BY <1>3, <1>4, <1>5, <2>1 DEF FileSwept, NodesIn
  <2> QED
    BY <1>3, <1>4, <1>5, <2>1 DEF RestIsAccounted, EdgesSwept, NodesIn
<1> QED
  BY <1>1, <1>6, <1>7, <1>8, <1>9, <1>10

LEMMA ResolveStep ==
  ASSUME SyncInv, ResolveCalls
  PROVE  SyncInv'
<1> USE VersionsAreNumbers DEF SyncInv
<1>1. SyncTypeOK'
  BY TypeStep DEF SyncNext
<1>2. run \in RunType /\ run.buffer \in Graph
  BY DEF SyncTypeOK, RunType
<1> DEFINE found == {e \in Uses : e[1] \in Keys(run.changed)
                                  /\ e[2] \in Known(graph) \cup Known(run.buffer)}
<1>3. /\ run.pc = "calls"
      /\ run'.pc = "flush" /\ run'.full = run.full /\ run'.old = run.old /\ run'.new = run.new
      /\ run'.unread = run.unread /\ run'.changed = run.changed
      /\ run'.captured = run.captured /\ run'.late = run.late
      /\ run'.buffer = [run.buffer EXCEPT !.edges = @ \cup found]
  <2>1. run.pc = "calls" /\ run' = [run EXCEPT !.pc = "flush", !.buffer.edges = @ \cup found]
    BY DEF ResolveCalls, RunAt
  <2> HIDE DEF found
  <2> QED
    BY <1>2, <2>1 DEF RunType
<1>4. run'.buffer.edges = run.buffer.edges \cup found /\ run'.buffer.nodes = run.buffer.nodes
  <2> HIDE DEF found
  <2> QED
    BY <1>2, <1>3 DEF Graph
<1>5. /\ disk' = disk /\ newer' = newer /\ cache' = cache /\ graph' = graph /\ stale' = stale
      /\ edits' = edits /\ behind' = behind /\ missed' = missed /\ damaged' = damaged
  BY DEF ResolveCalls, counters
<1>6. /\ LateRun' = LateRun /\ UnreadRun' = UnreadRun /\ NotSeen' = NotSeen /\ NotRead' = NotRead
      /\ Trusted' = Trusted
  BY <1>3, <1>5 DEF LateRun, UnreadRun, NotSeen, NotRead, Saved, Trusted
<1>7. VersionsAreOld' /\ CacheIsHonest'
  BY <1>3, <1>5, <1>6 DEF VersionsAreOld, CacheIsHonest, Keys, OnDisk
<1>8. GraphIsHonest' /\ ScanIsAccounted' /\ ReindexIsAccounted' /\ ReadsAreAccounted'
  BY <1>3 DEF GraphIsHonest, ScanIsAccounted, ReindexIsAccounted, ReadsAreAccounted
<1>9. EdgesHaveEnds' /\ RunIsSane'
  BY <1>3, <1>4, <1>5 DEF EdgesHaveEnds, RunIsSane, Saved
<1>10. ASSUME NEW g \in Files, FileSwept(g) PROVE FileSwept(g)'
  BY <1>3, <1>4, <1>5, <1>6, <1>10 DEF FileSwept, NodesIn
<1>11. ASSUME EdgesSwept PROVE EdgesSwept'
  <2> SUFFICES ASSUME NEW e \in Uses, e[1] \notin UnreadRun, e[2] \notin UnreadRun,
                      NodesIn(e[1]) # {}, NodesIn(e[2]) # {}
               PROVE  e \in graph.edges \cup run'.buffer.edges
    BY <1>3, <1>4, <1>5, <1>6 DEF EdgesSwept, NodesIn
  <2>1. e[1] \in Files /\ e[2] \in Files
    BY UsesAreOfFiles
  <2>2. e[2] \in Known(graph) \cup Known(run.buffer)
    BY <2>1 DEF Known, NodesIn
  <2> QED
    BY <1>4, <1>11, <2>1, <2>2 DEF EdgesSwept, Keys
<1> QED
  BY <1>1, <1>3, <1>6, <1>7, <1>8, <1>9, <1>10, <1>11 DEF RestIsAccounted

LEMMA FlushRestStep ==
  ASSUME SyncInv, FlushRest
  PROVE  SyncInv'
<1> USE VersionsAreNumbers DEF SyncInv
<1>1. SyncTypeOK'
  BY TypeStep DEF SyncNext
<1>2. run \in RunType /\ graph \in Graph /\ run.buffer \in Graph
  BY DEF SyncTypeOK, RunType
<1>3. /\ run.pc = "flush"
      /\ run'.pc = "prune" /\ run'.full = run.full /\ run'.old = run.old /\ run'.new = run.new
      /\ run'.unread = run.unread /\ run'.changed = run.changed
      /\ run'.captured = run.captured /\ run'.late = run.late /\ run'.buffer = NoGraph
  BY <1>2 DEF FlushRest, RunAt, RunType
<1>4. run'.buffer.edges = {} /\ \A g \in Files : run'.buffer.nodes[g] = {}
  BY <1>3 DEF NoGraph
<1>5. /\ disk' = disk /\ newer' = newer /\ cache' = cache /\ stale' = stale
      /\ edits' = edits /\ behind' = behind /\ missed' = missed /\ damaged' = damaged
  BY DEF FlushRest, counters
<1>6. /\ \A g \in Files : graph'.nodes[g] = graph.nodes[g] \cup run.buffer.nodes[g]
      /\ \A e : e \in graph'.edges <=>
           \/ e \in graph.edges
           \/ e \in run.buffer.edges /\ graph'.nodes[e[1]] # {} /\ graph'.nodes[e[2]] # {}
  <2>1. graph' = Flushed(graph, run.buffer)
    BY DEF FlushRest
  <2> DEFINE g == graph
             b == run.buffer
  <2>2. /\ \A h \in Files : Flushed(g, b).nodes[h] = g.nodes[h] \cup b.nodes[h]
        /\ \A e : e \in Flushed(g, b).edges <=>
             \/ e \in g.edges
             \/ e \in b.edges /\ Flushed(g, b).nodes[e[1]] # {} /\ Flushed(g, b).nodes[e[2]] # {}
    <3> HIDE DEF g, b
    <3>1. g \in Graph /\ b \in Graph
      BY <1>2 DEF g, b
    <3> QED
      BY <3>1, FlushedGraph
  <2> QED
    BY <2>1, <2>2
<1>7. /\ LateRun' = LateRun /\ UnreadRun' = UnreadRun /\ NotSeen' = NotSeen /\ NotRead' = NotRead
      /\ Trusted' = Trusted
  BY <1>3, <1>5 DEF LateRun, UnreadRun, NotSeen, NotRead, Saved, Trusted
<1>8. VersionsAreOld' /\ CacheIsHonest'
  BY <1>3, <1>5, <1>7 DEF VersionsAreOld, CacheIsHonest, Keys, OnDisk
<1>9. GraphIsHonest' /\ ScanIsAccounted' /\ ReindexIsAccounted' /\ ReadsAreAccounted'
  BY <1>3 DEF GraphIsHonest, ScanIsAccounted, ReindexIsAccounted, ReadsAreAccounted
<1>10. EdgesHaveEnds' /\ RunIsSane'
  <2>1. \A e \in graph.edges : e[1] \in Files /\ e[2] \in Files
    BY UsesAreOfFiles DEF EdgesHaveEnds
  <2>2. EdgesHaveEnds'
    BY <1>3, <1>4, <1>6, <2>1 DEF EdgesHaveEnds
  <2>3. RunIsSane'
    BY <1>3, <1>4, <1>5 DEF RunIsSane, Saved
  <2> QED
    BY <2>2, <2>3
<1>11. \A g \in Files : NodesIn(g)' = NodesIn(g)
  BY <1>4, <1>6 DEF NodesIn
<1>12. ASSUME NEW g \in Files, FileSwept(g) PROVE FileSwept(g)'
  BY <1>3, <1>5, <1>7, <1>11, <1>12 DEF FileSwept
<1>13. ASSUME EdgesSwept PROVE EdgesSwept'
  <2> SUFFICES ASSUME NEW e \in Uses, e[1] \notin UnreadRun, e[2] \notin UnreadRun,
                      NodesIn(e[1])' # {}, NodesIn(e[2])' # {}
               PROVE  e \in graph'.edges
    BY <1>7 DEF EdgesSwept
  <2>1. e[1] \in Files /\ e[2] \in Files
    BY UsesAreOfFiles
  <2>2. e \in graph.edges \cup run.buffer.edges
    BY <1>3, <1>11, <1>13, <2>1 DEF EdgesSwept
  <2>3. graph'.nodes[e[1]] # {} /\ graph'.nodes[e[2]] # {}
    BY <1>6, <1>11, <2>1 DEF NodesIn
  <2> QED
    BY <1>6, <2>2, <2>3
<1> QED
  BY <1>1, <1>3, <1>7, <1>8, <1>9, <1>10, <1>12, <1>13 DEF RestIsAccounted

LEMMA PruneStep ==
  ASSUME SyncInv, Prune
  PROVE  SyncInv'
<1> USE VersionsAreNumbers DEF SyncInv
<1>1. SyncTypeOK'
  BY TypeStep DEF SyncNext
<1>2. run \in RunType /\ graph \in Graph
  BY DEF SyncTypeOK, RunType
<1>3. run.pc = "prune" /\ run' = NoRun /\ run.buffer = NoGraph /\ cache = run.new
  BY DEF Prune, RunAt, RunIsSane, Saved
<1>4. /\ run'.pc = "idle" /\ run'.full = FALSE /\ run'.old = Nothing /\ run'.new = Nothing
      /\ run'.unread = {} /\ run'.captured = {} /\ run'.late = {} /\ run'.buffer = NoGraph
  BY <1>3 DEF NoRun
<1>5. /\ disk' = disk /\ newer' = newer /\ cache' = cache /\ stale' = stale /\ edits' = edits
      /\ behind' = LateRun /\ missed' = UnreadRun /\ damaged' = (damaged /\ ~run.full)
  BY DEF Prune, counters, LateRun, UnreadRun
<1>6. /\ \A g \in Files : graph'.nodes[g] = IF disk[g] = 0 THEN {} ELSE graph.nodes[g]
      /\ \A e \in Uses : e \in graph'.edges <=>
           e \in graph.edges /\ e[1] \notin Known(graph) \ OnDisk /\ e[2] \notin Known(graph) \ OnDisk
      /\ graph'.edges \subseteq graph.edges
  <2> DEFINE gone == Known(graph) \ OnDisk
  <2>1. graph' = Without(graph, gone)
    BY DEF Prune
  <2>2. \A g \in Files : g \in gone <=> graph.nodes[g] # {} /\ disk[g] = 0
    BY DEF Known, OnDisk, Keys
  <2> HIDE DEF gone
  <2>3. /\ \A g \in Files : graph'.nodes[g] = IF g \in gone THEN {} ELSE graph.nodes[g]
        /\ \A e : e \in graph'.edges <=> e \in graph.edges /\ e[1] \notin gone /\ e[2] \notin gone
    BY <1>2, <2>1, WithoutGraph
  <2> QED
    BY <2>2, <2>3 DEF gone
<1>7. NotSeen = LateRun /\ NotSeen' = LateRun /\ NotRead = UnreadRun /\ NotRead' = UnreadRun
  BY <1>3, <1>4, <1>5 DEF NotSeen, NotRead, Saved
<1>8. VersionsAreOld' /\ CacheIsHonest'
  BY <1>4, <1>5, <1>7 DEF VersionsAreOld, CacheIsHonest, Keys, OnDisk, Nothing
<1>9. EdgesHaveEnds' /\ RunIsSane'
  <2>1. \A e \in graph'.edges : /\ e[1] \in Files /\ e[2] \in Files /\ e \in Uses
                                /\ graph.nodes[e[1]] # {} /\ graph.nodes[e[2]] # {}
    BY <1>6, UsesAreOfFiles DEF EdgesHaveEnds
  <2>2. \A e \in graph'.edges : graph'.nodes[e[1]] # {} /\ graph'.nodes[e[2]] # {}
    BY <1>6, <2>1 DEF Known, OnDisk, Keys
  <2>3. EdgesHaveEnds'
    BY <1>4, <2>1, <2>2 DEF EdgesHaveEnds, NoGraph
  <2>4. RunIsSane'
    BY <1>3, <1>4 DEF RunIsSane, Saved
  <2> QED
    BY <2>3, <2>4
<1>10. ReadsAreAccounted' /\ ScanIsAccounted' /\ ReindexIsAccounted' /\ RestIsAccounted'
  BY <1>4 DEF ReadsAreAccounted, ScanIsAccounted, ReindexIsAccounted, RestIsAccounted
<1>11. GraphIsHonest'
  <2> SUFFICES ASSUME ~damaged'
               PROVE  (/\ \A f \in Files \ missed :
                            /\ cache[f] = 0 => graph.nodes[f] = {}
                            /\ Known(graph) # {} /\ cache[f] # 0 =>
                                 /\ disk[f] = cache[f] /\ f \notin behind => graph.nodes[f] = {cache[f]}
                                 /\ disk[f] # 0 /\ f \notin Created => graph.nodes[f] # {}
                       /\ \A e \in Uses : e[1] \in Known(graph) \ missed /\ e[2] \in Known(graph) \ missed
                                            => e \in graph.edges)'
    BY DEF GraphIsHonest
  <2>1. Trusted
    BY <1>5 DEF Trusted
  <2>2. \A g \in Files : NodesIn(g) = graph.nodes[g]
    BY <1>3 DEF NodesIn, NoGraph
  <2>3. \A g \in Files \ UnreadRun : FileSwept(g)
    BY <1>3, <2>1 DEF RestIsAccounted
  <2>4. ASSUME NEW e \in Uses, e[1] \in Known(graph') \ UnreadRun, e[2] \in Known(graph') \ UnreadRun
        PROVE  e \in graph'.edges
    <3>1. /\ e[1] \in Files /\ e[2] \in Files
          /\ graph.nodes[e[1]] # {} /\ graph.nodes[e[2]] # {} /\ disk[e[1]] # 0 /\ disk[e[2]] # 0
      BY <1>6, <2>4 DEF Known
    <3>2. e \in graph.edges \cup run.buffer.edges
      BY <1>3, <2>1, <2>2, <2>4, <3>1 DEF RestIsAccounted, EdgesSwept
    <3> QED
      BY <1>3, <1>6, <3>1, <3>2 DEF NoGraph, OnDisk, Keys
  <2>5. (Known(graph))' = Known(graph')
    BY DEF Known
  <2> QED
    BY <1>3, <1>5, <1>6, <2>2, <2>3, <2>4, <2>5 DEF FileSwept
<1> QED
  BY <1>1, <1>8, <1>9, <1>10, <1>11

LEMMA DeathStep ==
  ASSUME SyncInv, RunDies
  PROVE  SyncInv'
<1> USE VersionsAreNumbers DEF SyncInv
<1>1. SyncTypeOK'
  BY TypeStep DEF SyncNext
<1>2. run \in RunType /\ graph \in Graph /\ run.buffer \in Graph
  BY DEF SyncTypeOK, RunType
<1>3. run' = NoRun
  BY DEF RunDies
<1>4. /\ run'.pc = "idle" /\ run'.full = FALSE /\ run'.old = Nothing /\ run'.new = Nothing
      /\ run'.unread = {} /\ run'.captured = {} /\ run'.late = {} /\ run'.buffer = NoGraph
  BY <1>3 DEF NoRun
<1>5. /\ disk' = disk /\ newer' = newer /\ stale' = stale /\ edits' = edits
      /\ behind' = behind \cup run.late /\ missed' = missed \cup run.unread
      /\ ~damaged' => ~damaged /\ run.pc = "scan"
      /\ cache' = cache \/ (cache' = Nothing /\ run.pc = "save")
      /\ graph' = graph \/ graph' = Flushed(graph, run.buffer)
  BY DEF RunDies, RunAt
<1>6. NotSeen \subseteq NotSeen' /\ NotRead \subseteq NotRead'
  BY <1>4, <1>5 DEF NotSeen, NotRead, Saved, LateRun, UnreadRun
<1>7. VersionsAreOld'
  BY <1>4, <1>5 DEF VersionsAreOld, Nothing
<1>8. CacheIsHonest'
  BY <1>5, <1>6 DEF CacheIsHonest, Keys, OnDisk, Nothing
<1>9. EdgesHaveEnds' /\ RunIsSane'
  <2>1. \A e \in graph.edges : e[1] \in Files /\ e[2] \in Files
    BY UsesAreOfFiles DEF EdgesHaveEnds
  <2>2. graph'.edges \subseteq Uses /\ \A e \in graph'.edges : graph'.nodes[e[1]] # {} /\ graph'.nodes[e[2]] # {}
    BY <1>2, <1>5, <2>1, FlushedGraph DEF EdgesHaveEnds
  <2>3. EdgesHaveEnds'
    BY <1>4, <2>2 DEF EdgesHaveEnds, NoGraph
  <2>4. RunIsSane'
    BY <1>3, <1>4 DEF RunIsSane, Saved
  <2> QED
    BY <2>3, <2>4
<1>10. ReadsAreAccounted' /\ ScanIsAccounted' /\ ReindexIsAccounted' /\ RestIsAccounted'
  BY <1>4 DEF ReadsAreAccounted, ScanIsAccounted, ReindexIsAccounted, RestIsAccounted
<1>11. GraphIsHonest'
  <2> SUFFICES ASSUME ~damaged' PROVE GraphIsHonest'
    BY DEF GraphIsHonest
  <2>1. ~damaged /\ run.pc = "scan" /\ run.buffer = NoGraph /\ cache' = cache
    BY <1>5 DEF RunIsSane
  <2>2. \A f \in Files : graph'.nodes[f] = graph.nodes[f]
    <3>1. \A f \in Files : run.buffer.nodes[f] = {}
      BY <2>1 DEF NoGraph
    <3>2. \A f \in Files : Flushed(graph, run.buffer).nodes[f] = graph.nodes[f] \cup run.buffer.nodes[f]
      BY <1>2, FlushedGraph
    <3> QED
      BY <1>5, <3>1, <3>2
  <2>3. graph.edges \subseteq graph'.edges
    BY <1>2, <1>5, FlushedGraph
  <2>4. (Known(graph))' = Known(graph)
    BY <2>2 DEF Known
  <2> QED
    BY <1>5, <2>1, <2>2, <2>3, <2>4 DEF GraphIsHonest
<1> QED
  BY <1>1, <1>7, <1>8, <1>9, <1>10, <1>11

LEMMA WipeStep ==
  ASSUME SyncInv, WipeGraph
  PROVE  SyncInv'
<1> USE DEF SyncInv
<1>1. SyncTypeOK'
  BY TypeStep DEF SyncNext
<1>2. /\ run.pc = "idle" /\ graph' = NoGraph /\ run' = run
      /\ disk' = disk /\ newer' = newer /\ cache' = cache /\ stale' = stale /\ edits' = edits
      /\ behind' = behind /\ missed' = missed /\ damaged' = damaged
  BY DEF WipeGraph, RunAt
<1>3. graph'.edges = {} /\ \A f \in Files : graph'.nodes[f] = {}
  BY <1>2 DEF NoGraph
<1>4. VersionsAreOld' /\ CacheIsHonest'
  BY <1>2 DEF VersionsAreOld, CacheIsHonest, Keys, OnDisk, NotRead, NotSeen, Saved
<1>5. GraphIsHonest' /\ EdgesHaveEnds' /\ RunIsSane'
  BY <1>2, <1>3 DEF GraphIsHonest, EdgesHaveEnds, RunIsSane, Saved, Known
<1>6. ReadsAreAccounted' /\ ScanIsAccounted' /\ ReindexIsAccounted' /\ RestIsAccounted'
  BY <1>2 DEF ReadsAreAccounted, ScanIsAccounted, ReindexIsAccounted, RestIsAccounted
<1> QED
  BY <1>1, <1>4, <1>5, <1>6

-----------------------------------------------------------------------------
(* The theorems *)

LEMMA SyncInvInit == SyncInit => SyncInv
<1> SUFFICES ASSUME SyncInit PROVE SyncInv
  OBVIOUS
<1>1. SyncTypeOK
  BY InitTyped
<1>2. /\ run.pc = "idle" /\ run.old = Nothing /\ run.new = Nothing /\ run.captured = {}
      /\ run.buffer = NoGraph /\ cache = Nothing /\ graph = NoGraph /\ edits = 0
      /\ disk \in [Files -> {0, 1}] /\ newer = {f \in Files : disk[f] # 0} /\ run = NoRun
      /\ run.full = FALSE
  BY DEF SyncInit, NoRun
<1>3. VersionsAreOld /\ CacheIsHonest
  BY <1>2 DEF VersionsAreOld, CacheIsHonest, Keys, Nothing
<1>4. GraphIsHonest /\ EdgesHaveEnds
  BY <1>2, UsesAreOfFiles DEF GraphIsHonest, EdgesHaveEnds, NoGraph, Known
<1>5. RunIsSane
  BY <1>2 DEF RunIsSane, Saved
<1>6. ReadsAreAccounted /\ ScanIsAccounted /\ ReindexIsAccounted /\ RestIsAccounted
  BY <1>2 DEF ReadsAreAccounted, ScanIsAccounted, ReindexIsAccounted, RestIsAccounted
<1> QED
  BY <1>1, <1>3, <1>4, <1>5, <1>6 DEF SyncInv

LEMMA SyncInvStep ==
  ASSUME \A e \in Uses : e[2] \notin Created, SyncInv, [SyncNext]_syncVars
  PROVE  SyncInv'
<1>1. ASSUME NEW f \in Files, Write(f) PROVE SyncInv'
  BY <1>1, WriteStep
<1>2. ASSUME NEW f \in Files, Delete(f) PROVE SyncInv'
  BY <1>2, DeleteStep
<1>3. ASSUME NEW force \in BOOLEAN, StartRun(force) PROVE SyncInv'
  BY <1>3, StartStep
<1>4. ASSUME NEW f \in Files, SkipFile(f) \/ ReadFile(f) \/ MissFile(f) PROVE SyncInv'
  BY <1>4, ScannedStep
<1>5. ASSUME NEW f \in Files, Reindex(f) PROVE SyncInv'
  BY <1>5, ReindexStep
<1>6. CASE Expand
  BY <1>6, ExpandStep
<1>7. CASE FlushSome
  BY <1>7, FlushSomeStep
<1>8. CASE Sweep
  BY <1>8, SweepStep
<1>9. CASE SaveCache
  BY <1>9, SaveStep
<1>10. CASE ResolveCalls
  BY <1>10, ResolveStep
<1>11. CASE FlushRest
  BY <1>11, FlushRestStep
<1>12. CASE Prune
  BY <1>12, PruneStep
<1>13. CASE RunDies
  BY <1>13, DeathStep
<1>14. CASE WipeGraph
  BY <1>14, WipeStep
<1>15. CASE UNCHANGED syncVars
  <2>1. /\ disk' = disk /\ newer' = newer /\ stale' = stale /\ cache' = cache /\ graph' = graph
        /\ run' = run /\ edits' = edits /\ behind' = behind /\ missed' = missed
        /\ damaged' = damaged
    BY <1>15 DEF syncVars
  <2>2. SyncTypeOK'
    BY <1>15, TypeStep DEF SyncInv
  <2>3. VersionsAreOld' /\ CacheIsHonest' /\ GraphIsHonest' /\ EdgesHaveEnds'
    BY <2>1 DEF SyncInv, VersionsAreOld, CacheIsHonest, GraphIsHonest, EdgesHaveEnds, NotRead,
         NotSeen, Saved, UnreadRun, LateRun, Keys, OnDisk, Known
  <2>4. RunIsSane' /\ ReadsAreAccounted' /\ ScanIsAccounted'
    BY <2>1 DEF SyncInv, RunIsSane, ReadsAreAccounted, ScanIsAccounted, Saved, UnreadRun,
         LateRun, Keys, OnDisk, Known
  <2>5. ReindexIsAccounted' /\ RestIsAccounted'
    BY <2>1 DEF SyncInv, ReindexIsAccounted, RestIsAccounted, FileReindexed, EdgesReindexed,
         FileSwept, EdgesSwept, UnreadRun, LateRun, NodesIn, Trusted, Keys, Preexisting, Known
  <2> QED
    BY <2>2, <2>3, <2>4, <2>5 DEF SyncInv
<1> QED
  BY <1>1, <1>2, <1>3, <1>4, <1>5, <1>6, <1>7, <1>8, <1>9, <1>10, <1>11, <1>12, <1>13,
     <1>14, <1>15 DEF SyncNext

LEMMA HonestIsCurrent == SyncInv => SyncMeansCurrent
<1> SUFFICES ASSUME SyncInv, WouldSkip, ~damaged PROVE SyncMeansCurrent
  BY DEF SyncMeansCurrent
<1> DEFINE sure == Files \ (behind \cup missed)
<1>1. /\ run.pc = "idle" /\ InSync /\ Known(graph) # {} /\ Keys(cache) # {}
  BY DEF WouldSkip, RunAt, UsableCache, InSync, Keys, Nothing
<1>2. NotSeen = behind /\ NotRead = missed
  BY <1>1 DEF NotSeen, NotRead, Saved
<1>3. ASSUME NEW f \in sure PROVE NodesCurrent(f)
  <2>1. CASE cache[f] # 0
    <3>1. disk[f] = cache[f]
      BY <1>1, <1>2, <2>1 DEF SyncInv, CacheIsHonest, InSync, Keys
    <3> QED
      BY <1>1, <2>1, <3>1 DEF SyncInv, GraphIsHonest, NodesCurrent
  <2>2. CASE cache[f] = 0
    <3>1. disk[f] = 0
      BY <1>1, <1>2, <2>2 DEF SyncInv, CacheIsHonest, InSync, Keys, OnDisk
    <3> QED
      BY <1>1, <2>2, <3>1 DEF SyncInv, GraphIsHonest, NodesCurrent
  <2> QED
    BY <2>1, <2>2
<1>4. ASSUME NEW f \in sure, NEW g \in sure PROVE EdgeCurrent(<<f, g>>)
  <2>1. graph.nodes[f] = {disk[f]} \ {0} /\ graph.nodes[g] = {disk[g]} \ {0}
    BY <1>3 DEF NodesCurrent
  <2>2. (f \in Known(graph) <=> f \in OnDisk) /\ (g \in Known(graph) <=> g \in OnDisk)
    BY <2>1 DEF Known, OnDisk, Keys
  <2>3. <<f, g>> \in graph.edges => <<f, g>> \in Uses /\ f \in OnDisk /\ g \in OnDisk
    BY <2>2 DEF SyncInv, EdgesHaveEnds, Known
  <2>4. <<f, g>> \in Uses /\ f \in OnDisk /\ g \in OnDisk => <<f, g>> \in graph.edges
    BY <1>1, <2>2 DEF SyncInv, GraphIsHonest
  <2> QED
    BY <2>3, <2>4 DEF EdgeCurrent
<1> QED
  BY <1>3, <1>4 DEF SyncMeansCurrent

\* Whatever changes, runs and accidents came before, a run that finds everything in
\* sync leaves behind the graph a clean index would make: the cache is saved with
\* nothing in it that the graph does not have by the end of the run, or is known not
\* to have.  A file that is used may not appear only later: nothing looks for the
\* calls that were waiting for it.
THEOREM SyncStaysCurrent ==
  ASSUME \A e \in Uses : e[2] \notin Created
  PROVE  SyncSpec => []SyncMeansCurrent
<1> USE SyncInvInit, SyncInvStep, HonestIsCurrent
<1>1. SyncInv /\ [SyncNext]_syncVars => SyncInv'
  OBVIOUS
<1> QED
  BY <1>1, PTL DEF SyncSpec

-----------------------------------------------------------------------------
(* Files that could not be read *)

\* What a file had in the graph when the run began is kept, in the graph or in the
\* buffer; it does not matter what the cache and the files say.
UnreadAreKept ==
  /\ SyncTypeOK
  /\ run.pc = "scan" => run.inGraph = Known(graph)
  /\ run.pc = "prune" => run.buffer = NoGraph
  /\ run.pc # "idle" => \A f \in run.unread \cap run.inGraph : NodesIn(f) # {}

LEMMA UnreadKeptStep ==
  ASSUME UnreadAreKept, [SyncNext]_syncVars
  PROVE  UnreadAreKept'
<1> USE DEF UnreadAreKept
<1>1. SyncTypeOK'
  BY TypeStep
<1>2. /\ run \in RunType /\ graph \in Graph /\ run.buffer \in Graph
      /\ run.inGraph \subseteq Files
  BY DEF SyncTypeOK, RunType
<1>3. ASSUME NEW f \in Files, Write(f) \/ Delete(f) PROVE UnreadAreKept'
  <2>1. /\ run'.pc = run.pc /\ run'.unread = run.unread /\ run'.inGraph = run.inGraph
        /\ run'.buffer = run.buffer /\ graph' = graph
    BY <1>2, <1>3 DEF Write, Delete, RunType
  <2> QED
    BY <1>1, <2>1 DEF NodesIn, Known
<1>4. ASSUME NEW force \in BOOLEAN, StartRun(force) PROVE UnreadAreKept'
  <2>1. run'.pc = "scan" /\ run'.unread = {} /\ run'.inGraph = Known(graph) /\ graph' = graph
    BY <1>4, NoRunTyped DEF StartRun, NoRun
  <2> QED
    BY <1>1, <2>1 DEF NodesIn, Known
<1>5. ASSUME NEW f \in Files, SkipFile(f) \/ ReadFile(f) \/ MissFile(f) PROVE UnreadAreKept'
  <2>1. /\ run.pc = "scan" /\ run'.pc = "scan" /\ run'.inGraph = run.inGraph /\ graph' = graph
    <3>1. CASE SkipFile(f)
      BY <1>2, <3>1 DEF SkipFile, Scanned, RunAt, RunType
    <3>2. CASE ReadFile(f)
      BY <1>2, <3>2 DEF ReadFile, Scanned, RunAt, RunType
    <3>3. CASE MissFile(f)
      BY <1>2, <3>3 DEF MissFile, Scanned, RunAt, RunType
    <3> QED
      BY <1>5, <3>1, <3>2, <3>3
  <2> QED
    BY <1>1, <2>1 DEF NodesIn, Known
<1>6. ASSUME NEW f \in Files, Reindex(f) PROVE UnreadAreKept'
  <2>1. /\ run.pc = "reindex" /\ run'.pc = "reindex" /\ run'.unread = run.unread
        /\ run'.inGraph = run.inGraph
        /\ run'.buffer = [run.buffer EXCEPT !.nodes[f] = @ \cup {run.changed[f]}]
    BY <1>2, <1>6 DEF Reindex, RunAt, RunType
  <2>2. run.buffer.nodes \in [Files -> SUBSET Versions]
    BY <1>2 DEF Graph
  <2>3. run'.buffer.nodes = [run.buffer.nodes EXCEPT ![f] = @ \cup {run.changed[f]}]
    BY <1>2, <2>1 DEF Graph
  <2>4. \A g \in Files \ {f} : graph'.nodes[g] = graph.nodes[g]
    BY <1>2, <1>6, WithoutGraph DEF Reindex
  <2> QED
    BY <1>1, <1>2, <2>1, <2>2, <2>3, <2>4 DEF NodesIn
<1>7. CASE Expand
  <2>1. /\ run.pc = "scan" /\ run'.pc = "reindex" /\ run'.inGraph = run.inGraph /\ graph' = graph
        /\ run'.unread = run.unread
    BY <1>2, <1>7 DEF Expand, RunAt, RunType
  <2> QED
    BY <1>1, <2>1 DEF NodesIn, Known
<1>8. CASE FlushSome \/ FlushRest
  <2>1. /\ run.pc # "idle" /\ run'.pc \in {"reindex", "prune"} /\ run'.unread = run.unread
        /\ run'.inGraph = run.inGraph /\ run'.buffer = NoGraph
        /\ graph' = Flushed(graph, run.buffer)
    BY <1>2, <1>8 DEF FlushSome, FlushRest, RunAt, RunType
  <2>2. \A f \in Files : Flushed(graph, run.buffer).nodes[f] = graph.nodes[f] \cup run.buffer.nodes[f]
    BY <1>2, FlushedGraph
  <2> QED
    BY <1>1, <1>2, <2>1, <2>2 DEF NodesIn
<1>9. CASE Sweep
  <2> DEFINE gone == ((Keys(run.old) \cup Preexisting) \ Keys(run.new)) \ run.unread
  <2>1. /\ run.pc # "idle" /\ run'.pc = "save" /\ run'.unread = run.unread
        /\ run'.inGraph = run.inGraph /\ run'.buffer = [run.buffer EXCEPT !.edges = @ \cup run.captured]
    BY <1>2, <1>9 DEF Sweep, RunAt, RunType
  <2>2. graph' = Without(graph, gone) /\ gone \cap run.unread = {}
    BY <1>9 DEF Sweep
  <2>3. run'.buffer.nodes = run.buffer.nodes
    BY <1>2, <2>1 DEF Graph
  <2> HIDE DEF gone
  <2>4. \A f \in Files \ gone : graph'.nodes[f] = graph.nodes[f]
    BY <1>2, <2>2, WithoutGraph
  <2> QED
    BY <1>1, <1>2, <2>1, <2>2, <2>3, <2>4 DEF NodesIn
<1>10. CASE SaveCache \/ ResolveCalls
  <2>1. /\ run.pc # "idle" /\ run'.pc \in {"calls", "flush"} /\ run'.unread = run.unread
        /\ run'.inGraph = run.inGraph /\ graph' = graph
        /\ run'.buffer.nodes = run.buffer.nodes
    <3>1. CASE SaveCache
      BY <1>2, <3>1 DEF SaveCache, RunAt, RunType
    <3>2. CASE ResolveCalls
      BY <1>2, <3>2 DEF ResolveCalls, RunAt, RunType, Graph
    <3> QED
      BY <1>10, <3>1, <3>2
  <2> QED
    BY <1>1, <2>1 DEF NodesIn
<1>11. CASE Prune \/ RunDies
  <2>1. run'.pc = "idle"
    BY <1>11 DEF Prune, RunDies, NoRun
  <2> QED
    BY <1>1, <2>1
<1>12. CASE WipeGraph
  BY <1>1, <1>12 DEF WipeGraph, RunAt
<1>13. CASE UNCHANGED syncVars
  BY <1>1, <1>13 DEF syncVars, NodesIn, Known
<1> QED
  BY <1>3, <1>4, <1>5, <1>6, <1>7, <1>8, <1>9, <1>10, <1>11, <1>12, <1>13 DEF SyncNext

\* A file that could not be read stays in the graph: nothing but the sweep could take
\* away what it had there when the run began, and the sweep passes it over.
THEOREM UnreadStaysKept == SyncSpec => UnreadIsKept
<1>1. SyncInit => UnreadAreKept
  BY InitTyped DEF SyncInit, UnreadAreKept, NoRun
<1>2. UnreadAreKept /\ [SyncNext]_syncVars =>
        [RunAt("prune") /\ run'.pc = "idle" /\ ~damaged' =>
           \A f \in run.unread \cap run.inGraph \cap OnDisk : f \in Known(graph')]_syncVars
  <2> SUFFICES ASSUME UnreadAreKept, [SyncNext]_syncVars, RunAt("prune"), run'.pc = "idle", ~damaged',
                      NEW f \in run.unread \cap run.inGraph \cap OnDisk
               PROVE  f \in Known(graph') \/ UNCHANGED syncVars
    OBVIOUS
  <2>1. run.pc = "prune" /\ f \in Files /\ disk[f] # 0 /\ graph \in Graph
    BY DEF RunAt, OnDisk, Keys, UnreadAreKept, SyncTypeOK
  <2>2. graph.nodes[f] # {}
    BY <2>1 DEF UnreadAreKept, NodesIn, NoGraph
  <2>3. CASE Prune
    <3> DEFINE gone == Known(graph) \ OnDisk
    <3>1. graph' = Without(graph, gone) /\ f \notin gone
      BY <2>3 DEF Prune
    <3> HIDE DEF gone
    <3> QED
      BY <2>1, <2>2, <3>1, WithoutGraph DEF Known
  <2>4. CASE RunDies
    BY <2>1, <2>4 DEF RunDies, RunAt
  <2>5. ASSUME NEW g \in Files, Write(g) PROVE FALSE
    <3>1. run'.pc = run.pc
      BY <2>5 DEF Write, UnreadAreKept, SyncTypeOK
    <3> QED
      BY <2>1, <3>1
  <2>6. ASSUME NEW g \in Files, Delete(g) PROVE FALSE
    BY <2>1, <2>6 DEF Delete
  <2>7. (SyncNext /\ ~Prune /\ ~RunDies /\ ~\E g \in Files : Write(g) \/ Delete(g)) => FALSE
    BY <2>1 DEF SyncNext, StartRun, SkipFile, ReadFile, MissFile, Scanned, Reindex, Expand,
         FlushSome, Sweep, SaveCache, ResolveCalls, FlushRest, WipeGraph, RunAt
  <2> QED
    BY <2>3, <2>4, <2>5, <2>6, <2>7
<1> QED
  BY <1>1, <1>2, UnreadKeptStep, PTL DEF SyncSpec, UnreadIsKept
====
