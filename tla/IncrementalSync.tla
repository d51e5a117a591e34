--------------------------- MODULE IncrementalSync ---------------------------
(***************************************************************************)
(* One repository, its graph, and runs of GraphUpdater over them           *)
(* (src/codebase_rag/graph_updater.py, services/graph_service.py).  A run  *)
(* compares the files with the hash cache kept in the repository, deletes  *)
(* what the graph has of the changed ones, parses them again together with *)
(* the files that depend on them, saves the cache, resolves the calls and  *)
(* flushes.  Files change at any time, and a run may die between any two   *)
(* steps; what it buffered is lost or, when an exception leaves the        *)
(* ingestor's `with' block, flushed.                                       *)
(*                                                                         *)
(* The content of a file is a version number, 0 when there is no file.     *)
(* Modification times matter in one way only, by comparison with the       *)
(* cache's own, so that comparison is the state: `newer'.  The same for    *)
(* the directories: `stale'.  A graph holds the versions each file's nodes *)
(* come from, and the edges by which one file uses another.                *)
(*                                                                         *)
(* Left out: the language frontends, resources and embeddings, delombok,   *)
(* other projects in the same graph, and failing graph queries.            *)
(***************************************************************************)
EXTENDS Naturals

CONSTANTS
  Files,     \* the repository's files
  Uses,      \* pairs of files: every version of the first uses a definition of the second
  Created,   \* the files that may be created while the repository is in use
  MaxEdits,  \* bound: changes of files
  MaxRuns,   \* bound: runs
  MaxDeaths, \* bound: runs that die
  MaxUnread  \* bound: files that cannot be read for a moment

ASSUME UsesAssumption == Uses \subseteq Files \X Files /\ Created \subseteq Files
ASSUME SyncBounds ==
  MaxEdits \in Nat /\ MaxRuns \in Nat /\ MaxDeaths \in Nat /\ MaxUnread \in Nat

Versions == 0..(MaxEdits + 1)

VARIABLES
  disk,      \* the content of each file
  newer,     \* files modified after the cache was saved
  stale,     \* the listings (the saved one, the last walk's) that miss a file that came or went
  cache,     \* the hash cache: a version per file, 0 for none
  graph,     \* the graph: versions of nodes per file, and edges
  run,       \* the run: where it is and its local variables
  edits, runs, deaths, unread, \* how often each happened so far
  behind,    \* history: files written behind the back of the run that read them
  missed,    \* history: files a run could not read, until a full build reads them
  damaged    \* history: the graph was changed by a run that died

syncVars == <<disk, newer, stale, cache, graph, run, edits, runs, deaths, unread,
          behind, missed, damaged>>

counters == <<edits, runs, deaths, unread>>

Graph == [nodes : [Files -> SUBSET Versions], edges : SUBSET (Files \X Files)]

Pcs == {"idle", "scan", "expand", "reindex", "sweep", "save", "calls", "flush", "prune"}

SyncTypeOK ==
  /\ disk \in [Files -> Versions] /\ newer \subseteq Files
  /\ stale \subseteq {"saved", "walked"}
  /\ cache \in [Files -> Versions]
  /\ graph \in Graph
  /\ run \in [pc : Pcs, full : BOOLEAN, old : [Files -> Versions], new : [Files -> Versions],
              todo : SUBSET Files, unread : SUBSET Files, inGraph : SUBSET Files,
              changed : [Files -> Versions], fresh : SUBSET Files,
              captured : SUBSET (Files \X Files), buffer : Graph,
              late : SUBSET Files]
  /\ edits \in 0..MaxEdits /\ runs \in 0..MaxRuns
  /\ deaths \in 0..MaxDeaths /\ unread \in 0..MaxUnread
  /\ behind \subseteq Files /\ missed \subseteq Files /\ damaged \in BOOLEAN

Nothing  == [f \in Files |-> 0]
NoGraph  == [nodes |-> [f \in Files |-> {}], edges |-> {}]
NoRun    == [pc |-> "idle", full |-> FALSE, old |-> Nothing, new |-> Nothing, todo |-> {},
             unread |-> {}, inGraph |-> {}, changed |-> Nothing, fresh |-> {},
             captured |-> {}, buffer |-> NoGraph, late |-> {}]

\* A repository that was never indexed, in an empty graph.
SyncInit ==
  /\ disk \in [Files -> {0, 1}] /\ newer = {f \in Files : disk[f] # 0}
  /\ stale = {"saved", "walked"}
  /\ cache = Nothing /\ graph = NoGraph /\ run = NoRun
  /\ edits = 0 /\ runs = 0 /\ deaths = 0 /\ unread = 0
  /\ behind = {} /\ missed = {} /\ damaged = FALSE

Keys(hashes)  == {f \in Files : hashes[f] # 0}
OnDisk        == Keys(disk)
Known(g)      == {f \in Files : g.nodes[f] # {}}

\* DETACH DELETE of what the graph has of these files.
Without(g, files) ==
  [nodes |-> [f \in Files |-> IF f \in files THEN {} ELSE g.nodes[f]],
   edges |-> {e \in g.edges : e[1] \notin files /\ e[2] \notin files}]

\* flush_all: MERGE of the nodes, then of the edges that find both their ends.
Flushed(g, buffer) ==
  LET nodes == [f \in Files |-> g.nodes[f] \cup buffer.nodes[f]] IN
    [nodes |-> nodes,
     edges |-> g.edges \cup {e \in buffer.edges : nodes[e[1]] # {} /\ nodes[e[2]] # {}}]

-----------------------------------------------------------------------------
(* Changes of files *)

\* The run under way has read the file and not saved the cache yet.
ReadUnsaved(f) ==
  \/ run.pc = "scan" /\ f \notin run.todo
  \/ run.pc \in {"expand", "reindex", "sweep", "save"}

Write(f) ==
  /\ edits < MaxEdits /\ edits' = edits + 1
  /\ disk[f] # 0 \/ f \in Created
  /\ disk' = [disk EXCEPT ![f] = edits + 2]
  /\ newer' = newer \cup {f}
  /\ stale' = IF disk[f] # 0 THEN stale ELSE {"saved", "walked"}
  /\ IF ReadUnsaved(f)
     THEN run' = [run EXCEPT !.late = @ \cup {f}] /\ UNCHANGED behind
     ELSE behind' = behind \ {f} /\ run' = [run EXCEPT !.late = @ \ {f}]
  /\ UNCHANGED <<cache, graph, runs, deaths, unread, missed, damaged>>

Delete(f) ==
  /\ edits < MaxEdits /\ edits' = edits + 1
  /\ disk[f] # 0
  /\ disk' = [disk EXCEPT ![f] = 0]
  /\ newer' = newer \ {f}
  /\ stale' = {"saved", "walked"}
  /\ UNCHANGED <<cache, graph, run, runs, deaths, unread, behind, missed, damaged>>

-----------------------------------------------------------------------------
(* One run *)

\* _is_already_in_sync: no file came or went since the saved listing, and no file
\* of the cache is both newer than it and different.
InSync ==
  /\ Keys(cache) # {}
  /\ "saved" \in stale => OnDisk = Keys(cache)
  /\ \A f \in Keys(cache) : disk[f] # 0 /\ (f \in newer => disk[f] = cache[f])

\* The cache used whatever became of the graph.
CacheAsSaved == cache

\* _drop_cache_if_graph_lost
UsableCache == IF Known(graph) = {} THEN Nothing ELSE cache

RunAt(pc) == run.pc = pc

\* run up to the walk over the repository.  Without a usable cache, or with
\* force, everything is built anew and the graph is asked what it has.
StartRun(force) ==
  /\ RunAt("idle")
  /\ runs < MaxRuns /\ runs' = runs + 1
  /\ force \/ ~InSync \/ Keys(UsableCache) = {}
  /\ cache' = IF force THEN cache ELSE UsableCache
  /\ LET old  == IF force THEN Nothing ELSE UsableCache
         full == Keys(old) = {} IN
       run' = [NoRun EXCEPT !.pc = "scan", !.full = full, !.old = old, !.todo = OnDisk,
                            !.inGraph = Known(graph)]
  /\ stale' = stale \ {"walked"}
  /\ UNCHANGED <<disk, newer, graph, edits, deaths, unread, behind, missed, damaged>>

\* preexisting_paths: only a full build asks for them.
Preexisting == IF run.full THEN run.inGraph ELSE {}

\* The file has to be read: it is not in the cache, or newer than it.
ToRead(f) == run.old[f] = 0 \/ f \in newer

Scanned(f, r) ==
  /\ RunAt("scan") /\ f \in run.todo
  /\ run' = [r EXCEPT !.todo = @ \ {f}]
  /\ UNCHANGED <<disk, newer, stale, cache, graph, edits, runs, deaths, behind, missed, damaged>>

\* Its modification time lets the run trust the cached hash.
SkipFile(f) ==
  /\ disk[f] # 0 /\ ~ToRead(f)
  /\ Scanned(f, [run EXCEPT !.new[f] = run.old[f]])
  /\ UNCHANGED unread

\* It is read and, if its hash is new, will be parsed from the bytes just read.
ReadFile(f) ==
  /\ disk[f] # 0 /\ ToRead(f)
  /\ Scanned(f, [run EXCEPT !.new[f] = disk[f],
                            !.changed[f] = IF run.old[f] = disk[f] THEN 0 ELSE disk[f]])
  /\ UNCHANGED unread

\* A file without a hash entered in the new cache all the same.
MissFileHashed(f) ==
  /\ \/ disk[f] = 0 /\ UNCHANGED unread
     \/ disk[f] # 0 /\ ToRead(f) /\ unread < MaxUnread /\ unread' = unread + 1
  /\ Scanned(f, [run EXCEPT !.unread = @ \cup {f}, !.new[f] = MaxEdits + 2])

\* It is gone since the walk, or cannot be read now: it gets no hash.
MissFile(f) ==
  /\ \/ disk[f] = 0 /\ UNCHANGED unread
     \/ disk[f] # 0 /\ ToRead(f) /\ unread < MaxUnread /\ unread' = unread + 1
  /\ Scanned(f, [run EXCEPT !.unread = @ \cup {f}])

\* _affected_caller_keys
Callers(files) == {f \in Files : \E g \in files : <<f, g>> \in graph.edges}

\* The files that depend on a changed one join it, as they are now; the edges
\* that point at these files from others are read from the graph.
Expand ==
  /\ RunAt("scan") /\ run.todo = {}
  /\ LET fresh     == {f \in Keys(run.changed) : run.old[f] = 0 /\ f \notin Preexisting}
         stored    == Keys(run.changed) \ fresh
         affected  == {f \in Callers(stored) \ Keys(run.changed) :
                         f \in Keys(run.new) \cup run.unread /\ disk[f] # 0}
         reindexed == stored \cup affected IN
       run' = [run EXCEPT !.pc = "reindex",
                          !.fresh = fresh,
                          !.changed = [f \in Files |-> IF f \in affected THEN disk[f] ELSE @[f]],
                          !.todo = Keys(run.changed) \cup affected,
                          !.captured = {e \in graph.edges : e[2] \in reindexed /\ e[1] \notin reindexed}]
  /\ UNCHANGED <<disk, newer, stale, cache, graph, counters, behind, missed, damaged>>

\* What the graph has of the file goes at once; what is parsed is buffered.
Reindex(f) ==
  /\ RunAt("reindex") /\ f \in run.todo
  /\ graph' = IF f \in run.fresh THEN graph ELSE Without(graph, {f})
  /\ run' = [run EXCEPT !.todo = @ \ {f}, !.buffer.nodes[f] = @ \cup {run.changed[f]}]
  /\ UNCHANGED <<disk, newer, stale, cache, counters, behind, missed, damaged>>

\* Every FILE_FLUSH_INTERVAL files, or when a batch is full.
FlushSome ==
  /\ RunAt("reindex") /\ run.buffer # NoGraph
  /\ graph' = Flushed(graph, run.buffer)
  /\ run' = [run EXCEPT !.buffer = NoGraph]
  /\ UNCHANGED <<disk, newer, stale, cache, counters, behind, missed, damaged>>

\* A file that could not be read swept like one that is gone.
SweepUnread ==
  /\ RunAt("reindex") /\ run.todo = {}
  /\ graph' = Without(graph, (Keys(run.old) \cup Preexisting) \ Keys(run.new))
  /\ run' = [run EXCEPT !.pc = "save", !.buffer.edges = @ \cup run.captured]
  /\ UNCHANGED <<disk, newer, stale, cache, counters, behind, missed, damaged>>

\* The files that are gone are deleted from the graph, except those that could
\* only not be read; the edges that the re-parsed files lost are buffered again.
Sweep ==
  /\ RunAt("reindex") /\ run.todo = {}
  /\ graph' = Without(graph, ((Keys(run.old) \cup Preexisting) \ Keys(run.new)) \ run.unread)
  /\ run' = [run EXCEPT !.pc = "save", !.buffer.edges = @ \cup run.captured]
  /\ UNCHANGED <<disk, newer, stale, cache, counters, behind, missed, damaged>>

\* _save_hash_cache and _save_dir_mtimes: from now on every file is older.
SaveCache ==
  /\ RunAt("save")
  /\ cache' = run.new
  /\ newer' = {}
  /\ stale' = IF "walked" \in stale THEN {"saved", "walked"} ELSE {}
  /\ run' = [run EXCEPT !.pc = "calls"]
  /\ UNCHANGED <<disk, graph, counters, behind, missed, damaged>>

\* The calls of the parsed files resolve against what they and the graph define.
ResolveCalls ==
  /\ RunAt("calls")
  /\ run' = [run EXCEPT !.pc = "flush",
               !.buffer.edges = @ \cup {e \in Uses : e[1] \in Keys(run.changed) /\
                                          e[2] \in Known(graph) \cup Known(run.buffer)}]
  /\ UNCHANGED <<disk, newer, stale, cache, graph, counters, behind, missed, damaged>>

FlushRest ==
  /\ RunAt("flush")
  /\ graph' = Flushed(graph, run.buffer)
  /\ run' = [run EXCEPT !.pc = "prune", !.buffer = NoGraph]
  /\ UNCHANGED <<disk, newer, stale, cache, counters, behind, missed, damaged>>

\* _prune_orphan_nodes deletes what is no longer on disk; the run is over.
Prune ==
  /\ RunAt("prune")
  /\ graph' = Without(graph, Known(graph) \ OnDisk)
  /\ run' = NoRun
  /\ behind' = IF run.full THEN run.late ELSE behind \cup run.late
  /\ missed' = IF run.full THEN run.unread ELSE missed \cup run.unread
  /\ damaged' = (damaged /\ ~run.full)
  /\ UNCHANGED <<disk, newer, stale, cache, counters>>

-----------------------------------------------------------------------------
(* Accidents *)

\* The run is killed, or raises: then __exit__ flushes what is buffered.  A cache
\* that was being written is cut off and reads as empty.
RunDies ==
  /\ ~RunAt("idle")
  /\ deaths < MaxDeaths /\ deaths' = deaths + 1
  /\ graph' \in {graph, Flushed(graph, run.buffer)}
  /\ cache' \in {cache} \cup (IF RunAt("save") THEN {Nothing} ELSE {})
  /\ run' = NoRun
  /\ behind' = behind \cup run.late
  /\ missed' = missed \cup run.unread
  /\ damaged' = (damaged \/ ~RunAt("scan"))
  /\ UNCHANGED <<disk, newer, stale, edits, runs, unread>>

\* Between two runs the database is cleaned for another repository, or is a new one.
WipeGraph ==
  /\ RunAt("idle")
  /\ deaths < MaxDeaths /\ deaths' = deaths + 1
  /\ graph # NoGraph /\ graph' = NoGraph
  /\ UNCHANGED <<disk, newer, stale, cache, run, edits, runs, unread, behind, missed, damaged>>

-----------------------------------------------------------------------------
SyncNext ==
  \/ \E f \in Files : Write(f) \/ Delete(f)
  \/ \E force \in BOOLEAN : StartRun(force)
  \/ \E f \in Files : SkipFile(f) \/ ReadFile(f) \/ MissFile(f) \/ Reindex(f)
  \/ Expand \/ FlushSome \/ Sweep \/ SaveCache \/ ResolveCalls \/ FlushRest \/ Prune
  \/ RunDies \/ WipeGraph

SyncSpec == SyncInit /\ [][SyncNext]_syncVars

-----------------------------------------------------------------------------
(* Properties *)

\* What a clean index of the files as they are would make of one file, and of one
\* use of a file by another.
NodesCurrent(f) == graph.nodes[f] = {disk[f]} \ {0}
EdgeCurrent(e)  == e \in graph.edges <=> e \in Uses /\ e[1] \in OnDisk /\ e[2] \in OnDisk

\* Asked now, a run would leave everything as it is.
WouldSkip == RunAt("idle") /\ InSync /\ Keys(UsableCache) # {}

\* "Does the resulting graph still equal a clean full re-index of the same tree?"
\* (evals/README.md:180-182): when the next run would find everything in sync, the
\* graph is that index, after any changes and runs, except for a file that was
\* written behind the back of the run that read it, or could not be read, and
\* unless a run died half way and no full build came since.
SyncMeansCurrent ==
  WouldSkip /\ ~damaged =>
    LET sure == Files \ (behind \cup missed) IN
      /\ \A f \in sure : NodesCurrent(f)
      /\ \A f, g \in sure : EdgeCurrent(<<f, g>>)

\* "A file that merely could not be READ this run still exists: sweeping it would
\* erase live state over a transient error" (graph_updater.py:2380-2382): what the
\* graph had when the run began and the disk still has is there when it ends.
UnreadIsKept ==
  [][RunAt("prune") /\ run'.pc = "idle" /\ ~damaged' =>
       \A f \in run.unread \cap run.inGraph \cap OnDisk : f \in Known(graph')]_syncVars

\* "A run that dies mid-way must not convince its successor" that files were
\* processed (graph_updater.py:1067-1068).
DeathIsNoticed ==
  WouldSkip /\ behind \cup missed = {} =>
    (\A f \in Files : NodesCurrent(f)) /\ (\A f, g \in Files : EdgeCurrent(<<f, g>>))
=============================================================================
