# BuildProof: TLA+ models

BuildProof is a console that analyses public repositories, deploys the analysed
commit in a disposable container, and collects what the container does at run
time. It is built on a code-graph engine (`codebase_rag`) that keeps a graph
database in step with a repository. This directory models the parts of both
that have state over time: threads, timers, queues, caches, spool files and
their failures.

## The system

| Part | State it keeps | Operations | Talks to |
| --- | --- | --- | --- |
| Deployment orchestrator (`deploy/surface/deployment_orchestrator.py`) | one `status.json` per report, the in-memory queue `TASKS`, the containers and data directories | POST, DELETE and GET of jobs; the worker deploys one job at a time; the reaper removes expired ones every minute; systemd restarts the process | docker, git, the console (best-effort events) |
| Audit collector (`deploy/surface/audit_collector.py`) | its offset in `audit.log`, the checkpoint file | poll, post in chunks of 1000, save the checkpoint | auditd's log, the relay |
| Surface relay (`deploy/surface/runtime_relay.py`) | a directory of spool files | accept a batch (one thread per request); forward the oldest file until the console takes it | the collector, the console |
| Console (`buildproof/server.py`, `deployment.py`, `rescan.py`, `runtime_audit.py`) | report files, runtime event files, the rescan status, clones | analyse, list, ingest events, trigger a deployment; a timer starts the rescan in a process of its own | the orchestrator, the relay |
| Real-time updater (`realtime_updater.py`) | pending events, timers, the parsed files of this process | dispatch (observer thread), debounce (a thread per timer), one update at a time | the graph ingestor, the graph updater |
| Incremental graph updater (`codebase_rag/graph_updater.py`) | the hash cache and directory times in the repository, the graph | `run`: in-sync check, scan, re-parse, sweep, resolve calls, flush, prune | the graph ingestor |
| Graph ingestor (`codebase_rag/services/graph_service.py`) | buffers of nodes and relationships | buffer, flush (possibly in parallel), delete, flush on exit | the database |
| MCP server (`codebase_rag/mcp/tools.py`) | an asyncio lock, worker threads, the one ingestor they share | index, update, delete, wipe, verdict; a client may cancel any of them | the graph updater, the ingestor, the index of vectors |
| Index of vectors (`codebase_rag/vector_store.py`, pass 4 of `graph_updater.py`) | a point per function, keyed by the id of its node | embed in batches at the end of a run; clear; delete a project's points | the graph, an embedding model, Qdrant |
| Build lock of the frontends (`codebase_rag/parsers/build_lock.py`, `*_frontend/frontend.py`) | a lock file, perhaps an old version's directory, the tool and its staging | several indexing processes build one tool | compilers, flock |
| AST cache (`codebase_rag/ast_cache.py`) | an LRU of trees, beside it the captured nodes | load, insert, evict | files, the call pass |
| Function registry (`codebase_rag/function_registry.py`) | names, a trie, three indices, kept answers | register, look up by ending, take a file's names out | parsers, the real-time updater |
| State file and workspaces (`codebase_rag/cgr_state.py`, `workspaces/storage.py`) | JSON and TOML files of `CGR_HOME` | read, change, truncate, write, without a lock | every `cgr` process |
| Dead code and duplicates (`codebase_rag/dead_code.py`, `duplicates.py`) | sets of one computation | reachability with feedback; pairs, maximal cliques, groups | the exported graph |
| Stack manager, parsers and frontends, trace ingestion, agent and command line, codec, evals, benchmarks | | data conversion and front ends | |

Hard behaviour, by part:

* orchestrator: handlers, worker and reaper write one file with read-modify-write
  but decide on what they read before; the queue does not survive a restart, and
  worker and reaper do not survive an exception that nobody catches;
* evidence path: the position in the log, the posts and the checkpoint advance
  separately; answers get lost; files are read while they are written; a
  rejected file blocks the ones behind it, and so does the death of the relay's
  worker thread;
* console: server and rescan run the same analysis in two processes on one data
  directory, and the gate that serialises analyses exists in one of them only;
* watcher: timers that fire while they are cancelled, updates that overtake each
  other on an unfair lock, updates that fail half way (and, without debouncing, end
  the observer's thread), edges recomputed from what this process happens to have
  parsed, out of a cache that evicts trees and reads changed files again;
* incremental runs: files change while they are scanned, runs die between any two
  steps, the cache and the graph live in different places;
* sessions: a failed run leaves rows in the buffers that the next tool flushes, a
  deletion goes past the buffers, a file whose parse fails is passed over in silence,
  and a cancelled request frees the lock while its thread goes on;
* tools: processes judge a tool without the lock, are killed in the compiler, and
  meet the lock directories of an older version;
* names and trees: kept answers, indices and captured nodes must follow removals,
  evictions and reloads through any sequence of events;
* index: points outlive their nodes, ids are given anew after a wipe, and a pass that
  is skipped, or a batch, pass or file that fails, is only logged;
* files of `CGR_HOME`: read, changed and truncated by several processes;
* reports: rules that feed each other, prefixes and caps that must lose nothing
  without saying so.

Every component, modelled or not, is listed in `PROJECT.json`, and every hazard
with the line where it bites and the properties that cover it.

## Modules

| Module | Models | Checked by |
| --- | --- | --- |
| `SurfaceOrchestrator` | the orchestrator: `Post*`, `Delete*` (a request thread's steps), `TakeTask` .. `RemoveFailed` (the worker, one action per write of the job file or docker call), `Reaper*`, `WorkerDies`, `ReaperDies`, `RequestFails` (exceptions that nobody catches), `Crash` | `MCOrchestrator*.cfg` |
| `EphemeralDeployment` | abstract: what a user is promised of a deployment. `SurfaceOrchestrator!ServesAsPromised` is its specification under a refinement mapping | `MCOrchestrator.cfg` |
| `EvidencePipeline` | collector, relay and ingestion composed in one module; auditd and the failures are its environment | `MCConsole.cfg`, `MCEvidenceRefused.cfg` |
| `ConsoleReports` | the console's reports: `Request`, `Enter`, `Leaves` (the handler and its gate), `Clear` .. `Name` (`_prepare_public_repository`), `OpenDraft` .. `RenameDraft` (`_save_report`, executed twice per call), `Trigger` (`deployment.py`), `StartRescan` .. `EndRescan` (`rescan.py`), restarts | `MCConsole.cfg` |
| `RealtimeWatcher` | the real-time updater with debounce timers and the update transaction | `MCServices.cfg`, `MCWatcher*.cfg` |
| `ToolBuild` | `_build_tool`, `_compile_tool` and the build lock: several processes that judge, wait, lock, compile and publish, and an old version's builder | `MCServices.cfg` |
| `GraphIngestor` | the ingestor's buffers as operators on a store: thresholds, flushes that succeed or fail in part, deletions | used by `McpSession` |
| `McpSession` | the MCP server's tools over one store: the lock, threads, exceptions, cancellation, kill and stop | `MCServices.cfg` |
| `IncrementalSync` | `GraphUpdater.run` over a changing repository, the hash cache and the graph | `MCEngine.cfg`, `MCSync*.cfg` |
| `FunctionRegistry` | registration with duplicates, the trie, the simple names, the kept answers, the sweep of a file | `MCEngine.cfg` |
| `AstCache` | the cache of trees with its loader and the captures beside it | `MCEngine.cfg` |
| `HomeFiles` | `state.json` and a workspace's TOML file under several processes | `MCEngine.cfg` |
| `VectorIndex` | the embedding pass of a run, wipes and deletions, and the points they leave | `MCEngine.cfg` |
| `DeadCode` | `dead_code_from_graph`: roots, walks, closures, factories, overriders | `MCEngine.cfg` |
| `Duplicates` | `_similar_groups`: prefixes, edges, maximal cliques, pruned and supplemental groups | `MCEngine.cfg`, `MCDuplicatesDropped.cfg` |
| `MCConsole`, `MCServices`, `MCEngine` | compositions for TLC: parts that share no variable, one of which moves in a behaviour (`part`), each with its own fairness | their `.cfg` |
| `MC*` (others) | instances of one module | their `.cfg` |
| `SurfaceOrchestratorProofs`, `ConsoleReportsProofs`, `EvidencePipelineProofs`, `McpSessionProofs`, `IncrementalSyncProofs`, `DuplicatesProofs` | theorems about the module of that name (`McpSessionProofs`: with `GraphIngestor`) | tlapm |
| `ServicesProofs` | theorems about `RealtimeWatcher` and `ToolBuild` | tlapm |
| `EngineProofs` | theorems about `AstCache`, `FunctionRegistry`, `VectorIndex`, `DeadCode`, `HomeFiles`, and about the composition `MCEngine` | tlapm |

`map` in `PROJECT.json` gives the lines each definition stands for.

### How state corresponds to the code

* `SurfaceOrchestrator`: `status[r]` is `status.json` (state, commit,
  `commit_verified`, time left); `container[r]` the commit of the running
  container; `data[r]` its data directory; `tasks` is `TASKS`; `worker`, `reaper`
  and `handler[h]` are the threads with their local variables; a thread that died of
  an exception is "dead" until a restart. Two history variables: `lost` holds the
  reports whose work a restart forgot, `disturbed` those at which requests, the
  worker and the reaper met. A report is disturbed when it is accepted while a job of
  it is queued or under way, a DELETE is at it or the reaper is, and when a DELETE
  begins while a job of it is under way; it no longer is when it is next accepted
  with nobody at it. Each write of `status.json` is atomic (a lock and a rename); what
  a thread read before it is in its record. Durations are ticks.
* `EphemeralDeployment`: `wanted` is the commit of an active job, `served` that of the
  container whose job file says running; `astray` are the disturbed reports, `stuck`
  those that nobody moves on any more: active ones that are lost or whose worker is
  dead, running ones whose reaper is; `withdrawing` those a DELETE is at, so that a
  container which goes before its time without one is no step of the abstract module.
* `EvidencePipeline`: an event is the number of its line. `collector.batch` is
  what is left of the events read in this round. A spool file is empty, full or
  torn. `acked`, `skipped` and `spoilt` are history: what the relay answered 202
  for, what the collector read past without posting, and what was unlinked before
  it was written or merged into a cut-off line. `forwarder` is the relay's worker
  thread, "dead" after an exception that `_forward` does not catch until the relay is
  restarted.
* `ConsoleReports`: a commit is its number in the order of the pushes; a report is
  the commit it names and the commit of the tree it was made from (0 when that was
  no single commit). `draft[r]` and `report[r]` are `<id>.tmp` and `<id>.json`;
  `run[w]` is a worker's call of `_analyze`, with the file it has open, which stays
  the same file when another worker renames it. `raced` is history: since the last
  save of a call that was alone on the repository, calls of both processes were at
  work on it at once; `alone` says so of one call. An `rmtree` and the reading
  loop of `_history` are one step each, a `git clone` is two (the directory, then
  its content).
* `RealtimeWatcher`: a file's content is a version; `pending`, `timer`, `age` are
  `pending_events`, `timers`, `first_event_time`; `orphans` are timers that run
  although they are no longer registered, `fired` the threads that wait for
  `lock`, `waiting` those that wait for `_update_lock`. The graph is the versions
  a file's nodes and its outgoing calls come from, `buffer` what the ingestor holds of
  both. `parsed` is `_parsed_files`, `tree` the version each tree in the cache was
  parsed from: the call pass takes the cached tree of any of the files and the file on
  disk of the others, since what the bounded cache still holds is up to its limits.
  `observing` says whether the observer's thread lives. A failure is one of three: a
  parse or the calls of a file, whose exception is swallowed and the update goes on
  (`ParseFails`, `CallsFail`), or a call of the database, which ends the update and,
  without debouncing, the observer's thread (`UpdateFails`). History: `strayed` are
  the files with a change unreported, an update that failed or was overtaken;
  `botched` says that since an update failed none has begun on an empty buffer.
* `IncrementalSync`: `newer` and `stale` are the comparisons of modification times
  that the code makes; `run` holds the local variables of one run; edges are pairs
  of files. `behind`, `missed` and `damaged` are history: files written behind the
  back of the run that read them, files that could not be read, and a run that
  died after it had begun to change the graph.
* `ToolBuild`: `path` is what is at the path of the lock (nothing, the flock file,
  an old version's directory); `tool` and `staging` say how whole the build there
  is; `proc[w]` is a process with the tries it has left. `language` is "java" for
  the frontend that publishes by a rename and "go" for those that compile in place.
* `McpSession`: `store` is the graph and the two buffers of the shared ingestor;
  `thread[c]` a request with what its thread has left to do. A run is reduced to
  what it does to the store and the cache. A file whose parse or calls fail is passed
  over (`ParseSwallowed`, `CallsSwallowed`), with what the failed flush has left of the
  buffers, and the run goes on to save the cache and to answer success; `skipped`
  remembers it for the run. `marred` (a run failed after it had saved the cache, or
  passed over a file, or trusted the cache unasked, and none was complete since) and
  `astray` (a request was cancelled while its thread was at work) are history.
* `FunctionRegistry`: a qualified name is a sequence of segments with the line and
  column a duplicate is told apart by; `named` remembers which definition got which
  name. `orphaned` is history: natural names taken out while a variant stayed.
* `AstCache`: a tree is the version of the file it was parsed from; `asts` is the
  ordered dict; the weight of an entry is one, since the code measures the tuple.
* `HomeFiles`: `homeFile` is absent, torn or whole; `blind` marks a `record_sync` that
  could not read the file and took it for empty (`RecordUnread`); `kept` and
  `disturbed` (an update overlapped another, did not come to its end, or wrote blindly)
  are history.
* `VectorIndex`: a point is the id of a node, a function and the version of the
  text the vector was made from; `pass` is what the process does, with the rows and
  snippets it has left. The graph part of a run is one step, because
  `IncrementalSync` has the rest. `SkipPass` is a run without embeddings, `TakeUnreadable`
  a file that cannot be read or decoded when its turn comes. `unembedded` (ids that the
  log says failed or were left out, and that were not embedded since) and `warned` (a
  clearing failed) are history.
* `DeadCode`, `Duplicates`: the state is the local variables of the function; a
  step is one visit of a walk or one call of the recursion. The program, or the
  scanned entries, are chosen at the start and never change.

## Runs

Bounds are the smallest at which the interesting cases happen: two of whatever
competes, one or two faults, and enough edits or tasks to come back to the same
object after it was finished.

| Run | Question | Bounds |
| --- | --- | --- |
| `orchestrator` | What holds whatever the clients do, whenever the process is restarted and whichever thread dies? Safety, and the refinement of `EphemeralDeployment` with its liveness | one report, two commits, two request threads (two POSTs, or a POST and a DELETE, at once), POSTs over every state but an active one, queue of one, time to live 1, restarts and deaths without bound |
| `orchestrator_dies` | Finding: does every container expire? | one report, one commit, one thread, no DELETE, no restart |
| `orchestrator_delete` | Finding: is a verified commit the deployed one, with DELETE? | one report, one request thread, nobody dies |
| `console`, part "reports" | Do saved reports, rescan results and deployments follow the repositories? | one repository, two request threads and the rescan (all that share one repository's files; the two-process races need no more), two commits, two requests, one fault |
| `console`, part "audit" | What audit events are kept, skipped, and arrive? | two lines in chunks of one, two faults: a batch of more than one chunk, and a fault in the recovery from a fault |
| `evidence_refused` | Finding: are lines that were read sent again after a refusal? | one line, one fault |
| `services`, part "watcher" | Are events processed in time, and is the graph current? | two files, three changes and faults together (`MaxEdits`), at most one of them a fault, no debouncing and a delay of 2 with a maximum wait of 3 (so that the cap matters) |
| `services`, part "build" | Is a launched tool whole, is a whole tool left alone, does every process end? | two processes, two tries, one killed, both kinds of frontend, every state an old version may have left |
| `services`, part "session" | Is success complete, does a verdict see one graph, does every request end? | two requests at a time without end, two modules, buffers of three (so that a threshold falls inside a run), one mishap |
| `watcher_inotify` | Finding: with the events Linux reports | one fault, three changes |
| `watcher_cold` | Finding: after an initial scan that found everything in sync | one change |
| `engine`, part "sync" | When the next run would do nothing, is the graph right? | a caller and a callee, two edits, three runs, one death or wipe, one unreadable file; the callee exists from the start |
| `engine`, part "registry" | Do names, indices and kept answers agree? | two files of one module with a class, methods, a signature and twins on one line, three events |
| `engine`, part "cache" | Is every loaded tree current, whatever is evicted? | three files, two entries, a memory estimate of none or two, three changes |
| `engine`, part "home" | Is what was recorded kept? | two processes, two items, one fault (a command that ends early, or a file that cannot be read), both formats |
| `engine`, part "dead" | Is exactly what is reached alive? | three functions, two classes, two methods; calls, closures, factories, components and both options varied |
| `engine`, part "similar" | Are the groups the maximal cliques, and does every pair come out? | up to four entries with every choice of branches, caps on pairs and groups below and above what there is, two triangles below, at and above the cap, and four factories with their closures and a copy of one |
| `engine`, part "index" | Is what a search finds what the graph says? | two functions in batches of two (one short last batch), three versions, one wipe or deletion, one failure, any number of passes skipped |
| `duplicates_dropped` | Finding: may a qualifying pair be dropped? | the same scans |
| `sync_dies` | Finding: does the next run notice a run that died? | one run, one death |
| `sync_created` | Finding: may the callee be created later? | two edits, three runs, no deaths |

In `console`, `services` and `engine` the parts are independent: one run answers
the questions of several modules, since no step of one can matter to another.
`engine`, `services`, `duplicates_dropped` and the findings of the watcher and of
the runs bound edits, runs and computations that then really stop, so they do not
check deadlock; the other runs do.

### What the passing runs exclude, and why

A passing property that needs an exclusion names it in its statement.

* `OrderlyShowsItsCommit`, `OrderlyIsGone` and the refinement leave out a report at
  which requests, the worker and the reaper met (`disturbed`), until it is next
  accepted in peace. `orchestrator_delete` shows what a DELETE under a deployment does
  to such a report; a POST accepted while the reaper is at the report loses the new
  container the same way. What is not left out: POSTs over running jobs (the
  repository's console posts at every new analysis), DELETEs of jobs that rest,
  restarts and dying threads. `ServesAsPromised` asks nothing of a report that is
  `stuck`, except that it stays what it is; `orchestrator_dies` is what that means for
  its container.
* `ActiveJobsAreOwned` speaks of a living worker: when the worker thread is dead the
  jobs it had, and those in the queue, have nobody until the process is restarted, and
  after the restart they are lost.
* `LinesArrive` excludes what the code itself drops (`skipped`, `spoilt`), a torn file
  at the head of the spool, which the console answers 400 for ever, and the death of
  the relay's worker thread, which only a restart of the relay mends.
* `SavedIsReadable`, `NamesItsCommit`, `NeverStepsBack` and `CompletedIsFresh`
  exclude a repository on which server and rescan were at work at once (`raced`),
  until its next undisturbed save. Without the exclusion TLC finds each of them
  violated: one process removes the clone the other is analysing, or renames the
  `.tmp` the other is writing. `README.md:27-28` of the repository ("Every saved
  report records the exact Git commit used for analysis and deployment") therefore
  holds of the server alone and of the rescan alone, not of the two together.
* `SnapshotsFollow` speaks of reports that can be read: one that was torn by such a
  race leaves `_history`, and with it the rescans, until somebody asks for that
  repository again. It assumes that the orchestrator ends its jobs; what happens to
  a job that a restart of the orchestrator lost is the subject of
  `LostJobsNeedDelete`.
* `QuietMeansCurrent` and `Converges` exclude files with an unreported change, a
  failed update, or updates that overtook each other (`strayed`); `Converges` also
  files with an event that the dead observer's thread will never dispatch.
* `CallsMatchNodes` excludes the time from a failed update to the beginning of one that
  finds the buffer empty (`botched`), the files whose updates failed, and, once there
  was a failure, those whose updates overtook each other. It speaks of files whose
  nodes are those of what the file holds: when a file changes between two updates, the
  call pass of another file's update may read the new content behind the old nodes.
* `SyncMeansCurrent` excludes files written between their scan and the saving of
  the cache: their modification time is older than the cache's and no later run
  reads them. It also excludes the graph left by a run that died (`damaged`) until
  the next full build; `sync_dies` is what happens otherwise.
* `SuccessIsComplete` excludes a graph that a run left which failed with the cache
  saved, passed over a file whose parse or calls failed, or trusted the cache unasked
  (`marred`), and threads that a cancellation left alone (`astray`);
  `VerdictSeesOneGraph` excludes the latter. A run that passed over a file does answer
  that it succeeded, and so do the runs after it that find the cache in sync
  (`definition_processor.py:507-509`, `graph_updater.py:2412`).
  A cancelled `to_thread` gives the asyncio lock back while its thread goes on
  (`mcp/tools.py:500-502`), and nothing in the code waits for it.
* `LaunchedIsWhole` is about the Java frontend, which publishes by a rename. The Go
  and C# compilers write to the place the tool is run from, and a process that
  gives up waiting runs what is there (`build_lock.py:119-122`).
* `EverybodyEnds` excludes a process in a Go or C# compiler, which has no timeout.
* `OldBuilderIsRespected` is about one old builder that has written its pid. With two
  of them the check-then-remove of the old directory can remove a living one's lock
  (`build_lock.py:86-92`).
* `RecordedIsKept` excludes updates that overlapped or did not end, and a `record_sync`
  that could not read the file (`disturbed`): nothing locks these files, so an overlap
  loses one of the two, and `_load` takes any OSError for an empty file, which
  `record_sync` then writes back over the records of all other projects
  (`cgr_state.py:27-34`, `46-52`).
* `FindsWhatIsThere` speaks of natural names. A duplicate's marked name and a name
  with a signature are filed under a name they do not end with, and the kept answers
  are not dropped for them (`function_registry.py:95-102`, `242-254`).
  `IndicesAgree` excludes the variants of a natural name that was taken out first
  (`function_registry.py:136`); `NamesAreUnique` excludes twins of two files at one
  line and column, which do share a name.
* `ReachedIsAlive` allows what only a class refers to that a live function makes
  (`Escaped`): the loop that revives the class does not walk on from it
  (`dead_code.py:759-772`), so with classes in the report its base class is called
  dead. It also asks for closures only of owners that were live before the rounds.
* `PairsAreReported` is about definitions that lie apart and allows a pair whose
  entries are both taken out of a group whole (`Swallowed`); `duplicates_dropped`
  shows that this loses pairs.
* `IndexIsHonest` allows what the log or the answer of a command named: a batch, a pass
  or a file that failed, a pass that was skipped (`unembedded`, until it is embedded
  after all), a clearing that failed after the wipe (`warned`).

### Findings

The runs that end in a violation each check one statement of the documentation or of a
comment; `findings` in `PROJECT.json` quotes it. In short: a DELETE during a deployment
lets the next POST relabel it; an exception that `_deploy` does not catch ends the
worker thread, and the container it leaves is never expired; a refused post of the
collector loses the lines it had read; the "closed" event of Linux hides a modification
from the watcher; a watcher that started in sync deletes all calls at its first event; a
run that dies after saving the cache is taken for complete; a file created after its
users is not connected to them; a pair of similar closures is in no group when their
similar factories take both of them out.

Met while modelling, with no run of their own (the exclusions above name others):

* `delete_project` follows the containment from the Project node
  (`mcp/tools.py:622-645`, `cypher_queries.py:36-41`): nodes that a failed run left
  uncontained stay, although `docs/guide/mcp-server.md:64` says that the project is
  cleared. After such a failure with the cache saved, `index_repository` can answer
  that it succeeded on an incomplete graph.
* A count query that fails lets a lost graph be trusted (`graph_updater.py:2016-2019`,
  "fail open").
* Captures are stored only when there are any, and not dropped when a file's state is
  removed: after an event that empties a file the call pass may read the nodes of its
  former tree (`definition_processor.py:418-424`; `graph_updater.py:2500-2502` says
  they are kept in step).
* A file that is parsed again gets new nodes, but the points of the old ones stay in
  the index until a wipe (deleting the project removes the points of the nodes of
  that moment only). Dead points crowd live hits out of a search; the comment at
  `vector_store.py:344-349` sees the danger for a clean only.
* What failed to be embedded, or was left out by a run without embeddings, is not made
  up for while runs are in sync: the cache is saved all the same, and the
  reconciliation only warns (`graph_updater.py:2744-2754`, `2851-2873`).
* The query for what to embed asks for functions and methods that a Module DEFINES
  (`constants/graph.py:350-363`); methods hang on their class and are never embedded.
* A duplicates threshold of 0 is accepted, for which the prefixes are not enough.

## Fairness

* Orchestrator: worker, reaper and request threads are weakly fair while they live:
  their deaths are actions of their own (`WorkerDies`, `ReaperDies`, `RequestFails`)
  with no fairness, and disable the fair ones. The reaper's choice of one expired job
  is strongly fair because each of its rounds looks at every job file. No client is
  fair: nobody has to send a request. Time passes. The process may be restarted any
  number of times, but not for ever: against a restart before every step nothing is
  ever deployed. `EphemeralDeployment` is fair to the reports that are neither astray
  nor stuck.
* Tool builds: a process that is not in a compiler goes on; the Java compiler has a
  timeout, so that it ends; those of Go and C# have none and are not fair.
* Sessions: a thread and the answer to a client are weakly fair. Taking the lock is
  strongly fair, since asyncio's lock serves its waiters in the order they came.
* Evidence: the collector and the forwarder are endless loops while their threads live
  (`ForwarderDies` is a fault, and disables the forwarder), request threads end, auditd
  finishes the line it began. Faults are drawn from a budget, which
  stands for "the fault ends some day".
* Console: a call of `_analyze` is weakly fair (each of its calls has a timeout or
  ends by itself), the timer starts the rescan every day, and the orchestrator ends
  its jobs. Pushing, requesting and getting through the gate are not fair:
  `SnapshotsFollow` rests on the rescan alone.
* Watcher: the observer while its thread lives, timers, their threads and the update
  that holds the lock are weakly fair, and time passes. Editing and failing are not
  fair.
* The modules of `engine` claim no liveness: runs and reports are started by hand.
* In `console` and `services` the fairness of a part holds in the behaviours of this
  part only.

## Proofs

Every safety property that a passing run checks is also proved. The proofs hold for
all values of the constants that satisfy the named assumptions of the modules. Those
are about types, and say what the programs cannot do without: the functions to
embed are finitely many, the cache has a file to hold, and in `Duplicates` the
definitions of different entries differ and lying inside one another is transitive
(`duplicates.py:240-292`: spans, or prefixes of names). One theorem of
`IncrementalSync` and two of the watcher assume what a run with a violation shows to
be necessary, as said there; the others assume nothing of clients, faults or deaths.

`SurfaceOrchestratorProofs`: `TypeCorrect`, `ActiveJobsOwned`, `FailedIsClean`,
`WorkerSurvives`, `LostNeedDelete`, for any reports, commits, number of request threads,
with DELETEs, restarts and dying threads. The properties are not inductive alone: `IInv`
adds what each thread knows of its own request (`ThreadsKnow`), that nobody but the
worker calls a job failed while it works on it (`WorkerKnows`), that no thread of a
restarted process is on a lost job or about to accept one (`LostAreAbandoned`), and that
an active job which was not lost is in the queue, about to be put there, or the
worker's, be it dead (`ActiveJobsAreKnown`: a restart makes just these lost). The lemmas
about the queue (`AppendTask`, `TakeOldestTask`) and about one write of a job file are
cited by every action's step.

The same module proves `OrderlyShows`, `OrderlyGone` and `ImplementsDeployment`, for any
clients, restarts and deaths. `OrderlyReports` says of every report that is not
disturbed: its accepted job is on its way to the worker once (`OnItsWay`), the job file
says where the worker is and names its commit, which from `docker run` on is the
container's (`AtTheWorker`), whoever takes the container away does so of a job in
nobody's hands, the reaper of one whose time is over (`TakenAway`), and the job file is
true (`FileIsTrue`). A report accepted over a running job, after a mix-up or after a
restart comes back among the orderly ones with the acceptance (`OrderlyPost`), and
whoever makes it meet somebody takes it out; `UntouchedStaysOrderly` has the steps that
are about another report. `ImplementsDeployment` is the safety part of
`ServesAsPromised`: for an orderly report `PostWrite` maps to `Ask`, `WriteRunning` (and
a worker that dies after that write) to `Serve`, `WriteFailed` to `GiveUp`,
`ReaperRemovesContainer` to `Expire`, a DELETE to `Withdraw` (which is the client's
alone: `withdrawing`), `Tick` to `Tick`, and
every other step leaves what is seen from outside as it was; a report that is
disturbed, or becomes so, takes the step `Stray` (`StepAtJob`, `StepAstray`, `JobSeen`).
An active job that a DELETE withdraws is stuck, because in nobody's hands it is lost or
the worker dead (`NobodysJobIsStuck`).

`ConsoleReportsProofs`: `TypeCorrect`, `GateKept`, `SavedReadable`, `CommitNamed`,
`CompletedFresh` and the action property `NoStepBack`, for any repositories,
threads, commits and faults. The first two are inductive together (`TInv`). For
the others `IInv` adds what an undisturbed call has in its hands at each step
(`Holds`: the tree of the commit it names, a `.tmp` that nobody else writes, a
commit no older than the saved one and than the beginning of the rescan), that a
call which was disturbed has left its mark (`RacesAreNoted`), that nobody names a
commit that was not pushed yet (`NothingFromTheFuture`), and that a rescan process
which is not on does nothing (`RescanRests`). `OnlyOne` then says that an
undisturbed call is the only one on its repository, because the gate admits one
call of the server; so a step of another call cannot touch what it holds. Every
step is one of three kinds (`ThreeKinds`): aside from any repository, the beginning
of a call, or a step of a call (`ProceedStep`, where `ReportChanges` says which
step may replace a report that no race has touched).

`ServicesProofs`, the watcher: `TypeCorrect`; `EventsInTime`, which says that max_wait
is kept whatever timers were cancelled too late; `QuietIsCurrent`, that a graph at rest
is what the files hold; and `CallsFollowNodes`. `PendingInTime` is inductive over
`TypeOK`; the heart is `DelayFits` (the delay given to a timer fits into the rest
of the maximum wait) and that a tick ages an event by no more than it shortens its
timer. For the graph, `FollowInv` follows the newest event of a file on its way through
the observer's queue, the debounced slot and the wait for the lock: of all that an
update would act on, the last tells whether the file is there (`NewestTells`), and an
update under way has taken out or put in what it read (`UpdateStands`). That no
irrelevant event hides a relevant one (`NoEventHidden`) needs a platform without
inotify, or no debouncing, and `watcher_inotify` shows that it does; likewise
`CallsFollowNodes` needs an index that parsed every file (`Warm`, see `watcher_cold`).
It rests on `CallsInv`: a file whose version is in the graph or the buffer is one the
call pass goes over, and its cached tree, if there is one, is of this version
(`TreesFit`), so that the pass reads this version from the cache or the disk
(`PassReadsKnown`); nobody has seen a version still to come (`NothingAhead`); and the
edges wait in the buffer, no others with them, before the flush (`EdgesFit`).
`CallsAfterFailure` says what each failure leaves of that.

`EvidencePipelineProofs`: `TypesHold`, `AckedKept` and `CheckpointHonest`, for any
number of lines, size of a chunk and faults. An answered batch is kept because of
`KeptInv`: spool files have different names (so that the unlink takes the one that
was sent), a file that is not filled is empty, and the body the console answered has
been received. The checkpoint is honest because of `HonestInv`: while the log is the
first one, every line before the position read is with the relay, given up, or in
the batch in hand, and the chunk that was posted is the head of that batch. The
sequence lemmas at its beginning say what taking a chunk does to the set of elements.

`ServicesProofs`, the builders: `BuildTypes`, `OnlyWholeIsLaunched`, `BuiltOnce` (an action
property) and `OldBuilderIsAlone`, for any processes, tries and kills. `LockInv` says
that whoever is past the lock holds the flock of the file at the path, and that an
old builder owns its directory; `ToolInv` that a builder finds no whole tool, that
what is published was staged whole, and that the Java tool is never torn.

`McpSessionProofs`: `SessionTypes`, `SuccessComplete`, `VerdictConsistent`, for any
repository, batch size, number of requests and mishaps. `OnItsWay` says what the
thread of a run has put into the graph or the buffers at each step; `CacheIsHonest`
that a cache nobody marred stands for a complete graph. Both speak of a run that has
passed over no file; one that has (`SwallowKeeps`) marks the graph as `marred` when it
ends. The lemmas about the ingestor say that flushes and thresholds lose nothing whose
ends are there, and what a flush that failed has lost.

`IncrementalSyncProofs`: `SyncTypeCorrect`, `SyncStaysCurrent`, and the action property
`UnreadStaysKept`, for any files, uses, edits, runs, deaths and unreadable files. A run
that finds everything in sync is right because of `SyncInv`, which keeps accounts: what
the cache says of a file that did not change behind a run's back (`CacheIsHonest`), what
the graph has for what the cache says (`GraphIsHonest`), and, at each stage of a run,
what is read, captured, buffered and still to do (`ReadsAreAccounted`,
`ReindexIsAccounted`, `RestIsAccounted`). The accounts of a run that is not a full build
only hold over a graph that no run died in (`Trusted`). `SyncStaysCurrent` assumes that
a file which others use is there from the beginning, or never: nothing looks for the
calls that waited for a new file, as `sync_created` shows.

`DuplicatesProofs`: `DupTypeCorrect`, `CliquesStayMaximal`, `NoPairIsLost`, for any
entries, sizes, members, limits and any order of the search. The search is a recursion
with a stack (Bron and Kerbosch, with a pivot): by `SearchOK` every maximal clique is
found already or still to be found by exactly one call on the stack (`Pending`), which
gives at once that none is lost and none comes twice. `PivotLosesNothing` says why the
branches that a pivot saves are not needed, `ExpandSplits` how a branch divides the
cliques between itself and the rest, `LeafIsMaximal` why a leaf is one.
For the report, `ReportOK` says which pairs and groups there are at each phase;
`NoneLostToPrefixes` that two similar entries share a token of their prefixes,
whose lengths are counted so that they must, `LargestClique` that every edge lies in a
maximal clique, and `ReportedOrSwallowed` what the pruning of nested members leaves.

`EngineProofs`, part by part:

* `AstCache`: `CacheTypeCorrect`, `EveryLoadIsCurrent`. `CacheInv` says that an entry is
  of a version since the last handled event and its captures are of the same tree; the
  lemmas before it say of each operation which entries it keeps.
* `FunctionRegistry`: `RegistryTypes`, `NamesStayUnique`, `AnswersStayRight`,
  `IndicesStayRight`, together inductive as `RegistryInv`. What makes them so is
  `EntriesAreNamed` (the names are those that definitions were given) and `ClaimsAreHeld`
  (whoever has the name with the line alone holds the claim on it), since the next
  definition is named by what is claimed and not by what is there.
* `VectorIndex`: `SearchIsHonest`. `Covered` follows a function from the rows of a pass
  to the snippets that wait for their batch and to the points, or to the log, which
  names what a skipped pass, an unreadable file or a failed batch left out.
* `HomeFiles`: `HomeTypes` and `RecordsKept`. `OverlapsAreMet`: two commands that
  are under way know of each other, so that a command which met nobody has read what
  the file holds (`FileIsRecorded`), unless it read it blindly.
* `DeadCode`: `DeadTypes`, `LiveJustified` (what is live lies in every set closed
  under the rules, by an invariant of the same form over the intermediate sets) and
  `ReachedAlive` (at every stage what is live is closed but for what is still on the
  lists of that stage: `Alive`), for any program and any order of the walks.
* The composition: `EngineIsItsParts`, by which a behaviour of `MCEngine` is one of
  every part, and `EngineTypes`. So the theorems about the parts are theorems about
  what the run `engine` explores.

Only model-checked: every liveness property (the fairness in `ServesAsPromised`,
`LinesArrive`, `Converges`, `SnapshotsFollow`, `EverybodyEnds`,
`RequestsEnd`), since liveness under fairness is beyond the prover, and
the counterexamples. For the orchestrator, the console, the watcher and the evidence
pipeline the types are proved and not run.

## Not modelled

Parsers, frontends, analysers and the agent are conversions of data or conversations
with a model; they have no protocol, and no second definition of their results to
compare with. They are most of the code: what reaches a state that lasts (names,
captures, nodes, edges, points) is modelled from there on. The static analysis of
the console is a pure scan; the stack manager is a sequence of calls of docker
compose; trace ingestion is a batch conversion; codec, evals and benchmarks are
generated or measure the engine.

Of the components modelled in part: local mode and the read-only pages of the
console; the normalisation of single fields of an event; resources, delombok and the
frontends in `IncrementalSync`; constraints and the pool of connections of the
ingestor; MCP tools that read once; types and properties in the registry; the graph
diff, provenance and the exact groups of duplicates; the search of the index, whose
widening window is a query, the cache of embeddings and the Milvus backend. Docker,
git, auditd, watchdog, threading, compilers, the embedding model and the databases
are modelled from how the code uses them.

Failures that are left out: a job file of the orchestrator that is there and cannot be
read, for any thread but the worker at its first read; a file whose parse or calls fail
unnoticed in `IncrementalSync`, which takes a file it could read for parsed
(`McpSession` and `RealtimeWatcher` have those failures). HTTP authentication, message
texts and field normalisation are left out. In `RealtimeWatcher` and `IncrementalSync`
language frontends, flushes at the batch size that succeed and other projects in the
same graph are left out.

## Plan

1. `ConsoleReports` composed with the orchestrator's POST, in place of the abstract
   job it has now.
2. The frontends' reconciliation of what two analysers say of one file, beside
   `IncrementalSync`.
3. Proofs: `Inotify` with debouncing, for the files whose last event is not a closing;
   a refinement of `IncrementalSync` to an abstract index that is rebuilt in one step.
