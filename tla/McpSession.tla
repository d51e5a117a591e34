---------------------------- MODULE McpSession ----------------------------
(***************************************************************************)
(* The MCP server's tools over one graph (src/codebase_rag/mcp/tools.py):  *)
(* every tool that changes the graph, and those whose answer needs two     *)
(* reads, hold an asyncio lock while a worker thread does the work on the  *)
(* one ingestor they share.  An exception of the thread becomes an error   *)
(* answer; what was buffered by then stays buffered.  One of process_file  *)
(* or process_calls_in_file is swallowed there, and the run goes on.  A    *)
(* client may cancel a request: the lock is free again, but the thread     *)
(* goes on.                                                                *)
(*                                                                         *)
(* A run of the graph updater is abstracted to what it does to the graph:  *)
(* is the cached state of the last run good, and if not, every module is   *)
(* parsed, the cache is saved and the calls are resolved                   *)
(* (graph_updater.py run).  The repository does not change.                *)
(*                                                                         *)
(* Left out: other projects, embeddings, constraints, and the tools that   *)
(* read once.  A restart of the server loses the buffers when it is        *)
(* killed and flushes them when it is stopped.                             *)
(***************************************************************************)
EXTENDS GraphIngestor

CONSTANTS
  Clients,    \* requests under way at a time
  NoClient,   \* nobody holds the lock
  MaxMishaps  \* bound: exceptions, kills of the server and cancelled requests

ASSUME NoClientAssumption == NoClient \notin Clients
ASSUME SessionBounds == MaxMishaps \in Nat

VARIABLES
  store,    \* the graph and the ingestor's buffers
  cached,   \* whether the hash cache of the repository exists
  lock,     \* who holds _ingestor_lock
  thread,   \* each request: the tool, where its thread is, what is left to do, and the
            \* modules whose parse or calls failed unnoticed
  mishaps,  \* mishaps so far
  marred,   \* history: a run failed after it had saved the cache, passed over a file, or
            \* trusted the cache unasked, and none was complete since
  astray    \* history: a request was cancelled while its thread was at work

sessionVars == <<store, cached, lock, thread, mishaps, marred, astray>>

Tools == {"index", "update", "delete", "wipe", "verdict"}

Work == {"drop", "before", "check", "parse", "save", "calls", "after", "delete", "wipe",
         "edges", "gaps"}

Thread == [tool : Tools, pc : {"idle", "queued", "answer", "error"} \cup Work,
           todo : SUBSET Modules, skipped : SUBSET Modules, cancelled : BOOLEAN]

SessionTypeOK ==
  /\ store \in Store /\ cached \in BOOLEAN
  /\ lock \in Clients \cup {NoClient}
  /\ thread \in [Clients -> Thread]
  /\ mishaps \in 0..MaxMishaps
  /\ marred \in BOOLEAN /\ astray \in BOOLEAN

NoThread ==
  [tool |-> "verdict", pc |-> "idle", todo |-> {}, skipped |-> {}, cancelled |-> FALSE]

SessionInit ==
  /\ store = EmptyStore /\ cached = FALSE
  /\ lock = NoClient
  /\ thread = [c \in Clients |-> NoThread]
  /\ mishaps = 0
  /\ marred = FALSE /\ astray = FALSE

Does(c, pc) == thread[c].pc = pc
Moves(c, pc) == thread' = [thread EXCEPT ![c].pc = pc]

Mishap == mishaps < MaxMishaps /\ mishaps' = mishaps + 1

\* What a step of a thread leaves alone.
InThread == UNCHANGED <<lock, mishaps, astray>>

-----------------------------------------------------------------------------
(* The handlers *)

Ask(c, tool) ==
  /\ Does(c, "idle")
  /\ thread' = [thread EXCEPT ![c] = [NoThread EXCEPT !.tool = tool, !.pc = "queued"]]
  /\ UNCHANGED <<store, cached, lock, mishaps, marred, astray>>

\* async with _ingestor_lock, and the first step of the thread.
FirstStep == [index |-> "drop", update |-> "before", delete |-> "delete", wipe |-> "wipe",
              verdict |-> "edges"]

\* A lock that is never waited for.
LockedByNobody(c) ==
  /\ Does(c, "queued")
  /\ lock' = c
  /\ Moves(c, FirstStep[thread[c].tool])
  /\ UNCHANGED <<store, cached, mishaps, marred, astray>>

Locked(c) ==
  /\ Does(c, "queued") /\ lock = NoClient
  /\ lock' = c
  /\ Moves(c, FirstStep[thread[c].tool])
  /\ UNCHANGED <<store, cached, mishaps, marred, astray>>

\* An error that leaves the lock taken.
AnswerOnSuccess(c) ==
  /\ thread[c].pc \in {"answer", "error"}
  /\ lock' = IF lock = c /\ ~thread[c].cancelled /\ Does(c, "answer") THEN NoClient ELSE lock
  /\ thread' = [thread EXCEPT ![c] = NoThread]
  /\ UNCHANGED <<store, cached, mishaps, marred, astray>>

\* The answer, or the error the exception was turned into; a cancelled request gets neither.
Answer(c) ==
  /\ thread[c].pc \in {"answer", "error"}
  /\ lock' = IF lock = c /\ ~thread[c].cancelled THEN NoClient ELSE lock
  /\ thread' = [thread EXCEPT ![c] = NoThread]
  /\ UNCHANGED <<store, cached, mishaps, marred, astray>>

\* CancelledError leaves the handler while it waits for the lock or for the thread.
Cancel(c) ==
  /\ Mishap
  /\ thread[c].pc \in Work \cup {"queued"} /\ ~thread[c].cancelled
  /\ IF Does(c, "queued")
     THEN thread' = [thread EXCEPT ![c] = NoThread] /\ UNCHANGED <<lock, astray>>
     ELSE /\ thread' = [thread EXCEPT ![c].cancelled = TRUE]
          /\ lock' = NoClient
          /\ astray' = TRUE
  /\ UNCHANGED <<store, cached, marred>>

-----------------------------------------------------------------------------
(* _delete_project_sync, clean_database and flow_reachability_verdict *)

\* A project that list_projects does not name is an error.
RemoveProject(c) ==
  /\ Does(c, "delete")
  /\ store' = DeleteProject(store)
  /\ Moves(c, IF Project \in store.nodes THEN "answer" ELSE "error")
  /\ UNCHANGED <<cached, marred>> /\ InThread

Wipe(c) ==
  /\ Does(c, "wipe")
  /\ store' = CleanDatabase(store)
  /\ Moves(c, "answer")
  /\ UNCHANGED <<cached, marred>> /\ InThread

\* The scan of the edges finds a path, or the coverage is read too.
ReadEdges(c) ==
  /\ Does(c, "edges")
  /\ \E next \in {"answer", "gaps"} : Moves(c, next)
  /\ UNCHANGED <<store, cached, marred>> /\ InThread

ReadGaps(c) ==
  /\ Does(c, "gaps")
  /\ Moves(c, "answer")
  /\ UNCHANGED <<store, cached, marred>> /\ InThread

-----------------------------------------------------------------------------
(* _index_repository_sync and _update_repository_sync *)

Drop(c) ==
  /\ Does(c, "drop")
  /\ store' = DeleteProject(store)
  /\ Moves(c, "before")
  /\ UNCHANGED <<cached, marred>> /\ InThread

FlushBefore(c) ==
  /\ Does(c, "before")
  /\ store' = FlushAll(store)
  /\ Moves(c, "check")
  /\ UNCHANGED <<cached, marred>> /\ InThread

\* Whether or not the graph was lost.
CacheAnyway == cached

\* _drop_cache_if_graph_lost: a cache is of no use when no module is in the graph.
CacheKept == cached /\ store.nodes \cap Modules # {}

\* The start of a run: the Project node, and whether the graph is in sync.
Check(c) ==
  /\ Does(c, "check")
  /\ store' = EnsureNodeBatch(store, Project)
  /\ cached' = CacheKept
  /\ thread' = [thread EXCEPT ![c].pc = IF CacheKept THEN "after" ELSE "parse",
                              ![c].todo = Modules]
  /\ UNCHANGED marred /\ InThread

\* A file that is in the graph is deleted there and ingested anew.
Parsed(s, m) == EnsureRelationshipBatch(EnsureNodeBatch(Removed(s, {m} \cap s.nodes), m),
                                        <<"contains", m>>)

ParseModule(c, m) ==
  /\ Does(c, "parse") /\ m \in thread[c].todo
  /\ store' = Parsed(store, m)
  /\ thread' = [thread EXCEPT ![c].todo = @ \ {m}]
  /\ UNCHANGED <<cached, marred>> /\ InThread

\* The hashes of all files are saved, the calls are those of the files that were parsed.
SaveHashes(c) ==
  /\ Does(c, "parse") /\ thread[c].todo = {}
  /\ cached' = TRUE
  /\ LET registered == Modules \ thread[c].skipped IN
       thread' = [thread EXCEPT ![c].pc = IF registered = {} THEN "after" ELSE "calls",
                                ![c].todo = registered]
  /\ UNCHANGED <<store, marred>> /\ InThread

Resolve(c, m) ==
  /\ Does(c, "calls") /\ m \in thread[c].todo
  /\ store' = EnsureRelationshipBatch(store, <<"calls", m>>)
  /\ thread' = [thread EXCEPT ![c].todo = @ \ {m},
                              ![c].pc = IF thread[c].todo = {m} THEN "after" ELSE "calls"]
  /\ UNCHANGED <<cached, marred>> /\ InThread

\* Whether the run has saved the cache and not yet written everything.
HalfDone(c) == Does(c, "calls") \/ (Does(c, "after") /\ thread[c].todo = {})

\* The relationships are left in their buffer.
FlushNodesAfter(c) ==
  /\ Does(c, "after")
  /\ store' = FlushNodes(store)
  /\ marred' = IF HalfDone(c) THEN thread[c].skipped # {} ELSE marred
  /\ Moves(c, "answer")
  /\ UNCHANGED cached /\ InThread

\* The last flush; then the tool answers that it succeeded.
FlushAfter(c) ==
  /\ Does(c, "after")
  /\ store' = FlushAll(store)
  /\ marred' = IF HalfDone(c) THEN thread[c].skipped # {} ELSE marred
  /\ Moves(c, "answer")
  /\ UNCHANGED cached /\ InThread

-----------------------------------------------------------------------------
(* Failures *)

\* What a file's deletion and process_file leave of the store when process_file fails: no row
\* was buffered, or a flush that the batch size triggered failed.
ParseLeaves(s, m) ==
  LET t == Removed(s, {m} \cap s.nodes)
      u == EnsureNodeBatch(t, m) IN
  {t, u} \cup EnsureNodeFailed(t, m) \cup EnsureRelationshipFailed(u, <<"contains", m>>)

CallsLeave(s, m) == {s} \cup EnsureRelationshipFailed(s, <<"calls", m>>)

\* process_file swallows the exception: the file counts as parsed, and its calls are not made.
ParseSwallowed(c, m) ==
  /\ Mishap
  /\ Does(c, "parse") /\ m \in thread[c].todo
  /\ store' \in ParseLeaves(store, m)
  /\ thread' = [thread EXCEPT ![c].todo = @ \ {m}, ![c].skipped = @ \cup {m}]
  /\ UNCHANGED <<cached, lock, marred, astray>>

\* So does process_calls_in_file.
CallsSwallowed(c, m) ==
  /\ Mishap
  /\ Does(c, "calls") /\ m \in thread[c].todo
  /\ store' \in CallsLeave(store, m)
  /\ thread' = [thread EXCEPT ![c].todo = @ \ {m}, ![c].skipped = @ \cup {m},
                              ![c].pc = IF thread[c].todo = {m} THEN "after" ELSE "calls"]
  /\ UNCHANGED <<cached, lock, marred, astray>>

\* What a step may leave of the store when it raises: nothing happened yet, or its deletion, or
\* a flush failed, for a file that of its File node or the periodic one.
ParseFailed(s, m) == {s} \cup ParseLeaves(s, m) \cup FlushFailed(Parsed(s, m))

Failed(c) ==
  CASE thread[c].pc \in {"delete", "drop"} -> {store, DeleteProject(store)}
    [] thread[c].pc \in {"before", "after"} -> FlushFailed(store)
    [] Does(c, "check") -> {store} \cup EnsureNodeFailed(store, Project)
    [] Does(c, "parse") -> {store} \cup UNION {ParseFailed(store, m) : m \in thread[c].todo}
    [] Does(c, "calls") -> UNION {CallsLeave(store, m) : m \in thread[c].todo}
    [] OTHER -> {store}

Fails(c) ==
  /\ Mishap
  /\ thread[c].pc \in Work
  /\ store' \in Failed(c)
  /\ marred' = (marred \/ HalfDone(c))
  /\ Moves(c, "error")
  /\ UNCHANGED <<cached, lock, astray>>

\* The modules cannot be counted: the cache is trusted (fail open).
CountFails(c) ==
  /\ Mishap
  /\ Does(c, "check") /\ cached
  /\ store' = EnsureNodeBatch(store, Project)
  /\ thread' = [thread EXCEPT ![c].pc = "after", ![c].todo = Modules]
  /\ marred' = (marred \/ ~CacheKept)
  /\ UNCHANGED <<cached, lock, astray>>

NoBuffers(s) == [s EXCEPT !.nodeBuffer = {}, !.relGroups = {}]

\* The server is killed; the graph and the cache stay, and another server comes up.
Killed ==
  /\ Mishap
  /\ store' = NoBuffers(store)
  /\ lock' = NoClient
  /\ thread' = [c \in Clients |-> NoThread]
  /\ marred' = (marred \/ \E c \in Clients : HalfDone(c))
  /\ UNCHANGED <<cached, astray>>

\* __exit__ when the server is stopped: a last flush, whose failure is only logged.
Stopped ==
  /\ \A c \in Clients : Does(c, "idle")
  /\ \/ store' = FlushAll(store) /\ UNCHANGED mishaps
     \/ /\ Mishap
        /\ \E s \in FlushFailed(store) : store' = NoBuffers(s)
  /\ UNCHANGED <<cached, lock, thread, marred, astray>>

-----------------------------------------------------------------------------
Works(c) == \/ RemoveProject(c) \/ Wipe(c) \/ ReadEdges(c) \/ ReadGaps(c)
            \/ Drop(c) \/ FlushBefore(c) \/ Check(c)
            \/ \E m \in Modules : ParseModule(c, m) \/ Resolve(c, m)
            \/ SaveHashes(c) \/ FlushAfter(c)

SessionNext ==
  \/ \E c \in Clients : \/ \E tool \in Tools : Ask(c, tool)
                       \/ Locked(c) \/ Works(c) \/ Answer(c) \/ Cancel(c) \/ Fails(c)
                       \/ CountFails(c)
                       \/ \E m \in Modules : ParseSwallowed(c, m) \/ CallsSwallowed(c, m)
  \/ Killed \/ Stopped

\* A thread goes on by itself.  An asyncio lock is given to those who wait for it in their order,
\* so that nobody is passed over for ever.
SessionFairness ==
  \A c \in Clients : WF_sessionVars(Works(c) \/ Answer(c)) /\ SF_sessionVars(Locked(c))

SessionSpec == SessionInit /\ [][SessionNext]_sessionVars /\ SessionFairness

-----------------------------------------------------------------------------
(* Properties *)

\* When index_repository or update_repository answers that it succeeded, the whole repository is
\* in the graph - whatever was asked and went wrong before, unless a run had failed with the cache
\* saved, passed over a file whose parse or calls failed, or trusted the cache unasked, with no
\* complete run since, or a thread was left alone by a cancellation (mcp/tools.py,
\* graph_service.py flush_all).
SuccessIsComplete ==
  \A c \in Clients :
    Does(c, "answer") /\ thread[c].tool \in {"index", "update"} /\ ~marred /\ ~astray
      => Complete(store)

\* Between the two reads of a verdict nothing changes in the graph, unless a thread was left alone
\* by a cancellation (mcp/tools.py flow_verdict).
VerdictSeesOneGraph ==
  [][~astray /\ (\E c \in Clients : Does(c, "gaps"))
       => store'.nodes = store.nodes /\ store'.rels = store.rels]_sessionVars

\* Every request comes to an end: no failure and no cancellation keeps the lock.
RequestsEnd == \A c \in Clients : Does(c, "queued") ~> Does(c, "idle")

=============================================================================
