----------------------------- MODULE VectorIndex -----------------------------
(* The index of vectors that semantic search asks: graph_updater.py embeds   *)
(* the functions of the graph in batches at the end of a run, vector_store   *)
(* keeps a point for each, keyed by the id the database gave the function's  *)
(* node.  The database is wiped or a project deleted by other commands,      *)
(* which must take the points away too: a wiped database gives its ids anew. *)
(*                                                                           *)
(* A file holds one function and is a number, its version.  A vector is the  *)
(* version of the text it was made from.  A run's work on the graph is one   *)
(* step here (IncrementalSync has the rest), as is the retrying of an upsert,*)
(* which writes the same points again.  The commands of one server follow    *)
(* one another, and the local index admits a single process.  A run may be   *)
(* told to leave the embeddings out (--no-embeddings), or what makes them is *)
(* not installed.                                                            *)
EXTENDS Naturals, FiniteSets

CONSTANTS
  Embedded,          \* functions
  BatchSize,      \* QDRANT_BATCH_SIZE
  MaxVersions,    \* bound: versions of files
  MaxResets,      \* bound: wipes and deletions of the project
  MaxIndexFaults  \* bound: failing batches, passes and clearings, and deaths

ASSUME IndexAssumption ==
  /\ IsFiniteSet(Embedded) /\ BatchSize \in Nat \ {0}
  /\ MaxVersions \in Nat /\ MaxResets \in Nat /\ MaxIndexFaults \in Nat

TextVersions == 0..MaxVersions  \* 0: there is no such file
Nowhere == [n \in Embedded |-> 0]

VARIABLES
  body,        \* the version of each function on disk
  hashed,      \* the version the hash cache knows
  nodes,       \* the functions of the graph
  nextNode,    \* the id of the next node
  points,      \* the index
  pass,        \* what the process does, and the rows and snippets it has left to embed
  unembedded,  \* history: ids of nodes whose embedding failed or was left out, as the log says
  warned,      \* history: a clearing failed since the last that did not
  lastVersion, resets, indexFaults

indexVars == <<body, hashed, nodes, nextNode, points, pass, unembedded, warned, lastVersion, resets,
               indexFaults>>

IndexInit ==
  /\ body = Nowhere /\ hashed = Nowhere /\ nodes = {} /\ nextNode = 0 /\ points = {}
  /\ pass = [pc |-> "idle", first |-> 0, rows |-> {}, pending |-> {}]
  /\ unembedded = {} /\ warned = FALSE
  /\ lastVersion = 0 /\ resets = 0 /\ indexFaults = 0

IndexEntry == [id : Nat, name : Embedded, version : TextVersions]
IndexTypeOK ==
  /\ body \in [Embedded -> TextVersions] /\ hashed \in [Embedded -> TextVersions]
  /\ nodes \subseteq IndexEntry /\ points \subseteq IndexEntry /\ nextNode \in Nat
  /\ pass.pc \in {"idle", "parsed", "embedding", "wiped", "deleting"} /\ pass.first \in Nat
  /\ pass.rows \subseteq IndexEntry /\ pass.pending \subseteq IndexEntry
  /\ unembedded \subseteq Nat /\ warned \in BOOLEAN
  /\ lastVersion \in TextVersions /\ resets \in 0..MaxResets /\ indexFaults \in 0..MaxIndexFaults

IdsOf(entries) == {e.id : e \in entries}
PassOver == [pass EXCEPT !.pc = "idle", !.rows = {}, !.pending = {}]
IndexFault == indexFaults < MaxIndexFaults /\ indexFaults' = indexFaults + 1

\* Nodes without a vector of their text.
Bare(entries) == {e \in entries : e \notin points}

-----------------------------------------------------------------------------
SaveText(n) ==
  /\ lastVersion < MaxVersions
  /\ lastVersion' = lastVersion + 1
  /\ body' = [body EXCEPT ![n] = lastVersion + 1]
  /\ UNCHANGED <<hashed, nodes, nextNode, points, pass, unembedded, warned, resets, indexFaults>>

RemoveText(n) ==
  /\ body[n] # 0
  /\ body' = [body EXCEPT ![n] = 0]
  /\ UNCHANGED <<hashed, nodes, nextNode, points, pass, unembedded, warned, lastVersion, resets,
                 indexFaults>>

-----------------------------------------------------------------------------
(* A run *)

\* The cache is not believed when the graph no longer holds the project.
Believed == IF nodes = {} THEN Nowhere ELSE hashed
ChangedTexts == {n \in Embedded : body[n] # Believed[n]}

\* Up to the embedding: changed files lose their nodes and get new ones.  A run that finds
\* nothing changed ends before it, whatever the index holds.
ParseChanged ==
  /\ pass.pc = "idle" /\ ChangedTexts # {}
  /\ LET there == {n \in ChangedTexts : body[n] # 0} IN
       /\ \E id \in [there -> nextNode..(nextNode + Cardinality(there) - 1)] :
            /\ \A n, k \in there : id[n] = id[k] => n = k
            /\ nodes' = {e \in nodes : e.name \notin ChangedTexts}
                          \cup {[id |-> id[n], name |-> n, version |-> body[n]] : n \in there}
       /\ nextNode' = nextNode + Cardinality(there)
  /\ hashed' = body
  /\ pass' = [pass EXCEPT !.pc = "parsed", !.first = nextNode]
  /\ UNCHANGED <<body, points, unembedded, warned, lastVersion, resets, indexFaults>>

\* _generate_semantic_embeddings returns at once, and says so in the log.  The cache is saved
\* already: only a run that finds a change will embed what this one left out.
SkipPass ==
  /\ pass.pc = "parsed"
  /\ unembedded' = unembedded \cup IdsOf(Bare(nodes))
  /\ pass' = PassOver
  /\ UNCHANGED <<body, hashed, nodes, nextNode, points, warned, lastVersion, resets, indexFaults>>

\* CYPHER_QUERY_EMBEDDINGS: all functions of the project, not only those just parsed.
AskForRows ==
  /\ pass.pc = "parsed"
  /\ pass' = [pass EXCEPT !.pc = "embedding", !.rows = nodes]
  /\ UNCHANGED <<body, hashed, nodes, nextNode, points, unembedded, warned, lastVersion, resets,
                 indexFaults>>

\* A file of this run may still have its tree; of any other the lines are read now.
Texts(e) == ({body[e.name]} \cup (IF e.id >= pass.first THEN {e.version} ELSE {})) \ {0}

\* The next row; one whose file is gone, or has too few lines by now, is passed over.
TakeRow(e) ==
  /\ pass.pc = "embedding" /\ Cardinality(pass.pending) < BatchSize
  /\ e \in pass.rows
  /\ \/ /\ \E v \in Texts(e) :
             pass' = [pass EXCEPT !.rows = @ \ {e}, !.pending = @ \cup {[e EXCEPT !.version = v]}]
     \/ /\ body[e.name] # e.version
        /\ pass' = [pass EXCEPT !.rows = @ \ {e}]
  /\ UNCHANGED <<body, hashed, nodes, nextNode, points, unembedded, warned, lastVersion, resets,
                 indexFaults>>

\* extract_source_lines: the file cannot be read or decoded, which is logged.
TakeUnreadable(e) ==
  /\ IndexFault
  /\ pass.pc = "embedding" /\ Cardinality(pass.pending) < BatchSize
  /\ e \in pass.rows
  /\ unembedded' = unembedded \cup IdsOf(Bare({e}))
  /\ pass' = [pass EXCEPT !.rows = @ \ {e}]
  /\ UNCHANGED <<body, hashed, nodes, nextNode, points, warned, lastVersion, resets>>

Due == /\ pass.pc = "embedding" /\ pass.pending # {}
       /\ Cardinality(pass.pending) = BatchSize \/ pass.rows = {}

\* flush: embedded and upserted.
StoreBatch ==
  /\ Due
  /\ points' = {p \in points : p.id \notin IdsOf(pass.pending)} \cup pass.pending
  /\ unembedded' = unembedded \ IdsOf(pass.pending)
  /\ pass' = [pass EXCEPT !.pending = {}]
  /\ UNCHANGED <<body, hashed, nodes, nextNode, warned, lastVersion, resets, indexFaults>>

\* flush: no vectors, or every try of the upsert failed.  The batch is dropped with a warning,
\* and the pass goes on.
StoreBatchFails ==
  /\ IndexFault
  /\ Due
  /\ unembedded' = unembedded \cup (IdsOf(Bare(nodes)) \cap IdsOf(pass.pending))
  /\ pass' = [pass EXCEPT !.pending = {}]
  /\ UNCHANGED <<body, hashed, nodes, nextNode, points, warned, lastVersion, resets>>

\* The pass without the flush after its last row.
EndPassUnflushed ==
  /\ pass.pc = "embedding" /\ pass.rows = {}
  /\ pass' = PassOver
  /\ UNCHANGED <<body, hashed, nodes, nextNode, points, unembedded, warned, lastVersion, resets,
                 indexFaults>>

EndPass ==
  /\ pass.pc = "embedding" /\ pass.rows = {} /\ pass.pending = {}
  /\ pass' = PassOver
  /\ UNCHANGED <<body, hashed, nodes, nextNode, points, unembedded, warned, lastVersion, resets,
                 indexFaults>>

\* The pass ends in an exception, which is logged, or the process is killed: the cache is
\* saved already, so the next run has nothing to do.
Abandon ==
  /\ IndexFault
  /\ pass.pc \in {"parsed", "embedding"}
  /\ unembedded' = unembedded \cup IdsOf(Bare(nodes))
  /\ pass' = PassOver
  /\ UNCHANGED <<body, hashed, nodes, nextNode, points, warned, lastVersion, resets>>

-----------------------------------------------------------------------------
(* Wiping the database and deleting the project *)

BeginReset(pc) ==
  /\ pass.pc = "idle" /\ resets < MaxResets
  /\ resets' = resets + 1
  /\ pass' = [pass EXCEPT !.pc = pc]

\* clean_database.
CleanGraph ==
  /\ BeginReset("wiped")
  /\ nodes' = {} /\ nextNode' = 0 /\ unembedded' = {}
  /\ UNCHANGED <<body, hashed, points, warned, lastVersion, indexFaults>>

\* clear_all_embeddings.
ClearPoints ==
  /\ pass.pc = "wiped"
  /\ points' = {} /\ warned' = FALSE
  /\ pass' = PassOver
  /\ UNCHANGED <<body, hashed, nodes, nextNode, unembedded, lastVersion, resets, indexFaults>>

\* It fails or is killed, and the command does not report success.
ClearingFails ==
  /\ IndexFault
  /\ pass.pc = "wiped"
  /\ warned' = TRUE
  /\ pass' = PassOver
  /\ UNCHANGED <<body, hashed, nodes, nextNode, points, unembedded, lastVersion, resets>>

\* _cleanup_project_embeddings: the points of the nodes go, unless the index fails, which is
\* only logged.
DeletePoints ==
  /\ BeginReset("deleting")
  /\ \/ points' = {p \in points : p.id \notin IdsOf(nodes)} /\ UNCHANGED indexFaults
     \/ IndexFault /\ UNCHANGED points
  /\ UNCHANGED <<body, hashed, nodes, nextNode, unembedded, warned, lastVersion>>

\* delete_project.
DeleteNodes ==
  /\ pass.pc = "deleting"
  /\ nodes' = {} /\ unembedded' = {}
  /\ pass' = PassOver
  /\ UNCHANGED <<body, hashed, nextNode, points, warned, lastVersion, resets, indexFaults>>

\* The database fails or the process is killed: the nodes stay without their points.
DeleteFails ==
  /\ IndexFault
  /\ pass.pc = "deleting"
  /\ unembedded' = unembedded \cup IdsOf(Bare(nodes))
  /\ pass' = PassOver
  /\ UNCHANGED <<body, hashed, nodes, nextNode, points, warned, lastVersion, resets>>

-----------------------------------------------------------------------------
IndexNext ==
  \/ \E n \in Embedded : SaveText(n) \/ RemoveText(n)
  \/ ParseChanged \/ SkipPass \/ AskForRows \/ StoreBatch \/ StoreBatchFails \/ EndPass \/ Abandon
  \/ \E e \in pass.rows : TakeRow(e) \/ TakeUnreadable(e)
  \/ CleanGraph \/ ClearPoints \/ ClearingFails \/ DeletePoints \/ DeleteNodes \/ DeleteFails

IndexSpec == IndexInit /\ [][IndexNext]_indexVars

-----------------------------------------------------------------------------
(* Properties *)

\* No hit of a search is another function than the one its vector was made of: a point whose
\* id is a node of the graph is a point of this node.
HitsAreOwn == \A p \in points, e \in nodes : p.id = e.id => p.name = e.name

\* Between two runs every function whose file the graph knows as it is has a vector of its
\* text.
EveryTextIsEmbedded ==
  pass.pc = "idle" =>
    \A e \in nodes : body[e.name] = e.version => e \in points \/ e.id \in unembedded

\* What semantic search finds is what the graph says, and all of it, unless the command or the
\* log said otherwise: a clearing after which ids are given anew, or a pass, a batch or a file
\* that failed or was left out, and was not embedded since (graph_updater.py:2743-2873,
\* vector_store.py:344-358, cli.py:313-320).
IndexIsHonest == (warned \/ HitsAreOwn) /\ EveryTextIsEmbedded
=============================================================================
