--------------------------- MODULE GraphIngestor ---------------------------
(***************************************************************************)
(* The graph and the buffers in front of it: MemgraphIngestor              *)
(* (src/codebase_rag/services/graph_service.py).  Nodes and relationships  *)
(* are buffered and written in batches.  A relationship is made only       *)
(* between nodes that are in the graph; one that is not is dropped without *)
(* an error.  A flush writes one group after the other (or at once, on     *)
(* connections of their own), goes on after a group that failed, empties   *)
(* the buffer and raises in the end.                                       *)
(*                                                                         *)
(* A store is a value: the graph's nodes and relationships and the two     *)
(* buffers.  A module stands for a file with everything that is defined in *)
(* it, its only relationships are that the project contains it and that    *)
(* its functions call one another.  Rows without a key are left out.       *)
(***************************************************************************)
EXTENDS Naturals, FiniteSets

CONSTANTS
  Modules,   \* modules of the repository
  Project,   \* its Project node
  BatchSize  \* rows in a buffer that make it flush

ASSUME ModulesAssumption == Modules # {}
ASSUME ProjectAssumption == Project \notin Modules
ASSUME BatchAssumption == BatchSize \in Nat \ {0}

Nodes == Modules \cup {Project}
Relationships == {"contains", "calls"} \X Modules

Store == [nodes : SUBSET Nodes, rels : SUBSET Relationships,
          nodeBuffer : SUBSET Nodes, relGroups : SUBSET Relationships]

EmptyStore == [nodes |-> {}, rels |-> {}, nodeBuffer |-> {}, relGroups |-> {}]

\* Both ends are in the graph.
Matches(e, nodes) == e[2] \in nodes /\ (e[1] = "contains" => Project \in nodes)

\* flush_nodes and flush_relationships when nothing fails.
FlushNodes(s) == [s EXCEPT !.nodes = @ \cup s.nodeBuffer, !.nodeBuffer = {}]

FlushRelationships(s) ==
  [s EXCEPT !.rels = @ \cup {e \in s.relGroups : Matches(e, s.nodes)}, !.relGroups = {}]

FlushAll(s) == FlushRelationships(FlushNodes(s))

\* The stores that a flush may leave which raised: some groups of nodes are missing (and the
\* relationships still buffered), or some groups of relationships are.
NodesFailed(s) ==
  {[s EXCEPT !.nodes = @ \cup written, !.nodeBuffer = {}] : written \in SUBSET s.nodeBuffer}

RelationshipsFailed(s) ==
  {[s EXCEPT !.rels = @ \cup {e \in written : Matches(e, s.nodes)}, !.relGroups = {}] :
     written \in SUBSET s.relGroups}

FlushFailed(s) == NodesFailed(s) \cup RelationshipsFailed(FlushNodes(s))

NodesFull(s) == Cardinality(s.nodeBuffer) >= BatchSize
RelsFull(s)  == Cardinality(s.relGroups) >= BatchSize

\* The buffers' thresholds; that of the relationships flushes the nodes first.
WithNode(s, n) == [s EXCEPT !.nodeBuffer = @ \cup {n}]
WithRel(s, e)  == [s EXCEPT !.relGroups = @ \cup {e}]

EnsureNodeBatch(s, n) ==
  LET t == WithNode(s, n) IN IF NodesFull(t) THEN FlushNodes(t) ELSE t

EnsureRelationshipBatch(s, e) ==
  LET t == WithRel(s, e) IN IF RelsFull(t) THEN FlushAll(t) ELSE t

\* The stores that an append may leave whose flush raised; none when it does not flush.
EnsureNodeFailed(s, n) ==
  LET t == WithNode(s, n) IN IF NodesFull(t) THEN NodesFailed(t) ELSE {}

EnsureRelationshipFailed(s, e) ==
  LET t == WithRel(s, e) IN IF RelsFull(t) THEN FlushFailed(t) ELSE {}

\* Deletions go to the graph at once, past the buffers.
Removed(s, gone) ==
  [s EXCEPT !.nodes = @ \ gone,
            !.rels = {e \in @ : e[2] \notin gone /\ (e[1] = "contains" => Project \notin gone)}]

\* delete_project follows the containment from the Project node: what hangs on nothing stays.
Contained(s) == {m \in Modules : <<"contains", m>> \in s.rels}

DeleteProject(s) ==
  IF Project \in s.nodes THEN Removed(s, {Project} \cup Contained(s)) ELSE s

CleanDatabase(s) == [s EXCEPT !.nodes = {}, !.rels = {}]

\* The whole repository is in the graph.
Complete(s) == s.nodes = Nodes /\ s.rels = Relationships

=============================================================================
