-------------------------- MODULE McpSessionProofs --------------------------
(***************************************************************************)
(* Theorems about McpSession for every repository and batch size, any      *)
(* number of requests under way and of mishaps.                            *)
(***************************************************************************)
EXTENDS McpSession, TLAPS

\* What is in the graph or on the way to it.
NodesOf(s) == s.nodes \cup s.nodeBuffer
RelsOf(s)  == s.rels \cup s.relGroups

-----------------------------------------------------------------------------
(* The ingestor *)

LEMMA StoreIs ==
  ASSUME NEW s \in Store
  PROVE  /\ s.nodes \subseteq Nodes /\ s.nodeBuffer \subseteq Nodes
         /\ s.rels \subseteq Relationships /\ s.relGroups \subseteq Relationships
         /\ s = [nodes |-> s.nodes, rels |-> s.rels, nodeBuffer |-> s.nodeBuffer,
                 relGroups |-> s.relGroups]
  BY DEF Store

LEMMA FlushNodesIs ==
  ASSUME NEW s \in Store
  PROVE  /\ FlushNodes(s) \in Store
         /\ FlushNodes(s).nodes = NodesOf(s) /\ FlushNodes(s).nodeBuffer = {}
         /\ FlushNodes(s).rels = s.rels /\ FlushNodes(s).relGroups = s.relGroups
  BY DEF Store, FlushNodes, NodesOf

\* A flush writes every node, and every relationship that has both ends.
LEMMA FlushAllIs ==
  ASSUME NEW s \in Store
  PROVE  /\ FlushAll(s) \in Store
         /\ FlushAll(s).nodes = NodesOf(s)
         /\ FlushAll(s).rels = s.rels \cup {e \in s.relGroups : Matches(e, NodesOf(s))}
         /\ FlushAll(s).nodeBuffer = {} /\ FlushAll(s).relGroups = {}
  <1> DEFINE t == FlushNodes(s)
  <1>1. /\ t \in Store /\ t.nodes = NodesOf(s) /\ t.nodeBuffer = {}
        /\ t.rels = s.rels /\ t.relGroups = s.relGroups
    BY FlushNodesIs
  <1> HIDE DEF t
  <1> DEFINE written == {e \in t.relGroups : Matches(e, t.nodes)}
  <1>2. written = {e \in s.relGroups : Matches(e, NodesOf(s))} /\ written \subseteq Relationships
    BY <1>1, StoreIs
  <1> HIDE DEF written
  <1>3. FlushAll(s) = [t EXCEPT !.rels = t.rels \cup written, !.relGroups = {}]
    BY DEF FlushAll, FlushRelationships, t, written
  <1>4. /\ FlushAll(s) \in Store
        /\ FlushAll(s).nodes = t.nodes /\ FlushAll(s).nodeBuffer = t.nodeBuffer
        /\ FlushAll(s).rels = t.rels \cup written /\ FlushAll(s).relGroups = {}
    BY <1>1, <1>2, <1>3 DEF Store
  <1> QED
    BY <1>1, <1>2, <1>4

LEMMA EnsureNodeIs ==
  ASSUME NEW s \in Store, NEW n \in Nodes
  PROVE  /\ EnsureNodeBatch(s, n) \in Store
         /\ NodesOf(EnsureNodeBatch(s, n)) = NodesOf(s) \cup {n}
         /\ s.nodes \subseteq EnsureNodeBatch(s, n).nodes
         /\ EnsureNodeBatch(s, n).nodes \subseteq NodesOf(s) \cup {n}
         /\ EnsureNodeBatch(s, n).nodeBuffer \subseteq s.nodeBuffer \cup {n}
         /\ EnsureNodeBatch(s, n).rels = s.rels /\ EnsureNodeBatch(s, n).relGroups = s.relGroups
  <1> DEFINE t == WithNode(s, n)
  <1>1. /\ t \in Store /\ t.nodes = s.nodes /\ t.nodeBuffer = s.nodeBuffer \cup {n}
        /\ t.rels = s.rels /\ t.relGroups = s.relGroups
    BY DEF WithNode, Store
  <1>2. EnsureNodeBatch(s, n) = IF NodesFull(t) THEN FlushNodes(t) ELSE t
    BY DEF EnsureNodeBatch
  <1> HIDE DEF t
  <1> QED
    BY <1>1, <1>2, FlushNodesIs DEF NodesOf

LEMMA EnsureRelIs ==
  ASSUME NEW s \in Store, NEW e \in Relationships
  PROVE  /\ EnsureRelationshipBatch(s, e) \in Store
         /\ NodesOf(EnsureRelationshipBatch(s, e)) = NodesOf(s)
         /\ \A x \in RelsOf(s) \cup {e} :
              x \in s.rels \/ Matches(x, NodesOf(s)) => x \in RelsOf(EnsureRelationshipBatch(s, e))
  <1> DEFINE t == WithRel(s, e)
  <1>1. /\ t \in Store /\ t.nodes = s.nodes /\ t.nodeBuffer = s.nodeBuffer
        /\ t.rels = s.rels /\ t.relGroups = s.relGroups \cup {e}
    BY DEF WithRel, Store
  <1>2. EnsureRelationshipBatch(s, e) = IF RelsFull(t) THEN FlushAll(t) ELSE t
    BY DEF EnsureRelationshipBatch
  <1> HIDE DEF t
  <1>3. NodesOf(t) = NodesOf(s)
    BY <1>1 DEF NodesOf
  <1>4. CASE RelsFull(t)
    <2> DEFINE u == FlushAll(t)
    <2>1. /\ u \in Store /\ u.nodes = NodesOf(t) /\ u.nodeBuffer = {} /\ u.relGroups = {}
          /\ u.rels = t.rels \cup {x \in t.relGroups : Matches(x, NodesOf(t))}
      BY <1>1, FlushAllIs
    <2>2. EnsureRelationshipBatch(s, e) = u
      BY <1>2, <1>4
    <2> HIDE DEF u
    <2>3. NodesOf(u) = NodesOf(s)
      BY <1>3, <2>1 DEF NodesOf
    <2>4. u.rels = s.rels \cup {x \in s.relGroups \cup {e} : Matches(x, NodesOf(s))}
      BY <1>1, <1>3, <2>1
    <2>5. \A x \in RelsOf(s) \cup {e} : x \in s.rels \/ Matches(x, NodesOf(s)) => x \in u.rels
      BY <2>4 DEF RelsOf
    <2> QED
      BY <2>1, <2>2, <2>3, <2>5 DEF RelsOf
  <1>5. CASE ~RelsFull(t)
    BY <1>1, <1>2, <1>3, <1>5 DEF RelsOf
  <1> QED
    BY <1>4, <1>5

LEMMA RemovedIs ==
  ASSUME NEW s \in Store, NEW gone \in SUBSET Nodes
  PROVE  /\ Removed(s, gone) \in Store
         /\ Removed(s, gone).nodes = s.nodes \ gone
         /\ Removed(s, gone).rels = {e \in s.rels : e[2] \notin gone
                                        /\ (e[1] = "contains" => Project \notin gone)}
         /\ Removed(s, gone).nodeBuffer = s.nodeBuffer
         /\ Removed(s, gone).relGroups = s.relGroups
  <1> DEFINE stay == {e \in s.rels : e[2] \notin gone
                                        /\ (e[1] = "contains" => Project \notin gone)}
  <1>1. stay \subseteq Relationships
    BY StoreIs
  <1>2. Removed(s, gone) = [s EXCEPT !.nodes = s.nodes \ gone, !.rels = stay]
    BY DEF Removed
  <1> HIDE DEF stay
  <1>3. /\ Removed(s, gone) \in Store
        /\ Removed(s, gone).nodes = s.nodes \ gone /\ Removed(s, gone).rels = stay
        /\ Removed(s, gone).nodeBuffer = s.nodeBuffer /\ Removed(s, gone).relGroups = s.relGroups
    BY <1>1, <1>2, StoreIs DEF Store
  <1> QED
    BY <1>3 DEF stay

\* Deleting the project takes a complete graph away as a whole.
LEMMA DeleteIs ==
  ASSUME NEW s \in Store
  PROVE  /\ DeleteProject(s) \in Store
         /\ DeleteProject(s).nodeBuffer = s.nodeBuffer /\ DeleteProject(s).relGroups = s.relGroups
         /\ DeleteProject(s).nodes \subseteq s.nodes /\ DeleteProject(s).rels \subseteq s.rels
         /\ Complete(s) => DeleteProject(s).nodes = {} /\ DeleteProject(s).rels = {}
  <1> DEFINE gone == {Project} \cup Contained(s)
  <1>1. gone \in SUBSET Nodes
    BY DEF Contained, Nodes
  <1>2. Complete(s) => gone = Nodes /\ Project \in s.nodes
    BY DEF Complete, Contained, Nodes, Relationships
  <1>3. \A e \in s.rels : e[2] \in Nodes
    BY StoreIs DEF Relationships, Nodes
  <1>4. DeleteProject(s) = IF Project \in s.nodes THEN Removed(s, gone) ELSE s
    BY DEF DeleteProject
  <1> HIDE DEF gone
  <1>5. CASE Project \in s.nodes
    BY <1>1, <1>2, <1>3, <1>4, <1>5, RemovedIs DEF Complete
  <1>6. CASE Project \notin s.nodes
    BY <1>2, <1>4, <1>6
  <1> QED
    BY <1>5, <1>6

LEMMA CleanIs ==
  ASSUME NEW s \in Store
  PROVE  /\ CleanDatabase(s) \in Store
         /\ CleanDatabase(s).nodes = {} /\ CleanDatabase(s).rels = {}
         /\ CleanDatabase(s).nodeBuffer = s.nodeBuffer /\ CleanDatabase(s).relGroups = s.relGroups
  BY DEF CleanDatabase, Store

LEMMA NoBuffersIs ==
  ASSUME NEW s \in Store
  PROVE  /\ NoBuffers(s) \in Store /\ NoBuffers(s).nodes = s.nodes /\ NoBuffers(s).rels = s.rels
         /\ NoBuffers(s).nodeBuffer = {} /\ NoBuffers(s).relGroups = {}
  BY DEF NoBuffers, Store

\* What a failed flush leaves: a part of what it was to write, and its own buffer empty.
LEMMA NodesFailedIs ==
  ASSUME NEW s \in Store, NEW t \in NodesFailed(s)
  PROVE  /\ t \in Store /\ s.nodes \subseteq t.nodes /\ t.nodes \subseteq NodesOf(s)
         /\ t.nodeBuffer = {} /\ t.rels = s.rels /\ t.relGroups = s.relGroups
  <1>1. PICK written \in SUBSET s.nodeBuffer :
          t = [s EXCEPT !.nodes = s.nodes \cup written, !.nodeBuffer = {}]
    BY DEF NodesFailed
  <1>2. s.nodes \cup written \subseteq Nodes
    BY StoreIs
  <1> QED
    BY <1>1, <1>2 DEF Store, NodesOf

LEMMA RelationshipsFailedIs ==
  ASSUME NEW s \in Store, NEW t \in RelationshipsFailed(s)
  PROVE  /\ t \in Store /\ t.nodes = s.nodes /\ t.nodeBuffer = s.nodeBuffer
         /\ s.rels \subseteq t.rels /\ t.rels \subseteq RelsOf(s) /\ t.relGroups = {}
  <1>1. PICK written \in SUBSET s.relGroups :
          t = [s EXCEPT !.rels = s.rels \cup {e \in written : Matches(e, s.nodes)},
                        !.relGroups = {}]
    BY DEF RelationshipsFailed
  <1> DEFINE made == {e \in written : Matches(e, s.nodes)}
  <1>2. made \subseteq s.relGroups /\ s.rels \cup made \subseteq Relationships
    BY StoreIs
  <1>3. t = [s EXCEPT !.rels = s.rels \cup made, !.relGroups = {}]
    BY <1>1
  <1> HIDE DEF made
  <1> QED
    BY <1>2, <1>3 DEF Store, RelsOf

LEMMA FlushFailedIs ==
  ASSUME NEW s \in Store, NEW t \in FlushFailed(s)
  PROVE  /\ t \in Store /\ s.nodes \subseteq t.nodes /\ t.nodes \subseteq NodesOf(s)
         /\ t.nodeBuffer = {}
         /\ s.rels \subseteq t.rels /\ t.rels \subseteq RelsOf(s)
         /\ t.relGroups \subseteq s.relGroups
  <1>1. CASE t \in NodesFailed(s)
    BY <1>1, NodesFailedIs DEF RelsOf
  <1>2. CASE t \in RelationshipsFailed(FlushNodes(s))
    <2>1. RelsOf(FlushNodes(s)) = RelsOf(s)
      BY FlushNodesIs DEF RelsOf
    <2> QED
      BY <1>2, <2>1, FlushNodesIs, RelationshipsFailedIs DEF NodesOf
  <1> QED
    BY <1>1, <1>2 DEF FlushFailed

LEMMA EnsureNodeFailedIs ==
  ASSUME NEW s \in Store, NEW n \in Nodes, NEW t \in EnsureNodeFailed(s, n)
  PROVE  /\ t \in Store /\ s.nodes \subseteq t.nodes /\ t.nodes \subseteq NodesOf(s) \cup {n}
         /\ t.nodeBuffer = {} /\ t.rels = s.rels /\ t.relGroups = s.relGroups
  <1> DEFINE u == WithNode(s, n)
  <1>1. /\ u \in Store /\ u.nodes = s.nodes /\ u.nodeBuffer = s.nodeBuffer \cup {n}
        /\ u.rels = s.rels /\ u.relGroups = s.relGroups
    BY DEF WithNode, Store
  <1>2. t \in NodesFailed(u)
    BY DEF EnsureNodeFailed
  <1> HIDE DEF u
  <1> QED
    BY <1>1, <1>2, NodesFailedIs DEF NodesOf

LEMMA EnsureRelFailedType ==
  ASSUME NEW s \in Store, NEW e \in Relationships, NEW t \in EnsureRelationshipFailed(s, e)
  PROVE  t \in Store
  <1> DEFINE u == WithRel(s, e)
  <1>1. u \in Store
    BY DEF WithRel, Store
  <1>2. t \in FlushFailed(u)
    BY DEF EnsureRelationshipFailed
  <1> HIDE DEF u
  <1> QED
    BY <1>1, <1>2, FlushFailedIs

-----------------------------------------------------------------------------
(* Types *)

Pc == {"idle", "queued", "answer", "error"} \cup Work

LEMMA ThreadIs ==
  ASSUME NEW r \in Thread
  PROVE  /\ r.tool \in Tools /\ r.pc \in Pc /\ r.cancelled \in BOOLEAN
         /\ r.todo \subseteq Modules /\ r.skipped \subseteq Modules
         /\ \A pc \in Pc : [r EXCEPT !.pc = pc] \in Thread
         /\ \A pc \in Pc, todo \in SUBSET Modules : [r EXCEPT !.pc = pc, !.todo = todo] \in Thread
         /\ \A todo \in SUBSET Modules : [r EXCEPT !.todo = todo] \in Thread
         /\ [r EXCEPT !.cancelled = TRUE] \in Thread
  BY DEF Thread, Pc

LEMMA NoThreadType == NoThread \in Thread
  BY DEF NoThread, Thread, Tools

\* A step of one request.
Turns(c, r) == thread' = [thread EXCEPT ![c] = r]

LEMMA TurnsIs ==
  ASSUME SessionTypeOK, NEW c \in Clients, NEW r \in Thread, Turns(c, r)
  PROVE  /\ thread' \in [Clients -> Thread] /\ thread'[c] = r
         /\ \A d \in Clients \ {c} : thread'[d] = thread[d]
  BY DEF SessionTypeOK, Turns

LEMMA MovesIs ==
  ASSUME SessionTypeOK, NEW c \in Clients, NEW pc \in Pc, Moves(c, pc)
  PROVE  /\ thread' \in [Clients -> Thread]
         /\ thread'[c].pc = pc /\ thread'[c].tool = thread[c].tool
         /\ thread'[c].todo = thread[c].todo /\ thread'[c].cancelled = thread[c].cancelled
         /\ thread'[c].skipped = thread[c].skipped
         /\ \A d \in Clients \ {c} : thread'[d] = thread[d]
  <1> DEFINE r == [thread[c] EXCEPT !.pc = pc]
  <1>1. thread[c] \in Thread
    BY DEF SessionTypeOK
  <1>2. r \in Thread
    BY <1>1, ThreadIs
  <1>3. /\ r.pc = pc /\ r.tool = thread[c].tool /\ r.todo = thread[c].todo
        /\ r.cancelled = thread[c].cancelled /\ r.skipped = thread[c].skipped
    BY <1>1 DEF Thread
  <1>4. Turns(c, r)
    BY DEF Moves, Turns
  <1> QED
    BY <1>2, <1>3, <1>4, TurnsIs

LEMMA PcsAre ==
  /\ Work \subseteq Pc
  /\ "idle" \in Pc /\ "queued" \in Pc /\ "answer" \in Pc /\ "error" \in Pc
  BY DEF Pc

LEMMA FirstStepIs ==
  ASSUME NEW tool \in Tools
  PROVE  /\ FirstStep[tool] \in Pc
         /\ FirstStep[tool] \in {"drop", "before", "delete", "wipe", "edges"}
         /\ FirstStep[tool] = "delete" => tool = "delete"
         /\ FirstStep[tool] = "wipe" => tool = "wipe"
         /\ FirstStep[tool] = "edges" => tool = "verdict"
  <1>1. /\ FirstStep["index"] = "drop" /\ FirstStep["update"] = "before"
        /\ FirstStep["delete"] = "delete" /\ FirstStep["wipe"] = "wipe"
        /\ FirstStep["verdict"] = "edges"
    BY DEF FirstStep
  <1> QED
    BY <1>1 DEF Tools, Pc, Work

\* Where the thread of a request goes.
LEMMA WorksMove ==
  ASSUME SessionTypeOK, NEW c \in Clients, Works(c)
  PROVE  /\ thread' \in [Clients -> Thread] /\ thread[c].pc \in Work
         /\ thread'[c].pc \in Work \cup {"answer", "error"}
         /\ thread'[c].tool = thread[c].tool /\ thread'[c].cancelled = thread[c].cancelled
         /\ \A d \in Clients \ {c} : thread'[d] = thread[d]
         /\ UNCHANGED <<lock, mishaps, astray>>
  <1>0. thread[c] \in Thread
    BY DEF SessionTypeOK
  <1>1. CASE RemoveProject(c) \/ Wipe(c) \/ ReadEdges(c) \/ ReadGaps(c) \/ Drop(c) \/ FlushBefore(c)
             \/ FlushAfter(c)
    <2>1. PICK pc \in Work \cup {"answer", "error"} : Moves(c, pc)
      BY <1>1 DEF RemoveProject, Wipe, ReadEdges, ReadGaps, Drop, FlushBefore, FlushAfter, Work
    <2>2. thread[c].pc \in Work /\ UNCHANGED <<lock, mishaps, astray>>
      BY <1>1 DEF RemoveProject, Wipe, ReadEdges, ReadGaps, Drop, FlushBefore, FlushAfter, Work,
                  Does, InThread
    <2> QED
      BY <2>1, <2>2, MovesIs, PcsAre
  <1>2. CASE Check(c)
    <2> DEFINE pc == IF CacheKept THEN "after" ELSE "parse"
               r == [thread[c] EXCEPT !.pc = pc, !.todo = Modules]
    <2>1. pc \in Work
      BY DEF Work
    <2> HIDE DEF pc
    <2>2. r \in Thread /\ r.pc = pc /\ r.tool = thread[c].tool /\ r.cancelled = thread[c].cancelled
      BY <1>0, <2>1, ThreadIs, PcsAre DEF Thread
    <2>3. Turns(c, r)
      BY <1>0, <1>2 DEF Check, Turns, SessionTypeOK, pc
    <2>4. thread[c].pc \in Work /\ UNCHANGED <<lock, mishaps, astray>>
      BY <1>2 DEF Check, Does, InThread, Work
    <2> QED
      BY <2>1, <2>2, <2>3, <2>4, TurnsIs
  <1>3. ASSUME NEW m \in Modules, ParseModule(c, m)
        PROVE  /\ Turns(c, [thread[c] EXCEPT !.todo = thread[c].todo \ {m}])
               /\ thread[c].pc = "parse" /\ UNCHANGED <<lock, mishaps, astray>>
    BY <1>3 DEF ParseModule, Turns, Does, InThread
  <1>4. CASE \E m \in Modules : ParseModule(c, m)
    <2>1. PICK m \in Modules : ParseModule(c, m)
      BY <1>4
    <2> DEFINE r == [thread[c] EXCEPT !.todo = thread[c].todo \ {m}]
    <2>2. thread[c].todo \ {m} \in SUBSET Modules
      BY <1>0, ThreadIs
    <2>3. /\ r \in Thread /\ r.pc = thread[c].pc /\ r.tool = thread[c].tool
          /\ r.cancelled = thread[c].cancelled
      BY <1>0, <2>2, ThreadIs DEF Thread
    <2>4. Turns(c, r) /\ thread[c].pc = "parse" /\ UNCHANGED <<lock, mishaps, astray>>
      BY <1>3, <2>1
    <2> QED
      BY <2>3, <2>4, TurnsIs DEF Work
  <1>5. CASE SaveHashes(c)
    <2> DEFINE todo == Modules \ thread[c].skipped
               pc == IF todo = {} THEN "after" ELSE "calls"
               r == [thread[c] EXCEPT !.pc = pc, !.todo = todo]
    <2>1. Turns(c, r) /\ thread[c].pc = "parse" /\ UNCHANGED <<lock, mishaps, astray>>
      BY <1>5 DEF SaveHashes, Turns, Does, InThread
    <2>2. pc \in Work /\ todo \in SUBSET Modules
      BY DEF Work
    <2> HIDE DEF pc, todo
    <2>3. /\ r \in Thread /\ r.pc = pc /\ r.tool = thread[c].tool
          /\ r.cancelled = thread[c].cancelled
      BY <1>0, <2>2, ThreadIs, PcsAre DEF Thread
    <2> QED
      BY <2>1, <2>2, <2>3, TurnsIs DEF Work
  <1>6. CASE \E m \in Modules : Resolve(c, m)
    <2>1. PICK m \in Modules : Resolve(c, m)
      BY <1>6
    <2> DEFINE pc == IF thread[c].todo = {m} THEN "after" ELSE "calls"
               todo == thread[c].todo \ {m}
               r == [thread[c] EXCEPT !.todo = todo, !.pc = pc]
    <2>2. pc \in Work /\ todo \in SUBSET Modules
      BY <1>0, ThreadIs DEF Work
    <2>3. Turns(c, r) /\ thread[c].pc = "calls" /\ UNCHANGED <<lock, mishaps, astray>>
      BY <1>0, <2>1 DEF Resolve, Turns, SessionTypeOK, Does, InThread
    <2> HIDE DEF pc, todo
    <2>4. /\ r \in Thread /\ r.pc = pc /\ r.tool = thread[c].tool
          /\ r.cancelled = thread[c].cancelled
      BY <1>0, <2>2, PcsAre DEF Thread, Pc
    <2> QED
      BY <2>2, <2>3, <2>4, TurnsIs DEF Work
  <1> QED
    BY <1>1, <1>2, <1>4, <1>5, <1>6 DEF Works

-----------------------------------------------------------------------------
(* A file whose parse or calls failed unnoticed *)

\* The thread goes on with the next file, and remembers this one.
LEMMA SwallowIs ==
  ASSUME SessionTypeOK, NEW c \in Clients, NEW m \in Modules,
         ParseSwallowed(c, m) \/ CallsSwallowed(c, m)
  PROVE  /\ thread' \in [Clients -> Thread] /\ m \in thread'[c].skipped
         /\ thread'[c].cancelled = thread[c].cancelled
         /\ \A d \in Clients \ {c} : thread'[d] = thread[d]
         /\ \/ ParseSwallowed(c, m) /\ thread[c].pc = "parse" /\ thread'[c].pc = "parse"
            \/ /\ CallsSwallowed(c, m) /\ thread[c].pc = "calls"
               /\ \/ thread'[c].pc = "calls"
                  \/ thread'[c].pc = "after" /\ thread'[c].todo = {}
  <1> DEFINE todo == thread[c].todo \ {m}
             skipped == thread[c].skipped \cup {m}
  <1>1. thread[c] \in Thread /\ todo \in SUBSET Modules /\ skipped \in SUBSET Modules
    BY ThreadIs DEF SessionTypeOK
  <1>2. CASE ParseSwallowed(c, m)
    <2> DEFINE r == [thread[c] EXCEPT !.todo = todo, !.skipped = skipped]
    <2>1. Turns(c, r) /\ thread[c].pc = "parse"
      BY <1>2 DEF ParseSwallowed, Turns, Does
    <2>2. m \in skipped
      OBVIOUS
    <2> HIDE DEF todo, skipped
    <2>3. /\ r \in Thread /\ r.pc = thread[c].pc /\ r.skipped = skipped
          /\ r.cancelled = thread[c].cancelled
      BY <1>1 DEF Thread
    <2> QED
      BY <1>2, <2>1, <2>2, <2>3, TurnsIs
  <1>3. CASE CallsSwallowed(c, m)
    <2> DEFINE pc == IF thread[c].todo = {m} THEN "after" ELSE "calls"
               r == [thread[c] EXCEPT !.todo = todo, !.skipped = skipped, !.pc = pc]
    <2>1. Turns(c, r) /\ thread[c].pc = "calls"
      BY <1>3 DEF CallsSwallowed, Turns, Does
    <2>2. m \in skipped /\ (pc = "calls" \/ (pc = "after" /\ todo = {}))
      OBVIOUS
    <2>3. pc \in Pc
      BY PcsAre DEF Work
    <2> HIDE DEF todo, skipped, pc
    <2>4. /\ r \in Thread /\ r.pc = pc /\ r.skipped = skipped /\ r.todo = todo
          /\ r.cancelled = thread[c].cancelled
      BY <1>1, <2>3 DEF Thread, Pc
    <2> QED
      BY <1>3, <2>1, <2>2, <2>4, TurnsIs
  <1> QED
    BY <1>2, <1>3

\* What is left of the store when a file's parse or calls failed is a store.
LEMMA LeavesAre ==
  ASSUME NEW s \in Store, NEW m \in Modules
  PROVE  ParseLeaves(s, m) \subseteq Store /\ CallsLeave(s, m) \subseteq Store
  <1> DEFINE t == Removed(s, {m} \cap s.nodes)
             u == EnsureNodeBatch(t, m)
  <1>1. {m} \cap s.nodes \in SUBSET Nodes /\ m \in Nodes
    BY DEF Nodes
  <1>2. t \in Store
    BY <1>1, RemovedIs
  <1>3. ParseLeaves(s, m) = {t, u} \cup EnsureNodeFailed(t, m)
                                 \cup EnsureRelationshipFailed(u, <<"contains", m>>)
    BY DEF ParseLeaves
  <1> HIDE DEF t
  <1>4. u \in Store
    BY <1>1, <1>2, EnsureNodeIs
  <1> HIDE DEF u
  <1>5. <<"contains", m>> \in Relationships /\ <<"calls", m>> \in Relationships
    BY DEF Relationships
  <1>6. ParseLeaves(s, m) \subseteq Store
    BY <1>1, <1>2, <1>3, <1>4, <1>5, EnsureNodeFailedIs, EnsureRelFailedType
  <1>7. CallsLeave(s, m) \subseteq Store
    BY <1>5, EnsureRelFailedType DEF CallsLeave
  <1> QED
    BY <1>6, <1>7

-----------------------------------------------------------------------------
(* What a run has brought on its way, and a graph without half a repository *)

ParsedSoFar(s, todo) ==
  /\ Project \in NodesOf(s)
  /\ \A m \in Modules \ todo : m \in NodesOf(s) /\ <<"contains", m>> \in RelsOf(s)

ResolvedSoFar(s, todo) ==
  /\ Nodes \subseteq NodesOf(s)
  /\ \A m \in Modules : <<"contains", m>> \in RelsOf(s)
  /\ \A m \in Modules \ todo : <<"calls", m>> \in RelsOf(s)

Clean(s) ==
  /\ s.nodeBuffer \subseteq {Project} /\ s.relGroups = {}
  /\ Complete(s) \/ (s.nodes \subseteq {Project} /\ s.rels = {})

LEMMA NodesAre == Project \in Nodes /\ Modules \subseteq Nodes /\ {Project} \in SUBSET Nodes
  BY DEF Nodes

LEMMA RelationshipsAre ==
  ASSUME NEW m \in Modules
  PROVE  /\ <<"contains", m>> \in Relationships /\ <<"calls", m>> \in Relationships
         /\ \A N : m \in N /\ Project \in N => Matches(<<"contains", m>>, N)
         /\ \A N : m \in N => Matches(<<"calls", m>>, N)
  BY DEF Relationships, Matches

LEMMA CleanFlush ==
  ASSUME NEW s \in Store, Clean(s), NEW t \in Store,
         s.nodes \subseteq t.nodes, t.nodes \subseteq NodesOf(s) \cup {Project},
         s.rels \subseteq t.rels, t.rels \subseteq RelsOf(s),
         t.nodeBuffer \subseteq {Project}, t.relGroups = {}
  PROVE  Clean(t)
  BY StoreIs, NodesAre DEF Clean, Complete, NodesOf, RelsOf

LEMMA CleanStays ==
  ASSUME NEW s \in Store, Clean(s)
  PROVE  /\ Clean(DeleteProject(s)) /\ Clean(CleanDatabase(s)) /\ Clean(FlushAll(s))
         /\ Clean(EnsureNodeBatch(s, Project)) /\ Clean(NoBuffers(s))
         /\ \A t \in FlushFailed(s) : Clean(t)
         /\ \A t \in EnsureNodeFailed(s, Project) : Clean(t)
  <1>1. Clean(DeleteProject(s))
    BY DeleteIs DEF Clean
  <1>2. Clean(CleanDatabase(s))
    BY CleanIs DEF Clean
  <1>3. Clean(FlushAll(s))
    <2> DEFINE t == FlushAll(s)
    <2>1. s.relGroups = {}
      BY DEF Clean
    <2>2. /\ t \in Store /\ t.nodes = NodesOf(s) /\ t.nodeBuffer = {} /\ t.relGroups = {}
          /\ t.rels = s.rels \cup {e \in s.relGroups : Matches(e, NodesOf(s))}
      BY FlushAllIs
    <2> HIDE DEF t
    <2>3. t.rels = s.rels
      BY <2>1, <2>2
    <2>4. s.nodes \subseteq t.nodes /\ s.rels \subseteq t.rels /\ t.rels \subseteq RelsOf(s)
      BY <2>2, <2>3 DEF NodesOf, RelsOf
    <2>5. Clean(t)
      BY <2>2, <2>4, CleanFlush
    <2> QED
      BY <2>5 DEF t
  <1>4. Clean(EnsureNodeBatch(s, Project))
    <2>1. s.relGroups = {} /\ s.nodeBuffer \subseteq {Project}
      BY DEF Clean
    <2> QED
      BY <2>1, EnsureNodeIs, NodesAre, CleanFlush DEF RelsOf
  <1>5. Clean(NoBuffers(s))
    BY NoBuffersIs DEF Clean, Complete
  <1>6. ASSUME NEW t \in FlushFailed(s) PROVE Clean(t)
    <2>1. s.relGroups = {}
      BY DEF Clean
    <2> QED
      BY <2>1, FlushFailedIs, CleanFlush
  <1>7. ASSUME NEW t \in EnsureNodeFailed(s, Project) PROVE Clean(t)
    <2>1. s.relGroups = {}
      BY DEF Clean
    <2> QED
      BY <2>1, EnsureNodeFailedIs, NodesAre, CleanFlush DEF RelsOf
  <1> QED
    BY <1>1, <1>2, <1>3, <1>4, <1>5, <1>6, <1>7

\* A module is deleted from the graph and ingested anew; the modules before it stay.
LEMMA ParsedIs ==
  ASSUME NEW s \in Store, NEW m \in Modules
  PROVE  /\ Parsed(s, m) \in Store
         /\ \A todo \in SUBSET Modules :
              m \in todo /\ ParsedSoFar(s, todo) => ParsedSoFar(Parsed(s, m), todo \ {m})
  <1> DEFINE t == Removed(s, {m} \cap s.nodes)
             u == EnsureNodeBatch(t, m)
             v == EnsureRelationshipBatch(u, <<"contains", m>>)
  <1>1. {m} \cap s.nodes \in SUBSET Nodes /\ m \in Nodes /\ <<"contains", m>> \in Relationships
    BY NodesAre, RelationshipsAre
  <1>2. /\ t \in Store /\ t.nodes = s.nodes \ {m} /\ t.nodeBuffer = s.nodeBuffer
        /\ t.relGroups = s.relGroups
        /\ \A n \in Modules \ {m} : <<"contains", n>> \in s.rels => <<"contains", n>> \in t.rels
    BY <1>1, RemovedIs, ProjectAssumption
  <1> HIDE DEF t
  <1>3. /\ u \in Store /\ NodesOf(u) = NodesOf(t) \cup {m}
        /\ u.rels = t.rels /\ u.relGroups = t.relGroups
    BY <1>1, <1>2, EnsureNodeIs
  <1> HIDE DEF u
  <1>4. /\ v \in Store /\ NodesOf(v) = NodesOf(u)
        /\ \A x \in RelsOf(u) \cup {<<"contains", m>>} :
             x \in u.rels \/ Matches(x, NodesOf(u)) => x \in RelsOf(v)
    BY <1>1, <1>3, EnsureRelIs
  <1> HIDE DEF v
  <1>5. Parsed(s, m) = v
    BY DEF Parsed, t, u, v
  <1>6. ASSUME NEW todo \in SUBSET Modules, m \in todo, ParsedSoFar(s, todo)
        PROVE  ParsedSoFar(v, todo \ {m})
    <2>1. /\ Project \in NodesOf(v) /\ m \in NodesOf(v)
          /\ \A n \in Modules \ todo : n \in NodesOf(v)
      BY <1>2, <1>3, <1>4, <1>6, ProjectAssumption DEF ParsedSoFar, NodesOf
    <2>2. <<"contains", m>> \in RelsOf(v)
      BY <1>4, <2>1, RelationshipsAre
    <2>3. ASSUME NEW n \in Modules \ todo
          PROVE  <<"contains", n>> \in RelsOf(v)
      <3>1. <<"contains", n>> \in RelsOf(u)
        BY <1>2, <1>3, <1>6, <2>3 DEF ParsedSoFar, RelsOf
      <3>2. Matches(<<"contains", n>>, NodesOf(u))
        BY <1>4, <2>1, RelationshipsAre
      <3> QED
        BY <1>4, <3>1, <3>2
    <2> QED
      BY <2>1, <2>2, <2>3 DEF ParsedSoFar
  <1> QED
    BY <1>4, <1>5, <1>6

LEMMA ResolvedIs ==
  ASSUME NEW s \in Store, NEW m \in Modules
  PROVE  /\ EnsureRelationshipBatch(s, <<"calls", m>>) \in Store
         /\ \A todo \in SUBSET Modules :
              ResolvedSoFar(s, todo) =>
                ResolvedSoFar(EnsureRelationshipBatch(s, <<"calls", m>>), todo \ {m})
  <1> DEFINE v == EnsureRelationshipBatch(s, <<"calls", m>>)
  <1>1. /\ v \in Store /\ NodesOf(v) = NodesOf(s)
        /\ \A x \in RelsOf(s) \cup {<<"calls", m>>} :
             x \in s.rels \/ Matches(x, NodesOf(s)) => x \in RelsOf(v)
    BY RelationshipsAre, EnsureRelIs
  <1> HIDE DEF v
  <1>2. ASSUME NEW todo \in SUBSET Modules, ResolvedSoFar(s, todo)
        PROVE  ResolvedSoFar(v, todo \ {m})
    <2>1. Nodes \subseteq NodesOf(v)
      BY <1>1, <1>2 DEF ResolvedSoFar
    <2>2. \A n \in Modules : /\ Matches(<<"contains", n>>, NodesOf(s))
                             /\ Matches(<<"calls", n>>, NodesOf(s))
      BY <1>2, NodesAre, RelationshipsAre DEF ResolvedSoFar
    <2>3. \A n \in Modules : <<"contains", n>> \in RelsOf(v)
      BY <1>1, <1>2, <2>2 DEF ResolvedSoFar
    <2>4. \A n \in Modules \ (todo \ {m}) : <<"calls", n>> \in RelsOf(v)
      BY <1>1, <1>2, <2>2 DEF ResolvedSoFar
    <2> QED
      BY <2>1, <2>3, <2>4 DEF ResolvedSoFar
  <1> QED
    BY <1>1, <1>2 DEF v

\* The last flush of a run that parsed and resolved everything.
LEMMA FlushCompletes ==
  ASSUME NEW s \in Store, ResolvedSoFar(s, {})
  PROVE  Complete(FlushAll(s)) /\ Clean(FlushAll(s))
  <1>1. NodesOf(s) = Nodes
    BY StoreIs DEF ResolvedSoFar, NodesOf
  <1>2. ASSUME NEW e \in Relationships
        PROVE  e \in s.rels \cup {x \in s.relGroups : Matches(x, Nodes)}
    <2>1. PICK m \in Modules : e = <<"contains", m>> \/ e = <<"calls", m>>
      BY <1>2 DEF Relationships
    <2>2. e \in RelsOf(s)
      BY <2>1 DEF ResolvedSoFar
    <2>3. Matches(e, Nodes)
      BY <2>1, NodesAre, RelationshipsAre
    <2> QED
      BY <2>2, <2>3 DEF RelsOf
  <1>3. FlushAll(s).rels = Relationships
    <2>1. FlushAll(s).rels = s.rels \cup {e \in s.relGroups : Matches(e, NodesOf(s))}
      BY FlushAllIs
    <2>2. FlushAll(s).rels = s.rels \cup {e \in s.relGroups : Matches(e, Nodes)}
      BY <1>1, <2>1
    <2> QED
      BY <1>2, <2>2, StoreIs
  <1> QED
    BY <1>1, <1>3, FlushAllIs DEF Complete, Clean

-----------------------------------------------------------------------------
(* The invariant *)

\* Unless a request was cancelled at work, who works holds the lock.
LockKept ==
  ~astray => \A c \in Clients :
    /\ ~thread[c].cancelled
    /\ thread[c].pc \in Work \cup {"answer", "error"} => lock = c

FitsTool ==
  \A c \in Clients : /\ Does(c, "delete") => thread[c].tool = "delete"
                     /\ Does(c, "wipe") => thread[c].tool = "wipe"
                     /\ Does(c, "edges") \/ Does(c, "gaps") => thread[c].tool = "verdict"

Unskipped(c) == thread[c].skipped = {}

\* What a run that passed over nothing has still to do is all that is missing; a cache it found
\* good was good.
OnItsWay(c) ==
  /\ Does(c, "parse") => ~cached /\ (Unskipped(c) => ParsedSoFar(store, thread[c].todo))
  /\ HalfDone(c) /\ Unskipped(c) => ResolvedSoFar(store, thread[c].todo)
  /\ Does(c, "after") /\ ~HalfDone(c) => cached /\ (marred \/ store.nodes \cap Modules # {})

RunsAreOnTheirWay == ~astray => \A c \in Clients : OnItsWay(c)

\* Between two runs the cache stands for a graph that is complete or has been emptied.
CacheIsHonest ==
  cached /\ ~marred /\ ~astray /\ (\A c \in Clients : ~HalfDone(c)) => Clean(store)

SessionInv == /\ SessionTypeOK /\ LockKept /\ FitsTool
              /\ RunsAreOnTheirWay /\ CacheIsHonest /\ SuccessIsComplete

LEMMA InitSessionInv == SessionInit => SessionInv
  <1> SUFFICES ASSUME SessionInit PROVE SessionInv
    OBVIOUS
  <1>1. store \in Store
    BY DEF SessionInit, EmptyStore, Store
  <1>2. SessionTypeOK
    <2>1. lock \in Clients \cup {NoClient} /\ thread \in [Clients -> Thread]
      BY NoThreadType DEF SessionInit
    <2>2. mishaps \in 0..MaxMishaps
      BY SessionBounds DEF SessionInit
    <2>3. cached \in BOOLEAN /\ marred \in BOOLEAN /\ astray \in BOOLEAN
      BY DEF SessionInit
    <2> QED
      BY <1>1, <2>1, <2>2, <2>3 DEF SessionTypeOK
  <1>3. \A c \in Clients : thread[c].pc = "idle" /\ ~thread[c].cancelled
    BY DEF SessionInit, NoThread
  <1>4. ~cached
    BY DEF SessionInit
  <1>5. LockKept /\ FitsTool
    BY <1>3 DEF LockKept, FitsTool, Does, Work
  <1>6. RunsAreOnTheirWay
    BY <1>3 DEF RunsAreOnTheirWay, OnItsWay, HalfDone, Does
  <1>7. CacheIsHonest
    BY <1>4 DEF CacheIsHonest
  <1>8. SuccessIsComplete
    BY <1>3 DEF SuccessIsComplete, Does
  <1> QED
    BY <1>2, <1>5, <1>6, <1>7, <1>8 DEF SessionInv

-----------------------------------------------------------------------------
(* Types *)

LEMMA WorksStore ==
  ASSUME SessionTypeOK, NEW c \in Clients, Works(c)
  PROVE  store' \in Store /\ cached' \in BOOLEAN /\ marred' \in BOOLEAN
  <1>1. /\ store \in Store /\ FlushAll(store) \in Store /\ DeleteProject(store) \in Store
        /\ CleanDatabase(store) \in Store /\ EnsureNodeBatch(store, Project) \in Store
        /\ \A m \in Modules : /\ Parsed(store, m) \in Store
                              /\ EnsureRelationshipBatch(store, <<"calls", m>>) \in Store
    BY FlushAllIs, DeleteIs, CleanIs, EnsureNodeIs, NodesAre, ParsedIs, ResolvedIs DEF SessionTypeOK
  <1>2. /\ CacheKept \in BOOLEAN /\ (thread[c].skipped # {}) \in BOOLEAN
        /\ cached \in BOOLEAN /\ marred \in BOOLEAN
    BY DEF CacheKept, SessionTypeOK
  <1>3. CASE RemoveProject(c) \/ Wipe(c) \/ ReadEdges(c) \/ ReadGaps(c) \/ Drop(c) \/ FlushBefore(c)
    BY <1>1, <1>2, <1>3 DEF RemoveProject, Wipe, ReadEdges, ReadGaps, Drop, FlushBefore
  <1>4. CASE Check(c)
    BY <1>1, <1>2, <1>4, Zenon DEF Check
  <1>5. CASE \E m \in Modules : ParseModule(c, m) \/ Resolve(c, m)
    BY <1>1, <1>2, <1>5 DEF ParseModule, Resolve
  <1>6. CASE SaveHashes(c)
    BY <1>1, <1>2, <1>6 DEF SaveHashes
  <1>7. CASE FlushAfter(c)
    <2>1. CASE HalfDone(c)
      <3>1. marred' = (thread[c].skipped # {})
        BY <1>7, <2>1, Zenon DEF FlushAfter
      <3> QED
        BY <1>1, <1>2, <1>7, <3>1, Zenon DEF FlushAfter
    <2>2. CASE ~HalfDone(c)
      BY <1>1, <1>2, <1>7, <2>2 DEF FlushAfter
    <2> QED
      BY <2>1, <2>2
  <1> QED
    BY <1>3, <1>4, <1>5, <1>6, <1>7 DEF Works

LEMMA FailedStore ==
  ASSUME SessionTypeOK, NEW c \in Clients, NEW s \in Failed(c)
  PROVE  s \in Store
  <1>0. store \in Store /\ Project \in Nodes
    BY NodesAre DEF SessionTypeOK
  <1>1. CASE thread[c].pc \in {"delete", "drop"}
    BY <1>0, <1>1, DeleteIs DEF Failed, Does
  <1>2. CASE thread[c].pc \in {"before", "after"}
    BY <1>0, <1>2, FlushFailedIs DEF Failed, Does
  <1>3. CASE Does(c, "check")
    BY <1>0, <1>3, EnsureNodeFailedIs DEF Failed, Does
  <1>4. CASE Does(c, "parse")
    <2>1. s = store \/ \E m \in Modules : s \in ParseFailed(store, m)
      <3>1. thread[c].todo \subseteq Modules
        BY ThreadIs DEF SessionTypeOK
      <3> QED
        BY <1>4, <3>1 DEF Failed, Does
    <2>2. ASSUME NEW m \in Modules, s \in ParseFailed(store, m)
          PROVE  s \in Store
      <3>1. s = store \/ s \in ParseLeaves(store, m) \/ s \in FlushFailed(Parsed(store, m))
        BY <2>2 DEF ParseFailed
      <3>2. Parsed(store, m) \in Store /\ ParseLeaves(store, m) \subseteq Store
        BY <1>0, ParsedIs, LeavesAre
      <3> QED
        BY <1>0, <3>1, <3>2, FlushFailedIs
    <2> QED
      BY <1>0, <2>1, <2>2
  <1>5. CASE Does(c, "calls")
    <2>1. \E m \in Modules : s \in CallsLeave(store, m)
      <3>1. thread[c].todo \subseteq Modules
        BY ThreadIs DEF SessionTypeOK
      <3> QED
        BY <1>5, <3>1 DEF Failed, Does
    <2> QED
      BY <1>0, <2>1, LeavesAre
  <1>6. CASE thread[c].pc \notin {"delete", "drop", "before", "after", "check", "parse", "calls"}
    BY <1>0, <1>6 DEF Failed, Does
  <1> QED
    BY <1>1, <1>2, <1>3, <1>4, <1>5, <1>6 DEF Does

\* The steps of a request that are not its thread's.
LEMMA AskIs ==
  ASSUME SessionTypeOK, NEW c \in Clients, NEW tool \in Tools, Ask(c, tool)
  PROVE  /\ thread' \in [Clients -> Thread]
         /\ thread'[c].pc = "queued" /\ ~thread'[c].cancelled
         /\ \A d \in Clients \ {c} : thread'[d] = thread[d]
  <1> DEFINE r == [NoThread EXCEPT !.tool = tool, !.pc = "queued"]
  <1>1. r \in Thread /\ r.pc = "queued" /\ ~r.cancelled
    BY DEF NoThread, Thread
  <1>2. Turns(c, r)
    BY DEF Ask, Turns
  <1> QED
    BY <1>1, <1>2, TurnsIs

LEMMA AnswerIs ==
  ASSUME SessionTypeOK, NEW c \in Clients, Turns(c, NoThread)
  PROVE  /\ thread' \in [Clients -> Thread]
         /\ thread'[c].pc = "idle" /\ ~thread'[c].cancelled
         /\ \A d \in Clients \ {c} : thread'[d] = thread[d]
  <1>1. NoThread.pc = "idle" /\ ~NoThread.cancelled
    BY DEF NoThread
  <1> QED
    BY <1>1, NoThreadType, TurnsIs

LEMMA CancelIs ==
  ASSUME SessionTypeOK, NEW c \in Clients, Cancel(c)
  PROVE  /\ thread' \in [Clients -> Thread]
         /\ \A d \in Clients \ {c} : thread'[d] = thread[d]
         /\ \/ Turns(c, NoThread) /\ thread[c].pc = "queued" /\ UNCHANGED <<lock, astray>>
            \/ /\ astray' = TRUE /\ lock' = NoClient
               /\ thread'[c].pc = thread[c].pc /\ thread'[c].tool = thread[c].tool
  <1>1. CASE Does(c, "queued")
    <2>1. Turns(c, NoThread) /\ thread[c].pc = "queued" /\ UNCHANGED <<lock, astray>>
      BY <1>1 DEF Cancel, Turns, Does
    <2> QED
      BY <2>1, AnswerIs
  <1>2. CASE ~Does(c, "queued")
    <2> DEFINE r == [thread[c] EXCEPT !.cancelled = TRUE]
    <2>1. thread[c] \in Thread
      BY DEF SessionTypeOK
    <2>2. r \in Thread /\ r.pc = thread[c].pc /\ r.tool = thread[c].tool
      BY <2>1 DEF Thread
    <2>3. Turns(c, r) /\ astray' = TRUE /\ lock' = NoClient
      BY <1>2 DEF Cancel, Turns
    <2> QED
      BY <2>2, <2>3, TurnsIs
  <1> QED
    BY <1>1, <1>2

LEMMA CountFailsIs ==
  ASSUME SessionTypeOK, NEW c \in Clients, CountFails(c)
  PROVE  /\ thread' \in [Clients -> Thread]
         /\ thread[c].pc = "check" /\ thread'[c].pc = "after" /\ thread'[c].todo = Modules
         /\ thread'[c].cancelled = thread[c].cancelled
         /\ \A d \in Clients \ {c} : thread'[d] = thread[d]
  <1> DEFINE r == [thread[c] EXCEPT !.pc = "after", !.todo = Modules]
  <1>1. thread[c] \in Thread
    BY DEF SessionTypeOK
  <1>2. r \in Thread /\ r.pc = "after" /\ r.todo = Modules /\ r.cancelled = thread[c].cancelled
    BY <1>1, PcsAre DEF Thread, Work
  <1>3. Turns(c, r) /\ thread[c].pc = "check"
    BY DEF CountFails, Turns, Does, SessionTypeOK
  <1> QED
    BY <1>2, <1>3, TurnsIs

LEMMA StepTypes == SessionTypeOK /\ FitsTool /\ [SessionNext]_sessionVars => SessionTypeOK' /\ FitsTool'
  <1> SUFFICES ASSUME SessionTypeOK, FitsTool, [SessionNext]_sessionVars
               PROVE  SessionTypeOK' /\ FitsTool'
    OBVIOUS
  <1>0. /\ MaxMishaps \in Nat /\ (Mishap => mishaps' \in 0..MaxMishaps)
        /\ \A c \in Clients : thread[c] \in Thread
    BY SessionBounds DEF Mishap, SessionTypeOK
  <1>1. ASSUME NEW c \in Clients, NEW tool \in Tools, Ask(c, tool)
        PROVE  SessionTypeOK' /\ FitsTool'
    <2>1. UNCHANGED <<store, cached, lock, mishaps, marred, astray>>
      BY <1>1 DEF Ask
    <2> QED
      BY <1>1, <2>1, AskIs DEF SessionTypeOK, FitsTool, Does
  <1>2. ASSUME NEW c \in Clients, Locked(c)
        PROVE  SessionTypeOK' /\ FitsTool'
    <2> DEFINE pc == FirstStep[thread[c].tool]
    <2>1. /\ pc = "delete" => thread[c].tool = "delete"
          /\ pc = "wipe" => thread[c].tool = "wipe"
          /\ pc = "edges" \/ pc = "gaps" => thread[c].tool = "verdict"
          /\ pc \in Pc
      <3>1. thread[c].tool \in Tools
        BY <1>0, ThreadIs
      <3> QED
        BY <3>1, FirstStepIs
    <2>2. Moves(c, pc) /\ lock' = c /\ UNCHANGED <<store, cached, mishaps, marred, astray>>
      BY <1>2 DEF Locked
    <2> HIDE DEF pc
    <2> QED
      BY <2>1, <2>2, MovesIs DEF SessionTypeOK, FitsTool, Does
  <1>3. ASSUME NEW c \in Clients, Works(c)
        PROVE  SessionTypeOK' /\ FitsTool'
    <2>1. SessionTypeOK'
      BY <1>3, WorksStore, WorksMove DEF SessionTypeOK
    <2>2. /\ thread'[c].pc \notin {"delete", "wipe", "edges"}
          /\ thread'[c].pc = "gaps" => thread[c].pc = "edges"
      <3>1. CASE RemoveProject(c) \/ Wipe(c) \/ ReadEdges(c) \/ ReadGaps(c) \/ Drop(c)
                 \/ FlushBefore(c) \/ FlushAfter(c)
        BY <3>1, MovesIs, PcsAre
        DEF RemoveProject, Wipe, ReadEdges, ReadGaps, Drop, FlushBefore, FlushAfter, Work, Does
      <3>2. CASE Check(c) \/ SaveHashes(c) \/ \E m \in Modules : ParseModule(c, m) \/ Resolve(c, m)
        <4>1. thread'[c].pc \in {"after", "parse", "calls"}
          <5>1. CASE Check(c)
            <6> DEFINE r == [thread[c] EXCEPT !.pc = IF CacheKept THEN "after" ELSE "parse",
                                              !.todo = Modules]
            <6>1. thread'[c] = r
              BY <5>1 DEF Check, SessionTypeOK
            <6>2. r.pc \in {"after", "parse"}
              BY <1>0 DEF Thread
            <6> QED
              BY <6>1, <6>2
          <5>2. CASE SaveHashes(c)
            <6> DEFINE todo == Modules \ thread[c].skipped
                       r == [thread[c] EXCEPT !.pc = IF todo = {} THEN "after" ELSE "calls",
                                              !.todo = todo]
            <6>1. thread'[c] = r
              BY <5>2 DEF SaveHashes, SessionTypeOK
            <6>2. r.pc \in {"after", "calls"}
              BY <1>0 DEF Thread
            <6> QED
              BY <6>1, <6>2
          <5>3. CASE \E m \in Modules : ParseModule(c, m) \/ Resolve(c, m)
            BY <1>0, <5>3 DEF ParseModule, Resolve, SessionTypeOK, Does, Thread
          <5> QED
            BY <3>2, <5>1, <5>2, <5>3
        <4> QED
          BY <4>1
      <3> QED
        BY <1>3, <3>1, <3>2 DEF Works
    <2>3. FitsTool'
      BY <1>3, <2>2, WorksMove DEF FitsTool, Does
    <2> QED
      BY <2>1, <2>3
  <1>4. ASSUME NEW c \in Clients, Answer(c)
        PROVE  SessionTypeOK' /\ FitsTool'
    <2>1. /\ Turns(c, NoThread) /\ lock' \in Clients \cup {NoClient}
          /\ UNCHANGED <<store, cached, mishaps, marred, astray>>
      BY <1>4 DEF Answer, Turns, SessionTypeOK
    <2> QED
      BY <2>1, AnswerIs DEF SessionTypeOK, FitsTool, Does
  <1>5. ASSUME NEW c \in Clients, Cancel(c)
        PROVE  SessionTypeOK' /\ FitsTool'
    <2>1. Mishap /\ UNCHANGED <<store, cached, marred>>
      BY <1>5 DEF Cancel
    <2>2. lock' \in Clients \cup {NoClient} /\ astray' \in BOOLEAN
      BY <1>5, CancelIs DEF SessionTypeOK
    <2>3. SessionTypeOK'
      BY <1>0, <1>5, <2>1, <2>2, CancelIs DEF SessionTypeOK
    <2>4. FitsTool'
      <3>1. CASE Turns(c, NoThread)
        BY <1>5, <3>1, CancelIs, AnswerIs DEF FitsTool, Does
      <3>2. CASE thread'[c].pc = thread[c].pc /\ thread'[c].tool = thread[c].tool
        BY <1>5, <3>2, CancelIs DEF FitsTool, Does
      <3> QED
        BY <1>5, <3>1, <3>2, CancelIs
    <2> QED
      BY <2>3, <2>4
  <1>6. ASSUME NEW c \in Clients, Fails(c)
        PROVE  SessionTypeOK' /\ FitsTool'
    <2>1. /\ Mishap /\ store' \in Store /\ Moves(c, "error") /\ UNCHANGED <<cached, lock, astray>>
          /\ marred' \in BOOLEAN
      BY <1>6, FailedStore DEF Fails, SessionTypeOK
    <2> QED
      BY <1>0, <2>1, MovesIs, PcsAre DEF SessionTypeOK, FitsTool, Does
  <1>10. ASSUME NEW c \in Clients, CountFails(c)
         PROVE  SessionTypeOK' /\ FitsTool'
    <2>1. store' \in Store
      BY <1>10, EnsureNodeIs, NodesAre DEF CountFails, SessionTypeOK
    <2>2. Mishap /\ UNCHANGED <<cached, lock, astray>>
      BY <1>10 DEF CountFails
    <2>3. marred' \in BOOLEAN
      BY <1>10, Zenon DEF CountFails
    <2> QED
      BY <1>0, <1>10, <2>1, <2>2, <2>3, CountFailsIs DEF SessionTypeOK, FitsTool, Does
  <1>11. ASSUME NEW c \in Clients, NEW m \in Modules,
                ParseSwallowed(c, m) \/ CallsSwallowed(c, m)
         PROVE  SessionTypeOK' /\ FitsTool'
    <2>1. Mishap /\ UNCHANGED <<cached, lock, marred, astray>>
          /\ store' \in ParseLeaves(store, m) \cup CallsLeave(store, m)
      BY <1>11 DEF ParseSwallowed, CallsSwallowed
    <2>2. store' \in Store
      BY <2>1, LeavesAre DEF SessionTypeOK
    <2> QED
      BY <1>0, <1>11, <2>1, <2>2, SwallowIs DEF SessionTypeOK, FitsTool, Does
  <1>7. CASE Killed
    <2>1. store' \in Store
      BY <1>7, NoBuffersIs DEF Killed, SessionTypeOK
    <2>2. thread' \in [Clients -> Thread] /\ \A c \in Clients : thread'[c].pc = "idle"
      BY <1>7, NoThreadType DEF Killed, NoThread
    <2> QED
      BY <1>0, <1>7, <2>1, <2>2 DEF Killed, SessionTypeOK, FitsTool, Does
  <1>8. CASE Stopped
    <2>1. store' \in Store
      BY <1>8, FlushAllIs, FlushFailedIs, NoBuffersIs DEF Stopped, SessionTypeOK
    <2>2. mishaps' \in 0..MaxMishaps
      BY <1>0, <1>8 DEF Stopped, SessionTypeOK
    <2> QED
      BY <1>8, <2>1, <2>2 DEF Stopped, SessionTypeOK, FitsTool, Does
  <1>9. CASE UNCHANGED sessionVars
    BY <1>9 DEF sessionVars, SessionTypeOK, FitsTool, Does
  <1> QED
    BY <1>1, <1>2, <1>3, <1>4, <1>5, <1>6, <1>7, <1>8, <1>9, <1>10, <1>11
    DEF SessionNext

-----------------------------------------------------------------------------
(* A request at work is alone *)

\* What the invariant says of the request at work.
Good(c) ==
  /\ OnItsWay(c)
  /\ cached /\ ~marred /\ ~HalfDone(c) => Clean(store)
  /\ Does(c, "answer") /\ thread[c].tool \in {"index", "update"} /\ ~marred => Complete(store)

LEMMA WorkerIsAlone ==
  ASSUME SessionInv, ~astray, NEW c \in Clients, thread[c].pc \in Work \cup {"answer", "error"}
  PROVE  /\ lock = c /\ Good(c)
         /\ \A d \in Clients \ {c} : thread[d].pc \in {"idle", "queued"}
  <1>1. lock = c
    BY DEF SessionInv, LockKept
  <1>2. ASSUME NEW d \in Clients \ {c}
        PROVE  thread[d].pc \in {"idle", "queued"}
    <2>1. thread[d].pc \in Pc
      BY ThreadIs DEF SessionInv, SessionTypeOK
    <2>2. thread[d].pc \notin Work \cup {"answer", "error"}
      BY <1>1 DEF SessionInv, LockKept
    <2> QED
      BY <2>1, <2>2 DEF Pc
  <1>3. \A d \in Clients \ {c} : ~HalfDone(d)
    BY <1>2 DEF HalfDone, Does
  <1>4. Good(c)
    BY <1>3 DEF SessionInv, Good, RunsAreOnTheirWay, CacheIsHonest, SuccessIsComplete
  <1> QED
    BY <1>1, <1>2, <1>4

LEMMA AloneKeeps ==
  ASSUME ~astray', NEW c \in Clients, lock' = c, ~thread'[c].cancelled, Good(c)',
         \A d \in Clients \ {c} : /\ thread'[d].pc \in {"idle", "queued"}
                                  /\ ~thread'[d].cancelled
  PROVE  LockKept' /\ RunsAreOnTheirWay' /\ CacheIsHonest' /\ SuccessIsComplete'
  <1>1. LockKept'
    BY DEF LockKept, Work
  <1>2. \A d \in Clients \ {c} : OnItsWay(d)'
    BY DEF OnItsWay, HalfDone, Does
  <1>3. RunsAreOnTheirWay'
    BY <1>2 DEF RunsAreOnTheirWay, Good
  <1>4. CacheIsHonest'
    BY DEF CacheIsHonest, Good
  <1>5. SuccessIsComplete'
    BY DEF SuccessIsComplete, Good, Does
  <1> QED
    BY <1>1, <1>3, <1>4, <1>5

\* The steps that touch neither the graph nor a run.
LEMMA QuietKeeps ==
  ASSUME SessionInv, ~astray, UNCHANGED <<store, cached, marred>>,
         NEW c \in Clients, ~HalfDone(c),
         thread'[c].pc \notin {"parse", "calls", "after", "answer"},
         \A d \in Clients \ {c} : thread'[d] = thread[d]
  PROVE  RunsAreOnTheirWay' /\ CacheIsHonest' /\ SuccessIsComplete'
  <1>1. \A d \in Clients \ {c} : OnItsWay(d)' /\ (HalfDone(d) => HalfDone(d)')
    BY DEF SessionInv, RunsAreOnTheirWay, OnItsWay, HalfDone, Does, Unskipped
  <1>2. OnItsWay(c)'
    BY DEF OnItsWay, HalfDone, Does
  <1>3. RunsAreOnTheirWay'
    BY <1>1, <1>2 DEF RunsAreOnTheirWay
  <1>4. CacheIsHonest'
    BY <1>1 DEF SessionInv, CacheIsHonest
  <1>5. SuccessIsComplete'
    BY DEF SessionInv, SuccessIsComplete, Does
  <1> QED
    BY <1>3, <1>4, <1>5

-----------------------------------------------------------------------------
(* The steps of a thread *)

LEMMA CompleteFlush ==
  ASSUME NEW s \in Store, Clean(s), s.nodes \cap Modules # {}
  PROVE  Complete(FlushAll(s))
  <1>1. Complete(s) /\ s.relGroups = {} /\ s.nodeBuffer \subseteq {Project}
    BY ProjectAssumption DEF Clean
  <1> DEFINE t == FlushAll(s)
  <1>2. t.nodes = NodesOf(s) /\ t.rels = s.rels \cup {e \in s.relGroups : Matches(e, NodesOf(s))}
    BY FlushAllIs
  <1> HIDE DEF t
  <1>3. t.rels = s.rels
    BY <1>1, <1>2
  <1>4. t.nodes = Nodes /\ s.rels = Relationships
    BY <1>1, <1>2, NodesAre DEF Complete, NodesOf
  <1>5. Complete(t)
    BY <1>3, <1>4 DEF Complete
  <1> QED
    BY <1>5 DEF t

LEMMA WorkKeeps ==
  ASSUME SessionTypeOK, FitsTool, NEW c \in Clients, Good(c), Works(c)
  PROVE  Good(c)'
  <1>0. store \in Store /\ thread[c] \in Thread /\ thread[c].todo \subseteq Modules
    BY ThreadIs DEF SessionTypeOK
  <1>1. CASE RemoveProject(c) \/ Wipe(c)
    <2>1. PICK pc \in {"answer", "error"} : Moves(c, pc)
      BY <1>1 DEF RemoveProject, Wipe
    <2>2. thread'[c].pc = pc /\ thread'[c].tool \in {"delete", "wipe"}
      BY <1>1, <2>1, MovesIs, PcsAre DEF RemoveProject, Wipe, FitsTool, Does
    <2>3. ~HalfDone(c) /\ store' \in {DeleteProject(store), CleanDatabase(store)}
          /\ UNCHANGED <<cached, marred>>
      BY <1>1 DEF RemoveProject, Wipe, HalfDone, Does
    <2>4. Clean(store) => Clean(store')
      BY <1>0, <2>3, CleanStays
    <2> QED
      BY <2>2, <2>3, <2>4 DEF Good, OnItsWay, HalfDone, Does
  <1>2. CASE ReadEdges(c) \/ ReadGaps(c)
    <2>1. PICK pc \in {"answer", "gaps"} : Moves(c, pc)
      BY <1>2 DEF ReadEdges, ReadGaps
    <2>2. thread'[c].pc = pc /\ thread'[c].tool = "verdict"
      BY <1>2, <2>1, MovesIs, PcsAre DEF ReadEdges, ReadGaps, FitsTool, Does, Work
    <2>3. ~HalfDone(c) /\ UNCHANGED <<store, cached, marred>>
      BY <1>2 DEF ReadEdges, ReadGaps, HalfDone, Does
    <2> QED
      BY <2>2, <2>3 DEF Good, OnItsWay, HalfDone, Does
  <1>3. CASE Drop(c) \/ FlushBefore(c)
    <2>1. PICK pc \in {"before", "check"} : Moves(c, pc)
      BY <1>3 DEF Drop, FlushBefore
    <2>2. thread'[c].pc = pc
      BY <2>1, MovesIs, PcsAre DEF Work
    <2>3. ~HalfDone(c) /\ store' \in {DeleteProject(store), FlushAll(store)}
          /\ UNCHANGED <<cached, marred>>
      BY <1>3 DEF Drop, FlushBefore, HalfDone, Does
    <2>4. Clean(store) => Clean(store')
      BY <1>0, <2>3, CleanStays
    <2> QED
      BY <2>2, <2>3, <2>4 DEF Good, OnItsWay, HalfDone, Does
  <1>4. CASE Check(c)
    <2> DEFINE pc == IF CacheKept THEN "after" ELSE "parse"
               r == [thread[c] EXCEPT !.pc = pc, !.todo = Modules]
    <2>1. thread'[c] = r /\ store' = EnsureNodeBatch(store, Project) /\ UNCHANGED marred
          /\ ~HalfDone(c)
      BY <1>4 DEF Check, SessionTypeOK, HalfDone, Does
    <2>2. thread'[c].pc = pc /\ thread'[c].todo = Modules
      BY <1>0, <2>1 DEF Thread
    <2>3. ~HalfDone(c)'
      BY <2>2, ModulesAssumption DEF HalfDone, Does, pc
    <2>4. CASE CacheKept
      <3>1. cached /\ cached' /\ store.nodes \cap Modules # {}
        BY <1>4, <2>4 DEF Check, CacheKept
      <3>2. store'.nodes \cap Modules # {} /\ (~marred => Clean(store'))
        BY <1>0, <2>1, <3>1, EnsureNodeIs, NodesAre, CleanStays DEF Good
      <3> QED
        BY <2>1, <2>2, <2>3, <2>4, <3>1, <3>2 DEF Good, OnItsWay, Does
    <2>5. CASE ~CacheKept
      <3>1. ~cached'
        BY <1>4, <2>5 DEF Check
      <3>2. ParsedSoFar(store', Modules)
        BY <1>0, <2>1, EnsureNodeIs, NodesAre DEF ParsedSoFar
      <3> QED
        BY <2>2, <2>3, <2>5, <3>1, <3>2 DEF Good, OnItsWay, Does
    <2> QED
      BY <2>4, <2>5
  <1>5. CASE \E m \in Modules : ParseModule(c, m)
    <2>1. PICK m \in Modules : ParseModule(c, m)
      BY <1>5
    <2> DEFINE todo == thread[c].todo \ {m}
               r == [thread[c] EXCEPT !.todo = todo]
    <2>2. /\ thread'[c] = r /\ store' = Parsed(store, m) /\ UNCHANGED <<cached, marred>>
          /\ thread[c].pc = "parse" /\ m \in thread[c].todo
      BY <2>1 DEF ParseModule, SessionTypeOK, Does
    <2>3. /\ thread'[c].pc = "parse" /\ thread'[c].todo = todo
          /\ thread'[c].skipped = thread[c].skipped
      BY <1>0, <2>2 DEF Thread
    <2>4. ~cached' /\ (Unskipped(c) => ParsedSoFar(store', todo))
      BY <1>0, <2>2, ParsedIs DEF Good, OnItsWay, Does
    <2> QED
      BY <2>3, <2>4 DEF Good, OnItsWay, HalfDone, Does, Unskipped
  <1>6. CASE SaveHashes(c)
    <2> DEFINE todo == Modules \ thread[c].skipped
               pc == IF todo = {} THEN "after" ELSE "calls"
               r == [thread[c] EXCEPT !.pc = pc, !.todo = todo]
    <2>1. thread'[c] = r /\ store' = store /\ thread[c].pc = "parse" /\ thread[c].todo = {}
      BY <1>6 DEF SaveHashes, SessionTypeOK, Does
    <2>2. thread'[c].pc = pc /\ thread'[c].todo = todo /\ thread'[c].skipped = thread[c].skipped
      BY <1>0, <2>1 DEF Thread
    <2>3. HalfDone(c)' /\ ~Does(c, "parse")' /\ ~Does(c, "answer")'
      BY <2>2 DEF HalfDone, Does
    <2>4. ASSUME Unskipped(c)' PROVE ResolvedSoFar(store', thread'[c].todo)
      <3>1. thread[c].skipped = {} /\ thread'[c].todo = Modules
        BY <2>2, <2>4 DEF Unskipped
      <3>2. ParsedSoFar(store, {})
        BY <2>1, <3>1 DEF Good, OnItsWay, Unskipped, Does
      <3> QED
        BY <2>1, <3>1, <3>2 DEF ParsedSoFar, ResolvedSoFar, Nodes
    <2> QED
      BY <2>3, <2>4 DEF Good, OnItsWay
  <1>7. CASE \E m \in Modules : Resolve(c, m)
    <2>1. PICK m \in Modules : Resolve(c, m)
      BY <1>7
    <2> DEFINE pc == IF thread[c].todo = {m} THEN "after" ELSE "calls"
               todo == thread[c].todo \ {m}
               r == [thread[c] EXCEPT !.todo = todo, !.pc = pc]
    <2>2. /\ thread'[c] = r /\ store' = EnsureRelationshipBatch(store, <<"calls", m>>)
          /\ thread[c].pc = "calls" /\ m \in thread[c].todo
      BY <2>1 DEF Resolve, SessionTypeOK, Does
    <2>3. /\ thread'[c].pc = pc /\ thread'[c].todo = todo
          /\ thread'[c].skipped = thread[c].skipped
      BY <1>0, <2>2 DEF Thread
    <2>4. HalfDone(c)'
      BY <2>3 DEF HalfDone, Does
    <2>5. Unskipped(c) => ResolvedSoFar(store, thread[c].todo)
      BY <2>2 DEF Good, OnItsWay, HalfDone, Does
    <2>6. Unskipped(c) => ResolvedSoFar(store', todo)
      BY <1>0, <2>2, <2>5, ResolvedIs
    <2> HIDE DEF todo
    <2> QED
      BY <2>3, <2>4, <2>6 DEF Good, OnItsWay, Does, Unskipped
  <1>8. CASE FlushAfter(c)
    <2>1. /\ store' = FlushAll(store) /\ cached' = cached /\ thread[c].pc = "after"
          /\ Moves(c, "answer")
      BY <1>8 DEF FlushAfter, Does
    <2>2. thread'[c].pc = "answer"
      BY <2>1, MovesIs, PcsAre
    <2>3. CASE HalfDone(c)
      <3>1. ~marred' => Unskipped(c)
        BY <1>8, <2>3 DEF FlushAfter, Unskipped
      <3>2. ~marred' => Complete(store') /\ Clean(store')
        <4>1. ~marred' => ResolvedSoFar(store, {})
          BY <2>1, <2>3, <3>1 DEF Good, OnItsWay, HalfDone, Does
        <4> QED
          BY <1>0, <2>1, <4>1, FlushCompletes
      <3> QED
        BY <2>2, <3>2 DEF Good, OnItsWay, HalfDone, Does
    <2>4. CASE ~HalfDone(c)
      <3>1. ~marred' => ~marred
        BY <1>8, <2>4 DEF FlushAfter
      <3>2. cached /\ (marred \/ store.nodes \cap Modules # {})
        BY <2>1, <2>4 DEF Good, OnItsWay, Does
      <3>3. ~marred' => Complete(store') /\ Clean(store')
        BY <1>0, <2>1, <2>4, <3>1, <3>2, CompleteFlush, CleanStays DEF Good
      <3> QED
        BY <2>2, <3>3 DEF Good, OnItsWay, HalfDone, Does
    <2> QED
      BY <2>3, <2>4
  <1> QED
    BY <1>1, <1>2, <1>3, <1>4, <1>5, <1>6, <1>7, <1>8 DEF Works

\* A run that fails before it has saved the cache leaves nothing behind a good cache.
LEMMA FailKeeps ==
  ASSUME SessionTypeOK, NEW c \in Clients, Good(c), Fails(c)
  PROVE  Good(c)'
  <1>0. store \in Store
    BY DEF SessionTypeOK
  <1>1. thread'[c].pc = "error"
    BY MovesIs, PcsAre DEF Fails
  <1>2. cached' = cached /\ (~marred' => ~marred /\ ~HalfDone(c))
    BY DEF Fails
  <1>3. ASSUME cached, ~marred, ~HalfDone(c)
        PROVE  Clean(store')
    <2>1. Clean(store) /\ thread[c].pc \notin {"parse", "calls"}
      BY <1>3 DEF Good, OnItsWay, HalfDone, Does
    <2>2. store' \in {store, DeleteProject(store)} \cup FlushFailed(store)
                       \cup EnsureNodeFailed(store, Project)
      BY <2>1 DEF Fails, Failed, Does
    <2> QED
      BY <1>0, <2>1, <2>2, CleanStays
  <1> QED
    BY <1>1, <1>2, <1>3 DEF Good, OnItsWay, HalfDone, Does

\* A cache that is trusted unasked is either good or remembered as not.
LEMMA CountKeeps ==
  ASSUME SessionTypeOK, NEW c \in Clients, Good(c), CountFails(c)
  PROVE  Good(c)'
  <1>1. thread[c].pc = "check" /\ thread'[c].pc = "after" /\ thread'[c].todo = Modules
    BY CountFailsIs
  <1>2. ~HalfDone(c) /\ ~HalfDone(c)'
    BY <1>1, ModulesAssumption DEF HalfDone, Does
  <1>3. /\ store \in Store /\ cached /\ cached' /\ store' = EnsureNodeBatch(store, Project)
        /\ ~marred' => ~marred /\ CacheKept
    BY DEF CountFails, SessionTypeOK
  <1>4. ~marred' => Clean(store')
    BY <1>2, <1>3, CleanStays DEF Good
  <1>5. ~marred' => store'.nodes \cap Modules # {}
    BY <1>3, EnsureNodeIs, NodesAre DEF CacheKept
  <1> QED
    BY <1>1, <1>2, <1>3, <1>4, <1>5 DEF Good, OnItsWay, Does

\* A run that passes over a file has the cache unsaved, or is half done and not unskipped.
LEMMA SwallowKeeps ==
  ASSUME SessionTypeOK, NEW c \in Clients, Good(c), NEW m \in Modules,
         ParseSwallowed(c, m) \/ CallsSwallowed(c, m)
  PROVE  Good(c)'
  <1>1. ~Unskipped(c)' /\ ~Does(c, "answer")' /\ cached' = cached
    BY SwallowIs DEF Unskipped, Does, ParseSwallowed, CallsSwallowed
  <1>2. CASE thread[c].pc = "parse" /\ thread'[c].pc = "parse"
    <2>1. ~cached' /\ ~HalfDone(c)' /\ ~Does(c, "after")'
      BY <1>1, <1>2 DEF Good, OnItsWay, HalfDone, Does
    <2> QED
      BY <1>1, <2>1 DEF Good, OnItsWay
  <1>3. CASE thread'[c].pc = "calls" \/ (thread'[c].pc = "after" /\ thread'[c].todo = {})
    <2>1. HalfDone(c)' /\ ~Does(c, "parse")'
      BY <1>3 DEF HalfDone, Does
    <2> QED
      BY <1>1, <2>1 DEF Good, OnItsWay
  <1> QED
    BY <1>2, <1>3, SwallowIs

LEMMA Step == SessionInv /\ [SessionNext]_sessionVars => SessionInv'
  <1> SUFFICES ASSUME SessionInv, [SessionNext]_sessionVars
               PROVE  SessionInv'
    OBVIOUS
  <1>0. SessionTypeOK /\ FitsTool /\ SessionTypeOK' /\ FitsTool'
    BY StepTypes DEF SessionInv
  <1> DEFINE Rest == LockKept /\ RunsAreOnTheirWay /\ CacheIsHonest /\ SuccessIsComplete
  <1>1. CASE astray'
    BY <1>0, <1>1 DEF SessionInv, LockKept, RunsAreOnTheirWay, CacheIsHonest, SuccessIsComplete
  <1>2. ASSUME ~astray'
        PROVE  SessionInv'
    <2>1. ~astray
      <3>1. astray => astray'
        BY DEF SessionNext, sessionVars, Ask, Locked, Works, Answer, Cancel, Fails, CountFails,
               ParseSwallowed, CallsSwallowed, Killed, Stopped,
               RemoveProject, Wipe, ReadEdges, ReadGaps, Drop, FlushBefore, Check, ParseModule,
               SaveHashes, Resolve, FlushAfter, InThread
      <3> QED
        BY <1>2, <3>1
    <2>2. ASSUME NEW c \in Clients, NEW tool \in Tools, Ask(c, tool)
          PROVE  Rest'
      <3>1. UNCHANGED <<store, cached, lock, marred>> /\ ~HalfDone(c)
        BY <2>2 DEF Ask, HalfDone, Does
      <3>2. RunsAreOnTheirWay' /\ CacheIsHonest' /\ SuccessIsComplete'
        BY <1>0, <2>1, <2>2, <3>1, AskIs, QuietKeeps
      <3>3. LockKept'
        BY <1>0, <2>1, <2>2, <3>1, AskIs DEF SessionInv, LockKept, Work
      <3> QED
        BY <3>2, <3>3
    <2>3. ASSUME NEW c \in Clients, Locked(c)
          PROVE  Rest'
      <3> DEFINE pc == FirstStep[thread[c].tool]
      <3>1. /\ thread[c].pc = "queued" /\ lock = NoClient /\ lock' = c /\ Moves(c, pc)
            /\ UNCHANGED <<store, cached, marred>>
        BY <2>3 DEF Locked, Does
      <3>2. pc \in Pc /\ pc \notin {"parse", "calls", "after", "answer"}
        <4>1. thread[c].tool \in Tools
          BY <1>0, ThreadIs DEF SessionTypeOK
        <4> QED
          BY <4>1, FirstStepIs
      <3> HIDE DEF pc
      <3>3. /\ thread'[c].pc = pc /\ thread'[c].cancelled = thread[c].cancelled
            /\ \A d \in Clients \ {c} : thread'[d] = thread[d]
        BY <1>0, <3>1, <3>2, MovesIs
      <3>4. RunsAreOnTheirWay' /\ CacheIsHonest' /\ SuccessIsComplete'
        BY <2>1, <3>1, <3>2, <3>3, QuietKeeps DEF HalfDone, Does
      <3>5. LockKept'
        BY <2>1, <3>1, <3>3, NoClientAssumption DEF SessionInv, LockKept
      <3> QED
        BY <3>4, <3>5
    <2>4. ASSUME NEW c \in Clients,
                 \/ Works(c) \/ Fails(c) \/ CountFails(c)
                 \/ \E m \in Modules : ParseSwallowed(c, m) \/ CallsSwallowed(c, m)
          PROVE  Rest'
      <3>1. /\ thread[c].pc \in Work /\ lock' = lock
            /\ thread'[c].cancelled = thread[c].cancelled
            /\ \A d \in Clients \ {c} : thread'[d] = thread[d]
        <4>1. CASE Works(c)
          BY <1>0, <4>1, WorksMove
        <4>2. CASE Fails(c)
          BY <1>0, <4>2, MovesIs, PcsAre DEF Fails
        <4>3. CASE CountFails(c)
          BY <1>0, <4>3, CountFailsIs DEF CountFails, Work
        <4>4. CASE \E m \in Modules : ParseSwallowed(c, m) \/ CallsSwallowed(c, m)
          BY <1>0, <4>4, SwallowIs DEF ParseSwallowed, CallsSwallowed, Does, Work
        <4> QED
          BY <2>4, <4>1, <4>2, <4>3, <4>4
      <3>2. /\ lock' = c /\ Good(c) /\ ~thread'[c].cancelled
            /\ \A d \in Clients \ {c} : /\ thread'[d].pc \in {"idle", "queued"}
                                        /\ ~thread'[d].cancelled
        BY <2>1, <3>1, WorkerIsAlone DEF SessionInv, LockKept
      <3>3. Good(c)'
        BY <1>0, <2>4, <3>2, WorkKeeps, FailKeeps, CountKeeps, SwallowKeeps
      <3> QED
        BY <1>2, <3>2, <3>3, AloneKeeps
    <2>5. ASSUME NEW c \in Clients, Answer(c)
          PROVE  Rest'
      <3>1. /\ Turns(c, NoThread) /\ UNCHANGED <<store, cached, marred>>
            /\ thread[c].pc \in {"answer", "error"}
        BY <2>5 DEF Answer, Turns
      <3>2. ~HalfDone(c)
        BY <3>1 DEF HalfDone, Does
      <3>3. RunsAreOnTheirWay' /\ CacheIsHonest' /\ SuccessIsComplete'
        BY <1>0, <2>1, <3>1, <3>2, AnswerIs, QuietKeeps
      <3>4. \A d \in Clients \ {c} : thread[d].pc \in {"idle", "queued"}
        BY <2>1, <3>1, WorkerIsAlone
      <3>5. LockKept'
        BY <1>0, <2>1, <3>1, <3>4, AnswerIs DEF SessionInv, LockKept, Work
      <3> QED
        BY <3>3, <3>5
    <2>6. ASSUME NEW c \in Clients, Cancel(c)
          PROVE  Rest'
      <3>1. Turns(c, NoThread) /\ thread[c].pc = "queued" /\ lock' = lock
        BY <1>0, <1>2, <2>6, CancelIs
      <3>2. UNCHANGED <<store, cached, marred>>
        BY <2>6 DEF Cancel
      <3>3. ~HalfDone(c)
        BY <3>1 DEF HalfDone, Does
      <3>4. RunsAreOnTheirWay' /\ CacheIsHonest' /\ SuccessIsComplete'
        BY <1>0, <2>1, <3>1, <3>2, <3>3, AnswerIs, QuietKeeps
      <3>5. LockKept'
        BY <1>0, <2>1, <3>1, AnswerIs DEF SessionInv, LockKept, Work
      <3> QED
        BY <3>4, <3>5
    <2>7. CASE Killed
      <3>1. /\ \A d \in Clients : thread'[d].pc = "idle" /\ ~thread'[d].cancelled
            /\ store' = NoBuffers(store) /\ cached' = cached
        BY <2>7 DEF Killed, NoThread
      <3>2. ~marred' => ~marred /\ \A d \in Clients : ~HalfDone(d)
        BY <2>7 DEF Killed
      <3>3. CacheIsHonest'
        <4>1. store \in Store
          BY <1>0 DEF SessionTypeOK
        <4> QED
          BY <2>1, <3>1, <3>2, <4>1, CleanStays DEF SessionInv, CacheIsHonest
      <3>4. LockKept' /\ RunsAreOnTheirWay' /\ SuccessIsComplete'
        BY <3>1 DEF LockKept, RunsAreOnTheirWay, OnItsWay, SuccessIsComplete, HalfDone, Does, Work
      <3> QED
        BY <1>0, <3>3, <3>4 DEF SessionInv
    <2>8. CASE Stopped
      <3>1. /\ \A d \in Clients : thread[d].pc = "idle"
            /\ UNCHANGED <<cached, lock, thread, marred>>
            /\ store' = FlushAll(store) \/ \E s \in FlushFailed(store) : store' = NoBuffers(s)
        BY <2>8 DEF Stopped, Does
      <3>2. CacheIsHonest'
        <4>1. \A d \in Clients : ~HalfDone(d)
          BY <3>1 DEF HalfDone, Does
        <4>2. Clean(store) => Clean(store')
          BY <1>0, <3>1, CleanStays, FlushFailedIs DEF SessionTypeOK
        <4> QED
          BY <2>1, <3>1, <4>1, <4>2 DEF SessionInv, CacheIsHonest
      <3>3. LockKept'
        BY <2>1, <3>1 DEF SessionInv, LockKept, Work
      <3>4. RunsAreOnTheirWay' /\ SuccessIsComplete'
        BY <3>1 DEF RunsAreOnTheirWay, OnItsWay, SuccessIsComplete, HalfDone, Does
      <3> QED
        BY <1>0, <3>2, <3>3, <3>4 DEF SessionInv
    <2>9. CASE UNCHANGED sessionVars
      BY <1>0, <2>9 DEF sessionVars, SessionInv, LockKept, RunsAreOnTheirWay, OnItsWay,
                        CacheIsHonest, SuccessIsComplete, HalfDone, Does, Unskipped
    <2> QED
      BY <1>0, <2>2, <2>3, <2>4, <2>5, <2>6, <2>7, <2>8, <2>9 DEF SessionNext, SessionInv
  <1> QED
    BY <1>1, <1>2

-----------------------------------------------------------------------------
(* The theorems *)

LEMMA SessionInvariant == SessionSpec => []SessionInv
  BY InitSessionInv, Step, PTL DEF SessionSpec

\* Every variable of the sessions keeps its type.
THEOREM SessionTypes == SessionSpec => []SessionTypeOK
  BY SessionInvariant, PTL DEF SessionInv

\* An update that is said to have succeeded has left the whole repository in the graph, whatever
\* was asked, failed and was stopped before, short of what marred and astray remember
\* (mcp/tools.py, graph_updater.py run).
THEOREM SuccessComplete == SessionSpec => []SuccessIsComplete
  BY SessionInvariant, PTL DEF SessionInv

\* Between the two reads of a verdict nothing changes in the graph: the one that reads holds the
\* lock, and neither its read nor its failure writes (mcp/tools.py flow_verdict).
THEOREM VerdictConsistent == SessionSpec => VerdictSeesOneGraph
  <1> DEFINE SameGraph == store'.nodes = store.nodes /\ store'.rels = store.rels
  <1>1. ASSUME SessionInv, [SessionNext]_sessionVars, ~astray,
               NEW c \in Clients, Does(c, "gaps")
        PROVE  SameGraph
    <2>1. /\ store \in Store /\ thread[c].pc = "gaps"
          /\ \A d \in Clients \ {c} : thread[d].pc \in {"idle", "queued"}
      BY <1>1, WorkerIsAlone DEF SessionInv, SessionTypeOK, Does, Work
    <2>2. ASSUME NEW d \in Clients, Works(d) \/ Fails(d) \/ CountFails(d)
          PROVE  SameGraph
      <3>1. d = c
        BY <1>1, <2>1, <2>2, WorksMove DEF SessionInv, Fails, CountFails, Does, Work
      <3>2. store' = store
        BY <2>1, <2>2, <3>1 DEF Works, CountFails, Fails, Failed, Does, RemoveProject, Wipe, ReadEdges, ReadGaps, Drop,
           FlushBefore, Check, ParseModule, SaveHashes, Resolve, FlushAfter
      <3> QED
        BY <3>2
    <2>3. CASE Killed
      BY <2>1, <2>3, NoBuffersIs DEF Killed
    <2>4. ~Stopped
      BY <2>1 DEF Stopped, Does
    <2>5. ASSUME NEW d \in Clients,
                 (\E tool \in Tools : Ask(d, tool)) \/ Locked(d) \/ Answer(d) \/ Cancel(d)
          PROVE  SameGraph
      BY <2>5 DEF Ask, Locked, Answer, Cancel
    <2>6. CASE UNCHANGED sessionVars
      BY <2>6 DEF sessionVars
    <2>7. \A d \in Clients, m \in Modules : ~ParseSwallowed(d, m) /\ ~CallsSwallowed(d, m)
      BY <2>1 DEF ParseSwallowed, CallsSwallowed, Does
    <2> QED
      BY <1>1, <2>2, <2>3, <2>4, <2>5, <2>6, <2>7 DEF SessionNext
  <1>2. SessionInv /\ [SessionNext]_sessionVars
          => [~astray /\ (\E c \in Clients : Does(c, "gaps")) => SameGraph]_sessionVars
    BY <1>1
  <1> QED
    BY <1>2, SessionInvariant, PTL DEF SessionSpec, VerdictSeesOneGraph
=============================================================================
