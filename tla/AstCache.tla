------------------------------ MODULE AstCache ------------------------------
(***************************************************************************)
(* The parsed trees a long-lived updater keeps: BoundedASTCache            *)
(* (src/codebase_rag/ast_cache.py) with its loader, beside the cache of    *)
(* the captures, the function, class and call nodes found in a tree        *)
(* (parsers/definition_processor.py).  An event on a file drops its tree   *)
(* and parses it anew; then the call pass goes through every parsed file,  *)
(* loads its tree and reads its captures, and type inference loads the     *)
(* trees of other files meanwhile.  The files change at any time.          *)
(*                                                                         *)
(* A tree is the version of the file it was parsed from.  Every entry      *)
(* weighs the same: what is measured is the tuple and not the tree.  The   *)
(* call pass's two loops over the files are one.                           *)
(***************************************************************************)
EXTENDS Naturals, Sequences, SequencesExt

CONSTANTS
  Sources,    \* source files
  MaxEntries, \* entries of the cache
  Weights,    \* entries its estimate of the memory may allow
  Divisor,    \* CACHE_EVICTION_DIVISOR
  MaxWrites   \* bound: changes of the files

ASSUME CacheAssumption ==
  Sources # {} /\ MaxEntries \in Nat /\ Weights \subseteq Nat /\ Divisor \in Nat \ {0}
ASSUME CacheBounds == MaxWrites \in Nat

VARIABLES
  weight,   \* max_memory_bytes, in entries; never changes
  contents, \* each file: its version, whether it is there and holds a function, class or call
  asts,     \* the cache, the least recently used first: files, trees, and whether they hold nodes
  captures, \* _func_class_captures_cache: the tree the nodes are of (0: none)
  parsed,   \* _parsed_files
  handled,  \* each file: its version when its last event was handled
  toVisit,  \* files the call pass has still to visit
  read,     \* the last load: the entry (tree 0: none) and the tree of the nodes read with it
  writes    \* changes so far

cacheVars == <<weight, contents, asts, captures, parsed, handled, toVisit, read, writes>>

Version == 0..MaxWrites
Entry == [file : Sources, tree : Version, rich : BOOLEAN]

CacheTypeOK ==
  /\ weight \in Weights
  /\ contents \in [Sources -> [version : Version, there : BOOLEAN, rich : BOOLEAN]]
  /\ asts \in Seq(Entry) /\ Len(asts) <= MaxEntries
  /\ captures \in [Sources -> Version]
  /\ parsed \subseteq Sources /\ toVisit \subseteq parsed
  /\ handled \in [Sources -> Version]
  /\ read \in [entry : Entry, nodes : Version]
  /\ writes \in Version

CacheInit ==
  /\ weight \in Weights
  /\ contents = [f \in Sources |-> [version |-> 0, there |-> FALSE, rich |-> FALSE]]
  /\ asts = <<>> /\ captures = [f \in Sources |-> 0]
  /\ parsed = {} /\ handled = [f \in Sources |-> 0] /\ toVisit = {}
  /\ read = [entry |-> CHOOSE e \in Entry : e.tree = 0 /\ ~e.rich, nodes |-> 0]
  /\ writes = 0

\* Every version has a number of its own; the file may be written or removed.
ChangeFile(f) ==
  /\ writes < MaxWrites
  /\ writes' = writes + 1
  /\ \E there, rich \in BOOLEAN :
       contents' = [contents EXCEPT ![f] = [version |-> writes + 1, there |-> there,
                                    rich |-> there /\ rich]]
  /\ UNCHANGED <<weight, asts, captures, parsed, handled, toVisit, read>>

-----------------------------------------------------------------------------
(* BoundedASTCache *)

Has(cache, f) == \E i \in 1..Len(cache) : cache[i].file = f
Place(cache, f) == CHOOSE i \in 1..Len(cache) : cache[i].file = f
Cached(f) == Has(asts, f)
EntryOf(f) == asts[Place(asts, f)]
Dropped(cache, f) == IF Has(cache, f) THEN RemoveAt(cache, Place(cache, f)) ELSE cache

\* _enforce_limits: the oldest go while there are too many, and a share when they weigh too much.
Oldest(cache, n) == SubSeq(cache, n + 1, Len(cache))

Fit(cache) ==
  LET few == IF Len(cache) > MaxEntries THEN Oldest(cache, Len(cache) - MaxEntries) ELSE cache
      share == Len(few) \div Divisor IN
  IF Len(few) > weight THEN Oldest(few, IF share > 0 THEN share ELSE 1) ELSE few

Put(cache, entry) == Fit(Append(Dropped(cache, entry.file), entry))

\* load: a hit is the most recently used; a miss parses what is on disk now, and the captures of the
\* tree that went are dropped.
ParsedNow(f) == [file |-> f, tree |-> contents[f].version, rich |-> contents[f].rich]
NoEntry(f) == [file |-> f, tree |-> 0, rich |-> FALSE]

Loaded(f) == IF Cached(f) THEN EntryOf(f) ELSE IF contents[f].there THEN ParsedNow(f) ELSE NoEntry(f)

KeepCaptures(f) == UNCHANGED captures
DropCaptures(f) == captures' = [captures EXCEPT ![f] = 0]

Load(f) ==
  \/ Cached(f) /\ asts' = Append(Dropped(asts, f), EntryOf(f)) /\ UNCHANGED captures
  \/ ~Cached(f) /\ contents[f].there /\ asts' = Put(asts, ParsedNow(f)) /\ DropCaptures(f)
  \/ ~Cached(f) /\ ~contents[f].there /\ UNCHANGED <<asts, captures>>

-----------------------------------------------------------------------------
(* The updater *)

\* What remove_file_from_state leaves of the cache.
WithFile(f) == asts
WithoutFile(f) == Dropped(asts, f)

\* remove_file_from_state, then process_file: nodes are kept when there are any.
HandleEvent(f) ==
  /\ toVisit = {} /\ handled[f] # contents[f].version
  /\ handled' = [handled EXCEPT ![f] = contents[f].version]
  /\ IF contents[f].there
     THEN /\ asts' = Put(WithoutFile(f), ParsedNow(f))
          /\ captures' = IF contents[f].rich THEN [captures EXCEPT ![f] = contents[f].version] ELSE captures
          /\ parsed' = parsed \cup {f}
     ELSE /\ asts' = WithoutFile(f)
          /\ parsed' = parsed \ {f}
          /\ UNCHANGED captures
  /\ toVisit' = parsed'
  /\ UNCHANGED <<weight, contents, read, writes>>

\* The nodes kept for the file, or else those found in the tree.
NodesOf(f) == IF captures'[f] # 0 THEN captures'[f] ELSE Loaded(f).tree

\* _process_function_calls: a file whose tree cannot be loaded is passed over.
Visit(f) ==
  /\ f \in toVisit
  /\ toVisit' = toVisit \ {f}
  /\ Load(f)
  /\ read' = [entry |-> Loaded(f), nodes |-> IF Loaded(f).tree = 0 THEN 0 ELSE NodesOf(f)]
  /\ UNCHANGED <<weight, contents, parsed, handled, writes>>

\* Type inference, in the middle of the call pass.
Infer(f) ==
  /\ toVisit # {}
  /\ Load(f)
  /\ read' = [entry |-> Loaded(f), nodes |-> Loaded(f).tree]
  /\ UNCHANGED <<weight, contents, parsed, handled, toVisit, writes>>

CacheNext == \E f \in Sources : ChangeFile(f) \/ HandleEvent(f) \/ Visit(f) \/ Infer(f)

CacheSpec == CacheInit /\ [][CacheNext]_cacheVars

-----------------------------------------------------------------------------
(* Properties *)

\* Whatever is evicted, even an entry at once, a load of a file that is there has a tree, it is not
\* older than what the last handled event parsed or removed, and the nodes read with it are of that
\* tree when it holds any (ast_cache.py load, graph_updater.py _load_ast_from_disk).
LoadsAreCurrent ==
  [][\A f \in Sources :
       read' # read /\ read'.entry.file = f =>
         IF read'.entry.tree = 0 THEN ~contents[f].there
         ELSE /\ read'.entry.tree >= handled[f]
              /\ read'.entry.rich => read'.nodes = read'.entry.tree]_cacheVars

=============================================================================
