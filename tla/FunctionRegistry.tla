-------------------------- MODULE FunctionRegistry --------------------------
(***************************************************************************)
(* The registry of every qualified name (src/codebase_rag/                 *)
(* function_registry.py) and the indices beside it, through the events of  *)
(* a long-lived updater: remove_file_from_state takes a file's names out,  *)
(* its parse registers and inserts them anew, and the call pass then looks *)
(* names up by what they end with.                                         *)
(*                                                                         *)
(* A qualified name is its natural name, a sequence of segments, with the  *)
(* line and the column a duplicate is told apart by (0: not named).  Files *)
(* may share a prefix, so that a name is taken by another file's twin.     *)
(* Types, properties, abstract markers and callable parameters are left    *)
(* out, and so is the order of what is found.                              *)
(***************************************************************************)
EXTENDS Naturals, Sequences, SequencesExt, FiniteSets

CONSTANTS
  Definitions, \* records: file, base (the natural name), leaf (the name it is filed under), line, col
  Endings,    \* what is looked up, sequences of segments
  MaxFileEvents  \* bound: events that touch a file

ASSUME DefinitionsAssumption ==
  \A d \in Definitions : /\ d.base \in Seq(STRING) /\ d.base # <<>> /\ d.leaf \in STRING
                         /\ d.line \in Nat \ {0} /\ d.col \in Nat \ {0}
ASSUME EndingsAssumption == Endings \subseteq Seq(STRING) \ {<<>>}
ASSUME RegistryBounds == MaxFileEvents \in Nat

VARIABLES
  entries,    \* _entries
  trie,       \* root: the paths that are there, and those that end a name
  lookup,     \* _simple_name_lookup: pairs of a simple name and a name
  found,      \* _ending_with_cache
  duplicates, \* _duplicates: a natural name and its variants
  columns,    \* _variant_columns
  named,      \* the definitions registered now, and the name each was given
  work,       \* definitions of the file whose event is under way
  events,     \* events so far
  orphaned    \* history: natural names that were taken out while a variant of them stayed

registryVars == <<entries, trie, lookup, found, duplicates, columns, named, work, events, orphaned>>

Natural(base) == [base |-> base, line |-> 0, col |-> 0]

Names == UNION {{Natural(d.base), [base |-> d.base, line |-> d.line, col |-> 0],
                 [base |-> d.base, line |-> d.line, col |-> d.col]} : d \in Definitions}

PathsTo(n) == {n} \cup {Natural(SubSeq(n.base, 1, i)) : i \in 1..(Len(n.base) - 1)}

RegistryTypeOK ==
  /\ entries \subseteq Names
  /\ trie.ends \subseteq trie.nodes /\ trie.nodes \subseteq UNION {PathsTo(n) : n \in Names}
  /\ lookup \subseteq ({<<d.leaf>> : d \in Definitions} \cup {<<Last(n.base)>> : n \in Names}) \X Names
  /\ DOMAIN found \subseteq Endings
  /\ DOMAIN duplicates \subseteq Names /\ DOMAIN columns \subseteq Names
  /\ DOMAIN named \subseteq Definitions /\ work \subseteq Definitions
  /\ events \in 0..MaxFileEvents

RegistryInit ==
  /\ entries = {} /\ trie = [nodes |-> {}, ends |-> {}] /\ lookup = {} /\ found = << >>
  /\ duplicates = << >> /\ columns = << >>
  /\ named = << >> /\ work = {} /\ events = 0 /\ orphaned = {}

Only(f, keys) == [k \in DOMAIN f \cap keys |-> f[k]]
With(f, key, value) == [k \in DOMAIN f \cup {key} |-> IF k = key THEN value ELSE f[k]]

\* qn.endswith("." + suffix).  A marked name ends with no suffix that anybody looks up.
EndsWith(n, suffix) ==
  n.line = 0 /\ Len(n.base) > Len(suffix) /\ IsSuffix(suffix, n.base)

\* What _invalidate_ending_with_cache drops for a name: its last segment and its dotted suffixes.
InvalidatesSimple(n, suffix) == EndsWith(n, suffix) /\ Len(suffix) = 1
Invalidates(n, suffix) == EndsWith(n, suffix)

StillFound(names) ==
  Only(found, {s \in Endings : \A n \in names : ~ Invalidates(n, s)})

-----------------------------------------------------------------------------
(* Registering a definition *)

\* register_unique_qn: the natural name, or with the line, or with the line and the column.
Plain(d) == [base |-> d.base, line |-> d.line, col |-> 0]
Claimed(d) == IF Plain(d) \in DOMAIN columns THEN columns[Plain(d)] ELSE d.col
VariantByLine(d) == Plain(d)
Variant(d) == IF Claimed(d) = d.col THEN Plain(d) ELSE [Plain(d) EXCEPT !.col = d.col]
UniqueName(d) == IF Natural(d.base) \in entries THEN Variant(d) ELSE Natural(d.base)

Bucket(n) == IF n \in DOMAIN duplicates THEN duplicates[n] ELSE {n}

RegisterUnique(d) ==
  IF Natural(d.base) \notin entries
  THEN UNCHANGED <<columns, duplicates>>
  ELSE /\ columns' = With(columns, Plain(d), Claimed(d))
       /\ duplicates' = With(duplicates, Natural(d.base), Bucket(Natural(d.base)) \cup {Variant(d)})

\* insert, and the parser's own entry in the lookup, which no cached answer is dropped for.
Filed(d, n) == {<<<<d.leaf>>, n>>} \cup (IF n.line = 0 THEN {<<<<Last(n.base)>>, n>>} ELSE {})

Define(d) ==
  /\ d \in work
  /\ LET n == UniqueName(d) IN
     /\ entries' = entries \cup {n}
     /\ trie' = [nodes |-> trie.nodes \cup PathsTo(n), ends |-> trie.ends \cup {n}]
     /\ lookup' = lookup \cup Filed(d, n)
     /\ found' = StillFound({n})
     /\ named' = With(named, d, n)
  /\ RegisterUnique(d)
  /\ work' = work \ {d}
  /\ UNCHANGED <<events, orphaned>>

-----------------------------------------------------------------------------
(* Taking a file out *)

\* A path goes when it has no children, whatever it ends.
CleanedOfLeaves(gone) ==
  LET ends == trie.ends \ gone
      kept == {p \in trie.nodes : (\E n \in gone : p \in PathsTo(n))
                                    => \E n \in ends : n # p /\ p \in PathsTo(n)} IN
  [nodes |-> kept, ends |-> ends \cap kept]

\* _cleanup_trie_path after each name: a path goes when nothing but the names taken out is
\* reached through it.
Cleaned(gone) ==
  LET ends == trie.ends \ gone IN
  [nodes |-> {p \in trie.nodes : (\E n \in gone : p \in PathsTo(n))
                                   => \E n \in ends : p \in PathsTo(n)},
   ends |-> ends]

\* The buckets lose the names taken out, those of one name are given up; a claim is free again.
Forget(gone) ==
  /\ duplicates' = Only([n \in DOMAIN duplicates |-> duplicates[n] \ gone],
                        {n \in Names \ gone : Cardinality(Bucket(n) \ gone) > 1})
  /\ columns' = Only(columns, Names \ gone)

Of(file) == {d \in Definitions : d.file = file}
RegistryFiles == {d.file : d \in Definitions}

\* remove_file_from_state: what is recorded for another file stays.
FileEvent(file) ==
  /\ work = {} /\ events < MaxFileEvents
  /\ events' = events + 1
  /\ LET gone   == {named[d] : d \in DOMAIN named \cap Of(file)}
                     \ {named[d] : d \in DOMAIN named \ Of(file)}
         stay == entries \ gone IN
     /\ entries' = stay
     /\ trie' = Cleaned(gone)
     /\ lookup' = {p \in lookup : p[2] \notin gone}
     /\ found' = StillFound(gone)
     /\ Forget(gone)
     /\ named' = Only(named, Definitions \ Of(file))
     /\ orphaned' = orphaned \cup {n \in gone : n.line = 0 /\ \E m \in stay : m.base = n.base}
  /\ work' \in SUBSET Of(file)

-----------------------------------------------------------------------------
(* Looking up *)

\* find_ending_with: the lookup for a simple name, a scan for a dotted one, and the answer is kept.
Ending(suffix) ==
  IF Len(suffix) = 1 THEN {n \in Names : <<suffix, n>> \in lookup}
  ELSE {n \in entries : EndsWith(n, suffix)}

FindEndingWith(suffix) ==
  /\ work = {} /\ suffix \notin DOMAIN found
  /\ found' = With(found, suffix, Ending(suffix))
  /\ UNCHANGED <<entries, trie, lookup, duplicates, columns, named, work, events, orphaned>>

RegistryNext ==
  \/ \E d \in Definitions : Define(d)
  \/ \E file \in RegistryFiles : FileEvent(file)
  \/ \E suffix \in Endings : FindEndingWith(suffix)

RegistrySpec == RegistryInit /\ [][RegistryNext]_registryVars

-----------------------------------------------------------------------------
(* Properties *)

\* Of the names that end with a suffix, a kept answer has exactly those registered now: no event
\* leaves a removed one behind or hides a new one (function_registry.py
\* _invalidate_ending_with_cache).  A duplicate's marked name and a name with a signature do not
\* end with the name they are filed under: for them the code does not keep this.
FindsWhatIsThere ==
  \A s \in DOMAIN found :
    {n \in found[s] : EndsWith(n, s)} = {n \in entries : EndsWith(n, s)}

\* Two definitions never share a name, whatever was indexed and taken out before, unless they have
\* the same line and column too (function_registry.py register_unique_qn).
NamesAreUnique ==
  \A d, e \in DOMAIN named : named[d] = named[e] => Plain(d) = Plain(e) /\ d.col = e.col

\* The indices tell the same as the entries: the trie has their paths and no others, a claim on a
\* line is held by a name that is there, and the variants of a name are all found from it - unless
\* the name itself was once taken out from under them (function_registry.py __delitem__).
IndicesAgree ==
  /\ trie.ends = entries /\ trie.nodes = UNION {PathsTo(n) : n \in entries}
  /\ DOMAIN columns \subseteq entries
  /\ \A n \in entries : n.line = 0 /\ n \notin orphaned
                          => Bucket(n) = {m \in entries : m.base = n.base}

=============================================================================
