----------------------------- MODULE Duplicates -----------------------------
(***************************************************************************)
(* The report of similar functions (src/codebase_rag/duplicates.py).  The  *)
(* entries of a project, one for each fingerprint, are compared in pairs   *)
(* that share one of their rarest branches; the groups are the maximal     *)
(* cliques of the pairs that clear the threshold, found by Bron-Kerbosch   *)
(* with a pivot and within a budget.  From every group the definitions     *)
(* that lie inside another one of it are taken out.                        *)
(*                                                                         *)
(* A branch fingerprint is a number, and where a definition lies is data:  *)
(* `within' has the pairs of a definition and one around it.               *)
(***************************************************************************)
EXTENDS Integers, FiniteSets, SequencesExt

CONSTANT Scans \* the projects and limits that are looked at

\* entries are numbered in the order they were read.
IsScan(s) ==
  /\ s.branches \in Seq(SUBSET Nat) /\ \A i \in DOMAIN s.branches : IsFiniteSet(s.branches[i])
  /\ DOMAIN s.members = DOMAIN s.branches
  /\ \A i \in DOMAIN s.members : s.members[i] # {} /\ IsFiniteSet(s.members[i])
  /\ \A i, j \in DOMAIN s.members : i # j => s.members[i] \cap s.members[j] = {}
  /\ \A e \in s.within : e[1] # e[2] /\ \A f \in s.within : e[2] = f[1] => <<e[1], f[2]>> \in s.within
  /\ s.share \in Nat /\ s.outOf \in Nat /\ 0 < s.share /\ s.share <= s.outOf \* the threshold
  /\ s.maxPairs \in Nat /\ s.maxGroups \in Nat

ASSUME ScansAssumption == \A s \in Scans : IsScan(s)

VARIABLES
  scan,
  phase,      \* what is looked for
  pairs,      \* candidates
  edges,      \* the pairs that qualify
  frames,     \* the calls of expand, the innermost last
  cliques,    \* found; then those that are left to emit
  maximal,    \* history: the cliques that were kept
  truncated,  \* whether the pairs or the cliques were cut off
  groups      \* the sets of members that are reported as similar

dupVars == <<scan, phase, pairs, edges, frames, cliques, maximal, truncated, groups>>

Entries == DOMAIN scan.branches

DupTypeOK ==
  /\ phase \in {"pairs", "edges", "cliques", "groups", "done"}
  /\ pairs \subseteq SUBSET Entries /\ edges \subseteq pairs
  /\ frames \in Seq([taken : SUBSET Entries, candidates : SUBSET Entries,
                     excluded : SUBSET Entries, todo : SUBSET Entries, entered : BOOLEAN])
  /\ cliques \in Seq(SUBSET Entries) /\ maximal \in Seq(SUBSET Entries)
  /\ truncated \in BOOLEAN
  /\ \A g \in groups : g \subseteq UNION {scan.members[i] : i \in Entries}

DupInit ==
  /\ scan \in Scans /\ phase = "pairs"
  /\ pairs = {} /\ edges = {} /\ frames = <<>> /\ cliques = <<>> /\ maximal = <<>>
  /\ truncated = FALSE /\ groups = {}

-----------------------------------------------------------------------------
(* Candidates *)

Frequency(b) == Cardinality({i \in Entries : b \in scan.branches[i]})

\* The canonical order: the rarest first.
Rarer(b, c) == Frequency(b) < Frequency(c) \/ (Frequency(b) = Frequency(c) /\ b < c)

\* The branches that entries of this size share at least, to clear the threshold.
Required(size) == (scan.share * size + scan.outOf - 1) \div scan.outOf

Rank(i, b) == Cardinality({c \in scan.branches[i] : Rarer(c, b)})

PrefixTooShort(i) ==
  LET size == Cardinality(scan.branches[i]) IN
  {b \in scan.branches[i] : Rank(i, b) < size - Required(size)}

Prefix(i) ==
  LET size == Cardinality(scan.branches[i]) IN
  {b \in scan.branches[i] : Rank(i, b) < size - Required(size) + 1}

TwoOf(S) == {p \in SUBSET S : Cardinality(p) = 2}

CandidatePairs ==
  {p \in TwoOf(Entries) : \E b \in UNION {Prefix(i) : i \in p} : \A i \in p : b \in Prefix(i)}

\* Which pairs fit into the budget depends on the order of the branches.
FindPairs ==
  /\ phase = "pairs"
  /\ LET all == CandidatePairs IN
     \E some \in SUBSET all :
       /\ Cardinality(some) = IF Cardinality(all) <= scan.maxPairs THEN Cardinality(all)
                                                                     ELSE scan.maxPairs
       /\ pairs' = some /\ truncated' = (some # all)
  /\ phase' = "edges"
  /\ UNCHANGED <<scan, edges, frames, cliques, maximal, groups>>

-----------------------------------------------------------------------------
(* Edges *)

Within(m, o) == <<m, o>> \in scan.within

\* One of them lies in the other, whichever members are taken.
OnlyNested(i, j) ==
  \A m \in scan.members[i], o \in scan.members[j] : Within(m, o) \/ Within(o, m)

Clears(i, j) ==
  LET A == scan.branches[i]  B == scan.branches[j] IN
  /\ A \cup B # {}
  /\ Cardinality(A \cap B) * scan.outOf >= scan.share * Cardinality(A \cup B)

Qualifies(p) == \A i, j \in p : i # j => Clears(i, j) /\ ~OnlyNested(i, j)

KeepEdges ==
  /\ phase = "edges"
  /\ edges' = {p \in pairs : Qualifies(p)}
  /\ phase' = "cliques"
  /\ frames' = << [taken |-> {}, candidates |-> UNION edges', excluded |-> {},
                   todo |-> {}, entered |-> FALSE] >>
  /\ UNCHANGED <<scan, pairs, cliques, maximal, truncated, groups>>

-----------------------------------------------------------------------------
(* Cliques *)

Neighbours(v) == {w \in Entries : w # v /\ {v, w} \in edges}

Frame == frames[Len(frames)]
Calling == phase = "cliques" /\ frames # <<>>
Returned == SubSeq(frames, 1, Len(frames) - 1)

\* A clique beyond the cap ends the search.
Found ==
  /\ Calling /\ ~Frame.entered /\ Frame.candidates = {} /\ Frame.excluded = {}
  /\ cliques' = IF Cardinality(Frame.taken) > 1 THEN Append(cliques, Frame.taken) ELSE cliques
  /\ frames' = IF Len(cliques') > scan.maxGroups THEN <<>> ELSE Returned
  /\ UNCHANGED <<scan, phase, pairs, edges, maximal, truncated, groups>>

\* The lowest of those with the most neighbours among the candidates.
IsPivot(p) ==
  LET among(v) == Cardinality(Neighbours(v) \cap Frame.candidates) IN
  \A v \in Frame.candidates \cup Frame.excluded :
    among(v) < among(p) \/ (among(v) = among(p) /\ p <= v)

Enter ==
  /\ Calling /\ ~Frame.entered /\ Frame.candidates \cup Frame.excluded # {}
  /\ \E p \in Frame.candidates \cup Frame.excluded :
       /\ IsPivot(p)
       /\ frames' = [frames EXCEPT ![Len(frames)].todo = Frame.candidates \ Neighbours(p),
                                   ![Len(frames)].entered = TRUE]
  /\ UNCHANGED <<scan, phase, pairs, edges, cliques, maximal, truncated, groups>>

\* Without the excluded vertices a clique is found again inside a larger one.
Forgets(v) == [Frame EXCEPT !.candidates = @ \ {v}, !.todo = @ \ {v}]
Excludes(v) == [Frame EXCEPT !.candidates = @ \ {v}, !.excluded = @ \cup {v}, !.todo = @ \ {v}]

ExpandClique(v) ==
  /\ Calling /\ Frame.entered /\ v \in Frame.todo /\ \A w \in Frame.todo : v <= w
  /\ frames' = Returned \o
       << Excludes(v),
          [taken |-> Frame.taken \cup {v}, candidates |-> Frame.candidates \cap Neighbours(v),
           excluded |-> Frame.excluded \cap Neighbours(v), todo |-> {}, entered |-> FALSE] >>
  /\ UNCHANGED <<scan, phase, pairs, edges, cliques, maximal, truncated, groups>>

Return ==
  /\ Calling /\ Frame.entered /\ Frame.todo = {}
  /\ frames' = Returned
  /\ UNCHANGED <<scan, phase, pairs, edges, cliques, maximal, truncated, groups>>

KeepCliques ==
  /\ phase = "cliques" /\ frames = <<>>
  /\ cliques' = IF Len(cliques) > scan.maxGroups THEN SubSeq(cliques, 1, scan.maxGroups) ELSE cliques
  /\ truncated' = (truncated \/ Len(cliques) > scan.maxGroups)
  /\ maximal' = cliques'
  /\ phase' = "groups"
  /\ UNCHANGED <<scan, pairs, edges, frames, groups>>

-----------------------------------------------------------------------------
(* Groups *)

MembersOf(P) == UNION {scan.members[i] : i \in P}

\* Of definitions inside each other only the outermost is kept.
Pruned(P) == {m \in MembersOf(P) : \A o \in MembersOf(P) : ~Within(m, o)}

ContainsAny(i, j) == \E o \in scan.members[i], m \in scan.members[j] : Within(m, o)

\* An entry that is gone with all its members comes back with the partners that hold none of it.
Supplemental(clique) ==
  LET gone == {i \in clique : scan.members[i] \cap Pruned(clique) = {}}
      partners(i) == {j \in clique \ {i} : ~ContainsAny(j, i)}
  IN {{i} \cup partners(i) : i \in {k \in gone : partners(k) # {}}}

EmitGroups ==
  /\ phase = "groups" /\ cliques # <<>>
  /\ LET clique == Head(cliques) IN
     groups' = groups \cup {g \in {Pruned(P) : P \in {clique} \cup Supplemental(clique)} :
                              Cardinality(g) > 1}
  /\ cliques' = Tail(cliques)
  /\ UNCHANGED <<scan, phase, pairs, edges, frames, maximal, truncated>>

AllEmitted ==
  /\ phase = "groups" /\ cliques = <<>>
  /\ phase' = "done"
  /\ UNCHANGED <<scan, pairs, edges, frames, cliques, maximal, truncated, groups>>

DupNext ==
  \/ FindPairs \/ KeepEdges \/ Found \/ Enter \/ Return \/ KeepCliques \/ EmitGroups \/ AllEmitted
  \/ \E v \in Entries : ExpandClique(v)

DupSpec == DupInit /\ [][DupNext]_dupVars

-----------------------------------------------------------------------------
(* Properties *)

IsMaximalClique(C) ==
  /\ Cardinality(C) > 1 /\ TwoOf(C) \subseteq edges
  /\ \A v \in Entries \ C : \E w \in C : {v, w} \notin edges

\* The groups are made from the maximal cliques, each once, as many as the cap allows; a scan
\* with exactly as many as that is complete and says so (duplicates.py _maximal_cliques).
CliquesAreMaximal ==
  phase \in {"groups", "done"} =>
    LET all == {C \in SUBSET Entries : IsMaximalClique(C)} IN
    /\ ToSet(maximal) \subseteq all /\ Cardinality(ToSet(maximal)) = Len(maximal)
    /\ Len(maximal) = IF Cardinality(all) <= scan.maxGroups THEN Cardinality(all)
                                                             ELSE scan.maxGroups
    /\ Cardinality(all) > scan.maxGroups => truncated

Reported(p) == \E g \in groups : \A i \in p : scan.members[i] \cap g # {}

\* Every member of the one lies in a third of the group, and every one of the other too.
Swallowed(p) ==
  \E k \in DOMAIN maximal :
    p \subseteq maximal[k] /\ \A i \in p : scan.members[i] \cap Pruned(maximal[k]) = {}

Apart(p) == \A i, j \in p : ~ContainsAny(i, j)

\* A scan that does not call itself truncated loses no pair of entries that clears the
\* threshold and whose definitions lie apart, neither to the prefixes, nor to the cliques, nor to
\* the definitions that are taken out - unless both entries are taken out whole
\* (duplicates.py _candidate_pairs, _similar_groups).
PairsAreReported ==
  phase = "done" /\ ~truncated =>
    \A p \in TwoOf(Entries) : Qualifies(p) /\ Apart(p) => Reported(p) \/ Swallowed(p)

\* duplicates.py:448: no qualifying pair may be silently dropped.
NoPairIsDropped ==
  phase = "done" /\ ~truncated =>
    \A p \in TwoOf(Entries) : Qualifies(p) /\ Apart(p) => Reported(p)
=============================================================================
