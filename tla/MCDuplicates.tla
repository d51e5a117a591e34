---------------------------- MODULE MCDuplicates ----------------------------
(* Duplicates for TLC: entries without nesting, whose branches make graphs *)
(* of every kind; and factories with a closure each, which may be copies   *)
(* of each other, closures and all.                                        *)
EXTENDS Duplicates

Unnested(branches, pairsLimit, groupsLimit) ==
  [branches |-> branches, members |-> [i \in DOMAIN branches |-> {i}], within |-> {},
   share |-> 1, outOf |-> 3, maxPairs |-> pairsLimit, maxGroups |-> groupsLimit]

Graphs == {Unnested(b, 9, k) : b \in [1..4 -> {{1, 2}, {2, 3}, {3, 4}, {1, 4}}], k \in {1, 9}}
Budgets == {Unnested(b, k, 9) : b \in [1..3 -> {{1}, {2}, {1, 2}}], k \in {1, 9}}

\* Two cliques apart, below, at and above the cap.
Triangles == {Unnested(<<{1}, {1}, {1}, {2}, {2}, {2}>>, 9, k) : k \in 1..3}

\* Factories 1 to 4 with their closures 5 to 8, and perhaps a function 9 that is a copy of a
\* closure.  Copies of a factory have copies of its closure in them.
Copies(factoryEntry, closureEntry, copyEntry, last) ==
  [branches |-> <<{1, 2}, {1, 2}, {1, 2}, last>>,
   members |-> [i \in 1..4 |-> {k \in 1..4 : factoryEntry[k] = i}
                          \cup {k \in 5..8 : closureEntry[factoryEntry[k - 4]] = i}
                          \cup {k \in {9} : copyEntry = i}],
   within |-> {<<k + 4, k>> : k \in 1..4},
   share |-> 1, outOf |-> 2, maxPairs |-> 9, maxGroups |-> 9]

TwinFactories == {s \in {Copies(fe, ce, c, last) : fe \in [1..4 -> {1, 2}], ce \in [{1, 2} -> {3, 4}],
                                               c \in {0, 3, 4}, last \in {{1, 2}, {3}}} :
                \A i \in 1..4 : s.members[i] # {}}

SomeScans == Graphs \cup Budgets \cup Triangles \cup TwinFactories
=============================================================================
