-------------------------- MODULE DuplicatesProofs --------------------------
(***************************************************************************)
(* That the report of similar functions is complete (Duplicates): the      *)
(* search with a pivot finds every maximal clique once, the prefixes lose  *)
(* no pair, and what is taken out of a group comes back in another.        *)
(***************************************************************************)
EXTENDS Duplicates, FiniteSetTheorems, SequenceTheorems, NaturalsInduction, WellFoundedInduction, TLAPS

-----------------------------------------------------------------------------
(* Finite sets and pairs *)

LEMMA TwoOfPairs ==
  ASSUME NEW S, IsFiniteSet(S)
  PROVE  \A p : p \in TwoOf(S) <=> \E v, w \in S : v # w /\ p = {v, w}
<1>1. ASSUME NEW v, NEW w, v # w PROVE IsFiniteSet({v, w}) /\ Cardinality({v, w}) = 2
  <2>1. {v, w} = {v} \cup {w}
    OBVIOUS
  <2>2. IsFiniteSet({v}) /\ Cardinality({v}) = 1
    BY FS_Singleton
  <2>3. Cardinality({v} \cup {w}) = 2 /\ IsFiniteSet({v} \cup {w})
    BY <1>1, <2>2, FS_AddElement
  <2> QED
    BY <2>1, <2>3
<1>2. ASSUME NEW p \in SUBSET S, Cardinality(p) = 2 PROVE \E v, w \in S : v # w /\ p = {v, w}
  <2>1. IsFiniteSet(p)
    BY FS_Subset
  <2>2. PICK v \in p : TRUE
    BY <1>2, <2>1, FS_EmptySet
  <2>3. IsFiniteSet(p \ {v}) /\ Cardinality(p \ {v}) = 1
    BY <1>2, <2>1, <2>2, FS_RemoveElement
  <2>4. PICK w : p \ {v} = {w}
    BY <2>3, FS_Singleton
  <2> QED
    BY <2>2, <2>4
<1> QED
  BY <1>1, <1>2 DEF TwoOf

LEMMA MoreThanOne ==
  ASSUME NEW S, IsFiniteSet(S)
  PROVE  Cardinality(S) > 1 <=> \E v, w \in S : v # w
<1>1. Cardinality(S) \in Nat
  BY FS_CardinalityType
<1>2. ASSUME NEW v \in S, NEW w \in S, v # w PROVE Cardinality(S) > 1
  <2>1. Cardinality(S) # 0 /\ Cardinality(S) # 1
    BY <1>2, FS_EmptySet, FS_Singleton
  <2> QED
    BY <1>1, <2>1
<1>3. ASSUME Cardinality(S) > 1 PROVE \E v, w \in S : v # w
  <2>1. S # {} /\ ~\E x : S = {x}
    BY <1>1, <1>3, FS_EmptySet, FS_Singleton
  <2> QED
    BY <2>1
<1> QED
  BY <1>2, <1>3

LEMMA LeastNumber ==
  ASSUME NEW T, T \subseteq Nat, T # {}
  PROVE  \E x \in T : \A y \in T : x <= y
<1> DEFINE R == OpToRel(<, Nat)
<1>1. IsWellFoundedOn(R, Nat)
  BY NatLessThanWellFounded
<1>2. \A x, y \in Nat : <<y, x>> \in R <=> y < x
  BY DEF OpToRel
<1> HIDE DEF R
<1>3. PICK x \in T : \A y \in T : ~(<<y, x>> \in R)
  BY <1>1, WFMin
<1>4. \A y \in T : ~(y < x)
  BY <1>2, <1>3
<1> QED
  BY <1>4

LEMMA EachOnceCounts ==
  ASSUME NEW S, NEW s \in Seq(S), \A i, j \in 1..Len(s) : s[i] = s[j] => i = j
  PROVE  IsFiniteSet(ToSet(s)) /\ Cardinality(ToSet(s)) = Len(s)
<1>1. Len(s) \in Nat /\ DOMAIN s = 1..Len(s)
  OBVIOUS
<1>2. s \in Bijection(1..Len(s), ToSet(s))
  BY <1>1 DEF Bijection, Injection, Surjection, IsInjective, ToSet
<1>3. ExistsBijection(1..Len(s), ToSet(s))
  BY <1>2 DEF ExistsBijection
<1> QED
  BY <1>1, <1>3, FS_CountingElements, FS_NatBijection

-----------------------------------------------------------------------------
(* Cliques of a graph: what the search is about, with no state in it *)

IsGraph(N, E) ==
  /\ N \subseteq Nat /\ IsFiniteSet(N)
  /\ \A e \in E : \E v, w \in N : v # w /\ e = {v, w}

Adjacent(N, E, v) == {w \in N : w # v /\ {v, w} \in E}

Maximal(N, E) ==
  {C \in SUBSET N : /\ Cardinality(C) > 1 /\ TwoOf(C) \subseteq E
                    /\ \A v \in N \ C : \E w \in C : {v, w} \notin E}

FrameIn(N) == [taken : SUBSET N, candidates : SUBSET N, excluded : SUBSET N, todo : SUBSET N,
               entered : BOOLEAN]

\* The vertices with an edge, and with one to each that is taken.
Common(N, E, R) == {v \in UNION E : R \subseteq Adjacent(N, E, v)}

\* A call of expand: a clique, and the vertices that could join it, asked or not.
IsFrame(N, E, F) ==
  /\ F \in FrameIn(N)
  /\ \A v, w \in F.taken : v # w => {v, w} \in E
  /\ F.candidates \cup F.excluded = Common(N, E, F.taken)
  /\ F.candidates \cap F.excluded = {}
  /\ F.todo \subseteq F.candidates

\* The cliques it is still going to find.
Pending(N, E, F) ==
  {C \in Maximal(N, E) : /\ F.taken \subseteq C /\ C \subseteq F.taken \cup F.candidates
                         /\ F.entered => C \cap F.todo # {}}

LEMMA MaximalFacts ==
  ASSUME NEW N, NEW E, IsGraph(N, E), NEW C
  PROVE  C \in Maximal(N, E) <=>
           /\ C \subseteq N /\ \E v, w \in C : v # w
           /\ \A v, w \in C : v # w => {v, w} \in E
           /\ \A v \in N \ C : \E w \in C : {v, w} \notin E
<1>1. CASE C \subseteq N
  <2>1. IsFiniteSet(C)
    BY <1>1, FS_Subset DEF IsGraph
  <2>2. Cardinality(C) > 1 <=> \E v, w \in C : v # w
    BY <2>1, MoreThanOne
  <2>3. TwoOf(C) \subseteq E <=> \A v, w \in C : v # w => {v, w} \in E
    BY <2>1, TwoOfPairs
  <2> QED
    BY <1>1, <2>2, <2>3 DEF Maximal
<1>2. CASE ~(C \subseteq N)
  BY <1>2 DEF Maximal
<1> QED
  BY <1>1, <1>2

LEMMA CommonFacts ==
  ASSUME NEW N, NEW E, IsGraph(N, E), NEW R \in SUBSET N
  PROVE  /\ Common(N, E, R) \subseteq N
         /\ \A v \in Common(N, E, R) : v \notin R /\ \A r \in R : {v, r} \in E
         /\ \A v \in N : (\E w \in N : w # v /\ {v, w} \in E) /\ (\A r \in R : r # v /\ {v, r} \in E)
                           => v \in Common(N, E, R)
         /\ \A v \in Common(N, E, R) : Common(N, E, R \cup {v})
                                         = Common(N, E, R) \cap Adjacent(N, E, v)
<1>1. Common(N, E, R) \subseteq N
  BY DEF Common, IsGraph
<1>2. \A v \in Common(N, E, R) : v \notin R /\ \A r \in R : {v, r} \in E
  BY DEF Common, Adjacent
<1>3. ASSUME NEW v \in N, \E w \in N : w # v /\ {v, w} \in E, \A r \in R : r # v /\ {v, r} \in E
      PROVE  v \in Common(N, E, R)
  BY <1>3 DEF Common, Adjacent
<1>4. ASSUME NEW v \in Common(N, E, R)
      PROVE  Common(N, E, R \cup {v}) = Common(N, E, R) \cap Adjacent(N, E, v)
  <2>1. \A w \in N : v \in Adjacent(N, E, w) <=> w \in Adjacent(N, E, v)
    <3>1. \A w \in N : {v, w} = {w, v} /\ v \in N
      BY <1>1, <1>4
    <3> QED
      BY <3>1 DEF Adjacent
  <2>2. \A w \in UNION E : w \in N
    BY DEF IsGraph
  <2>3. \A w \in UNION E : R \cup {v} \subseteq Adjacent(N, E, w)
                             <=> R \subseteq Adjacent(N, E, w) /\ w \in Adjacent(N, E, v)
    BY <2>1, <2>2
  <2> QED
    BY <2>3 DEF Common
<1> QED
  BY <1>1, <1>2, <1>3, <1>4

\* A pivot is in every clique that has none of its other candidates.
LEMMA PivotLosesNothing ==
  ASSUME NEW N, NEW E, IsGraph(N, E), NEW F, IsFrame(N, E, F), ~F.entered,
         NEW p \in F.candidates \cup F.excluded, NEW G \in FrameIn(N),
         G.taken = F.taken, G.candidates = F.candidates, G.excluded = F.excluded,
         G.todo = F.candidates \ Adjacent(N, E, p)
  PROVE  IsFrame(N, E, G) /\ Pending(N, E, G) = Pending(N, E, F)
<1>1. IsFrame(N, E, G)
  BY DEF IsFrame
<1>2. F.taken \in SUBSET N
  BY DEF IsFrame, FrameIn
<1>3. ASSUME NEW C \in Maximal(N, E), F.taken \subseteq C, C \subseteq F.taken \cup F.candidates,
             C \cap G.todo = {}
      PROVE  FALSE
  <2>1. p \in N /\ p \notin F.taken /\ \A r \in F.taken : {p, r} \in E
    BY <1>2, CommonFacts DEF IsFrame
  <2>2. \A c \in C : c # p => {p, c} \in E
    BY <1>3, <2>1 DEF Adjacent
  <2>3. p \in C
    <3>1. p \notin C => \E w \in C : {p, w} \notin E
      <4>1. C \in Maximal(N, E) => \A v \in N \ C : \E w \in C : {v, w} \notin E
        BY MaximalFacts
      <4> QED
        BY <1>3, <2>1, <4>1
    <3> QED
      BY <2>2, <3>1
  <2>4. p \in F.candidates /\ p \notin Adjacent(N, E, p)
    BY <1>3, <2>1, <2>3 DEF Adjacent
  <2> QED
    BY <1>3, <2>3, <2>4
<1> QED
  BY <1>1, <1>3 DEF Pending

\* A candidate is taken or excluded: each clique is found with it or without it.
LEMMA ExpandSplits ==
  ASSUME NEW N, NEW E, IsGraph(N, E), NEW F, IsFrame(N, E, F), F.entered, NEW v \in F.todo,
         NEW X \in FrameIn(N), NEW D \in FrameIn(N),
         X.taken = F.taken, X.candidates = F.candidates \ {v}, X.excluded = F.excluded \cup {v},
         X.todo = F.todo \ {v}, X.entered,
         D.taken = F.taken \cup {v}, D.candidates = F.candidates \cap Adjacent(N, E, v),
         D.excluded = F.excluded \cap Adjacent(N, E, v), D.todo = {}, ~D.entered
  PROVE  /\ IsFrame(N, E, X) /\ IsFrame(N, E, D)
         /\ Pending(N, E, F) = Pending(N, E, X) \cup Pending(N, E, D)
         /\ Pending(N, E, X) \cap Pending(N, E, D) = {}
<1>1. /\ F.taken \in SUBSET N /\ v \in Common(N, E, F.taken) /\ v \in F.candidates
      /\ v \notin F.taken /\ \A r \in F.taken : {v, r} \in E
  BY CommonFacts DEF IsFrame, FrameIn
<1>2. IsFrame(N, E, X)
  BY <1>1 DEF IsFrame
<1>3. IsFrame(N, E, D)
  <2>1. \A x, y \in D.taken : x # y => {x, y} \in E
    <3>1. \A r \in F.taken : {r, v} = {v, r}
      OBVIOUS
    <3> QED
      BY <1>1, <3>1 DEF IsFrame
  <2>2. D.candidates \cup D.excluded = Common(N, E, D.taken)
    BY <1>1, CommonFacts DEF IsFrame
  <2> QED
    BY <2>1, <2>2 DEF IsFrame
<1>4. ASSUME NEW C \in Maximal(N, E), F.taken \subseteq C, C \subseteq F.taken \cup F.candidates, v \in C
      PROVE  C \subseteq D.taken \cup D.candidates
  BY <1>4, MaximalFacts DEF Adjacent
<1>5. ASSUME NEW C \in Pending(N, E, F) PROVE C \in Pending(N, E, X) \cup Pending(N, E, D)
  BY <1>4, <1>5 DEF Pending
<1>6. Pending(N, E, X) \subseteq Pending(N, E, F)
  BY DEF Pending
<1>7. Pending(N, E, D) \subseteq Pending(N, E, F)
  <2> SUFFICES ASSUME NEW C \in Pending(N, E, D) PROVE C \in Pending(N, E, F)
    OBVIOUS
  <2>1. C \in Maximal(N, E) /\ F.taken \cup {v} \subseteq C /\ C \subseteq D.taken \cup D.candidates
    BY DEF Pending
  <2>2. C \subseteq F.taken \cup F.candidates /\ C \cap F.todo # {}
    BY <1>1, <2>1
  <2> QED
    BY <2>1, <2>2 DEF Pending
<1>8. Pending(N, E, X) \cap Pending(N, E, D) = {}
  BY <1>1 DEF Pending
<1> QED
  BY <1>2, <1>3, <1>5, <1>6, <1>7, <1>8

\* With nobody left to join, the clique that is taken is the only one.
LEMMA LeafIsMaximal ==
  ASSUME NEW N, NEW E, IsGraph(N, E), NEW F, IsFrame(N, E, F), ~F.entered,
         F.candidates = {}, F.excluded = {}
  PROVE  Pending(N, E, F) = IF Cardinality(F.taken) > 1 THEN {F.taken} ELSE {}
<1>1. F.taken \in SUBSET N /\ IsFiniteSet(F.taken)
  BY FS_Subset DEF IsFrame, FrameIn, IsGraph
<1>2. \A C \in Pending(N, E, F) : C = F.taken /\ Cardinality(C) > 1
  BY DEF Pending, Maximal
<1>3. PICK R \in SUBSET N : R = F.taken
  BY <1>1
<1>4. ASSUME Cardinality(R) > 1 PROVE R \in Maximal(N, E)
  <2>1. \E x, y \in R : x # y
    BY <1>1, <1>3, <1>4, MoreThanOne
  <2>2. \A x, y \in R : x # y => {x, y} \in E
    BY <1>3 DEF IsFrame
  <2>3. ASSUME NEW v \in N \ R, \A w \in R : {v, w} \in E PROVE FALSE
    <3>1. \E w \in N : w # v /\ {v, w} \in E
      BY <2>1, <2>3
    <3>2. \A r \in R : r # v /\ {v, r} \in E
      BY <2>3
    <3>3. v \in Common(N, E, R)
      BY <3>1, <3>2, CommonFacts
    <3> QED
      BY <1>3, <3>3 DEF IsFrame
  <2> QED
    <3>1. \A v \in N \ R : \E w \in R : {v, w} \notin E
      BY <2>3
    <3> QED
      BY <2>1, <2>2, <3>1, MaximalFacts
<1> QED
  BY <1>2, <1>3, <1>4 DEF Pending

-----------------------------------------------------------------------------
(* The calls on the stack *)

\* Every maximal clique was found, or is pending in one of the calls.
IsStack(N, E, fr, cl) ==
  /\ fr \in Seq(FrameIn(N)) /\ \A k \in 1..Len(fr) : IsFrame(N, E, fr[k])
  /\ \A k, l \in 1..Len(fr) : k # l => Pending(N, E, fr[k]) \cap Pending(N, E, fr[l]) = {}
  /\ \A k \in 1..Len(fr), i \in 1..Len(cl) : cl[i] \notin Pending(N, E, fr[k])
  /\ \A C \in Maximal(N, E) : \/ \E i \in 1..Len(cl) : C = cl[i]
                              \/ \E k \in 1..Len(fr) : C \in Pending(N, E, fr[k])

AreCliques(N, E, cl) ==
  /\ cl \in Seq(SUBSET N) /\ \A i \in 1..Len(cl) : cl[i] \in Maximal(N, E)
  /\ \A i, j \in 1..Len(cl) : cl[i] = cl[j] => i = j

LEMMA StackReplace ==
  ASSUME NEW N, NEW E, NEW fr, NEW cl, IsStack(N, E, fr, cl), fr # <<>>,
         NEW fr2 \in Seq(FrameIn(N)), Len(fr2) = Len(fr),
         \A k \in 1..(Len(fr) - 1) : fr2[k] = fr[k],
         IsFrame(N, E, fr2[Len(fr)]),
         Pending(N, E, fr2[Len(fr)]) = Pending(N, E, fr[Len(fr)])
  PROVE  IsStack(N, E, fr2, cl)
<1>1. Len(fr) \in Nat \ {0}
  BY DEF IsStack
<1>2. \A k \in 1..Len(fr) : IsFrame(N, E, fr2[k]) /\ Pending(N, E, fr2[k]) = Pending(N, E, fr[k])
  <2>1. \A k \in 1..Len(fr) : k = Len(fr) \/ fr2[k] = fr[k]
    BY <1>1
  <2> QED
    BY <2>1 DEF IsStack
<1> QED
  BY <1>2 DEF IsStack

LEMMA StackSplit ==
  ASSUME NEW N, NEW E, NEW fr, NEW cl, IsStack(N, E, fr, cl), fr # <<>>,
         NEW fr2 \in Seq(FrameIn(N)), Len(fr2) = Len(fr) + 1,
         \A k \in 1..(Len(fr) - 1) : fr2[k] = fr[k],
         IsFrame(N, E, fr2[Len(fr)]), IsFrame(N, E, fr2[Len(fr) + 1]),
         Pending(N, E, fr[Len(fr)])
           = Pending(N, E, fr2[Len(fr)]) \cup Pending(N, E, fr2[Len(fr) + 1]),
         Pending(N, E, fr2[Len(fr)]) \cap Pending(N, E, fr2[Len(fr) + 1]) = {}
  PROVE  IsStack(N, E, fr2, cl)
<1> DEFINE n == Len(fr)
<1>1. n \in Nat \ {0}
  BY DEF IsStack
<1>2. \A k \in 1..Len(fr2) : k = n \/ k = n + 1 \/ (k \in 1..(n - 1) /\ fr2[k] = fr[k])
  BY <1>1
<1>3. \A k \in 1..Len(fr2) : IsFrame(N, E, fr2[k])
  BY <1>1, <1>2 DEF IsStack
<1>4. \A k \in 1..Len(fr2) : Pending(N, E, fr2[k]) \subseteq Pending(N, E, fr[IF k = n + 1 THEN n ELSE k])
  BY <1>1, <1>2
<1>5. \A k \in 1..Len(fr2) : (IF k = n + 1 THEN n ELSE k) \in 1..n
  BY <1>1
<1>6. ASSUME NEW k \in 1..Len(fr2), NEW l \in 1..Len(fr2), k # l
      PROVE  Pending(N, E, fr2[k]) \cap Pending(N, E, fr2[l]) = {}
  <2>1. CASE {k, l} = {n, n + 1}
    BY <1>6, <2>1
  <2>2. CASE {k, l} # {n, n + 1}
    <3>1. (IF k = n + 1 THEN n ELSE k) # (IF l = n + 1 THEN n ELSE l)
      BY <1>1, <1>6, <2>2
    <3> QED
      BY <1>4, <1>5, <3>1 DEF IsStack
  <2> QED
    BY <2>1, <2>2
<1>7. \A k \in 1..Len(fr2), i \in 1..Len(cl) : cl[i] \notin Pending(N, E, fr2[k])
  BY <1>4, <1>5 DEF IsStack
<1>8. ASSUME NEW C \in Maximal(N, E)
      PROVE  \/ \E i \in 1..Len(cl) : C = cl[i]
             \/ \E k \in 1..Len(fr2) : C \in Pending(N, E, fr2[k])
  <2>1. CASE \E i \in 1..Len(cl) : C = cl[i]
    BY <2>1
  <2>2. CASE \E k \in 1..n : C \in Pending(N, E, fr[k])
    <3>1. PICK k \in 1..n : C \in Pending(N, E, fr[k])
      BY <2>2
    <3>2. CASE k = n
      BY <1>1, <3>1, <3>2
    <3>3. CASE k # n
      BY <1>1, <3>1, <3>3
    <3> QED
      BY <3>2, <3>3
  <2> QED
    BY <2>1, <2>2 DEF IsStack
<1> QED
  BY <1>3, <1>6, <1>7, <1>8 DEF IsStack

\* A call that is over: it had nothing pending, or just the clique that was found.
LEMMA StackPop ==
  ASSUME NEW N, NEW E, NEW fr, NEW cl, IsStack(N, E, fr, cl), fr # <<>>,
         NEW fr2 \in Seq(FrameIn(N)), Len(fr2) = Len(fr) - 1,
         \A k \in 1..(Len(fr) - 1) : fr2[k] = fr[k],
         NEW cl2, Len(cl) \in Nat, Len(cl2) \in Nat, Len(cl) <= Len(cl2),
         \A i \in 1..Len(cl) : cl2[i] = cl[i],
         Pending(N, E, fr[Len(fr)]) = {cl2[i] : i \in (Len(cl) + 1)..Len(cl2)}
  PROVE  IsStack(N, E, fr2, cl2)
<1> DEFINE n == Len(fr)
<1>1. n \in Nat \ {0} /\ 1..Len(fr2) = 1..(n - 1)
  BY DEF IsStack
<1>2. \A k \in 1..Len(fr2) : fr2[k] = fr[k] /\ k \in 1..n /\ k # n
  BY <1>1
<1>3. \A i \in 1..Len(cl2) : i \in 1..Len(cl) \/ i \in (Len(cl) + 1)..Len(cl2)
  OBVIOUS
<1>4. \A k \in 1..Len(fr2) : IsFrame(N, E, fr2[k])
  BY <1>2 DEF IsStack
<1>9. ASSUME NEW k \in 1..Len(fr2), NEW l \in 1..Len(fr2), k # l
       PROVE  Pending(N, E, fr2[k]) \cap Pending(N, E, fr2[l]) = {}
  <2>1. k \in 1..Len(fr) /\ l \in 1..Len(fr) /\ fr2[k] = fr[k] /\ fr2[l] = fr[l]
    BY <1>2
  <2>2. Pending(N, E, fr[k]) \cap Pending(N, E, fr[l]) = {}
    BY <1>9, <2>1 DEF IsStack
  <2> QED
    BY <2>1, <2>2
<1>5. ASSUME NEW k \in 1..Len(fr2), NEW i \in 1..Len(cl2) PROVE cl2[i] \notin Pending(N, E, fr2[k])
  <2>1. CASE i \in 1..Len(cl)
    BY <1>2, <2>1 DEF IsStack
  <2>2. CASE i \in (Len(cl) + 1)..Len(cl2)
    <3>1. cl2[i] \in Pending(N, E, fr[n])
      BY <2>2
    <3>2. Pending(N, E, fr[k]) \cap Pending(N, E, fr[n]) = {}
      <4>1. k \in 1..Len(fr) /\ Len(fr) \in 1..Len(fr) /\ k # Len(fr)
        BY <1>1, <1>2
      <4> QED
        BY <4>1 DEF IsStack
    <3> QED
      BY <1>2, <3>1, <3>2
  <2> QED
    BY <1>3, <2>1, <2>2
<1>6. ASSUME NEW C \in Maximal(N, E)
      PROVE  \/ \E i \in 1..Len(cl2) : C = cl2[i]
             \/ \E k \in 1..Len(fr2) : C \in Pending(N, E, fr2[k])
  <2>1. CASE \E i \in 1..Len(cl) : C = cl[i]
    BY <2>1
  <2>2. CASE C \in Pending(N, E, fr[n])
    BY <2>2
  <2>3. CASE \E k \in 1..(n - 1) : C \in Pending(N, E, fr[k])
    BY <1>1, <2>3
  <2>4. \A k \in 1..n : k = n \/ k \in 1..(n - 1)
    BY <1>1
  <2> QED
    BY <2>1, <2>2, <2>3, <2>4 DEF IsStack
<1> QED
  BY <1>4, <1>9, <1>5, <1>6 DEF IsStack

LEMMA PoppedStack ==
  ASSUME NEW T, NEW fr \in Seq(T), fr # <<>>, NEW t, t = SubSeq(fr, 1, Len(fr) - 1)
  PROVE  t \in Seq(T) /\ Len(t) = Len(fr) - 1 /\ \A k \in 1..(Len(fr) - 1) : t[k] = fr[k]
<1> DEFINE n == Len(fr)
<1>1. n \in Nat \ {0} /\ \A k \in 1..(n - 1) : fr[k] \in T
  BY EmptySeq
<1>2. n - 1 \in Int /\ 1 \in Int /\ t = SubSeq(fr, 1, n - 1)
  BY <1>1
<1> HIDE DEF n
<1>3. /\ SubSeq(fr, 1, n - 1) \in Seq(T)
      /\ Len(SubSeq(fr, 1, n - 1)) = IF 1 <= n - 1 THEN (n - 1) - 1 + 1 ELSE 0
      /\ \A k \in 1..((n - 1) - 1 + 1) : SubSeq(fr, 1, n - 1)[k] = fr[1 + k - 1]
  BY <1>1, <1>2, SubSeqProperties
<1>4. \A k \in 1..(n - 1) : 1 + k - 1 = k
  BY <1>2
<1>5. t \in Seq(T) /\ Len(t) = n - 1 /\ \A k \in 1..(n - 1) : t[k] = fr[k]
  BY <1>1, <1>2, <1>3, <1>4
<1> QED
  BY <1>5 DEF n

LEMMA ReplacedStack ==
  ASSUME NEW T, NEW fr \in Seq(T), fr # <<>>, NEW x \in T, NEW t, t = [fr EXCEPT ![Len(fr)] = x]
  PROVE  /\ t \in Seq(T) /\ Len(t) = Len(fr) /\ t[Len(fr)] = x
         /\ \A k \in 1..(Len(fr) - 1) : t[k] = fr[k]
<1>1. PICK n : n = Len(fr)
  OBVIOUS
<1>2. n \in 1..Len(fr) /\ n \in Nat
  BY <1>1, EmptySeq
<1>3. /\ [fr EXCEPT ![n] = x] \in Seq(T) /\ Len([fr EXCEPT ![n] = x]) = Len(fr)
      /\ \A k \in 1..Len(fr) : [fr EXCEPT ![n] = x][k] = IF k = n THEN x ELSE fr[k]
  BY <1>2, ExceptSeq
<1>4. t \in Seq(T) /\ Len(t) = n /\ \A k \in 1..n : t[k] = IF k = n THEN x ELSE fr[k]
  BY <1>1, <1>3
<1> QED
  BY <1>1, <1>2, <1>4

\* The stack with two calls in the place of the innermost.
Pushed(fr, xy) == SubSeq(fr, 1, Len(fr) - 1) \o xy

LEMMA PushedStack ==
  ASSUME NEW T, NEW fr \in Seq(T), fr # <<>>, NEW xy \in Seq(T), Len(xy) = 2
  PROVE  /\ Pushed(fr, xy) \in Seq(T) /\ Len(Pushed(fr, xy)) = Len(fr) + 1
         /\ \A k \in 1..(Len(fr) - 1) : Pushed(fr, xy)[k] = fr[k]
         /\ Pushed(fr, xy)[Len(fr)] = xy[1] /\ Pushed(fr, xy)[Len(fr) + 1] = xy[2]
<1>1. PICK n : n = Len(fr)
  OBVIOUS
<1>2. n \in Nat \ {0}
  BY <1>1, EmptySeq
<1>3. PICK s : s = SubSeq(fr, 1, Len(fr) - 1)
  OBVIOUS
<1>4. s \in Seq(T) /\ Len(s) = n - 1 /\ \A k \in 1..(n - 1) : s[k] = fr[k]
  BY <1>1, <1>3, PoppedStack
<1>5. PICK t : t = s \o xy
  OBVIOUS
<1>6. t = Pushed(fr, xy)
  BY <1>3, <1>5 DEF Pushed
<1>7. /\ t \in Seq(T) /\ Len(t) = Len(s) + Len(xy)
      /\ \A k \in 1..(Len(s) + Len(xy)) : t[k] = IF k <= Len(s) THEN s[k] ELSE xy[k - Len(s)]
  BY <1>4, <1>5, ConcatProperties
<1>8. /\ Len(t) = n + 1
      /\ \A k \in 1..(n + 1) : t[k] = IF k <= n - 1 THEN s[k] ELSE xy[k - (n - 1)]
  BY <1>2, <1>4, <1>7
<1>9. t[n] = xy[1] /\ t[n + 1] = xy[2]
  <2>1. n \in 1..(n + 1) /\ n + 1 \in 1..(n + 1) /\ ~(n <= n - 1) /\ ~(n + 1 <= n - 1)
    BY <1>2
  <2>2. n - (n - 1) = 1 /\ (n + 1) - (n - 1) = 2
    BY <1>2
  <2>3. t[n] = xy[n - (n - 1)] /\ t[n + 1] = xy[(n + 1) - (n - 1)]
    BY <1>8, <2>1
  <2> QED
    BY <2>2, <2>3
<1>10. \A k \in 1..(n - 1) : t[k] = s[k]
  BY <1>2, <1>8
<1>11. /\ t \in Seq(T) /\ Len(t) = n + 1 /\ \A k \in 1..(n - 1) : t[k] = fr[k]
       /\ t[n] = xy[1] /\ t[n + 1] = xy[2]
  BY <1>4, <1>7, <1>8, <1>9, <1>10
<1> QED
  BY <1>1, <1>6, <1>11

-----------------------------------------------------------------------------
(* The inductive invariant of the search *)

IsSearch(N, E, cap, fr, cl) ==
  /\ AreCliques(N, E, cl)
  /\ \/ fr = <<>> /\ Len(cl) > cap
     \/ Len(cl) <= cap /\ IsStack(N, E, fr, cl)

\* What is kept: all there are, or as many as the cap allows and not all.
AreKept(N, E, cap, mx, cut) ==
  /\ AreCliques(N, E, mx)
  /\ \/ Len(mx) <= cap /\ \A C \in Maximal(N, E) : \E i \in 1..Len(mx) : C = mx[i]
     \/ cut /\ Len(mx) = cap /\ \E C \in Maximal(N, E) : \A i \in 1..Len(mx) : C # mx[i]

SearchOK ==
  /\ scan \in Scans
  /\ pairs \subseteq TwoOf(Entries)
  /\ phase \in {"pairs", "edges"} => edges = {} /\ frames = <<>> /\ cliques = <<>>
  /\ \E N \in {Entries}, E \in {edges} :
       /\ IsGraph(N, E)
       /\ phase = "cliques" =>
            \E fr \in {frames}, cl \in {cliques}, cap \in {scan.maxGroups} : IsSearch(N, E, cap, fr, cl)
       /\ phase \in {"groups", "done"} =>
            \E mx \in {maximal}, cap \in {scan.maxGroups}, cut \in {truncated} : AreKept(N, E, cap, mx, cut)

LEMMA ScanFacts ==
  ASSUME NEW s \in Scans
  PROVE  /\ DOMAIN s.branches \subseteq Nat /\ IsFiniteSet(DOMAIN s.branches)
         /\ s.maxGroups \in Nat /\ s.maxPairs \in Nat
<1>1. s.branches \in Seq(SUBSET Nat) /\ s.maxGroups \in Nat /\ s.maxPairs \in Nat
  BY ScansAssumption DEF IsScan
<1>2. DOMAIN s.branches = 1..Len(s.branches) /\ Len(s.branches) \in Nat
  BY <1>1
<1>3. IsFiniteSet(1..Len(s.branches)) /\ 1..Len(s.branches) \subseteq Nat
  BY <1>2, FS_Interval
<1> QED
  BY <1>1, <1>2, <1>3

LEMMA DupInitOK == DupInit => DupTypeOK /\ SearchOK
<1> SUFFICES ASSUME DupInit PROVE DupTypeOK /\ SearchOK
  OBVIOUS
<1>1. DupTypeOK
  <2>1. \A T : <<>> \in Seq(T)
    BY EmptySeq
  <2>2. truncated \in BOOLEAN
    BY DEF DupInit
  <2> QED
    BY <2>1, <2>2 DEF DupInit, DupTypeOK
<1>2. IsGraph(Entries, edges)
  BY ScanFacts DEF DupInit, IsGraph, Entries
<1>3. SearchOK
  BY <1>2 DEF DupInit, SearchOK
<1> QED
  BY <1>1, <1>3

LEMMA FrameTyped ==
  ASSUME DupTypeOK
  PROVE  /\ frames \in Seq(FrameIn(Entries)) /\ cliques \in Seq(SUBSET Entries)
         /\ maximal \in Seq(SUBSET Entries)
         /\ frames # <<>> => /\ Frame \in FrameIn(Entries) /\ Len(frames) \in 1..Len(frames)
                             /\ Returned \in Seq(FrameIn(Entries))
<1>1. frames \in Seq(FrameIn(Entries)) /\ cliques \in Seq(SUBSET Entries) /\ maximal \in Seq(SUBSET Entries)
  BY DEF DupTypeOK, FrameIn
<1>2. ASSUME frames # <<>>
      PROVE  /\ Frame \in FrameIn(Entries) /\ Len(frames) \in 1..Len(frames)
             /\ Returned \in Seq(FrameIn(Entries))
  <2>1. Len(frames) \in Nat \ {0}
    BY <1>1, <1>2, EmptySeq
  <2>2. frames[Len(frames)] \in FrameIn(Entries)
    BY <1>1, <2>1, ElementOfSeq
  <2> QED
    BY <1>1, <1>2, <2>1, <2>2, PoppedStack DEF Frame, Returned
<1> QED
  BY <1>1, <1>2

\* What a step does to the stack, the graph being given.
LEMMA StepOfSearch ==
  ASSUME DupTypeOK, SearchOK, Calling, edges' = edges, scan' = scan,
         NEW fr2 \in Seq(FrameIn(Entries)), NEW cl2 \in Seq(SUBSET Entries),
         frames' = fr2, cliques' = cl2, phase' = phase, pairs' = pairs,
         \A N, E, cap, fr, cl :
           /\ N = Entries /\ E = edges /\ cap = scan.maxGroups /\ fr = frames /\ cl = cliques
           /\ IsGraph(N, E) /\ AreCliques(N, E, cl) /\ Len(cl) <= cap /\ IsStack(N, E, fr, cl)
           => IsSearch(N, E, cap, fr2, cl2)
  PROVE  SearchOK'
<1>1. PICK N, E, cap, fr, cl :
        N = Entries /\ E = edges /\ cap = scan.maxGroups /\ fr = frames /\ cl = cliques
  OBVIOUS
<1>2. IsGraph(N, E) /\ IsSearch(N, E, cap, fr, cl)
  BY <1>1 DEF SearchOK, Calling
<1>3. IsSearch(N, E, cap, fr2, cl2)
  BY <1>1, <1>2 DEF IsSearch, Calling
<1>4. (Entries)' = N /\ edges' = E /\ (scan.maxGroups)' = cap
  BY <1>1 DEF Entries
<1>5. phase' = "cliques"
  BY DEF Calling
<1>6. scan' \in Scans /\ (pairs \subseteq TwoOf(Entries))'
  BY DEF SearchOK, TwoOf, Entries
<1> QED
  BY <1>2, <1>3, <1>4, <1>5, <1>6 DEF SearchOK

LEMMA TypeOfSearch ==
  ASSUME DupTypeOK, NEW fr2 \in Seq(FrameIn(Entries)), NEW cl2 \in Seq(SUBSET Entries),
         frames' = fr2, cliques' = cl2,
         UNCHANGED <<scan, phase, pairs, edges, maximal, truncated, groups>>
  PROVE  DupTypeOK'
BY DEF DupTypeOK, Entries, FrameIn

LEMMA EnterStep ==
  ASSUME DupTypeOK, SearchOK, Enter
  PROVE  DupTypeOK' /\ SearchOK'
<1>1. /\ Calling /\ ~Frame.entered /\ frames # <<>>
      /\ UNCHANGED <<scan, phase, pairs, edges, cliques, maximal, truncated, groups>>
  BY DEF Enter, Calling
<1>2. PICK p \in Frame.candidates \cup Frame.excluded :
        frames' = [frames EXCEPT ![Len(frames)].todo = Frame.candidates \ Neighbours(p),
                                 ![Len(frames)].entered = TRUE]
  BY DEF Enter
<1>3. PICK fr : fr = frames
  OBVIOUS
<1> DEFINE n == Len(fr)
           G == [fr[n] EXCEPT !.todo = Frame.candidates \ Neighbours(p), !.entered = TRUE]
<1>4. fr \in Seq(FrameIn(Entries)) /\ fr[n] \in FrameIn(Entries) /\ n \in 1..n /\ Frame = fr[n]
      /\ fr # <<>> /\ n \in Nat
  BY <1>1, <1>3, FrameTyped, EmptySeq DEF Frame
<1>5. frames' = [fr EXCEPT ![n] = G]
  BY <1>2, <1>3, <1>4
<1>6. /\ G \in FrameIn(Entries) /\ G.taken = fr[n].taken /\ G.candidates = fr[n].candidates
      /\ G.excluded = fr[n].excluded /\ G.todo = fr[n].candidates \ Neighbours(p) /\ G.entered
  BY <1>4 DEF FrameIn
<1> HIDE DEF G
<1>7. PICK fr2 \in Seq(FrameIn(Entries)) : fr2 = [fr EXCEPT ![n] = G]
  BY <1>4, <1>6, ReplacedStack
<1>8. Len(fr2) = n /\ fr2[n] = G /\ \A k \in 1..(n - 1) : fr2[k] = fr[k]
  BY <1>4, <1>6, <1>7, ReplacedStack
<1>9. ASSUME NEW N, NEW E, NEW cap, NEW cl, N = Entries, E = edges,
             IsGraph(N, E), AreCliques(N, E, cl), Len(cl) <= cap, IsStack(N, E, fr, cl)
      PROVE  IsSearch(N, E, cap, fr2, cl)
  <2>1. Neighbours(p) = Adjacent(N, E, p)
    BY <1>9 DEF Neighbours, Adjacent
  <2>2. PICK F : F = fr[n]
    OBVIOUS
  <2>3. IsFrame(N, E, F) /\ ~F.entered /\ p \in F.candidates \cup F.excluded
    BY <1>1, <1>2, <1>4, <1>9, <2>2 DEF IsStack
  <2>4. PICK H \in FrameIn(N) : H = G
    BY <1>6, <1>9
  <2>5. IsFrame(N, E, H) /\ Pending(N, E, H) = Pending(N, E, F)
    BY <1>6, <1>9, <2>1, <2>2, <2>3, <2>4, PivotLosesNothing
  <2>6. IsStack(N, E, fr2, cl)
    BY <1>4, <1>7, <1>8, <1>9, <2>2, <2>4, <2>5, StackReplace
  <2> QED
    BY <1>9, <2>6 DEF IsSearch
<1>10. PICK cl2 \in Seq(SUBSET Entries) : cl2 = cliques
  BY FrameTyped
<1>11. SearchOK'
  <2>1. \A N, E, cap, f, cl :
          /\ N = Entries /\ E = edges /\ cap = scan.maxGroups /\ f = frames /\ cl = cliques
          /\ IsGraph(N, E) /\ AreCliques(N, E, cl) /\ Len(cl) <= cap /\ IsStack(N, E, f, cl)
          => IsSearch(N, E, cap, fr2, cl2)
    BY <1>3, <1>9, <1>10
  <2>2. frames' = fr2 /\ cliques' = cl2 /\ edges' = edges /\ scan' = scan /\ phase' = phase
        /\ pairs' = pairs
    BY <1>1, <1>5, <1>7, <1>10
  <2> QED
    BY <1>1, <2>1, <2>2, StepOfSearch
<1>12. DupTypeOK'
  BY <1>1, <1>5, <1>7 DEF DupTypeOK, Entries, FrameIn
<1> QED
  BY <1>11, <1>12

LEMMA ExpandCliqueStep ==
  ASSUME DupTypeOK, SearchOK, NEW v \in Entries, ExpandClique(v)
  PROVE  DupTypeOK' /\ SearchOK'
<1> DEFINE D == [taken |-> Frame.taken \cup {v}, candidates |-> Frame.candidates \cap Neighbours(v),
                 excluded |-> Frame.excluded \cap Neighbours(v), todo |-> {}, entered |-> FALSE]
<1>1. /\ Calling /\ Frame.entered /\ frames # <<>> /\ v \in Frame.todo
      /\ UNCHANGED <<scan, phase, pairs, edges, cliques, maximal, truncated, groups>>
      /\ frames' = Returned \o <<Excludes(v), D>>
  BY DEF ExpandClique, Calling
<1>2. PICK fr : fr = frames
  OBVIOUS
<1> DEFINE n == Len(fr)
           X == Excludes(v)
<1>3. fr \in Seq(FrameIn(Entries)) /\ fr[n] \in FrameIn(Entries) /\ n \in 1..n /\ Frame = fr[n]
      /\ fr # <<>> /\ n \in Nat
  BY <1>1, <1>2, FrameTyped, EmptySeq DEF Frame
<1>4. /\ X \in FrameIn(Entries) /\ X.taken = fr[n].taken /\ X.candidates = fr[n].candidates \ {v}
      /\ X.excluded = fr[n].excluded \cup {v} /\ X.todo = fr[n].todo \ {v}
      /\ X.entered = fr[n].entered
  BY <1>3 DEF FrameIn, Excludes
<1>5. /\ D \in FrameIn(Entries) /\ D.taken = fr[n].taken \cup {v}
      /\ D.candidates = fr[n].candidates \cap Neighbours(v)
      /\ D.excluded = fr[n].excluded \cap Neighbours(v) /\ D.todo = {} /\ ~D.entered
  BY <1>3 DEF FrameIn
<1> HIDE DEF X, D
<1>6. frames' = SubSeq(fr, 1, n - 1) \o <<X, D>>
  BY <1>1, <1>2 DEF Returned, X
<1>13. PICK T : T = FrameIn(Entries)
  OBVIOUS
<1>14. PICK x \in T, y \in T : x = X /\ y = D
  BY <1>4, <1>5, <1>13
<1>15. <<x, y>> \in Seq(T)
  OBVIOUS
<1>16. PICK xy \in Seq(T) : xy = <<x, y>>
  BY <1>15
<1>17. PICK fr2 : fr2 = Pushed(fr, xy)
  OBVIOUS
<1>19. fr2 = frames'
  BY <1>6, <1>14, <1>16, <1>17 DEF Pushed
<1>20. fr \in Seq(T) /\ fr # <<>> /\ xy \in Seq(T) /\ Len(xy) = 2 /\ xy[1] = X /\ xy[2] = D
  BY <1>3, <1>13, <1>14, <1>16
<1>7. /\ fr2 \in Seq(T) /\ Len(fr2) = Len(fr) + 1 /\ \A k \in 1..(Len(fr) - 1) : fr2[k] = fr[k]
      /\ fr2[Len(fr)] = xy[1] /\ fr2[Len(fr) + 1] = xy[2]
  BY <1>17, <1>20, PushedStack
<1>8. /\ fr2 \in Seq(FrameIn(Entries)) /\ Len(fr2) = n + 1 /\ fr2[n] = X /\ fr2[n + 1] = D
      /\ \A k \in 1..(n - 1) : fr2[k] = fr[k]
  BY <1>7, <1>13, <1>20
<1>9. ASSUME NEW N, NEW E, NEW cap, NEW cl, N = Entries, E = edges,
             IsGraph(N, E), AreCliques(N, E, cl), Len(cl) <= cap, IsStack(N, E, fr, cl)
      PROVE  IsSearch(N, E, cap, fr2, cl)
  <2>1. Neighbours(v) = Adjacent(N, E, v)
    BY <1>9 DEF Neighbours, Adjacent
  <2>2. PICK F : F = fr[n]
    OBVIOUS
  <2>3. IsFrame(N, E, F) /\ F.entered /\ v \in F.todo
    BY <1>1, <1>3, <1>9, <2>2 DEF IsStack
  <2>4. PICK k \in FrameIn(N), d \in FrameIn(N) : k = X /\ d = D
    BY <1>4, <1>5, <1>9
  <2>5. /\ k.taken = F.taken /\ k.candidates = F.candidates \ {v} /\ k.excluded = F.excluded \cup {v}
        /\ k.todo = F.todo \ {v} /\ k.entered
        /\ d.taken = F.taken \cup {v} /\ d.candidates = F.candidates \cap Adjacent(N, E, v)
        /\ d.excluded = F.excluded \cap Adjacent(N, E, v) /\ d.todo = {} /\ ~d.entered
    BY <1>4, <1>5, <2>1, <2>2, <2>3, <2>4
  <2>6. /\ IsFrame(N, E, k) /\ IsFrame(N, E, d)
        /\ Pending(N, E, F) = Pending(N, E, k) \cup Pending(N, E, d)
        /\ Pending(N, E, k) \cap Pending(N, E, d) = {}
    BY <1>9, <2>3, <2>5, ExpandSplits
  <2>7. fr2[n] = k /\ fr2[n + 1] = d /\ fr[n] = F
    BY <1>8, <2>2, <2>4
  <2>8. IsStack(N, E, fr2, cl)
    BY <1>3, <1>8, <1>9, <2>6, <2>7, StackSplit
  <2> QED
    BY <1>9, <2>8 DEF IsSearch
<1>10. PICK cl2 \in Seq(SUBSET Entries) : cl2 = cliques
  BY FrameTyped
<1>11. SearchOK'
  <2>1. \A N, E, cap, f, cl :
          /\ N = Entries /\ E = edges /\ cap = scan.maxGroups /\ f = frames /\ cl = cliques
          /\ IsGraph(N, E) /\ AreCliques(N, E, cl) /\ Len(cl) <= cap /\ IsStack(N, E, f, cl)
          => IsSearch(N, E, cap, fr2, cl2)
    BY <1>2, <1>9, <1>10
  <2>2. frames' = fr2 /\ cliques' = cl2 /\ edges' = edges /\ scan' = scan /\ phase' = phase
        /\ pairs' = pairs
    BY <1>1, <1>10, <1>19
  <2> QED
    BY <1>1, <1>8, <2>1, <2>2, StepOfSearch
<1>12. DupTypeOK'
  BY <1>1, <1>8, <1>10, <1>19, TypeOfSearch
<1> QED
  BY <1>11, <1>12

\* The two ways in which a call is over.
LEMMA ReturnStep ==
  ASSUME DupTypeOK, SearchOK, Return
  PROVE  DupTypeOK' /\ SearchOK'
<1>1. /\ Calling /\ Frame.entered /\ frames # <<>> /\ Frame.todo = {} /\ frames' = Returned
      /\ UNCHANGED <<scan, phase, pairs, edges, cliques, maximal, truncated, groups>>
  BY DEF Return, Calling
<1>2. PICK fr : fr = frames
  OBVIOUS
<1> DEFINE n == Len(fr)
<1>3. fr \in Seq(FrameIn(Entries)) /\ fr[n] \in FrameIn(Entries) /\ n \in 1..n /\ Frame = fr[n]
      /\ fr # <<>> /\ n \in Nat
  BY <1>1, <1>2, FrameTyped, EmptySeq DEF Frame
<1>4. PICK fr2 \in Seq(FrameIn(Entries)) : fr2 = SubSeq(fr, 1, n - 1) /\ fr2 = frames'
  BY <1>1, <1>2, <1>3, FrameTyped DEF Returned
<1>5. Len(fr2) = n - 1 /\ \A k \in 1..(n - 1) : fr2[k] = fr[k]
  <2>1. PICK T : T = FrameIn(Entries)
    OBVIOUS
  <2>2. fr \in Seq(T) /\ fr # <<>> /\ fr2 = SubSeq(fr, 1, Len(fr) - 1)
    BY <1>3, <1>4, <2>1
  <2>3. Len(fr2) = Len(fr) - 1 /\ \A k \in 1..(Len(fr) - 1) : fr2[k] = fr[k]
    BY <2>2, PoppedStack
  <2> QED
    BY <2>3
<1>6. ASSUME NEW N, NEW E, NEW cap, NEW cl, N = Entries, E = edges,
             IsGraph(N, E), AreCliques(N, E, cl), Len(cl) <= cap, IsStack(N, E, fr, cl)
      PROVE  IsSearch(N, E, cap, fr2, cl)
  <2>1. Pending(N, E, fr[n]) = {}
    BY <1>1, <1>3 DEF Pending
  <2>2. Len(cl) \in Nat
    BY <1>6 DEF AreCliques
  <2>3. {cl[i] : i \in (Len(cl) + 1)..Len(cl)} = {}
    BY <2>2
  <2>4. IsStack(N, E, fr2, cl)
    <3>1. Pending(N, E, fr[Len(fr)]) = {cl[i] : i \in (Len(cl) + 1)..Len(cl)}
      BY <2>1, <2>3
    <3>2. Len(cl) <= Len(cl) /\ fr2 \in Seq(FrameIn(N))
      BY <1>6, <2>2
    <3> QED
      BY <1>3, <1>5, <1>6, <2>2, <3>1, <3>2, StackPop
  <2> QED
    BY <1>6, <2>4 DEF IsSearch
<1>7. PICK cl2 \in Seq(SUBSET Entries) : cl2 = cliques
  BY FrameTyped
<1>8. SearchOK'
  <2>1. \A N, E, cap, f, cl :
          /\ N = Entries /\ E = edges /\ cap = scan.maxGroups /\ f = frames /\ cl = cliques
          /\ IsGraph(N, E) /\ AreCliques(N, E, cl) /\ Len(cl) <= cap /\ IsStack(N, E, f, cl)
          => IsSearch(N, E, cap, fr2, cl2)
    BY <1>2, <1>6, <1>7
  <2>2. frames' = fr2 /\ cliques' = cl2 /\ edges' = edges /\ scan' = scan /\ phase' = phase
        /\ pairs' = pairs
    BY <1>1, <1>4, <1>7
  <2> QED
    BY <1>1, <2>1, <2>2, StepOfSearch
<1>9. DupTypeOK'
  BY <1>1, <1>4, <1>7, TypeOfSearch
<1> QED
  BY <1>8, <1>9

LEMMA FoundStep ==
  ASSUME DupTypeOK, SearchOK, Found
  PROVE  DupTypeOK' /\ SearchOK'
<1>1. /\ Calling /\ ~Frame.entered /\ frames # <<>> /\ Frame.candidates = {} /\ Frame.excluded = {}
      /\ cliques' = IF Cardinality(Frame.taken) > 1 THEN Append(cliques, Frame.taken) ELSE cliques
      /\ frames' = IF Len(cliques') > scan.maxGroups THEN <<>> ELSE Returned
      /\ UNCHANGED <<scan, phase, pairs, edges, maximal, truncated, groups>>
  BY DEF Found, Calling
<1>2. PICK fr : fr = frames
  OBVIOUS
<1> DEFINE n == Len(fr)
<1>3. fr \in Seq(FrameIn(Entries)) /\ fr[n] \in FrameIn(Entries) /\ n \in 1..n /\ Frame = fr[n]
      /\ fr # <<>> /\ n \in Nat
  BY <1>1, <1>2, FrameTyped, EmptySeq DEF Frame
<1>4. PICK fr2 \in Seq(FrameIn(Entries)) : fr2 = SubSeq(fr, 1, n - 1) /\ fr2 = Returned
  BY <1>1, <1>2, <1>3, FrameTyped DEF Returned
<1>5. Len(fr2) = n - 1 /\ \A k \in 1..(n - 1) : fr2[k] = fr[k]
  <2>1. PICK T : T = FrameIn(Entries)
    OBVIOUS
  <2>2. fr \in Seq(T) /\ fr # <<>> /\ fr2 = SubSeq(fr, 1, Len(fr) - 1)
    BY <1>3, <1>4, <2>1
  <2>3. Len(fr2) = Len(fr) - 1 /\ \A k \in 1..(Len(fr) - 1) : fr2[k] = fr[k]
    BY <2>2, PoppedStack
  <2> QED
    BY <2>3
<1>6. PICK R \in SUBSET Entries : R = Frame.taken
  BY <1>3 DEF FrameIn
<1>7. PICK cl1 \in Seq(SUBSET Entries) : cl1 = cliques
  BY FrameTyped
<1>8. PICK cl2 \in Seq(SUBSET Entries) : /\ cl2 = cliques'
                                         /\ cl2 = IF Cardinality(R) > 1 THEN Append(cl1, R) ELSE cl1
  BY <1>1, <1>6, <1>7
<1>9. ASSUME NEW N, NEW E, NEW cap, N = Entries, E = edges, cap = scan.maxGroups,
             IsGraph(N, E), AreCliques(N, E, cl1), Len(cl1) <= cap, IsStack(N, E, fr, cl1)
      PROVE  /\ Len(cl2) > cap => IsSearch(N, E, cap, <<>>, cl2)
             /\ ~(Len(cl2) > cap) => IsSearch(N, E, cap, fr2, cl2)
  <2>1. PICK F : F = fr[n]
    OBVIOUS
  <2>2. IsFrame(N, E, F) /\ ~F.entered /\ F.candidates = {} /\ F.excluded = {} /\ F.taken = R
    BY <1>1, <1>3, <1>6, <1>9, <2>1 DEF IsStack
  <2>9. PICK W : W = IF Cardinality(R) > 1 THEN {R} ELSE {}
    OBVIOUS
  <2>3. Pending(N, E, F) = W
    BY <1>9, <2>2, <2>9, LeafIsMaximal
  <2>4. /\ Len(cl1) \in Nat /\ Len(cl2) \in Nat /\ Len(cl1) <= Len(cl2)
        /\ \A i \in 1..Len(cl1) : cl2[i] = cl1[i]
        /\ {cl2[i] : i \in (Len(cl1) + 1)..Len(cl2)} = W
    <3>1. Len(cl1) \in Nat
      OBVIOUS
    <3>2. CASE Cardinality(R) > 1
      <4>1. cl2 = Append(cl1, R)
        BY <1>8, <3>2
      <4>2. /\ Len(cl2) = Len(cl1) + 1 /\ cl2[Len(cl1) + 1] = R
            /\ \A i \in 1..Len(cl1) : cl2[i] = cl1[i]
        BY <4>1
      <4>3. \A i : i \in (Len(cl1) + 1)..Len(cl2) <=> i = Len(cl1) + 1
        BY <3>1, <4>2
      <4>4. {cl2[i] : i \in (Len(cl1) + 1)..Len(cl2)} = {R}
        BY <4>2, <4>3
      <4>5. W = {R}
        BY <2>9, <3>2
      <4> QED
        BY <3>1, <4>2, <4>4, <4>5
    <3>3. CASE ~(Cardinality(R) > 1)
      <4>1. cl2 = cl1
        BY <1>8, <3>3
      <4>2. (Len(cl1) + 1)..Len(cl1) = {}
        BY <3>1
      <4>3. {cl2[i] : i \in (Len(cl1) + 1)..Len(cl2)} = {}
        BY <4>1, <4>2
      <4>4. W = {}
        BY <2>9, <3>3
      <4> QED
        BY <3>1, <4>1, <4>3, <4>4
    <3> QED
      BY <3>2, <3>3
  <2>5. IsStack(N, E, fr2, cl2)
    <3>1. Pending(N, E, fr[Len(fr)]) = {cl2[i] : i \in (Len(cl1) + 1)..Len(cl2)}
      <4>1. fr[Len(fr)] = F
        BY <2>1
      <4>2. Pending(N, E, fr[Len(fr)]) = Pending(N, E, F)
        BY <4>1
      <4>3. {cl2[i] : i \in (Len(cl1) + 1)..Len(cl2)} = W
        BY <2>4
      <4> QED
        BY <2>3, <4>2, <4>3, Zenon
    <3> QED
      BY <1>3, <1>4, <1>5, <1>9, <2>4, <3>1, StackPop
  <2>6. AreCliques(N, E, cl2)
    <3>1. CASE ~(Cardinality(R) > 1)
      BY <1>8, <1>9, <3>1
    <3>2. CASE Cardinality(R) > 1
      <4>1. Len(cl2) = Len(cl1) + 1 /\ cl2[Len(cl1) + 1] = R
        BY <1>7, <1>8, <3>2
      <4>2. R \in Pending(N, E, F)
        BY <2>3, <2>9, <3>2
      <4>3. R \in Maximal(N, E)
        BY <4>2 DEF Pending
      <4>4. \A i \in 1..Len(cl1) : cl1[i] # R
        BY <1>3, <1>9, <2>1, <4>2 DEF IsStack
      <4>5. \A i \in 1..Len(cl2) : i \in 1..Len(cl1) \/ i = Len(cl1) + 1
        BY <2>4, <4>1
      <4>6. cl2 \in Seq(SUBSET N)
        BY <1>9
      <4> QED
        BY <1>9, <2>4, <4>1, <4>3, <4>4, <4>5, <4>6 DEF AreCliques
    <3> QED
      BY <3>1, <3>2
  <2>7. cap \in Nat
    BY <1>9, ScanFacts DEF SearchOK
  <2> QED
    BY <2>4, <2>5, <2>6, <2>7 DEF IsSearch
<1>10. PICK fr3 \in Seq(FrameIn(Entries)) : /\ fr3 = frames'
                                            /\ fr3 = IF Len(cl2) > scan.maxGroups THEN <<>> ELSE fr2
  BY <1>1, <1>4, <1>8, EmptySeq
<1>11. SearchOK'
  <2>1. \A N, E, cap, f, cl :
          /\ N = Entries /\ E = edges /\ cap = scan.maxGroups /\ f = frames /\ cl = cliques
          /\ IsGraph(N, E) /\ AreCliques(N, E, cl) /\ Len(cl) <= cap /\ IsStack(N, E, f, cl)
          => IsSearch(N, E, cap, fr3, cl2)
    BY <1>2, <1>7, <1>9, <1>10
  <2>2. frames' = fr3 /\ cliques' = cl2 /\ edges' = edges /\ scan' = scan /\ phase' = phase
        /\ pairs' = pairs
    BY <1>1, <1>8, <1>10
  <2> QED
    BY <1>1, <2>1, <2>2, StepOfSearch
<1>12. DupTypeOK'
  BY <1>1, <1>8, <1>10 DEF DupTypeOK, Entries, FrameIn
<1> QED
  BY <1>11, <1>12

LEMMA FindPairsStep ==
  ASSUME DupTypeOK, SearchOK, FindPairs
  PROVE  DupTypeOK' /\ SearchOK'
<1>1. /\ phase = "pairs" /\ phase' = "edges"
      /\ UNCHANGED <<scan, edges, frames, cliques, maximal, groups>>
  BY DEF FindPairs
<1>2. PICK some \in SUBSET CandidatePairs : pairs' = some /\ truncated' = (some # CandidatePairs)
  BY DEF FindPairs
<1>3. some \subseteq TwoOf(Entries)
  BY DEF CandidatePairs
<1>4. Entries' = Entries
  BY <1>1 DEF Entries
<1>6. SearchOK'
  <2>1. (pairs \subseteq TwoOf(Entries))'
    BY <1>2, <1>3, <1>4 DEF TwoOf
  <2>2. scan' \in Scans /\ frames' = <<>> /\ cliques' = <<>>
    BY <1>1 DEF SearchOK
  <2>3. IsGraph(Entries, edges)
    BY DEF SearchOK
  <2>4. (\E N \in {Entries}, E \in {edges} : IsGraph(N, E))'
    BY <1>1, <1>4, <2>3
  <2> QED
    BY <1>1, <2>1, <2>2, <2>4 DEF SearchOK
<1>7. DupTypeOK'
  <2>1. edges = {}
    BY <1>1 DEF SearchOK
  <2> QED
    BY <1>1, <1>2, <1>3, <1>4, <2>1 DEF DupTypeOK, TwoOf, Entries
<1> QED
  BY <1>6, <1>7

\* The state after the search, when what is kept is.
LEMMA Kept ==
  ASSUME DupTypeOK, SearchOK, NEW mx \in Seq(SUBSET Entries), mx = cliques', mx = maximal',
         truncated' \in BOOLEAN, phase' = "groups", UNCHANGED <<scan, pairs, edges, frames, groups>>,
         \A N, E, cap, cut : N = Entries /\ E = edges /\ cap = scan.maxGroups /\ cut = truncated'
                               => AreKept(N, E, cap, mx, cut)
  PROVE  DupTypeOK' /\ SearchOK'
<1>1. PICK N, E, cap, cut : N = Entries /\ E = edges /\ cap = scan.maxGroups /\ cut = truncated'
  OBVIOUS
<1>2. AreKept(N, E, cap, mx, cut) /\ IsGraph(N, E) /\ scan' \in Scans
  BY <1>1 DEF SearchOK
<1>3. Entries' = N /\ edges' = E /\ scan'.maxGroups = cap /\ maximal' = mx
  BY <1>1 DEF Entries
<1>4. (pairs \subseteq TwoOf(Entries))'
  BY DEF SearchOK, TwoOf, Entries
<1>5. SearchOK'
  BY <1>1, <1>2, <1>3, <1>4 DEF SearchOK
<1>6. DupTypeOK'
  BY DEF DupTypeOK, Entries, FrameIn
<1> QED
  BY <1>5, <1>6

\* The first call has all the vertices with an edge.
LEMMA FirstCall ==
  ASSUME NEW N, NEW E, IsGraph(N, E), NEW cap \in Nat, NEW F \in FrameIn(N),
         F.taken = {}, F.candidates = UNION E, F.excluded = {}, F.todo = {}, ~F.entered
  PROVE  IsSearch(N, E, cap, <<F>>, <<>>)
<1>1. F.candidates = Common(N, E, {})
  BY DEF Common
<1>2. IsFrame(N, E, F)
  BY <1>1 DEF IsFrame
<1>3. ASSUME NEW C \in Maximal(N, E) PROVE C \in Pending(N, E, F)
  <2>1. /\ \E v, w \in C : v # w
        /\ \A v, w \in C : v # w => {v, w} \in E
    BY MaximalFacts
  <2>2. ASSUME NEW x \in C PROVE x \in UNION E
    <3>1. PICK y \in C : y # x
      BY <2>1
    <3>2. {x, y} \in E
      BY <2>1, <3>1
    <3> QED
      BY <3>2
  <2> QED
    BY <2>2 DEF Pending
<1>4. AreCliques(N, E, <<>>)
  <2>1. <<>> \in Seq(SUBSET N) /\ Len(<<>>) = 0
    BY EmptySeq
  <2> QED
    BY <2>1 DEF AreCliques
<1>5. IsStack(N, E, <<F>>, <<>>)
  <2>1. <<F>> \in Seq(FrameIn(N)) /\ Len(<<F>>) = 1 /\ <<F>>[1] = F
    OBVIOUS
  <2>2. PICK fr : fr = <<F>>
    OBVIOUS
  <2>3. fr \in Seq(FrameIn(N)) /\ Len(fr) = 1 /\ fr[1] = F
    BY <2>1, <2>2, Zenon
  <2>4. \A k \in 1..Len(fr) : k = 1 /\ fr[k] = F
    BY <2>3
  <2>5. Len(<<>>) = 0 /\ 1 \in 1..Len(fr)
    BY <2>3
  <2>6. IsStack(N, E, fr, <<>>)
    BY <1>2, <1>3, <2>3, <2>4, <2>5 DEF IsStack
  <2> QED
    BY <2>2, <2>6
<1> QED
  BY <1>4, <1>5 DEF IsSearch

LEMMA KeepEdgesStep ==
  ASSUME DupTypeOK, SearchOK, KeepEdges
  PROVE  DupTypeOK' /\ SearchOK'
<1>1. /\ phase = "edges" /\ phase' = "cliques" /\ edges' = {p \in pairs : Qualifies(p)}
      /\ UNCHANGED <<scan, pairs, cliques, maximal, truncated, groups>>
  BY DEF KeepEdges
<1>2. PICK F : F = [taken |-> {}, candidates |-> UNION edges', excluded |-> {}, todo |-> {},
                    entered |-> FALSE]
  OBVIOUS
<1>3. frames' = <<F>>
  BY <1>2 DEF KeepEdges
<1>4. PICK N, E, cap : N = Entries /\ E = edges' /\ cap = scan.maxGroups
  OBVIOUS
<1>5. IsGraph(N, E) /\ cap \in Nat
  <2>1. N \subseteq Nat /\ IsFiniteSet(N) /\ cap \in Nat
    BY <1>4, ScanFacts DEF SearchOK, Entries
  <2>2. \A e \in E : e \in TwoOf(N)
    BY <1>1, <1>4 DEF SearchOK
  <2>3. \A e \in E : \E v, w \in N : v # w /\ e = {v, w}
    <3>1. \A p : p \in TwoOf(N) <=> \E v, w \in N : v # w /\ p = {v, w}
      BY <2>1, TwoOfPairs
    <3> QED
      BY <2>2, <3>1
  <2> QED
    BY <2>1, <2>3 DEF IsGraph
<1>6. F \in FrameIn(N)
  <2>1. UNION E \subseteq N
    BY <1>5 DEF IsGraph
  <2> QED
    BY <1>2, <1>4, <2>1 DEF FrameIn
<1>7. IsSearch(N, E, cap, <<F>>, <<>>)
  BY <1>2, <1>4, <1>5, <1>6, FirstCall
<1>8. Entries' = N /\ scan'.maxGroups = cap /\ cliques' = <<>>
  BY <1>1, <1>4 DEF Entries, SearchOK
<1>9. SearchOK'
  <2>1. (pairs \subseteq TwoOf(Entries))'
    BY <1>1 DEF SearchOK, TwoOf, Entries
  <2>2. scan' \in Scans
    BY <1>1 DEF SearchOK
  <2> QED
    BY <1>1, <1>3, <1>4, <1>5, <1>7, <1>8, <2>1, <2>2 DEF SearchOK
<1>10. DupTypeOK'
  <2>0. <<F>> \in Seq(FrameIn(N))
    BY <1>6
  <2>1. PICK fr \in Seq(FrameIn(N)) : fr = <<F>>
    BY <2>0
  <2>2. frames' \in Seq(FrameIn(N)) /\ edges' \subseteq pairs'
    BY <1>1, <1>3, <2>1
  <2> QED
    BY <1>1, <1>4, <2>2 DEF DupTypeOK, Entries, FrameIn
<1> QED
  BY <1>9, <1>10

LEMMA KeepCliquesStep ==
  ASSUME DupTypeOK, SearchOK, KeepCliques
  PROVE  DupTypeOK' /\ SearchOK'
<1>1. /\ phase = "cliques" /\ phase' = "groups" /\ frames = <<>> /\ maximal' = cliques'
      /\ UNCHANGED <<scan, pairs, edges, frames, groups>>
  BY DEF KeepCliques
<1>2. PICK N, E, cap, cl :
        N = Entries /\ E = edges /\ cap = scan.maxGroups /\ cl = cliques
  OBVIOUS
<1>3. /\ IsGraph(N, E) /\ IsSearch(N, E, cap, <<>>, cl) /\ cap \in Nat /\ cl \in Seq(SUBSET N)
      /\ Len(cl) \in Nat
  BY <1>1, <1>2, ScanFacts, FrameTyped DEF SearchOK
<1>4. PICK mx : mx = cliques'
  OBVIOUS
<1>5. /\ mx = IF Len(cl) > cap THEN SubSeq(cl, 1, cap) ELSE cl
      /\ truncated' = (truncated \/ Len(cl) > cap)
  BY <1>2, <1>4 DEF KeepCliques
<1>6. AreCliques(N, E, cl)
  BY <1>3 DEF IsSearch
<1>7. CASE Len(cl) > cap
  <2>1. /\ SubSeq(cl, 1, cap) \in Seq(SUBSET N)
        /\ Len(SubSeq(cl, 1, cap)) = IF 1 <= cap THEN cap - 1 + 1 ELSE 0
        /\ \A k \in 1..(cap - 1 + 1) : SubSeq(cl, 1, cap)[k] = cl[1 + k - 1]
    <3>1. \A k \in 1..cap : cl[k] \in SUBSET N
      BY <1>3, <1>7
    <3>2. 1 \in Int /\ cap \in Int /\ (1 > cap \/ cap <= Len(cl))
      BY <1>3, <1>7
    <3> QED
      BY <1>3, <3>1, <3>2, SubSeqProperties
  <2>2. mx \in Seq(SUBSET N) /\ Len(mx) = cap /\ \A k \in 1..cap : mx[k] = cl[k]
    <3>1. cap - 1 + 1 = cap /\ \A k \in 1..cap : 1 + k - 1 = k
      BY <1>3
    <3> QED
      BY <1>3, <1>5, <1>7, <2>1, <3>1
  <2>3. \A k \in 1..cap : k \in 1..Len(cl)
    BY <1>3, <1>7
  <2>4. AreCliques(N, E, mx)
    BY <1>6, <2>2, <2>3 DEF AreCliques
  <2>5. cap + 1 \in 1..Len(cl) /\ \A k \in 1..cap : k # cap + 1
    BY <1>3, <1>7
  <2>6. cl[cap + 1] \in Maximal(N, E) /\ \A k \in 1..Len(mx) : cl[cap + 1] # mx[k]
    BY <1>6, <2>2, <2>3, <2>5 DEF AreCliques
  <2>7. AreKept(N, E, cap, mx, TRUE)
    BY <2>2, <2>4, <2>6 DEF AreKept
  <2>8. truncated' = TRUE
    BY <1>5, <1>7 DEF DupTypeOK
  <2> QED
    BY <1>1, <1>2, <1>3, <1>4, <2>2, <2>7, <2>8, Kept
<1>8. CASE ~(Len(cl) > cap)
  <2>1. mx = cl
    BY <1>5, <1>8
  <2>2. IsStack(N, E, <<>>, cl) /\ Len(cl) <= cap
    BY <1>3, <1>8 DEF IsSearch
  <2>3. Len(<<>>) = 0
    BY EmptySeq
  <2>4. \A C \in Maximal(N, E) : \E i \in 1..Len(cl) : C = cl[i]
    BY <2>2, <2>3 DEF IsStack
  <2>5. AreKept(N, E, cap, mx, truncated')
    BY <1>6, <2>1, <2>2, <2>4 DEF AreKept
  <2>6. truncated' \in BOOLEAN
    BY <1>5
  <2> QED
    BY <1>1, <1>2, <1>3, <1>4, <2>1, <2>5, <2>6, Kept
<1> QED
  BY <1>7, <1>8

LEMMA AfterSearch ==
  ASSUME DupTypeOK, SearchOK, phase \in {"groups", "done"}, phase' \in {"groups", "done"},
         UNCHANGED <<scan, pairs, edges, frames, maximal, truncated>>
  PROVE  SearchOK'
<1>1. PICK N, E, cap, mx, cut : N = Entries /\ E = edges /\ cap = scan.maxGroups /\ mx = maximal
                                  /\ cut = truncated
  OBVIOUS
<1>2. IsGraph(N, E) /\ AreKept(N, E, cap, mx, cut) /\ scan' \in Scans
  BY <1>1 DEF SearchOK
<1>3. Entries' = N /\ edges' = E /\ scan'.maxGroups = cap /\ maximal' = mx /\ truncated' = cut
  BY <1>1 DEF Entries
<1>4. (pairs \subseteq TwoOf(Entries))'
  BY DEF SearchOK, TwoOf, Entries
<1> QED
  BY <1>2, <1>3, <1>4 DEF SearchOK

LEMMA EmitGroupsStep ==
  ASSUME DupTypeOK, SearchOK, EmitGroups
  PROVE  DupTypeOK' /\ SearchOK'
<1>1. /\ phase = "groups" /\ cliques # <<>> /\ cliques' = Tail(cliques)
      /\ groups' = groups \cup {g \in {Pruned(P) : P \in {Head(cliques)} \cup Supplemental(Head(cliques))} :
                                  Cardinality(g) > 1}
      /\ UNCHANGED <<scan, phase, pairs, edges, frames, maximal, truncated>>
  BY DEF EmitGroups
<1>2. SearchOK'
  BY <1>1, AfterSearch
<1>3. PICK cl \in Seq(SUBSET Entries) : cl = cliques
  BY FrameTyped
<1>4. Head(cl) \in SUBSET Entries /\ Tail(cl) \in Seq(SUBSET Entries)
  BY <1>1, <1>3
<1>5. \A P \in Supplemental(Head(cliques)) : P \subseteq Head(cliques)
  BY DEF Supplemental
<1>6. \A P \in SUBSET Entries : Pruned(P) \subseteq UNION {scan.members[i] : i \in Entries}
  BY DEF Pruned, MembersOf
<1>7. \A g \in groups' : g \subseteq UNION {scan.members[i] : i \in Entries}
  BY <1>1, <1>3, <1>4, <1>5, <1>6 DEF DupTypeOK
<1>8. DupTypeOK'
  BY <1>1, <1>3, <1>4, <1>7 DEF DupTypeOK, Entries
<1> QED
  BY <1>2, <1>8

LEMMA AllEmittedStep ==
  ASSUME DupTypeOK, SearchOK, AllEmitted
  PROVE  DupTypeOK' /\ SearchOK'
<1>1. SearchOK'
  BY AfterSearch DEF AllEmitted
<1>2. DupTypeOK'
  BY DEF AllEmitted, DupTypeOK, Entries
<1> QED
  BY <1>1, <1>2

LEMMA DupStutters ==
  ASSUME DupTypeOK, SearchOK, UNCHANGED dupVars
  PROVE  DupTypeOK' /\ SearchOK'
<1>1. DupTypeOK'
  BY DEF dupVars, DupTypeOK, Entries
<1>2. SearchOK'
  BY DEF dupVars, SearchOK, Entries, TwoOf
<1> QED
  BY <1>1, <1>2

LEMMA DupStep ==
  ASSUME DupTypeOK, SearchOK, [DupNext]_dupVars
  PROVE  DupTypeOK' /\ SearchOK'
BY FindPairsStep, KeepEdgesStep, FoundStep, EnterStep, ReturnStep, KeepCliquesStep, EmitGroupsStep,
   AllEmittedStep, ExpandCliqueStep, DupStutters DEF DupNext

\* That every clique is found once makes the numbers of the property.
LEMMA KeptAreMaximal == DupTypeOK /\ SearchOK => CliquesAreMaximal
<1> SUFFICES ASSUME DupTypeOK, SearchOK, phase \in {"groups", "done"}
             PROVE  LET all == {C \in SUBSET Entries : IsMaximalClique(C)} IN
                    /\ ToSet(maximal) \subseteq all /\ Cardinality(ToSet(maximal)) = Len(maximal)
                    /\ Len(maximal) = IF Cardinality(all) <= scan.maxGroups THEN Cardinality(all)
                                                                            ELSE scan.maxGroups
                    /\ Cardinality(all) > scan.maxGroups => truncated
  BY DEF CliquesAreMaximal
<1>1. PICK N, E, cap, mx, cut : N = Entries /\ E = edges /\ cap = scan.maxGroups /\ mx = maximal
                                  /\ cut = truncated
  OBVIOUS
<1>2. IsGraph(N, E) /\ AreKept(N, E, cap, mx, cut) /\ cap \in Nat
  BY <1>1, ScanFacts DEF SearchOK
<1>3. PICK all : all = Maximal(N, E)
  OBVIOUS
<1>4. all = {C \in SUBSET Entries : IsMaximalClique(C)}
  BY <1>1, <1>3 DEF Maximal, IsMaximalClique
<1>5. /\ mx \in Seq(SUBSET N) /\ Len(mx) \in Nat /\ DOMAIN mx = 1..Len(mx)
      /\ \A i \in 1..Len(mx) : mx[i] \in all
      /\ \A i, j \in 1..Len(mx) : mx[i] = mx[j] => i = j
  BY <1>2, <1>3 DEF AreKept, AreCliques
<1>6. IsFiniteSet(ToSet(mx)) /\ Cardinality(ToSet(mx)) = Len(mx)
  BY <1>5, EachOnceCounts
<1>7. ToSet(mx) \subseteq all /\ \A C : C \in ToSet(mx) <=> \E i \in 1..Len(mx) : C = mx[i]
  BY <1>5 DEF ToSet
<1>8. IsFiniteSet(all) /\ Cardinality(all) \in Nat
  <2>1. IsFiniteSet(SUBSET N)
    BY <1>2, FS_SUBSET DEF IsGraph
  <2>2. all \subseteq SUBSET N
    BY <1>3 DEF Maximal
  <2> QED
    BY <2>1, <2>2, FS_Subset, FS_CardinalityType
<1>9. \/ Len(mx) <= cap /\ Cardinality(all) = Len(mx)
      \/ cut = TRUE /\ Len(mx) = cap /\ Cardinality(all) > cap
  <2>1. CASE Len(mx) <= cap /\ \A C \in Maximal(N, E) : \E i \in 1..Len(mx) : C = mx[i]
    <3>1. all = ToSet(mx)
      BY <1>3, <1>7, <2>1
    <3> QED
      BY <1>6, <2>1, <3>1
  <2>2. CASE cut /\ Len(mx) = cap /\ \E C \in Maximal(N, E) : \A i \in 1..Len(mx) : C # mx[i]
    <3>1. ToSet(mx) # all
      BY <1>3, <1>7, <2>2
    <3>2. Cardinality(ToSet(mx)) < Cardinality(all)
      <4>1. PICK T \in SUBSET all : T = ToSet(mx)
        BY <1>7
      <4>2. Cardinality(T) <= Cardinality(all) /\ (Cardinality(all) = Cardinality(T) => all = T)
        BY <1>8, FS_Subset
      <4>3. Cardinality(T) \in Nat
        BY <1>5, <1>6, <4>1
      <4> QED
        BY <1>8, <3>1, <4>1, <4>2, <4>3
    <3> QED
      BY <1>1, <1>6, <2>2, <3>2 DEF DupTypeOK
  <2> QED
    BY <1>2, <2>1, <2>2 DEF AreKept
<1>10. Len(mx) = (IF Cardinality(all) <= cap THEN Cardinality(all) ELSE cap)
  <2>1. PICK size, len : size = Cardinality(all) /\ len = Len(mx)
    OBVIOUS
  <2>2. size \in Nat /\ len \in Nat
    BY <1>5, <1>8, <2>1
  <2>4. (len <= cap /\ size = len) \/ (len = cap /\ size > cap)
    BY <1>9, <2>1, Zenon
  <2>3. len = (IF size <= cap THEN size ELSE cap)
    BY <1>2, <2>2, <2>4
  <2> QED
    BY <2>1, <2>3
<1>11. Cardinality(all) > cap => cut
  <2>1. Len(mx) \in Nat /\ Cardinality(all) \in Nat /\ cap \in Nat
    BY <1>2, <1>5, <1>8
  <2>2. Len(mx) <= cap /\ Cardinality(all) = Len(mx) => ~(Cardinality(all) > cap)
    BY <2>1
  <2> QED
    BY <1>9, <2>2, Zenon
<1> QED
  BY <1>1, <1>4, <1>6, <1>7, <1>10, <1>11

-----------------------------------------------------------------------------
(* The prefixes lose no pair *)

LEMMA Ceiling ==
  ASSUME NEW s \in Nat, NEW o \in Nat \ {0}, NEW a \in Nat, NEW u \in Nat, NEW k \in Nat,
         a <= u, s * u <= k * o
  PROVE  (s * a + o - 1) \div o <= k /\ (s * a + o - 1) \div o \in Int
<1>1. s * a <= s * u /\ s * a \in Nat
  <2>1. PICK d \in Nat : u = a + d
    <3>1. u - a \in Nat /\ u = a + (u - a)
      OBVIOUS
    <3> QED
      BY <3>1
  <2>2. s * (a + d) = s * a + s * d /\ s * d \in Nat /\ s * a \in Nat
    OBVIOUS
  <2> QED
    BY <2>1, <2>2
<1>2. PICK x \in Nat : x = s * a + o - 1
  <2>1. s * a + o - 1 \in Nat
    BY <1>1
  <2> QED
    BY <2>1
<1>3. x < k * o + o
  BY <1>1, <1>2
<1>4. PICK q \in Int : q = x \div o
  OBVIOUS
<1>5. o * q <= x
  BY <1>4
<1>6. q <= k
  <2> SUFFICES ASSUME q >= k + 1 PROVE FALSE
    OBVIOUS
  <2>1. o * q >= o * (k + 1)
    <3>1. PICK d \in Nat : q = (k + 1) + d
      <4>1. q - (k + 1) \in Nat /\ q = (k + 1) + (q - (k + 1))
        OBVIOUS
      <4> QED
        BY <4>1
    <3>2. o * ((k + 1) + d) = o * (k + 1) + o * d /\ o * d \in Nat /\ o * (k + 1) \in Nat
      OBVIOUS
    <3> QED
      BY <3>1, <3>2
  <2>2. o * (k + 1) = k * o + o /\ k * o \in Nat /\ o * q \in Int
    OBVIOUS
  <2> QED
    BY <1>3, <1>5, <2>1, <2>2
<1> QED
  BY <1>2, <1>4, <1>6

LEMMA FrequencyTyped ==
  ASSUME scan \in Scans
  PROVE  \A b : Frequency(b) \in Nat
<1>1. ASSUME NEW b PROVE Frequency(b) \in Nat
  <2>1. PICK N : N = Entries
    OBVIOUS
  <2>2. IsFiniteSet(N)
    BY <2>1, ScanFacts DEF Entries
  <2>3. {i \in N : b \in scan.branches[i]} \subseteq N
    OBVIOUS
  <2>4. Cardinality({i \in N : b \in scan.branches[i]}) \in Nat
    BY <2>2, <2>3, FS_Subset, FS_CardinalityType
  <2> QED
    BY <2>1, <2>4 DEF Frequency
<1> QED
  BY <1>1

LEMMA RarestOf ==
  ASSUME scan \in Scans, NEW I, I \subseteq Nat, I # {}
  PROVE  \E b \in I : \A c \in I : ~Rarer(c, b)
<1>1. \A b \in I : Frequency(b) \in Nat
  BY FrequencyTyped
<1>2. PICK T : T = {Frequency(b) : b \in I}
  OBVIOUS
<1>3. PICK x \in T : \A y \in T : x <= y
  BY <1>1, <1>2, LeastNumber
<1>4. PICK J : J = {b \in I : Frequency(b) = x}
  OBVIOUS
<1>5. J \subseteq Nat /\ J # {}
  BY <1>2, <1>4
<1>6. PICK b \in J : \A y \in J : b <= y
  BY <1>5, LeastNumber
<1>7. ASSUME NEW c \in I, Rarer(c, b) PROVE FALSE
  <2>1. Frequency(c) \in T /\ Frequency(b) = x /\ b \in I
    BY <1>2, <1>4
  <2>2. x <= Frequency(c) /\ x \in Nat /\ Frequency(c) \in Nat
    BY <1>1, <1>3, <2>1
  <2>3. Frequency(c) = x /\ c < b
    BY <1>7, <2>1, <2>2 DEF Rarer
  <2>4. c \in J /\ b <= c
    BY <1>4, <1>6, <2>3
  <2> QED
    BY <2>3, <2>4
<1> QED
  BY <1>4, <1>7

\* Of what two entries share the rarest branch is in the prefix of each: those before it are not
\* shared, and that are at most as many as may be missing.
LEMMA SharedInPrefix ==
  ASSUME scan \in Scans, NEW i \in Entries, NEW j \in Entries, Clears(i, j),
         NEW b \in scan.branches[i] \cap scan.branches[j],
         \A c \in scan.branches[i] \cap scan.branches[j] : ~Rarer(c, b)
  PROVE  b \in Prefix(i)
<1>1. PICK A, B : A = scan.branches[i] /\ B = scan.branches[j]
  OBVIOUS
<1>2. PICK s, o : s = scan.share /\ o = scan.outOf
  OBVIOUS
<1>3. IsFiniteSet(A) /\ IsFiniteSet(B) /\ s \in Nat /\ o \in Nat \ {0}
  BY <1>1, <1>2, ScansAssumption DEF IsScan, Entries
<1>4. PICK I, U : I = A \cap B /\ U = A \cup B
  OBVIOUS
<1>5. /\ IsFiniteSet(I) /\ IsFiniteSet(U)
      /\ Cardinality(A) \in Nat /\ Cardinality(I) \in Nat /\ Cardinality(U) \in Nat
      /\ Cardinality(A) <= Cardinality(U)
  <2>1. IsFiniteSet(U)
    BY <1>3, <1>4, FS_Union
  <2>2. IsFiniteSet(I)
    BY <1>3, <1>4, FS_Intersection
  <2>3. A \in SUBSET U
    BY <1>4
  <2>4. Cardinality(A) <= Cardinality(U)
    BY <2>1, <2>3, FS_Subset
  <2> QED
    BY <1>3, <2>1, <2>2, <2>4, FS_CardinalityType
<1>6. PICK a, u, k : a = Cardinality(A) /\ u = Cardinality(U) /\ k = Cardinality(I)
  OBVIOUS
<1>7. a \in Nat /\ u \in Nat /\ k \in Nat /\ a <= u /\ s * u <= k * o
  <2>1. k * o >= s * u
    BY <1>1, <1>2, <1>4, <1>6 DEF Clears
  <2>2. a \in Nat /\ u \in Nat /\ k \in Nat /\ a <= u
    BY <1>5, <1>6
  <2> QED
    BY <1>3, <2>1, <2>2
<1>8. Required(a) <= k /\ Required(a) \in Int
  BY <1>2, <1>3, <1>7, Ceiling DEF Required
<1>9. Rank(i, b) <= a - k /\ Rank(i, b) \in Nat
  <2>1. PICK R : R = {c \in A : Rarer(c, b)}
    OBVIOUS
  <2>2. R \in SUBSET (A \ I)
    BY <1>1, <1>4, <2>1
  <2>3. IsFiniteSet(A \ I) /\ Cardinality(A \ I) = Cardinality(A) - Cardinality(A \cap I)
    BY <1>3, FS_Difference
  <2>4. A \cap I = I
    BY <1>4
  <2>5. IsFiniteSet(R) /\ Cardinality(R) <= Cardinality(A \ I)
    BY <2>2, <2>3, FS_Subset
  <2>6. Cardinality(R) \in Nat
    BY <2>5, FS_CardinalityType
  <2>7. Rank(i, b) = Cardinality(R)
    BY <1>1, <2>1 DEF Rank
  <2> QED
    BY <1>6, <2>3, <2>4, <2>5, <2>6, <2>7
<1>10. Rank(i, b) < a - Required(a) + 1
  BY <1>7, <1>8, <1>9
<1> QED
  BY <1>1, <1>6, <1>10 DEF Prefix

LEMMA NoneLostToPrefixes ==
  ASSUME scan \in Scans, NEW i \in Entries, NEW j \in Entries, i # j, Qualifies({i, j})
  PROVE  {i, j} \in CandidatePairs
<1>1. Clears(i, j) /\ Clears(j, i)
  BY DEF Qualifies
<1>2. PICK A, B : A = scan.branches[i] /\ B = scan.branches[j]
  OBVIOUS
<1>3. A \subseteq Nat /\ B \subseteq Nat /\ IsFiniteSet(A) /\ IsFiniteSet(B)
  <2>1. scan.branches \in Seq(SUBSET Nat) /\ \A k \in DOMAIN scan.branches : IsFiniteSet(scan.branches[k])
    BY ScansAssumption DEF IsScan
  <2> QED
    BY <1>2, <2>1 DEF Entries
<1>4. A \cap B # {}
  <2> SUFFICES ASSUME A \cap B = {} PROVE FALSE
    OBVIOUS
  <2>1. PICK s, o, u : s = scan.share /\ o = scan.outOf /\ u = Cardinality(A \cup B)
    OBVIOUS
  <2>2. s \in Nat \ {0} /\ o \in Nat
    BY <2>1, ScansAssumption DEF IsScan
  <2>3. Cardinality(A \cap B) * o >= s * u /\ A \cup B # {}
    BY <1>1, <1>2, <2>1 DEF Clears
  <2>4. u \in Nat \ {0}
    <3>1. IsFiniteSet(A \cup B)
      BY <1>3, FS_Union
    <3> QED
      BY <2>1, <2>3, <3>1, FS_CardinalityType, FS_EmptySet
  <2>5. Cardinality(A \cap B) = 0
    BY FS_EmptySet
  <2>6. 0 * o = 0 /\ s * u > 0
    BY <2>2, <2>4
  <2>7. 0 >= s * u
    BY <2>3, <2>5, <2>6
  <2> QED
    BY <2>2, <2>4, <2>6, <2>7
<1>5. PICK b \in A \cap B : \A c \in A \cap B : ~Rarer(c, b)
  BY <1>3, <1>4, RarestOf
<1>6. b \in Prefix(i)
  BY <1>1, <1>2, <1>5, SharedInPrefix
<1>7. b \in Prefix(j)
  <2>1. b \in scan.branches[j] \cap scan.branches[i]
        /\ \A c \in scan.branches[j] \cap scan.branches[i] : ~Rarer(c, b)
    BY <1>2, <1>5
  <2> QED
    BY <1>1, <2>1, SharedInPrefix
<1>8. {i, j} \in TwoOf(Entries)
  <2>1. PICK N : N = Entries
    OBVIOUS
  <2>2. IsFiniteSet(N)
    BY <2>1, ScanFacts DEF Entries
  <2>3. \A p : p \in TwoOf(N) <=> \E v, w \in N : v # w /\ p = {v, w}
    BY <2>2, TwoOfPairs
  <2> QED
    BY <2>1, <2>3
<1> QED
  BY <1>6, <1>7, <1>8 DEF CandidatePairs

-----------------------------------------------------------------------------
(* Every edge is in a maximal clique: the largest that holds it *)

LEMMA LargestClique ==
  ASSUME NEW N, NEW E, IsGraph(N, E), NEW i \in N, NEW j \in N, i # j, {i, j} \in E
  PROVE  \E C \in Maximal(N, E) : i \in C /\ j \in C
<1>1. PICK Holding : Holding = {C \in SUBSET N : /\ i \in C /\ j \in C
                                                 /\ \A v, w \in C : v # w => {v, w} \in E}
  OBVIOUS
<1>2. {i, j} \in Holding
  <2>1. {j, i} = {i, j}
    OBVIOUS
  <2> QED
    BY <1>1, <2>1
<1>3. PICK missing : missing = [C \in SUBSET N |-> Cardinality(N \ C)]
  OBVIOUS
<1>4. \A C \in SUBSET N : missing[C] \in Nat /\ IsFiniteSet(N \ C) /\ missing[C] = Cardinality(N \ C)
  <2>1. \A C \in SUBSET N : N \ C \in SUBSET N
    OBVIOUS
  <2> QED
    BY <1>3, <2>1, FS_Subset, FS_CardinalityType DEF IsGraph
<1>5. PICK T : T = {missing[C] : C \in Holding}
  OBVIOUS
<1>6. T \subseteq Nat /\ T # {}
  BY <1>1, <1>2, <1>4, <1>5
<1>7. PICK x \in T : \A y \in T : x <= y
  BY <1>6, LeastNumber
<1>8. PICK C \in Holding : missing[C] = x
  BY <1>5, <1>7
<1>9. C \in SUBSET N /\ i \in C /\ j \in C /\ \A v, w \in C : v # w => {v, w} \in E
  BY <1>1, <1>8
<1>10. ASSUME NEW v \in N \ C, \A w \in C : {v, w} \in E PROVE FALSE
  <2>1. PICK D : D = C \cup {v}
    OBVIOUS
  <2>2. D \in Holding
    <3>1. \A y, z \in D : y # z => {y, z} \in E
      <4>1. \A w \in C : {w, v} = {v, w}
        OBVIOUS
      <4> QED
        BY <1>9, <1>10, <2>1, <4>1
    <3> QED
      BY <1>1, <1>9, <2>1, <3>1
  <2>3. D \in SUBSET N /\ C \in SUBSET N
    BY <1>9, <2>1
  <2>4. N \ D = (N \ C) \ {v} /\ v \in N \ C
    BY <2>1
  <2>5. Cardinality((N \ C) \ {v}) = Cardinality(N \ C) - 1
    BY <1>4, <2>3, <2>4, FS_RemoveElement
  <2>6. missing[D] = missing[C] - 1
    BY <1>4, <2>3, <2>4, <2>5
  <2>7. missing[C] <= missing[D]
    BY <1>5, <1>7, <1>8, <2>2
  <2>8. missing[C] \in Nat
    BY <1>4, <2>3
  <2> QED
    BY <2>6, <2>7, <2>8
<1>11. C \in Maximal(N, E)
  <2>1. \A v \in N \ C : \E w \in C : {v, w} \notin E
    BY <1>10
  <2>2. C \in Maximal(N, E) <=>
          /\ C \subseteq N /\ \E v, w \in C : v # w
          /\ \A v, w \in C : v # w => {v, w} \in E
          /\ \A v \in N \ C : \E w \in C : {v, w} \notin E
    BY MaximalFacts
  <2> QED
    BY <1>9, <2>1, <2>2
<1> QED
  BY <1>9, <1>11

-----------------------------------------------------------------------------
(* What is taken out of a group comes back in another *)

\* Of the members of an entry one lies in no other.
LEMMA OneIsOutermost ==
  ASSUME scan \in Scans, NEW M, IsFiniteSet(M), M # {}
  PROVE  \E m \in M : \A o \in M : ~Within(m, o)
<1>1. PICK W : W = scan.within
  OBVIOUS
<1>2. \A m, o : Within(m, o) <=> <<m, o>> \in W
  BY <1>1 DEF Within
<1>3. (\A m : <<m, m>> \notin W) /\ \A m, o, q : <<m, o>> \in W /\ <<o, q>> \in W => <<m, q>> \in W
  <2>1. \A e \in W : e[1] # e[2] /\ \A f \in W : e[2] = f[1] => <<e[1], f[2]>> \in W
    BY <1>1, ScansAssumption DEF IsScan
  <2>2. \A m, o : <<m, o>>[1] = m /\ <<m, o>>[2] = o
    OBVIOUS
  <2> QED
    BY <2>1, <2>2
<1>4. PICK around : around = [m \in M |-> {o \in M : <<m, o>> \in W}]
  OBVIOUS
<1>5. \A m \in M : /\ around[m] = {o \in M : <<m, o>> \in W} /\ around[m] \in SUBSET M
                   /\ IsFiniteSet(around[m]) /\ Cardinality(around[m]) \in Nat
  <2>1. \A m \in M : around[m] = {o \in M : <<m, o>> \in W} /\ around[m] \in SUBSET M
    BY <1>4
  <2> QED
    BY <2>1, FS_Subset, FS_CardinalityType
<1>6. PICK T : T = {Cardinality(around[m]) : m \in M}
  OBVIOUS
<1>7. PICK x \in T : \A y \in T : x <= y
  BY <1>5, <1>6, LeastNumber
<1>8. PICK m \in M : Cardinality(around[m]) = x
  BY <1>6, <1>7
<1>9. ASSUME NEW o \in M, <<m, o>> \in W PROVE FALSE
  <2>1. around[o] \in SUBSET around[m] /\ o \in around[m] /\ o \notin around[o]
    BY <1>3, <1>5, <1>9
  <2>2. /\ Cardinality(around[o]) <= Cardinality(around[m])
        /\ Cardinality(around[m]) = Cardinality(around[o]) => around[m] = around[o]
    BY <1>5, <2>1, FS_Subset
  <2>3. x <= Cardinality(around[o])
    BY <1>6, <1>7
  <2> QED
    BY <1>5, <1>8, <2>1, <2>2, <2>3
<1> QED
  BY <1>2, <1>9

LEMMA MembersFacts ==
  ASSUME scan \in Scans
  PROVE  /\ \A i \in Entries : scan.members[i] # {} /\ IsFiniteSet(scan.members[i])
         /\ \A i, j \in Entries : i # j => scan.members[i] \cap scan.members[j] = {}
BY ScansAssumption DEF IsScan, Entries

\* A group that has a member of each of two entries has two.
LEMMA TwoAreReported ==
  ASSUME scan \in Scans, NEW P \in SUBSET Entries, NEW i \in Entries, NEW j \in Entries, i # j,
         scan.members[i] \cap Pruned(P) # {}, scan.members[j] \cap Pruned(P) # {}
  PROVE  Cardinality(Pruned(P)) > 1
<1>1. PICK G : G = Pruned(P)
  OBVIOUS
<1>2. IsFiniteSet(G)
  <2>1. PICK N : N = Entries
    OBVIOUS
  <2>2. IsFiniteSet(N)
    BY <2>1, ScanFacts DEF Entries
  <2>3. IsFiniteSet(P)
    BY <2>1, <2>2, FS_Subset
  <2>4. PICK S : S = {scan.members[k] : k \in P}
    OBVIOUS
  <2>5. IsFiniteSet(S)
    <3>1. PICK f : f = [k \in P |-> scan.members[k]]
      OBVIOUS
    <3>2. f \in Surjection(P, S)
      BY <2>4, <3>1 DEF Surjection
    <3> QED
      BY <2>3, <3>2, FS_Surjection
  <2>6. \A s \in S : IsFiniteSet(s)
    BY <2>4, MembersFacts
  <2>7. IsFiniteSet(UNION S)
    BY <2>5, <2>6, FS_UNION
  <2>8. G \in SUBSET (UNION S)
    BY <1>1, <2>4 DEF Pruned, MembersOf
  <2> QED
    BY <2>7, <2>8, FS_Subset
<1>3. \E m, o \in G : m # o
  BY <1>1, MembersFacts
<1> QED
  BY <1>1, <1>2, <1>3, MoreThanOne

Emitted(C) == {g \in {Pruned(P) : P \in {C} \cup Supplemental(C)} : Cardinality(g) > 1}

\* An entry that is gone comes back with another that is apart from it and is not gone.
LEMMA OneComesBack ==
  ASSUME scan \in Scans, NEW C \in SUBSET Entries, NEW i \in C, NEW j \in C, i # j,
         ~ContainsAny(j, i),
         scan.members[i] \cap Pruned(C) = {}, scan.members[j] \cap Pruned(C) # {}
  PROVE  \E g \in Emitted(C) : scan.members[i] \cap g # {} /\ scan.members[j] \cap g # {}
<1>1. PICK Q : Q = {k \in C \ {i} : ~ContainsAny(k, i)}
  OBVIOUS
<1>2. PICK P : P = {i} \cup Q
  OBVIOUS
<1>3. j \in Q /\ P \in SUBSET C /\ P \in SUBSET Entries
  BY <1>1, <1>2
<1>4. P \in Supplemental(C)
  BY <1>1, <1>2, <1>3 DEF Supplemental
<1>5. scan.members[j] \cap Pruned(P) # {}
  BY <1>2, <1>3 DEF Pruned, MembersOf
<1>6. scan.members[i] \cap Pruned(P) # {}
  <2>1. PICK M : M = scan.members[i]
    OBVIOUS
  <2>2. IsFiniteSet(M) /\ M # {}
    BY <2>1, MembersFacts
  <2>3. PICK m \in M : \A o \in M : ~Within(m, o)
    BY <2>2, OneIsOutermost
  <2>4. \A k \in Q : \A o \in scan.members[k] : ~Within(m, o)
    BY <1>1, <2>1 DEF ContainsAny
  <2>5. m \in Pruned(P)
    BY <1>2, <2>1, <2>3, <2>4 DEF Pruned, MembersOf
  <2> QED
    BY <2>1, <2>5
<1>7. Cardinality(Pruned(P)) > 1
  BY <1>3, <1>5, <1>6, TwoAreReported
<1>8. Pruned(P) \in Emitted(C)
  BY <1>4, <1>7 DEF Emitted
<1> QED
  BY <1>5, <1>6, <1>8

LEMMA ReportedOrSwallowed ==
  ASSUME scan \in Scans, NEW C \in SUBSET Entries, NEW i \in C, NEW j \in C, i # j,
         Apart({i, j}), Emitted(C) \subseteq groups
  PROVE  Reported({i, j}) \/ \A k \in {i, j} : scan.members[k] \cap Pruned(C) = {}
<1>1. ~ContainsAny(j, i) /\ ~ContainsAny(i, j)
  BY DEF Apart
<1>2. CASE scan.members[i] \cap Pruned(C) # {} /\ scan.members[j] \cap Pruned(C) # {}
  <2>1. Cardinality(Pruned(C)) > 1
    BY <1>2, TwoAreReported
  <2>2. Pruned(C) \in Emitted(C)
    BY <2>1 DEF Emitted
  <2> QED
    BY <1>2, <2>2 DEF Reported
<1>3. CASE scan.members[i] \cap Pruned(C) = {} /\ scan.members[j] \cap Pruned(C) # {}
  BY <1>1, <1>3, OneComesBack DEF Reported
<1>4. CASE scan.members[i] \cap Pruned(C) # {} /\ scan.members[j] \cap Pruned(C) = {}
  BY <1>1, <1>4, OneComesBack DEF Reported
<1>5. CASE scan.members[i] \cap Pruned(C) = {} /\ scan.members[j] \cap Pruned(C) = {}
  BY <1>5
<1> QED
  BY <1>2, <1>3, <1>4, <1>5

-----------------------------------------------------------------------------
(* The inductive invariant of the report *)

ReportOK ==
  /\ phase # "pairs" => truncated = TRUE \/ pairs = CandidatePairs
  /\ phase \notin {"pairs", "edges"} => edges = {p \in pairs : Qualifies(p)}
  /\ phase \in {"groups", "done"} =>
       \A i \in 1..Len(maximal) : \/ \E k \in 1..Len(cliques) : cliques[k] = maximal[i]
                                  \/ Emitted(maximal[i]) \subseteq groups
  /\ phase = "done" => cliques = <<>>

\* What depends on the scan alone does not change with it.
LEMMA ScanKept ==
  ASSUME scan' = scan
  PROVE  /\ Entries' = Entries /\ CandidatePairs' = CandidatePairs
         /\ \A p : Qualifies(p)' <=> Qualifies(p)
         /\ \A C : Emitted(C)' = Emitted(C)
<1>1. Entries' = Entries
  BY DEF Entries
<1>2. \A b : Frequency(b)' = Frequency(b)
  BY <1>1 DEF Frequency
<1>3. \A b, c : Rarer(b, c)' <=> Rarer(b, c)
  BY <1>2 DEF Rarer
<1>4. \A i, b : Rank(i, b)' = Rank(i, b)
  BY <1>3 DEF Rank
<1>5. \A size : Required(size)' = Required(size)
  BY DEF Required
<1>6. \A i : Prefix(i)' = Prefix(i)
  BY <1>4, <1>5 DEF Prefix
<1>7. CandidatePairs' = CandidatePairs
  <2>1. TwoOf(Entries)' = TwoOf(Entries)
    BY <1>1 DEF TwoOf
  <2> QED
    BY <1>6, <2>1 DEF CandidatePairs
<1>8. \A m, o : Within(m, o)' <=> Within(m, o)
  BY DEF Within
<1>9. \A i, j : /\ Clears(i, j)' <=> Clears(i, j)
                /\ OnlyNested(i, j)' <=> OnlyNested(i, j)
                /\ ContainsAny(i, j)' <=> ContainsAny(i, j)
  BY <1>8 DEF Clears, OnlyNested, ContainsAny
<1>10. \A p : Qualifies(p)' <=> Qualifies(p)
  BY <1>9 DEF Qualifies
<1>11. \A P : MembersOf(P)' = MembersOf(P)
  BY DEF MembersOf
<1>12. \A P : Pruned(P)' = Pruned(P)
  BY <1>8, <1>11 DEF Pruned
<1>13. \A C : Supplemental(C)' = Supplemental(C)
  BY <1>9, <1>12 DEF Supplemental
<1>14. \A C : Emitted(C)' = Emitted(C)
  BY <1>12, <1>13 DEF Emitted
<1> QED
  BY <1>1, <1>7, <1>10, <1>14

LEMMA ReportInit == DupInit => ReportOK
BY DEF DupInit, ReportOK

LEMMA ReportOfPairs == ReportOK /\ FindPairs => ReportOK'
<1> SUFFICES ASSUME ReportOK, FindPairs PROVE ReportOK'
  OBVIOUS
<1>1. phase' = "edges" /\ scan' = scan
  BY DEF FindPairs
<1>2. PICK some : pairs' = some /\ truncated' = (some # CandidatePairs)
  BY DEF FindPairs
<1>3. truncated' = TRUE \/ some = CandidatePairs
  BY <1>2, Zenon
<1> QED
  BY <1>1, <1>2, <1>3, ScanKept DEF ReportOK

LEMMA ReportOfEdges == ReportOK /\ KeepEdges => ReportOK'
BY ScanKept DEF ReportOK, KeepEdges

\* While cliques are looked for, nothing of the report changes.
LEMMA ReportOfSearch ==
  ASSUME ReportOK, phase = "cliques",
         UNCHANGED <<scan, phase, pairs, edges, maximal, truncated, groups>>
  PROVE  ReportOK'
BY ScanKept DEF ReportOK

LEMMA ReportOfCliques ==
  ASSUME ReportOK, KeepCliques
  PROVE  ReportOK'
<1>1. /\ phase = "cliques" /\ phase' = "groups" /\ maximal' = cliques'
      /\ truncated' = (truncated \/ Len(cliques) > scan.maxGroups)
      /\ UNCHANGED <<scan, pairs, edges>>
  BY DEF KeepCliques
<1>2. truncated = TRUE => truncated' = TRUE
  BY <1>1
<1>3. truncated' = TRUE \/ pairs' = CandidatePairs'
  BY <1>1, <1>2, ScanKept DEF ReportOK
<1>4. edges' = {p \in pairs : Qualifies(p)}'
  BY <1>1, ScanKept DEF ReportOK
<1>5. \A i \in 1..Len(maximal') : \E k \in 1..Len(cliques') : cliques'[k] = maximal'[i]
  BY <1>1
<1> QED
  BY <1>1, <1>3, <1>4, <1>5 DEF ReportOK

LEMMA ReportOfGroups ==
  ASSUME DupTypeOK, ReportOK, EmitGroups
  PROVE  ReportOK'
<1>1. /\ phase = "groups" /\ phase' = "groups" /\ cliques # <<>> /\ cliques' = Tail(cliques)
      /\ groups' = groups \cup Emitted(Head(cliques))
      /\ UNCHANGED <<scan, pairs, edges, maximal, truncated>>
  BY DEF EmitGroups, Emitted
<1>2. PICK cl \in Seq(SUBSET Entries) : cl = cliques
  BY FrameTyped
<1>3. PICK tl : tl = Tail(cl)
  OBVIOUS
<1>4. /\ Len(cl) \in Nat \ {0} /\ Len(tl) = Len(cl) - 1
      /\ \A k \in 1..Len(tl) : tl[k] = cl[k + 1]
  BY <1>1, <1>2, <1>3, EmptySeq, HeadTailProperties
<1>5. Head(cl) = cl[1]
  BY <1>1, <1>2
<1>6. ASSUME NEW i \in 1..Len(maximal)
      PROVE  (\E k \in 1..Len(tl) : tl[k] = maximal[i]) \/ Emitted(maximal[i]) \subseteq groups'
  <2>1. CASE Emitted(maximal[i]) \subseteq groups
    BY <1>1, <2>1
  <2>2. CASE \E k \in 1..Len(cl) : cl[k] = maximal[i]
    <3>1. PICK k \in 1..Len(cl) : cl[k] = maximal[i]
      BY <2>2
    <3>2. CASE k = 1
      <4>1. Head(cliques) = maximal[i]
        BY <1>2, <1>5, <3>1, <3>2
      <4> QED
        BY <1>1, <4>1
    <3>3. CASE k # 1
      <4>1. k - 1 \in 1..Len(tl) /\ (k - 1) + 1 = k
        BY <1>4, <3>3
      <4>2. tl[k - 1] = maximal[i]
        BY <1>4, <3>1, <4>1
      <4> QED
        BY <4>1, <4>2
    <3> QED
      BY <3>2, <3>3
  <2> QED
    BY <1>1, <1>2, <2>1, <2>2 DEF ReportOK
<1>7. \A i \in 1..Len(maximal') :
        (\E k \in 1..Len(cliques') : cliques'[k] = maximal'[i]) \/ Emitted(maximal[i])' \subseteq groups'
  BY <1>1, <1>2, <1>3, <1>6, ScanKept
<1>8. truncated' = TRUE \/ pairs' = CandidatePairs'
  BY <1>1, ScanKept DEF ReportOK
<1>9. edges' = {p \in pairs : Qualifies(p)}'
  BY <1>1, ScanKept DEF ReportOK
<1> QED
  BY <1>1, <1>7, <1>8, <1>9 DEF ReportOK

LEMMA ReportOfTheEnd == ReportOK /\ AllEmitted => ReportOK'
BY ScanKept DEF ReportOK, AllEmitted

LEMMA ReportStutters == ReportOK /\ UNCHANGED dupVars => ReportOK'
BY ScanKept DEF ReportOK, dupVars

LEMMA ReportStep ==
  ASSUME DupTypeOK, ReportOK, [DupNext]_dupVars
  PROVE  ReportOK'
<1>1. CASE Found \/ Enter \/ Return \/ \E v \in Entries : ExpandClique(v)
  BY <1>1, ReportOfSearch DEF Found, Enter, Return, ExpandClique, Calling
<1> QED
  BY <1>1, ReportOfPairs, ReportOfEdges, ReportOfCliques, ReportOfGroups, ReportOfTheEnd,
     ReportStutters DEF DupNext

LEMMA ReportIsComplete == DupTypeOK /\ SearchOK /\ ReportOK => PairsAreReported
<1> SUFFICES ASSUME DupTypeOK, SearchOK, ReportOK, phase = "done", ~truncated,
                    NEW p \in TwoOf(Entries), Qualifies(p), Apart(p)
             PROVE  Reported(p) \/ Swallowed(p)
  BY DEF PairsAreReported
<1>1. PICK N, E, cap, mx, cut : N = Entries /\ E = edges /\ cap = scan.maxGroups /\ mx = maximal
                                  /\ cut = truncated
  OBVIOUS
<1>2. IsGraph(N, E) /\ AreKept(N, E, cap, mx, cut) /\ scan \in Scans
  BY <1>1 DEF SearchOK
<1>3. \A q : q \in TwoOf(N) <=> \E v, w \in N : v # w /\ q = {v, w}
  <2>1. IsFiniteSet(N)
    BY <1>2 DEF IsGraph
  <2> QED
    BY <2>1, TwoOfPairs
<1>4. PICK i \in N, j \in N : i # j /\ p = {i, j}
  BY <1>1, <1>3
<1>5. {i, j} \in CandidatePairs
  BY <1>1, <1>2, <1>4, NoneLostToPrefixes
<1>6. {i, j} \in E
  BY <1>1, <1>4, <1>5 DEF ReportOK
<1>7. PICK C \in Maximal(N, E) : i \in C /\ j \in C
  BY <1>2, <1>4, <1>6, LargestClique
<1>8. PICK k \in 1..Len(mx) : C = mx[k]
  <2>1. cut = FALSE
    BY <1>1 DEF DupTypeOK
  <2> QED
    BY <1>2, <2>1 DEF AreKept
<1>9. C \in SUBSET Entries /\ k \in DOMAIN maximal
  BY <1>1, <1>2, <1>8 DEF AreKept, AreCliques
<1>10. Emitted(C) \subseteq groups
  <2>1. cliques = <<>>
    BY DEF ReportOK
  <2>2. Len(<<>>) = 0
    BY EmptySeq
  <2> QED
    BY <1>1, <1>8, <2>1, <2>2 DEF ReportOK
<1>11. Reported({i, j}) \/ \A l \in {i, j} : scan.members[l] \cap Pruned(C) = {}
  BY <1>2, <1>4, <1>7, <1>9, <1>10, ReportedOrSwallowed
<1> QED
  BY <1>1, <1>4, <1>7, <1>8, <1>9, <1>11 DEF Swallowed

-----------------------------------------------------------------------------
(* The theorems *)

\* The stack of calls, the cliques and the groups are what they should be.
THEOREM DupTypeCorrect == DupSpec => []DupTypeOK
<1>1. DupTypeOK /\ SearchOK /\ [DupNext]_dupVars => DupTypeOK' /\ SearchOK'
  BY DupStep
<1> QED
  BY <1>1, DupInitOK, PTL DEF DupSpec

\* The groups are made from the maximal cliques of the pairs that qualify, each once, and a report
\* that is not called truncated has them all: the pivot loses none (duplicates.py:476-517).
THEOREM CliquesStayMaximal == DupSpec => []CliquesAreMaximal
<1>1. DupTypeOK /\ SearchOK /\ [DupNext]_dupVars => DupTypeOK' /\ SearchOK'
  BY DupStep
<1> QED
  BY <1>1, DupInitOK, KeptAreMaximal, PTL DEF DupSpec

\* A report that is not called truncated loses no pair of entries that qualifies and whose
\* definitions lie apart, neither to the prefixes nor to the cliques nor to what is taken out of a
\* group, unless both entries are taken out whole (duplicates.py:186-237, 314-412).
THEOREM NoPairIsLost == DupSpec => []PairsAreReported
<1>1. DupInit => DupTypeOK /\ SearchOK /\ ReportOK
  BY DupInitOK, ReportInit
<1>2. DupTypeOK /\ SearchOK /\ ReportOK /\ [DupNext]_dupVars => DupTypeOK' /\ SearchOK' /\ ReportOK'
  BY DupStep, ReportStep
<1> QED
  BY <1>1, <1>2, ReportIsComplete, PTL DEF DupSpec
====
