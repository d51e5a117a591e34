---------------------------- MODULE EngineProofs ----------------------------
(***************************************************************************)
(* Theorems about the parts of the engine that share no state: the cache   *)
(* of syntax trees, the function registry, the index of vectors, the report*)
(* of dead code and the files of CGR_HOME; and that each of the seven parts*)
(* MCEngine puts together, with IncrementalSync and Duplicates, behaves in *)
(* it as it does alone, so that every theorem about a part holds there.    *)
(***************************************************************************)
EXTENDS MCEngine, IncrementalSyncProofs, DuplicatesProofs

(***************************************************************************)
(* AstCache: what is loaded is what the file has                           *)
(***************************************************************************)

-----------------------------------------------------------------------------
(* The operations of the cache, by the entries they keep *)

Held(trees) == {trees[i] : i \in 1..Len(trees)}

\* A dictionary: one entry for a file.
OneEach(trees) == \A i, j \in 1..Len(trees) : trees[i].file = trees[j].file => i = j

LEMMA DroppedKeeps ==
  ASSUME NEW c \in Seq(Entry), OneEach(c), NEW f \in Sources
  PROVE  /\ Dropped(c, f) \in Seq(Entry) /\ OneEach(Dropped(c, f))
         /\ Held(Dropped(c, f)) = {e \in Held(c) : e.file # f}
         /\ Has(c, f) => Len(Dropped(c, f)) = Len(c) - 1
         /\ Len(Dropped(c, f)) <= Len(c)
  <1>1. CASE ~Has(c, f)
    BY <1>1 DEF Dropped, Has, Held
  <1>2. CASE Has(c, f)
    <2> DEFINE i == Place(c, f)
               t == RemoveAt(c, i)
               a == SubSeq(c, 1, i - 1)
               b == SubSeq(c, i + 1, Len(c))
    <2>1. i \in 1..Len(c) /\ c[i].file = f /\ Len(c) \in Nat
      BY <1>2 DEF Has, Place
    <2>2. Dropped(c, f) = t /\ t = a \o b
      BY <1>2 DEF Dropped, RemoveAt
    <2> HIDE DEF i, t
    <2>3. a \in Seq(Entry) /\ Len(a) = i - 1 /\ \A j \in 1..(i - 1) : a[j] = c[j]
      BY <2>1
    <2>4. b \in Seq(Entry) /\ Len(b) = Len(c) - i /\ \A j \in 1..(Len(c) - i) : b[j] = c[i + j]
      BY <2>1
    <2> HIDE DEF a, b
    <2>5. t \in Seq(Entry) /\ Len(t) = Len(c) - 1
      BY <2>1, <2>2, <2>3, <2>4
    <2>6. ASSUME NEW j \in 1..Len(t) PROVE t[j] = IF j < i THEN c[j] ELSE c[j + 1]
      <3>1. t[j] = IF j <= Len(a) THEN a[j] ELSE b[j - Len(a)]
        BY <2>2, <2>3, <2>4, <2>5
      <3>2. CASE j < i
        BY <2>1, <2>3, <3>1, <3>2
      <3>3. CASE ~(j < i)
        <4>1. j - Len(a) \in 1..Len(b) /\ i + (j - Len(a)) = j + 1
          BY <2>1, <2>3, <2>4, <2>5, <3>3
        <4> QED
          BY <2>1, <2>3, <2>4, <3>1, <3>3, <4>1
      <3> QED
        BY <3>2, <3>3
    <2>7. \A j \in 1..Len(c) : /\ j < i => j \in 1..Len(t) /\ t[j] = c[j]
                               /\ j > i => j - 1 \in 1..Len(t) /\ t[j - 1] = c[j]
                               /\ j # i => c[j].file # f
      BY <2>1, <2>5, <2>6 DEF OneEach
    <2>8. OneEach(t)
      <3> SUFFICES ASSUME NEW j \in 1..Len(t), NEW k \in 1..Len(t), t[j].file = t[k].file
                   PROVE  j = k
        BY DEF OneEach
      <3> DEFINE m(n) == IF n < i THEN n ELSE n + 1
      <3>1. m(j) \in 1..Len(c) /\ m(k) \in 1..Len(c) /\ t[j] = c[m(j)] /\ t[k] = c[m(k)]
        BY <2>1, <2>5, <2>6
      <3>2. m(j) = m(k)
        BY <3>1 DEF OneEach
      <3> QED
        BY <2>1, <2>5, <3>2
    <2>9. Held(t) = {e \in Held(c) : e.file # f}
      <3>1. ASSUME NEW j \in 1..Len(t) PROVE t[j] \in Held(c) /\ t[j].file # f
        <4>1. CASE j < i
          BY <2>1, <2>5, <2>6, <2>7, <4>1 DEF Held
        <4>2. CASE ~(j < i)
          <5>1. t[j] = c[j + 1] /\ j + 1 \in 1..Len(c) /\ j + 1 # i
            BY <2>1, <2>5, <2>6, <4>2
          <5> QED
            BY <2>7, <5>1 DEF Held
        <4> QED
          BY <4>1, <4>2
      <3>2. ASSUME NEW j \in 1..Len(c), c[j].file # f PROVE c[j] \in Held(t)
        <4>1. j < i \/ j > i
          BY <2>1, <3>2
        <4> QED
          BY <2>7, <4>1 DEF Held
      <3> QED
        BY <3>1, <3>2 DEF Held
    <2> QED
      BY <2>2, <2>5, <2>8, <2>9, <2>1
  <1> QED
    BY <1>1, <1>2

LEMMA AppendKeeps ==
  ASSUME NEW c \in Seq(Entry), OneEach(c), NEW e \in Entry, \A d \in Held(c) : d.file # e.file
  PROVE  /\ Append(c, e) \in Seq(Entry) /\ OneEach(Append(c, e))
         /\ Held(Append(c, e)) = Held(c) \cup {e} /\ Len(Append(c, e)) = Len(c) + 1
  <1> DEFINE t == Append(c, e)
  <1>1. /\ Len(c) \in Nat /\ t \in Seq(Entry) /\ Len(t) = Len(c) + 1 /\ t[Len(c) + 1] = e
        /\ \A i \in 1..Len(c) : t[i] = c[i]
    OBVIOUS
  <1> HIDE DEF t
  <1>2. \A i \in 1..Len(c) : c[i].file # e.file
    BY DEF Held
  <1>3. OneEach(t)
    BY <1>1, <1>2 DEF OneEach
  <1>4. Held(t) = Held(c) \cup {e}
    <2>1. \A i \in 1..Len(t) : i \in 1..Len(c) \/ i = Len(c) + 1
      BY <1>1
    <2>2. \A i \in 1..Len(c) : i \in 1..Len(t)
      BY <1>1
    <2>3. Len(c) + 1 \in 1..Len(t)
      BY <1>1
    <2> QED
      BY <1>1, <2>1, <2>2, <2>3 DEF Held
  <1> QED
    BY <1>1, <1>3, <1>4 DEF t

LEMMA OldestKeeps ==
  ASSUME NEW c \in Seq(Entry), OneEach(c), NEW n \in Nat
  PROVE  /\ Oldest(c, n) \in Seq(Entry) /\ OneEach(Oldest(c, n))
         /\ Held(Oldest(c, n)) \subseteq Held(c)
         /\ Len(Oldest(c, n)) = IF n <= Len(c) THEN Len(c) - n ELSE 0
  <1> DEFINE t == Oldest(c, n)
  <1>1. /\ Len(c) \in Nat /\ t \in Seq(Entry) /\ Len(t) = IF n <= Len(c) THEN Len(c) - n ELSE 0
        /\ \A i \in 1..Len(t) : t[i] = c[n + i]
    BY DEF Oldest
  <1> HIDE DEF t
  <1>2. \A i \in 1..Len(t) : n + i \in 1..Len(c)
    BY <1>1
  <1>3. OneEach(t)
    BY <1>1, <1>2 DEF OneEach
  <1>4. Held(t) \subseteq Held(c)
    BY <1>1, <1>2 DEF Held
  <1> QED
    BY <1>1, <1>3, <1>4 DEF t

LEMMA FitKeeps ==
  ASSUME NEW c \in Seq(Entry), OneEach(c), MaxEntries \in Nat, Divisor \in Nat \ {0}
  PROVE  /\ Fit(c) \in Seq(Entry) /\ OneEach(Fit(c)) /\ Held(Fit(c)) \subseteq Held(c)
         /\ Len(Fit(c)) <= MaxEntries
  <1> DEFINE few == IF Len(c) > MaxEntries THEN Oldest(c, Len(c) - MaxEntries) ELSE c
             share == Len(few) \div Divisor
             some == IF share > 0 THEN share ELSE 1
  <1>1. few \in Seq(Entry) /\ OneEach(few) /\ Held(few) \subseteq Held(c) /\ Len(few) <= MaxEntries
    <2>1. CASE Len(c) > MaxEntries
      <3>1. Len(c) - MaxEntries \in Nat /\ Len(c) \in Nat
        BY <2>1
      <3>2. PICK n \in Nat : n = Len(c) - MaxEntries
        BY <3>1
      <3>3. /\ Oldest(c, n) \in Seq(Entry) /\ OneEach(Oldest(c, n))
            /\ Held(Oldest(c, n)) \subseteq Held(c)
            /\ Len(Oldest(c, n)) = IF n <= Len(c) THEN Len(c) - n ELSE 0
        BY OldestKeeps
      <3>4. few = Oldest(c, n)
        BY <2>1, <3>2
      <3> QED
        BY <3>1, <3>2, <3>3, <3>4
    <2>2. CASE ~(Len(c) > MaxEntries)
      <3>1. few = c /\ Len(c) \in Nat
        BY <2>2
      <3> QED
        BY <2>2, <3>1
    <2> QED
      BY <2>1, <2>2
  <1>2. Fit(c) = IF Len(few) > weight THEN Oldest(few, some) ELSE few
    BY DEF Fit
  <1> HIDE DEF few
  <1>3. some \in Nat /\ Len(few) \in Nat
    BY <1>1
  <1> HIDE DEF some
  <1>4. /\ Oldest(few, some) \in Seq(Entry) /\ OneEach(Oldest(few, some))
        /\ Held(Oldest(few, some)) \subseteq Held(few)
        /\ Len(Oldest(few, some)) <= Len(few)
    <2>1. PICK c2 \in Seq(Entry) : c2 = few
      BY <1>1
    <2>2. PICK n \in Nat : n = some
      BY <1>3
    <2>3. /\ Oldest(c2, n) \in Seq(Entry) /\ OneEach(Oldest(c2, n))
          /\ Held(Oldest(c2, n)) \subseteq Held(c2)
          /\ Len(Oldest(c2, n)) = IF n <= Len(c2) THEN Len(c2) - n ELSE 0
      BY <1>1, <2>1, OldestKeeps
    <2> QED
      BY <2>1, <2>2, <2>3
  <1> QED
    BY <1>1, <1>2, <1>3, <1>4

LEMMA PutKeeps ==
  ASSUME NEW c \in Seq(Entry), OneEach(c), NEW e \in Entry, MaxEntries \in Nat, Divisor \in Nat \ {0}
  PROVE  /\ Put(c, e) \in Seq(Entry) /\ OneEach(Put(c, e)) /\ Len(Put(c, e)) <= MaxEntries
         /\ Held(Put(c, e)) \subseteq {d \in Held(c) : d.file # e.file} \cup {e}
  <1>1. PICK d \in Seq(Entry) : d = Dropped(c, e.file)
    BY DroppedKeeps DEF Entry
  <1>2. OneEach(d) /\ Held(d) = {x \in Held(c) : x.file # e.file}
    BY <1>1, DroppedKeeps DEF Entry
  <1>3. \A x \in Held(d) : x.file # e.file
    BY <1>2
  <1>4. Append(d, e) \in Seq(Entry) /\ OneEach(Append(d, e)) /\ Held(Append(d, e)) = Held(d) \cup {e}
    BY <1>2, <1>3, AppendKeeps
  <1> DEFINE t == Append(d, e)
  <1> HIDE DEF t
  <1>5. /\ Fit(t) \in Seq(Entry) /\ OneEach(Fit(t)) /\ Held(Fit(t)) \subseteq Held(t)
        /\ Len(Fit(t)) <= MaxEntries
    BY <1>4, FitKeeps DEF t
  <1> QED
    BY <1>1, <1>2, <1>4, <1>5 DEF Put, t

LEMMA CachedEntry ==
  ASSUME NEW c \in Seq(Entry), NEW f, Has(c, f)
  PROVE  c[Place(c, f)] \in Held(c) /\ c[Place(c, f)] \in Entry /\ c[Place(c, f)].file = f
  <1>1. Place(c, f) \in 1..Len(c) /\ c[Place(c, f)].file = f
    BY DEF Has, Place
  <1> QED
    BY <1>1 DEF Held

-----------------------------------------------------------------------------
(* What is cached is a version of the file since its last event, and what is kept of its nodes *)
(* is of the same tree.                                                                        *)

Sound(e) ==
  /\ e.tree > 0 /\ handled[e.file] <= e.tree /\ e.tree <= contents[e.file].version
  /\ e.rich => captures[e.file] \in {0, e.tree}

CacheInv ==
  /\ OneEach(asts) /\ \A e \in Held(asts) : Sound(e)
  /\ \A f \in Sources :
       /\ handled[f] <= contents[f].version /\ contents[f].version <= writes
       /\ contents[f].there => contents[f].version > 0

LEMMA InitCache == CacheInit => CacheTypeOK /\ CacheInv
  <1> SUFFICES ASSUME CacheInit PROVE CacheTypeOK /\ CacheInv
    OBVIOUS
  <1>1. \E e \in Entry : e.tree = 0 /\ ~e.rich
    <2>1. PICK f \in Sources : TRUE
      BY CacheAssumption
    <2>2. [file |-> f, tree |-> 0, rich |-> FALSE] \in Entry
      BY CacheBounds DEF Entry, Version
    <2> QED
      BY <2>2
  <1>2. read \in [entry : Entry, nodes : Version]
    BY <1>1, CacheBounds DEF CacheInit, Version
  <1>3. asts = <<>> /\ asts \in Seq(Entry) /\ Len(asts) = 0 /\ Held(asts) = {} /\ OneEach(asts)
    BY DEF CacheInit, Held, OneEach
  <1>4. CacheTypeOK
    BY <1>2, <1>3, CacheAssumption, CacheBounds DEF CacheInit, CacheTypeOK, Version
  <1>5. CacheInv
    BY <1>3, CacheBounds DEF CacheInit, CacheInv
  <1> QED
    BY <1>4, <1>5

LEMMA ChangeCache ==
  ASSUME CacheTypeOK, CacheInv, NEW f \in Sources, ChangeFile(f)
  PROVE  CacheTypeOK' /\ CacheInv'
  <1>1. PICK there \in BOOLEAN, rich \in BOOLEAN :
          contents' = [contents EXCEPT ![f] = [version |-> writes + 1, there |-> there,
                                               rich |-> there /\ rich]]
    BY DEF ChangeFile
  <1>2. /\ writes < MaxWrites /\ writes' = writes + 1 /\ writes \in Nat /\ writes' \in Version
        /\ UNCHANGED <<weight, asts, captures, parsed, handled, toVisit, read>>
    BY CacheBounds DEF ChangeFile, CacheTypeOK, Version
  <1>3. CacheTypeOK'
    <2>1. [version |-> writes + 1, there |-> there, rich |-> there /\ rich]
            \in [version : Version, there : BOOLEAN, rich : BOOLEAN]
      BY <1>2
    <2>2. contents' \in [Sources -> [version : Version, there : BOOLEAN, rich : BOOLEAN]]
      BY <1>1, <2>1 DEF CacheTypeOK
    <2> QED
      BY <1>2, <2>2 DEF CacheTypeOK
  <1>4. \A g \in Sources : /\ contents'[g].version = IF g = f THEN writes + 1 ELSE contents[g].version
                           /\ g # f => contents'[g].there = contents[g].there
    BY <1>1 DEF CacheTypeOK
  <1>5. \A g \in Sources : handled[g] \in Nat /\ contents[g].version \in Nat
    BY DEF CacheTypeOK, Version
  <1>6. ASSUME NEW e \in Held(asts) PROVE Sound(e)'
    <2>1. e \in Entry
      BY DEF Held, CacheTypeOK
    <2>2. Sound(e) /\ e.file \in Sources /\ e.tree \in Nat
      BY <2>1 DEF CacheInv, Entry, Version
    <2>3. e.tree <= contents'[e.file].version
      BY <1>2, <1>4, <1>5, <2>2 DEF Sound, CacheInv
    <2> QED
      BY <1>2, <2>2, <2>3 DEF Sound
  <1>7. OneEach(asts') /\ Held(asts') = Held(asts)
    BY <1>2 DEF CacheInv
  <1>8. \A g \in Sources :
          /\ handled'[g] <= contents'[g].version /\ contents'[g].version <= writes'
          /\ contents'[g].there => contents'[g].version > 0
    BY <1>2, <1>4, <1>5 DEF CacheInv
  <1> QED
    BY <1>3, <1>6, <1>7, <1>8 DEF CacheInv

LEMMA LoadKeeps ==
  ASSUME CacheTypeOK, CacheInv, NEW f \in Sources, Load(f), UNCHANGED <<contents, handled, writes>>
  PROVE  /\ asts' \in Seq(Entry) /\ Len(asts') <= MaxEntries /\ captures' \in [Sources -> Version]
         /\ CacheInv'
         /\ Loaded(f) \in Entry /\ Loaded(f).file = f
         /\ Loaded(f).tree = 0 => ~contents[f].there
         /\ Loaded(f).tree # 0 => Loaded(f).tree >= handled[f]
         /\ Loaded(f).rich => captures'[f] \in {0, Loaded(f).tree}
  <1>1. /\ asts \in Seq(Entry) /\ OneEach(asts) /\ \A e \in Held(asts) : Sound(e)
        /\ Len(asts) \in Nat /\ Len(asts) <= MaxEntries
        /\ captures \in [Sources -> Version]
        /\ \A g \in Sources : handled[g] \in Nat /\ contents[g].version \in Version
                               /\ contents[g].there \in BOOLEAN /\ contents[g].rich \in BOOLEAN
    BY DEF CacheTypeOK, CacheInv, Version
  <1>2. /\ \A g \in Sources :
             /\ handled'[g] <= contents'[g].version /\ contents'[g].version <= writes'
             /\ contents'[g].there => contents'[g].version > 0
    BY DEF CacheInv
  <1>3. CASE Cached(f)
    <2> DEFINE e == EntryOf(f)
    <2>1. e \in Held(asts) /\ e \in Entry /\ e.file = f /\ Loaded(f) = e
      BY <1>1, <1>3, CachedEntry DEF Cached, EntryOf, Loaded
    <2> HIDE DEF e
    <2>2. Sound(e) /\ e.tree \in Nat
      BY <1>1, <2>1 DEF Entry, Version
    <2>3. asts' = Append(Dropped(asts, f), e) /\ captures' = captures
      BY <1>3 DEF Load, e
    <2>4. PICK d \in Seq(Entry) : d = Dropped(asts, f)
      BY <1>1, DroppedKeeps
    <2>5. /\ OneEach(d) /\ Held(d) = {x \in Held(asts) : x.file # f} /\ Len(d) = Len(asts) - 1
      BY <1>1, <1>3, <2>4, DroppedKeeps DEF Cached
    <2>6. \A x \in Held(d) : x.file # e.file
      BY <2>1, <2>5
    <2>7. /\ asts' \in Seq(Entry) /\ OneEach(asts') /\ Held(asts') = Held(d) \cup {e}
          /\ Len(asts') = Len(d) + 1
      BY <2>1, <2>3, <2>4, <2>5, <2>6, AppendKeeps
    <2>8. Held(asts') \subseteq Held(asts)
      BY <2>1, <2>5, <2>7
    <2>9. \A x \in Held(asts') : Sound(x)'
      BY <1>1, <2>3, <2>8 DEF Sound
    <2>10. CacheInv'
      BY <1>2, <2>7, <2>9 DEF CacheInv
    <2>11. /\ e.tree # 0 /\ e.tree >= handled[f]
           /\ e.rich => captures'[f] \in {0, e.tree}
      BY <1>1, <2>1, <2>2, <2>3 DEF Sound
    <2> QED
      BY <1>1, <2>1, <2>3, <2>5, <2>7, <2>10, <2>11
  <1>4. CASE ~Cached(f) /\ contents[f].there
    <2>0. PICK e \in Entry : e = ParsedNow(f)
      BY <1>1 DEF ParsedNow, Entry
    <2>1. /\ Loaded(f) = e /\ asts' = Put(asts, e)
          /\ captures' = [captures EXCEPT ![f] = 0]
      BY <1>4, <2>0 DEF Loaded, Load, DropCaptures
    <2>2. e.file = f /\ e.tree = contents[f].version
      BY <2>0 DEF ParsedNow
    <2>3. /\ asts' \in Seq(Entry) /\ OneEach(asts') /\ Len(asts') <= MaxEntries
          /\ Held(asts') \subseteq {d \in Held(asts) : d.file # f} \cup {e}
      BY <1>1, <2>1, <2>2, PutKeeps, CacheAssumption
    <2>4. /\ captures' \in [Sources -> Version] /\ captures'[f] = 0
          /\ \A g \in Sources \ {f} : captures'[g] = captures[g]
      BY <1>1, <2>1, CacheBounds DEF Version
    <2>5. Sound(e)' /\ e.tree # 0 /\ e.tree >= handled[f]
      <3>1. e.tree > 0 /\ handled[f] <= e.tree /\ e.tree <= contents[f].version
        BY <1>1, <1>4, <2>2 DEF CacheInv, Version
      <3>2. e.rich => captures'[e.file] \in {0, e.tree}
        BY <2>2, <2>4
      <3> QED
        BY <1>1, <2>2, <3>1, <3>2 DEF Sound, Version
    <2>6. ASSUME NEW x \in Held(asts), x.file # f PROVE Sound(x)'
      <3>0. x \in Entry
        BY <1>1 DEF Held
      <3>1. x.file \in Sources /\ Sound(x)
        BY <1>1, <3>0 DEF Entry
      <3> QED
        BY <2>4, <2>6, <3>1 DEF Sound
    <2>7. CacheInv'
      BY <1>2, <2>3, <2>5, <2>6 DEF CacheInv
    <2> QED
      BY <2>1, <2>2, <2>3, <2>4, <2>5, <2>7
  <1>5. CASE ~Cached(f) /\ ~contents[f].there
    <2>1. Loaded(f) = NoEntry(f) /\ asts' = asts /\ captures' = captures
      BY <1>5 DEF Loaded, Load
    <2>2. NoEntry(f) \in Entry /\ NoEntry(f).file = f /\ NoEntry(f).tree = 0 /\ ~NoEntry(f).rich
      BY CacheBounds DEF NoEntry, Entry, Version
    <2>3. Held(asts') = Held(asts) /\ OneEach(asts') /\ \A x \in Held(asts') : Sound(x)'
      BY <1>1, <2>1 DEF Sound
    <2>4. CacheInv'
      BY <1>2, <2>3 DEF CacheInv
    <2> QED
      BY <1>1, <1>5, <2>1, <2>2, <2>4
  <1> QED
    BY <1>3, <1>4, <1>5

LEMMA HandleKeeps ==
  ASSUME CacheTypeOK, CacheInv, NEW f \in Sources, HandleEvent(f)
  PROVE  CacheTypeOK' /\ CacheInv'
  <1>1. /\ asts \in Seq(Entry) /\ OneEach(asts) /\ \A e \in Held(asts) : Sound(e)
        /\ Len(asts) \in Nat /\ Len(asts) <= MaxEntries
        /\ captures \in [Sources -> Version] /\ handled \in [Sources -> Version]
        /\ \A g \in Sources : handled[g] \in Nat /\ contents[g].version \in Version
                               /\ contents[g].there \in BOOLEAN /\ contents[g].rich \in BOOLEAN
    BY DEF CacheTypeOK, CacheInv, Version
  <1>2. /\ handled' = [handled EXCEPT ![f] = contents[f].version] /\ toVisit' = parsed'
        /\ UNCHANGED <<weight, contents, read, writes>>
    BY DEF HandleEvent
  <1>3. /\ handled' \in [Sources -> Version] /\ handled'[f] = contents[f].version
        /\ \A g \in Sources \ {f} : handled'[g] = handled[g]
    BY <1>1, <1>2
  <1>4. \A g \in Sources :
             /\ handled'[g] <= contents'[g].version /\ contents'[g].version <= writes'
             /\ contents'[g].there => contents'[g].version > 0
    BY <1>1, <1>2, <1>3 DEF CacheInv, Version
  <1>5. PICK d \in Seq(Entry) : d = Dropped(asts, f)
    BY <1>1, DroppedKeeps
  <1>6. OneEach(d) /\ Held(d) = {x \in Held(asts) : x.file # f} /\ Len(d) <= Len(asts)
    BY <1>1, <1>5, DroppedKeeps
  <1>7. ASSUME \A g \in Sources \ {f} : captures'[g] = captures[g], NEW x \in Held(d)
        PROVE  Sound(x)'
    <2>1. x \in Held(asts) /\ x.file # f
      BY <1>6, <1>7
    <2>0. x \in Entry
      BY <1>1, <2>1 DEF Held
    <2>2. x.file \in Sources /\ Sound(x)
      BY <1>1, <2>0, <2>1 DEF Entry
    <2> QED
      BY <1>2, <1>3, <1>7, <2>1, <2>2 DEF Sound
  <1>8. CASE contents[f].there
    <2>0. PICK e \in Entry : e = ParsedNow(f)
      BY <1>1 DEF ParsedNow, Entry
    <2>1. /\ asts' = Put(d, e) /\ parsed' = parsed \cup {f}
          /\ captures' = IF contents[f].rich THEN [captures EXCEPT ![f] = contents[f].version]
                                              ELSE captures
      BY <1>5, <1>8, <2>0 DEF HandleEvent, WithoutFile
    <2>2. e.file = f /\ e.tree = contents[f].version /\ e.rich = contents[f].rich
      BY <2>0 DEF ParsedNow
    <2>3. /\ asts' \in Seq(Entry) /\ OneEach(asts') /\ Len(asts') <= MaxEntries
          /\ Held(asts') \subseteq Held(d) \cup {e}
      BY <1>6, <2>1, PutKeeps, CacheAssumption
    <2>4. /\ captures' \in [Sources -> Version] /\ \A g \in Sources \ {f} : captures'[g] = captures[g]
          /\ contents[f].rich => captures'[f] = contents[f].version
      BY <1>1, <2>1
    <2>5. Sound(e)'
      <3>1. e.tree > 0 /\ handled'[f] <= e.tree /\ e.tree <= contents'[f].version
        BY <1>1, <1>2, <1>3, <1>8, <2>2 DEF CacheInv, Version
      <3>2. e.rich => captures'[e.file] \in {0, e.tree}
        BY <2>2, <2>4
      <3> QED
        BY <2>2, <3>1, <3>2 DEF Sound
    <2>6. \A x \in Held(asts') : Sound(x)'
      <3>1. \A x \in Held(d) : Sound(x)'
        BY <1>7, <2>4
      <3> QED
        BY <2>3, <2>5, <3>1
    <2>7. CacheInv'
      BY <1>4, <2>3, <2>6 DEF CacheInv
    <2>8. CacheTypeOK'
      BY <1>2, <1>3, <2>1, <2>3, <2>4 DEF CacheTypeOK
    <2> QED
      BY <2>7, <2>8
  <1>9. CASE ~contents[f].there
    <2>1. asts' = d /\ parsed' = parsed \ {f} /\ captures' = captures
      BY <1>5, <1>9 DEF HandleEvent, WithoutFile
    <2>2. \A x \in Held(asts') : Sound(x)'
      BY <1>7, <2>1
    <2>3. CacheInv'
      BY <1>4, <1>6, <2>1, <2>2 DEF CacheInv
    <2>4. Len(d) \in Nat /\ Len(d) <= MaxEntries
      BY <1>1, <1>6, CacheAssumption
    <2>5. CacheTypeOK'
      BY <1>1, <1>2, <1>3, <2>1, <2>4 DEF CacheTypeOK
    <2> QED
      BY <2>3, <2>5
  <1> QED
    BY <1>8, <1>9

\* A step keeps the invariant, and a load obeys it.
LEMMA NextCache ==
  ASSUME CacheTypeOK, CacheInv, [CacheNext]_cacheVars
  PROVE  CacheTypeOK' /\ CacheInv'
  <1>1. CASE UNCHANGED cacheVars
    <2>1. Held(asts') = Held(asts) /\ (OneEach(asts') <=> OneEach(asts))
      BY <1>1 DEF cacheVars
    <2> QED
      BY <1>1, <2>1 DEF cacheVars, CacheTypeOK, CacheInv, Sound
  <1>2. ASSUME NEW f \in Sources, Visit(f) \/ Infer(f) PROVE CacheTypeOK' /\ CacheInv'
    <2>1. /\ Load(f) /\ UNCHANGED <<weight, contents, parsed, handled, writes>>
          /\ toVisit' \subseteq toVisit
          /\ read' = [entry |-> Loaded(f), nodes |-> read'.nodes]
          /\ read'.nodes \in {0, captures'[f], Loaded(f).tree}
      BY <1>2 DEF Visit, Infer, NodesOf
    <2>2. /\ asts' \in Seq(Entry) /\ Len(asts') <= MaxEntries /\ captures' \in [Sources -> Version]
          /\ CacheInv' /\ Loaded(f) \in Entry
      BY <2>1, LoadKeeps
    <2>3. read'.nodes \in Version
      BY <2>1, <2>2, CacheBounds DEF Entry, Version
    <2>4. read' \in [entry : Entry, nodes : Version]
      BY <2>1, <2>2, <2>3
    <2> QED
      BY <2>1, <2>2, <2>4 DEF CacheTypeOK
  <1> QED
    BY <1>1, <1>2, ChangeCache, HandleKeeps DEF CacheNext

\* The tree and the captures kept are well-typed, and no more than the limits allow
\* (ast_cache.py:19-92).
THEOREM CacheTypeCorrect == CacheSpec => []CacheTypeOK
  <1> QED
    BY InitCache, NextCache, PTL DEF CacheSpec

\* Whatever is evicted, a load of a file that is there has a tree no older than the file's last
\* handled event, and the nodes read with it are of that tree (ast_cache.py:36-92,
\* graph_updater.py:2503-2518).
THEOREM EveryLoadIsCurrent == CacheSpec => LoadsAreCurrent
  <1>1. ASSUME CacheTypeOK, CacheInv, [CacheNext]_cacheVars, NEW f \in Sources,
               read' # read, read'.entry.file = f
        PROVE  IF read'.entry.tree = 0 THEN ~contents[f].there
               ELSE /\ read'.entry.tree >= handled[f]
                    /\ read'.entry.rich => read'.nodes = read'.entry.tree
    <2>1. PICK g \in Sources : Visit(g) \/ Infer(g)
      BY <1>1 DEF CacheNext, cacheVars, ChangeFile, HandleEvent
    <2>2. /\ Load(g) /\ UNCHANGED <<contents, handled, writes>>
          /\ read'.entry = Loaded(g)
          /\ Loaded(g).tree # 0 =>
               read'.nodes \in {Loaded(g).tree, IF captures'[g] # 0 THEN captures'[g]
                                                ELSE Loaded(g).tree}
      BY <2>1 DEF Visit, Infer, NodesOf
    <2>3. /\ Loaded(g).file = g
          /\ Loaded(g).tree = 0 => ~contents[g].there
          /\ Loaded(g).tree # 0 => Loaded(g).tree >= handled[g]
          /\ Loaded(g).rich => captures'[g] \in {0, Loaded(g).tree}
      BY <1>1, <2>2, LoadKeeps
    <2> QED
      BY <1>1, <2>2, <2>3
  <1>2. CacheTypeOK /\ CacheInv /\ [CacheNext]_cacheVars =>
          [\A f \in Sources :
             read' # read /\ read'.entry.file = f =>
               IF read'.entry.tree = 0 THEN ~contents[f].there
               ELSE /\ read'.entry.tree >= handled[f]
                    /\ read'.entry.rich => read'.nodes = read'.entry.tree]_cacheVars
    BY <1>1
  <1> QED
    BY <1>2, InitCache, NextCache, PTL DEF CacheSpec, LoadsAreCurrent

(***************************************************************************)
(* FunctionRegistry: names and indices                                     *)
(***************************************************************************)

-----------------------------------------------------------------------------
(* The operators *)

LEMMA FirstOnly ==
  ASSUME NEW S, NEW r \in Seq(S), Len(r) >= 1
  PROVE  SubSeq(r, 1, 1) = <<r[1]>>
  <1> DEFINE u == SubSeq(r, 1, 1)
             v == <<r[1]>>
  <1>1. u \in Seq(S) /\ Len(u) = 1 /\ u[1] = r[1]
    OBVIOUS
  <1>2. v \in Seq(S) /\ Len(v) = 1 /\ v[1] = r[1]
    OBVIOUS
  <1> HIDE DEF u, v
  <1>3. u = v
    BY <1>1, <1>2
  <1> QED
    BY <1>3 DEF u, v

\* A suffix of one segment is the last one.
LEMMA SimpleSuffix ==
  ASSUME NEW s \in Seq(STRING), NEW t \in Seq(STRING), Len(s) = 1, Len(t) >= 1
  PROVE  IsSuffix(s, t) <=> s = <<Last(t)>>
  <1>1. /\ Reverse(s) \in Seq(STRING) /\ Len(Reverse(s)) = 1 /\ Reverse(s)[1] = s[1]
    BY DEF Reverse
  <1>2. /\ Reverse(t) \in Seq(STRING) /\ Len(Reverse(t)) = Len(t) /\ Reverse(t)[1] = t[Len(t)]
    BY DEF Reverse
  <1> DEFINE r == Reverse(s)
             q == Reverse(t)
  <1>3. IsSuffix(s, t) <=> SubSeq(r, 1, 1) = SubSeq(q, 1, 1)
    BY <1>1, <1>2 DEF IsSuffix, IsPrefix
  <1> HIDE DEF r, q
  <1>4. SubSeq(r, 1, 1) = <<r[1]>>
    <2>1. r \in Seq(STRING) /\ Len(r) >= 1
      BY <1>1 DEF r
    <2> QED
      BY <2>1, FirstOnly
  <1>5. SubSeq(q, 1, 1) = <<q[1]>>
    <2>1. q \in Seq(STRING) /\ Len(q) >= 1
      BY <1>2 DEF q
    <2> QED
      BY <2>1, FirstOnly
  <1>6. s = <<s[1]>>
    OBVIOUS
  <1>7. SubSeq(r, 1, 1) = SubSeq(q, 1, 1) <=> s[1] = Last(t)
    BY <1>1, <1>2, <1>4, <1>5 DEF Last, r, q
  <1> QED
    BY <1>3, <1>6, <1>7

\* The names a definition may get.
LEMMA NameShapes ==
  ASSUME NEW d \in Definitions
  PROVE  /\ UniqueName(d) \in {Natural(d.base), Plain(d), [Plain(d) EXCEPT !.col = d.col]}
         /\ Variant(d) \in {Plain(d), [Plain(d) EXCEPT !.col = d.col]}
         /\ Variant(d) = Plain(d) <=> Claimed(d) = d.col
         /\ Natural(d.base) # Plain(d) /\ Natural(d.base) # [Plain(d) EXCEPT !.col = d.col]
         /\ Plain(d) # [Plain(d) EXCEPT !.col = d.col]
         /\ UniqueName(d) = IF Natural(d.base) \in entries THEN Variant(d) ELSE Natural(d.base)
         /\ UniqueName(d) \in Names /\ Natural(d.base) \in Names
         /\ UniqueName(d).base = d.base /\ Variant(d).base = d.base /\ Variant(d).line # 0
         /\ UniqueName(d).line = 0 <=> Natural(d.base) \notin entries
  BY DefinitionsAssumption DEF UniqueName, Variant, Plain, Natural, Names

LEMMA NamesTyped ==
  ASSUME NEW n \in Names
  PROVE  /\ n.base \in Seq(STRING) /\ n.base # <<>> /\ n.line \in Nat
         /\ n.line = 0 => n = Natural(n.base)
  BY DefinitionsAssumption DEF Names, Plain, Natural

-----------------------------------------------------------------------------
(* The invariant *)

\* The names that are registered are those that definitions were given.
EntriesAreNamed ==
  /\ entries = {named[d] : d \in DOMAIN named} /\ entries \subseteq Names /\ IsFiniteSet(entries)
  /\ DOMAIN named \subseteq Definitions /\ work \subseteq Definitions /\ work \cap DOMAIN named = {}
  /\ \A d \in DOMAIN named :
       named[d] \in {Natural(d.base), Plain(d), [Plain(d) EXCEPT !.col = d.col]}

\* Whoever has the name with the line alone holds the claim on it.
ClaimsAreHeld ==
  /\ DOMAIN columns \subseteq entries
  /\ \A d \in DOMAIN named :
       named[d] = Plain(d) => Plain(d) \in DOMAIN columns /\ columns[Plain(d)] = d.col

\* The variants of a natural name, unless it was taken out from under them.
VariantsAreKept ==
  /\ DOMAIN duplicates \subseteq {n \in entries : n.line = 0}
  /\ \A n \in entries : n.line # 0 => Natural(n.base) \in entries \cup orphaned
  /\ \A n \in entries : n.line = 0 /\ n \notin orphaned
                          => Bucket(n) = {m \in entries : m.base = n.base}

TrieAgrees == trie.ends = entries /\ trie.nodes = UNION {PathsTo(n) : n \in entries}

LookupAgrees ==
  /\ \A p \in lookup : p[2] \in entries
  /\ \A n \in entries : n.line = 0 => <<<<Last(n.base)>>, n>> \in lookup

RegistryInv ==
  /\ EntriesAreNamed /\ ClaimsAreHeld /\ NamesAreUnique
  /\ VariantsAreKept /\ TrieAgrees
  /\ LookupAgrees /\ DOMAIN found \subseteq Endings /\ FindsWhatIsThere

LEMMA InitRegistry == RegistryInit => RegistryInv
  <1> SUFFICES ASSUME RegistryInit PROVE RegistryInv
    OBVIOUS
  <1>1. /\ entries = {} /\ trie.nodes = {} /\ trie.ends = {} /\ lookup = {} /\ work = {}
        /\ DOMAIN found = {} /\ DOMAIN duplicates = {} /\ DOMAIN columns = {} /\ DOMAIN named = {}
    BY DEF RegistryInit
  <1>2. EntriesAreNamed
    BY <1>1, FS_EmptySet DEF EntriesAreNamed
  <1> QED
    BY <1>1, <1>2 DEF RegistryInv, ClaimsAreHeld, NamesAreUnique, VariantsAreKept, TrieAgrees,
                      LookupAgrees, FindsWhatIsThere

-----------------------------------------------------------------------------
(* Registering a definition *)

LEMMA DefineKeeps ==
  ASSUME RegistryInv, NEW d \in Definitions, Define(d)
  PROVE  RegistryInv'
  <1> DEFINE n == UniqueName(d)
  <1>1. /\ d \in work /\ d \notin DOMAIN named
        /\ entries' = entries \cup {n}
        /\ trie' = [nodes |-> trie.nodes \cup PathsTo(n), ends |-> trie.ends \cup {n}]
        /\ lookup' = lookup \cup Filed(d, n) /\ found' = StillFound({n})
        /\ named' = With(named, d, n) /\ work' = work \ {d}
        /\ UNCHANGED <<events, orphaned>> /\ RegisterUnique(d)
    BY DEF Define, RegistryInv, EntriesAreNamed
  <1>2. /\ DOMAIN named' = DOMAIN named \cup {d} /\ named'[d] = n
        /\ \A e \in DOMAIN named : named'[e] = named[e]
    BY <1>1 DEF With
  <1>3. PICK name \in Names : name = n
    BY NameShapes
  <1> HIDE DEF n
  <1>4. /\ name \in {Natural(d.base), Plain(d), [Plain(d) EXCEPT !.col = d.col]}
        /\ Variant(d) \in {Plain(d), [Plain(d) EXCEPT !.col = d.col]}
        /\ Variant(d) = Plain(d) <=> Claimed(d) = d.col
        /\ Natural(d.base) # Plain(d) /\ Natural(d.base) # [Plain(d) EXCEPT !.col = d.col]
        /\ Plain(d) # [Plain(d) EXCEPT !.col = d.col]
        /\ name = IF Natural(d.base) \in entries THEN Variant(d) ELSE Natural(d.base)
        /\ name.base = d.base /\ Variant(d).base = d.base /\ Variant(d).line # 0
        /\ name.line = 0 <=> Natural(d.base) \notin entries
    BY <1>3, NameShapes DEF n
  <1>5. EntriesAreNamed'
    <2>1. entries' = {named'[e] : e \in DOMAIN named'}
      BY <1>1, <1>2 DEF RegistryInv, EntriesAreNamed
    <2>2. IsFiniteSet(entries')
      BY <1>1, FS_AddElement DEF RegistryInv, EntriesAreNamed
    <2>3. \A e \in DOMAIN named' :
            named'[e] \in {Natural(e.base), Plain(e), [Plain(e) EXCEPT !.col = e.col]}
      BY <1>2, <1>3, <1>4 DEF RegistryInv, EntriesAreNamed
    <2> QED
      BY <1>1, <1>2, <1>3, <2>1, <2>2, <2>3 DEF RegistryInv, EntriesAreNamed
  <1>6. ASSUME Natural(d.base) \notin entries
        PROVE  ClaimsAreHeld' /\ NamesAreUnique' /\ VariantsAreKept'
    <2>1. name = Natural(d.base) /\ UNCHANGED <<columns, duplicates>> /\ name \notin entries
      BY <1>1, <1>4, <1>6 DEF RegisterUnique
    <2>2. ClaimsAreHeld'
      BY <1>1, <1>2, <1>3, <1>4, <2>1 DEF RegistryInv, ClaimsAreHeld
    <2>3. NamesAreUnique'
      BY <1>2, <1>3, <2>1 DEF RegistryInv, NamesAreUnique, EntriesAreNamed
    <2>4. VariantsAreKept'
      <3>1. \A m \in entries : Natural(m.base) \in entries \cup orphaned
        BY NamesTyped DEF RegistryInv, EntriesAreNamed, VariantsAreKept
      <3>2. name.line = 0 /\ name.base = d.base
        BY <1>4, <1>6
      <3>3. ASSUME name \notin orphaned PROVE Bucket(name)' = {m \in entries' : m.base = name.base}
        <4>1. name \notin DOMAIN duplicates
          BY <2>1 DEF RegistryInv, VariantsAreKept
        <4>2. \A m \in entries : m.base # d.base
          BY <2>1, <3>1, <3>3
        <4> QED
          BY <1>1, <1>3, <2>1, <3>2, <4>1, <4>2 DEF Bucket
      <3>4. ASSUME NEW m \in entries, m.line = 0, m \notin orphaned
            PROVE  Bucket(m)' = {k \in entries' : k.base = m.base}
        <4>1. m.base # d.base
          BY <2>1, <3>4, NamesTyped DEF RegistryInv, EntriesAreNamed
        <4>2. Bucket(m) = {k \in entries : k.base = m.base} /\ Bucket(m)' = Bucket(m)
          BY <2>1, <3>4 DEF RegistryInv, VariantsAreKept, Bucket
        <4> QED
          BY <1>1, <1>3, <3>2, <4>1, <4>2
      <3> QED
        BY <1>1, <1>3, <2>1, <3>1, <3>2, <3>3, <3>4 DEF RegistryInv, VariantsAreKept
    <2> QED
      BY <2>2, <2>3, <2>4
  <1>7. ASSUME Natural(d.base) \in entries
        PROVE  ClaimsAreHeld' /\ NamesAreUnique' /\ VariantsAreKept'
    <2> DEFINE natural == Natural(d.base)
    <2>1. /\ name = Variant(d) /\ columns' = With(columns, Plain(d), Claimed(d))
          /\ duplicates' = With(duplicates, natural, Bucket(natural) \cup {name})
      BY <1>1, <1>4, <1>7 DEF RegisterUnique
    <2>2. /\ DOMAIN columns' = DOMAIN columns \cup {Plain(d)}
          /\ columns'[Plain(d)] = Claimed(d)
          /\ \A k \in DOMAIN columns : columns'[k] = columns[k]
      BY <2>1 DEF With, Claimed
    <2>3. /\ DOMAIN duplicates' = DOMAIN duplicates \cup {natural}
          /\ duplicates'[natural] = Bucket(natural) \cup {name}
          /\ \A k \in DOMAIN duplicates : k # natural => duplicates'[k] = duplicates[k]
      BY <2>1 DEF With
    <2>4. Plain(d) \in entries'
      <3>1. CASE Claimed(d) = d.col
        BY <1>1, <1>3, <1>4, <2>1, <3>1
      <3>2. CASE Claimed(d) # d.col
        BY <1>1, <3>2 DEF Claimed, RegistryInv, ClaimsAreHeld
      <3> QED
        BY <3>1, <3>2
    <2>5. ClaimsAreHeld'
      <3>1. named'[d] = Plain(d) => columns'[Plain(d)] = d.col
        BY <1>2, <1>3, <1>4, <2>1, <2>2
      <3>2. \A e \in DOMAIN named :
              named'[e] = Plain(e) => Plain(e) \in DOMAIN columns' /\ columns'[Plain(e)] = e.col
        BY <1>2, <2>2 DEF RegistryInv, ClaimsAreHeld
      <3> QED
        BY <1>1, <1>2, <2>2, <2>4, <3>1, <3>2 DEF RegistryInv, ClaimsAreHeld
    <2>6. ASSUME NEW e \in DOMAIN named, named[e] = name PROVE Plain(d) = Plain(e) /\ d.col = e.col
      <3>1. e \in Definitions /\ named[e] \in {Natural(e.base), Plain(e), [Plain(e) EXCEPT !.col = e.col]}
        BY DEF RegistryInv, EntriesAreNamed
      <3>2. /\ d.line \in Nat /\ d.line # 0 /\ d.col # 0 /\ e.line # 0 /\ e.col # 0
        BY <3>1, DefinitionsAssumption
      <3>3. CASE name = Plain(d)
        <4>1. named[e] = Plain(e) /\ Plain(e) = Plain(d)
          BY <2>6, <3>1, <3>2, <3>3 DEF Plain, Natural
        <4>2. Plain(e) \in DOMAIN columns /\ columns[Plain(e)] = e.col
          BY <4>1 DEF RegistryInv, ClaimsAreHeld
        <4>3. Claimed(d) = d.col
          BY <1>4, <2>1, <3>3
        <4> QED
          BY <4>1, <4>2, <4>3 DEF Claimed
      <3>4. CASE name = [Plain(d) EXCEPT !.col = d.col]
        BY <2>6, <3>1, <3>2, <3>4 DEF Plain, Natural
      <3> QED
        BY <1>4, <2>1, <3>3, <3>4
    <2>7. NamesAreUnique'
      BY <1>2, <1>3, <2>6 DEF RegistryInv, NamesAreUnique
    <2>8. VariantsAreKept'
      <3>1. natural.line = 0 /\ natural.base = d.base /\ name.line # 0
        BY <1>4, <1>7 DEF Natural
      <3>2. DOMAIN duplicates' \subseteq {k \in entries' : k.line = 0}
        BY <1>1, <1>7, <2>3, <3>1 DEF RegistryInv, VariantsAreKept
      <3>3. \A k \in entries' : k.line # 0 => Natural(k.base) \in entries' \cup orphaned'
        BY <1>1, <1>3, <1>4, <1>7 DEF RegistryInv, VariantsAreKept
      <3>4. ASSUME NEW m \in entries, m.line = 0, m \notin orphaned
            PROVE  Bucket(m)' = {k \in entries' : k.base = m.base}
        <4>1. Bucket(m) = {k \in entries : k.base = m.base}
          BY <3>4 DEF RegistryInv, VariantsAreKept
        <4>2. CASE m = natural
          <5>1. Bucket(m)' = Bucket(m) \cup {name}
            BY <2>3, <4>2 DEF Bucket
          <5> QED
            BY <1>1, <1>3, <1>4, <3>1, <4>1, <4>2, <5>1
        <4>3. CASE m # natural
          <5>1. m.base # d.base
            BY <3>4, <4>3, NamesTyped DEF RegistryInv, EntriesAreNamed
          <5>2. Bucket(m)' = Bucket(m)
            BY <2>3, <4>3 DEF Bucket
          <5> QED
            BY <1>1, <1>3, <1>4, <4>1, <5>1, <5>2
        <4> QED
          BY <4>2, <4>3
      <3> QED
        BY <1>1, <1>3, <3>1, <3>2, <3>3, <3>4 DEF VariantsAreKept
    <2> QED
      BY <2>5, <2>7, <2>8
  <1>8. TrieAgrees'
    BY <1>1 DEF RegistryInv, TrieAgrees
  <1>9. LookupAgrees'
    <2>1. \A p \in Filed(d, n) : p[2] = n
      BY DEF Filed
    <2>2. n.line = 0 => <<<<Last(n.base)>>, n>> \in Filed(d, n)
      BY DEF Filed
    <2> QED
      BY <1>1, <2>1, <2>2 DEF RegistryInv, LookupAgrees
  <1>10. (DOMAIN found \subseteq Endings)' /\ FindsWhatIsThere'
    <2>1. /\ DOMAIN found' = DOMAIN found \cap {s \in Endings : \A m \in {n} : ~ Invalidates(m, s)}
          /\ \A s \in DOMAIN found' : found'[s] = found[s]
      BY <1>1 DEF StillFound, Only
    <2> QED
      BY <1>1, <2>1 DEF RegistryInv, FindsWhatIsThere, Invalidates
  <1> QED
    BY <1>5, <1>6, <1>7, <1>8, <1>9, <1>10 DEF RegistryInv

-----------------------------------------------------------------------------
(* Taking a file out *)

\* A bucket with one name left is that of no duplicates.
LEMMA OneNameLeft ==
  ASSUME NEW S, IsFiniteSet(S), NEW x \in S, ~(Cardinality(S) > 1)
  PROVE  S = {x}
  <1>1. Cardinality(S) \in Nat /\ Cardinality(S) # 0
    BY FS_CardinalityType, FS_EmptySet
  <1>2. Cardinality(S) = 1
    BY <1>1
  <1> QED
    BY <1>2, FS_Singleton

LEMMA FileKeeps ==
  ASSUME RegistryInv, NEW file \in RegistryFiles, FileEvent(file)
  PROVE  RegistryInv'
  <1> DEFINE gone == {named[d] : d \in DOMAIN named \cap Of(file)}
                       \ {named[d] : d \in DOMAIN named \ Of(file)}
  <1>1. /\ entries' = entries \ gone /\ trie' = Cleaned(gone)
        /\ lookup' = {p \in lookup : p[2] \notin gone} /\ found' = StillFound(gone)
        /\ Forget(gone) /\ named' = Only(named, Definitions \ Of(file))
        /\ orphaned' = orphaned \cup {n \in gone : n.line = 0 /\ \E m \in entries \ gone : m.base = n.base}
        /\ work' \subseteq Of(file)
    BY DEF FileEvent
  <1>2. gone \subseteq entries
    BY DEF RegistryInv, EntriesAreNamed
  <1>3. /\ DOMAIN named' = DOMAIN named \ Of(file)
        /\ \A d \in DOMAIN named' : named'[d] = named[d] /\ named[d] \notin gone
    BY <1>1 DEF Only, RegistryInv, EntriesAreNamed
  <1>4. entries' = {named'[d] : d \in DOMAIN named'}
    <2>1. ASSUME NEW n \in entries' PROVE \E d \in DOMAIN named' : named'[d] = n
      <3>1. PICK d \in DOMAIN named : named[d] = n
        BY <1>1 DEF RegistryInv, EntriesAreNamed
      <3>2. CASE d \notin Of(file)
        BY <1>3, <3>1, <3>2
      <3>3. CASE d \in Of(file)
        <4>1. \E e \in DOMAIN named \ Of(file) : named[e] = n
          BY <1>1, <3>1, <3>3
        <4> QED
          BY <1>3, <4>1
      <3> QED
        BY <3>2, <3>3
    <2>2. ASSUME NEW d \in DOMAIN named' PROVE named'[d] \in entries'
      BY <1>1, <1>3 DEF RegistryInv, EntriesAreNamed
    <2> QED
      BY <2>1, <2>2
  <1> HIDE DEF gone
  <1>5. EntriesAreNamed'
    <2>1. IsFiniteSet(entries')
      BY <1>1, FS_Subset DEF RegistryInv, EntriesAreNamed
    <2> QED
      BY <1>1, <1>3, <1>4, <2>1 DEF RegistryInv, EntriesAreNamed, Of
  <1>6. /\ DOMAIN columns' = DOMAIN columns \cap (Names \ gone)
        /\ \A k \in DOMAIN columns' : columns'[k] = columns[k]
    BY <1>1 DEF Forget, Only
  <1>7. ClaimsAreHeld'
    <2>1. DOMAIN columns' \subseteq entries'
      BY <1>1, <1>6 DEF RegistryInv, ClaimsAreHeld
    <2>2. ASSUME NEW d \in DOMAIN named', named'[d] = Plain(d)
          PROVE  Plain(d) \in DOMAIN columns' /\ columns'[Plain(d)] = d.col
      <3>1. d \in DOMAIN named /\ named[d] = Plain(d) /\ Plain(d) \notin gone
        BY <1>3, <2>2
      <3>2. Plain(d) \in entries /\ Plain(d) \in Names
        BY <3>1 DEF RegistryInv, EntriesAreNamed
      <3> QED
        BY <1>6, <3>1, <3>2 DEF RegistryInv, ClaimsAreHeld
    <2> QED
      BY <2>1, <2>2 DEF ClaimsAreHeld
  <1>8. NamesAreUnique'
    BY <1>3 DEF RegistryInv, NamesAreUnique
  <1>9. /\ DOMAIN duplicates' = DOMAIN duplicates
                                \cap {n \in Names \ gone : Cardinality(Bucket(n) \ gone) > 1}
        /\ \A n \in DOMAIN duplicates' : duplicates'[n] = duplicates[n] \ gone
    BY <1>1 DEF Forget, Only
  <1>10. VariantsAreKept'
    <2>1. DOMAIN duplicates' \subseteq {n \in entries' : n.line = 0}
      BY <1>1, <1>9 DEF RegistryInv, VariantsAreKept
    <2>2. ASSUME NEW n \in entries', n.line # 0 PROVE Natural(n.base) \in entries' \cup orphaned'
      <3>1. Natural(n.base).line = 0 /\ Natural(n.base).base = n.base
        BY DEF Natural
      <3> QED
        BY <1>1, <2>2, <3>1 DEF RegistryInv, VariantsAreKept
    <2>3. ASSUME NEW n \in entries', n.line = 0, n \notin orphaned'
          PROVE  Bucket(n)' = {m \in entries' : m.base = n.base}
      <3>1. n \in entries /\ n \notin gone /\ n \in Names /\ n \notin orphaned
        BY <1>1, <2>3 DEF RegistryInv, EntriesAreNamed
      <3>2. Bucket(n) = {m \in entries : m.base = n.base}
        BY <2>3, <3>1 DEF RegistryInv, VariantsAreKept
      <3>3. Bucket(n) \ gone = {m \in entries' : m.base = n.base}
        BY <1>1, <3>2
      <3>4. CASE n \notin DOMAIN duplicates
        <4>1. Bucket(n)' = {n} /\ Bucket(n) = {n}
          BY <1>9, <3>4 DEF Bucket
        <4> QED
          BY <3>1, <3>3, <4>1
      <3>5. CASE n \in DOMAIN duplicates /\ Cardinality(Bucket(n) \ gone) > 1
        <4>1. Bucket(n)' = Bucket(n) \ gone
          BY <1>9, <3>1, <3>5 DEF Bucket
        <4> QED
          BY <3>3, <4>1
      <3>6. CASE n \in DOMAIN duplicates /\ ~(Cardinality(Bucket(n) \ gone) > 1)
        <4>1. Bucket(n)' = {n}
          BY <1>9, <3>6 DEF Bucket
        <4>2. IsFiniteSet(Bucket(n) \ gone)
          <5>1. Bucket(n) \ gone \subseteq entries
            BY <3>2
          <5> QED
            BY <5>1, FS_Subset DEF RegistryInv, EntriesAreNamed
        <4>3. n \in Bucket(n) \ gone
          BY <3>1, <3>2
        <4>4. Bucket(n) \ gone = {n}
          BY <3>6, <4>2, <4>3, OneNameLeft
        <4> QED
          BY <3>3, <4>1, <4>4
      <3> QED
        BY <3>4, <3>5, <3>6
    <2> QED
      BY <2>1, <2>2, <2>3 DEF VariantsAreKept
  <1>11. TrieAgrees'
    <2>1. /\ trie.ends = entries /\ trie.nodes = UNION {PathsTo(n) : n \in entries}
          /\ trie'.ends = entries'
          /\ trie'.nodes = {p \in trie.nodes : (\E n \in gone : p \in PathsTo(n))
                                               => \E n \in entries' : p \in PathsTo(n)}
      BY <1>1 DEF RegistryInv, TrieAgrees, Cleaned
    <2>2. ASSUME NEW p \in trie'.nodes PROVE \E n \in entries' : p \in PathsTo(n)
      BY <1>1, <2>1, <2>2
    <2>3. ASSUME NEW n \in entries', NEW p \in PathsTo(n) PROVE p \in trie'.nodes
      BY <1>1, <2>1, <2>3
    <2> QED
      BY <2>1, <2>2, <2>3 DEF TrieAgrees
  <1>12. LookupAgrees'
    BY <1>1 DEF RegistryInv, LookupAgrees
  <1>13. (DOMAIN found \subseteq Endings)' /\ FindsWhatIsThere'
    <2>1. /\ DOMAIN found' = DOMAIN found \cap {s \in Endings : \A m \in gone : ~ Invalidates(m, s)}
          /\ \A s \in DOMAIN found' : found'[s] = found[s]
      BY <1>1 DEF StillFound, Only
    <2> QED
      BY <1>1, <2>1 DEF RegistryInv, FindsWhatIsThere, Invalidates
  <1> QED
    BY <1>5, <1>7, <1>8, <1>10, <1>11, <1>12, <1>13 DEF RegistryInv

-----------------------------------------------------------------------------
(* Looking up *)

LEMMA FindKeeps ==
  ASSUME RegistryInv, NEW s \in Endings, FindEndingWith(s)
  PROVE  RegistryInv'
  <1>1. /\ found' = With(found, s, Ending(s)) /\ s \notin DOMAIN found
        /\ UNCHANGED <<entries, trie, lookup, duplicates, columns, named, work, events, orphaned>>
    BY DEF FindEndingWith
  <1>2. /\ DOMAIN found' = DOMAIN found \cup {s} /\ found'[s] = Ending(s)
        /\ \A t \in DOMAIN found : found'[t] = found[t]
    BY <1>1 DEF With
  <1>3. {n \in Ending(s) : EndsWith(n, s)} = {n \in entries : EndsWith(n, s)}
    <2>1. CASE Len(s) # 1
      BY <2>1 DEF Ending
    <2>2. CASE Len(s) = 1
      <3>1. ASSUME NEW n \in Names, <<s, n>> \in lookup PROVE n \in entries
        BY <3>1 DEF RegistryInv, LookupAgrees
      <3>2. ASSUME NEW n \in entries, EndsWith(n, s) PROVE n \in Names /\ <<s, n>> \in lookup
        <4>1. n \in Names /\ n.base \in Seq(STRING) /\ Len(n.base) > 1 /\ n.line = 0
          BY <2>2, <3>2, NamesTyped DEF EndsWith, RegistryInv, EntriesAreNamed
        <4>2. IsSuffix(s, n.base) /\ s \in Seq(STRING)
          BY <3>2, EndingsAssumption DEF EndsWith
        <4>3. s = <<Last(n.base)>>
          <5>1. PICK t \in Seq(STRING) : t = n.base
            BY <4>1
          <5>2. Len(t) >= 1 /\ IsSuffix(s, t)
            BY <4>1, <4>2, <5>1
          <5>3. s = <<Last(t)>>
            BY <2>2, <4>2, <5>2, SimpleSuffix
          <5> QED
            BY <5>1, <5>3
        <4> QED
          BY <4>1, <4>3 DEF RegistryInv, LookupAgrees
      <3> QED
        BY <2>2, <3>1, <3>2 DEF Ending
    <2> QED
      BY <2>1, <2>2
  <1>4. (DOMAIN found \subseteq Endings)' /\ FindsWhatIsThere'
    BY <1>1, <1>2, <1>3 DEF RegistryInv, FindsWhatIsThere
  <1>5. EntriesAreNamed' /\ ClaimsAreHeld' /\ NamesAreUnique' /\ LookupAgrees'
    BY <1>1 DEF RegistryInv, EntriesAreNamed, ClaimsAreHeld, NamesAreUnique, LookupAgrees
  <1>6. VariantsAreKept' /\ TrieAgrees'
    BY <1>1 DEF RegistryInv, VariantsAreKept, TrieAgrees, Bucket
  <1> QED
    BY <1>4, <1>5, <1>6 DEF RegistryInv

LEMMA NextRegistry == RegistryInv /\ [RegistryNext]_registryVars => RegistryInv'
  <1> SUFFICES ASSUME RegistryInv, [RegistryNext]_registryVars PROVE RegistryInv'
    OBVIOUS
  <1>1. CASE UNCHANGED registryVars
    BY <1>1 DEF registryVars, RegistryInv, EntriesAreNamed, ClaimsAreHeld, NamesAreUnique, LookupAgrees,
       VariantsAreKept, TrieAgrees, Bucket, FindsWhatIsThere
  <1> QED
    BY <1>1, DefineKeeps, FileKeeps, FindKeeps DEF RegistryNext

LookupTyped ==
  /\ lookup \subseteq ({<<d.leaf>> : d \in Definitions} \cup {<<Last(n.base)>> : n \in Names}) \X Names
  /\ events \in 0..MaxFileEvents

LEMMA RegistryTyped == RegistryInv /\ LookupTyped => RegistryTypeOK
  <1> SUFFICES ASSUME RegistryInv, LookupTyped PROVE RegistryTypeOK
    OBVIOUS
  <1>1. trie.ends = entries /\ trie.nodes = UNION {PathsTo(n) : n \in entries} /\ entries \subseteq Names
    BY DEF RegistryInv, TrieAgrees, EntriesAreNamed
  <1>2. trie.ends \subseteq trie.nodes /\ trie.nodes \subseteq UNION {PathsTo(n) : n \in Names}
    BY <1>1 DEF PathsTo
  <1> QED
    BY <1>1, <1>2 DEF RegistryInv, EntriesAreNamed, ClaimsAreHeld, VariantsAreKept, LookupTyped,
                      RegistryTypeOK

LEMMA LookupStaysTyped ==
  ASSUME LookupTyped, [RegistryNext]_registryVars
  PROVE  LookupTyped'
  <1>1. ASSUME NEW d \in Definitions, Define(d) PROVE LookupTyped'
    <2>1. PICK n \in Names : n = UniqueName(d)
      BY NameShapes
    <2>2. lookup' = lookup \cup Filed(d, n) /\ events' = events
      BY <1>1, <2>1 DEF Define
    <2> QED
      BY <2>2 DEF LookupTyped, Filed
  <1>2. ASSUME NEW file \in RegistryFiles, FileEvent(file) PROVE LookupTyped'
    <2>1. lookup' \subseteq lookup /\ events < MaxFileEvents /\ events' = events + 1
      BY <1>2 DEF FileEvent
    <2> QED
      BY <2>1, RegistryBounds DEF LookupTyped
  <1>3. ASSUME NEW suffix \in Endings, FindEndingWith(suffix) PROVE LookupTyped'
    BY <1>3 DEF FindEndingWith, LookupTyped
  <1>4. CASE UNCHANGED registryVars
    BY <1>4 DEF registryVars, LookupTyped
  <1> QED
    BY <1>1, <1>2, <1>3, <1>4 DEF RegistryNext

\* Every reachable state of the registry has its types (function_registry.py:32-42).
THEOREM RegistryTypes == RegistrySpec => []RegistryTypeOK
  <1>1. RegistryInit => RegistryInv /\ LookupTyped
    BY InitRegistry, RegistryBounds DEF RegistryInit, LookupTyped
  <1>2. RegistryInv /\ LookupTyped /\ [RegistryNext]_registryVars => RegistryInv' /\ LookupTyped'
    BY NextRegistry, LookupStaysTyped
  <1> QED
    BY <1>1, <1>2, RegistryTyped, PTL DEF RegistrySpec

\* Two definitions never share a name, whatever was indexed and taken out before
\* (function_registry.py:69-90, 131-166).
THEOREM NamesStayUnique == RegistrySpec => []NamesAreUnique
  <1>1. RegistryInv => NamesAreUnique
    BY DEF RegistryInv
  <1> QED
    BY <1>1, InitRegistry, NextRegistry, PTL DEF RegistrySpec

\* A kept answer has exactly the names that end so now (function_registry.py:187-279).
THEOREM AnswersStayRight == RegistrySpec => []FindsWhatIsThere
  <1>1. RegistryInv => FindsWhatIsThere
    BY DEF RegistryInv
  <1> QED
    BY <1>1, InitRegistry, NextRegistry, PTL DEF RegistrySpec

\* The trie, the claims on lines and the buckets of variants tell the same as the entries
\* (function_registry.py:92-185).
THEOREM IndicesStayRight == RegistrySpec => []IndicesAgree
  <1>1. RegistryInv => IndicesAgree
    BY DEF RegistryInv, IndicesAgree, TrieAgrees, ClaimsAreHeld, VariantsAreKept
  <1> QED
    BY <1>1, InitRegistry, NextRegistry, PTL DEF RegistrySpec

(***************************************************************************)
(* VectorIndex: what a search finds                                        *)
(***************************************************************************)

-----------------------------------------------------------------------------
(* The invariant *)

\* What has no vector of its text yet will get one, or is in the log, or has another text by now.
Covered(e) ==
  \/ e \in pass.rows \cup pass.pending \cup points
  \/ e.id \in unembedded
  \/ body[e.name] # e.version

\* A snippet of a node: it is the node's text, or the file has another by now.
SnippetOf(x, e) == x.id = e.id /\ x.name = e.name /\ (x = e \/ body[e.name] # e.version)

PointsAreOld == (\A p \in points : p.id < nextNode) /\ HitsAreOwn

IndexInv ==
  /\ \A e, k \in nodes : e.id = k.id => e = k
  /\ \A e \in nodes : e.id < nextNode /\ 0 < e.version /\ e.version <= lastVersion
  /\ \A n \in Embedded : body[n] <= lastVersion
  /\ warned \/ pass.pc = "wiped" \/ PointsAreOld
  /\ pass.pc = "wiped" => nodes = {}
  /\ pass.pc = "embedding" =>
       pass.rows \subseteq nodes /\ \A x \in pass.pending : \E e \in nodes : SnippetOf(x, e)
  /\ pass.pc # "embedding" => pass.rows = {} /\ pass.pending = {}
  /\ pass.pc \in {"idle", "embedding"} => \A e \in nodes : Covered(e)

Pass == [pc : {"idle", "parsed", "embedding", "wiped", "deleting"}, first : Nat,
         rows : SUBSET IndexEntry, pending : SUBSET IndexEntry]

IndexTyped == IndexTypeOK /\ pass \in Pass

LEMMA InitIndex == IndexInit => IndexTyped /\ IndexInv
  <1> SUFFICES ASSUME IndexInit PROVE IndexTyped /\ IndexInv
    OBVIOUS
  <1>1. pass \in Pass
    BY DEF IndexInit, Pass
  <1>2. IndexTyped
    <2>1. Nowhere \in [Embedded -> TextVersions] /\ 0 \in TextVersions
      BY IndexAssumption DEF Nowhere, TextVersions
    <2>2. pass.pc = "idle" /\ pass.first = 0 /\ pass.rows = {} /\ pass.pending = {}
      BY DEF IndexInit
    <2>3. warned \in BOOLEAN
      BY DEF IndexInit
    <2>4. /\ body = Nowhere /\ hashed = Nowhere /\ nodes = {} /\ nextNode = 0 /\ points = {}
          /\ unembedded = {} /\ lastVersion = 0 /\ resets = 0 /\ indexFaults = 0
      BY DEF IndexInit
    <2> QED
      BY <1>1, <2>1, <2>2, <2>3, <2>4, IndexAssumption DEF IndexTyped, IndexTypeOK
  <1>3. nodes = {} /\ points = {} /\ pass.rows = {} /\ pass.pending = {} /\ pass.pc = "idle"
        /\ \A n \in Embedded : body[n] <= lastVersion
    BY DEF IndexInit, Nowhere
  <1>4. IndexInv
    BY <1>3 DEF IndexInv, PointsAreOld, HitsAreOwn
  <1> QED
    BY <1>2, <1>4

\* What the steps of the text leave of the invariant: a changed text has a number of its own.
LEMMA TextsKeep ==
  ASSUME IndexTyped, IndexInv, NEW n \in Embedded, SaveText(n) \/ RemoveText(n)
  PROVE  IndexTyped' /\ IndexInv'
  <1>1. /\ UNCHANGED <<hashed, nodes, nextNode, points, pass, unembedded, warned, resets, indexFaults>>
        /\ lastVersion' \in Nat /\ lastVersion' \in TextVersions /\ lastVersion <= lastVersion'
        /\ body' \in [Embedded -> TextVersions] /\ \A m \in Embedded : body'[m] <= lastVersion'
        /\ \A m \in Embedded : body'[m] # body[m] => body'[m] > lastVersion \/ body'[m] = 0
    BY IndexAssumption DEF SaveText, RemoveText, IndexTyped, IndexTypeOK, IndexInv, TextVersions
  <1>2. IndexTyped'
    BY <1>1 DEF IndexTyped, IndexTypeOK
  <1>3. ASSUME NEW e \in nodes
        PROVE  /\ e.version <= lastVersion'
               /\ body[e.name] # e.version => body'[e.name] # e.version
    <2>1. e \in IndexEntry /\ 0 < e.version /\ e.version <= lastVersion
      BY DEF IndexTyped, IndexTypeOK, IndexInv
    <2>2. e.name \in Embedded /\ e.version \in Nat /\ lastVersion \in Nat
      BY <2>1 DEF IndexEntry, TextVersions, IndexTyped, IndexTypeOK
    <2> QED
      BY <1>1, <2>1, <2>2
  <1>4. PointsAreOld' <=> PointsAreOld
    BY <1>1 DEF PointsAreOld, HitsAreOwn
  <1>5. \A e \in nodes : Covered(e) => Covered(e)'
    BY <1>1, <1>3 DEF Covered
  <1>6. \A x, e : e \in nodes /\ SnippetOf(x, e) => SnippetOf(x, e)'
    BY <1>1, <1>3 DEF SnippetOf
  <1>7. IndexInv'
    BY <1>1, <1>3, <1>4, <1>5, <1>6 DEF IndexInv
  <1> QED
    BY <1>2, <1>7

LEMMA ParseKeeps ==
  ASSUME IndexTyped, IndexInv, ParseChanged
  PROVE  IndexTyped' /\ IndexInv'
  <1> DEFINE there == {n \in ChangedTexts : body[n] # 0}
             size == Cardinality(there)
  <1>1. size \in Nat
    <2>1. there \subseteq Embedded
      BY DEF ChangedTexts
    <2> HIDE DEF there
    <2> QED
      BY <2>1, FS_Subset, FS_CardinalityType, IndexAssumption
  <1>2. PICK id \in [there -> nextNode..(nextNode + size - 1)] :
          /\ \A n, k \in there : id[n] = id[k] => n = k
          /\ nodes' = {e \in nodes : e.name \notin ChangedTexts}
                        \cup {[id |-> id[n], name |-> n, version |-> body[n]] : n \in there}
    BY DEF ParseChanged
  <1>3. /\ nextNode' = nextNode + size /\ hashed' = body /\ pass.pc = "idle"
        /\ pass' = [pass EXCEPT !.pc = "parsed", !.first = nextNode]
        /\ UNCHANGED <<body, points, unembedded, warned, lastVersion, resets, indexFaults>>
    BY DEF ParseChanged
  <1>4. \A n \in there : n \in Embedded /\ body[n] # 0
    BY DEF ChangedTexts
  <1> HIDE DEF there, size
  <1>5. nextNode \in Nat /\ nextNode' \in Nat /\ nextNode <= nextNode' /\ lastVersion \in Nat
        /\ pass \in Pass /\ nodes \subseteq IndexEntry /\ points \subseteq IndexEntry
        /\ body \in [Embedded -> TextVersions] /\ \A n \in Embedded : body[n] <= lastVersion
    BY <1>1, <1>3 DEF IndexTyped, IndexTypeOK, IndexInv, TextVersions
  <1>6. \A n \in there : id[n] \in Nat /\ nextNode <= id[n] /\ id[n] < nextNode'
    BY <1>1, <1>2, <1>3, <1>5
  <1>7. ASSUME NEW e \in nodes'
        PROVE  \/ e \in nodes /\ e.id < nextNode
               \/ \E n \in there : e = [id |-> id[n], name |-> n, version |-> body[n]]
    BY <1>2 DEF IndexInv
  <1>8. nodes' \subseteq IndexEntry
    <2>1. \A n \in there : [id |-> id[n], name |-> n, version |-> body[n]] \in IndexEntry
      BY <1>4, <1>5, <1>6 DEF IndexEntry
    <2> QED
      BY <1>2, <1>5, <2>1
  <1>9. pass' \in Pass /\ pass'.pc = "parsed" /\ pass'.rows = {} /\ pass'.pending = {}
    BY <1>3, <1>5 DEF Pass, IndexInv
  <1>10. IndexTyped'
    BY <1>3, <1>5, <1>8, <1>9 DEF IndexTyped, IndexTypeOK, Pass
  <1>11. \A e, k \in nodes' : e.id = k.id => e = k
    <2> SUFFICES ASSUME NEW e \in nodes', NEW k \in nodes', e.id = k.id PROVE e = k
      OBVIOUS
    <2>1. CASE e \in nodes /\ e.id < nextNode /\ k \in nodes
      BY <2>1 DEF IndexInv
    <2>2. ASSUME NEW n \in there, NEW m \in there, e = [id |-> id[n], name |-> n, version |-> body[n]],
                 k = [id |-> id[m], name |-> m, version |-> body[m]]
          PROVE  e = k
      BY <1>2, <2>2
    <2>3. ASSUME NEW x \in nodes, x.id < nextNode, NEW n \in there PROVE x.id # id[n]
      <3>1. x.id \in Nat
        BY <1>5 DEF IndexEntry
      <3> QED
        BY <1>5, <1>6, <2>3, <3>1
    <2> QED
      BY <1>7, <2>1, <2>2, <2>3
  <1>12. \A e \in nodes' : e.id < nextNode' /\ 0 < e.version /\ e.version <= lastVersion
    <2> SUFFICES ASSUME NEW e \in nodes'
                 PROVE  e.id < nextNode' /\ 0 < e.version /\ e.version <= lastVersion
      OBVIOUS
    <2>1. CASE e \in nodes /\ e.id < nextNode
      <3>1. e.id \in Nat
        BY <1>5, <2>1 DEF IndexEntry
      <3> QED
        BY <1>5, <2>1, <3>1 DEF IndexInv
    <2>2. ASSUME NEW n \in there, e = [id |-> id[n], name |-> n, version |-> body[n]]
          PROVE  e.id < nextNode' /\ 0 < e.version /\ e.version <= lastVersion
      <3>1. e.id = id[n] /\ e.version = body[n] /\ body[n] \in Nat /\ body[n] # 0 /\ n \in Embedded
        BY <1>4, <1>5, <2>2 DEF TextVersions
      <3> QED
        BY <1>5, <1>6, <3>1
    <2> QED
      BY <1>7, <2>1, <2>2
  <1>13. ASSUME PointsAreOld PROVE PointsAreOld'
    <2>1. \A p \in points : p.id \in Nat /\ p.id < nextNode
      BY <1>5, <1>13 DEF PointsAreOld, IndexEntry
    <2>2. \A p \in points, e \in nodes' : p.id = e.id => p.name = e.name
      <3> SUFFICES ASSUME NEW p \in points, NEW e \in nodes', p.id = e.id PROVE p.name = e.name
        OBVIOUS
      <3>1. CASE e \in nodes
        BY <1>13, <3>1 DEF PointsAreOld, HitsAreOwn
      <3>2. ASSUME NEW n \in there, e = [id |-> id[n], name |-> n, version |-> body[n]] PROVE FALSE
        <4>1. e.id = id[n]
          BY <3>2
        <4> QED
          BY <1>5, <1>6, <2>1, <4>1
      <3> QED
        BY <1>7, <3>1, <3>2
    <2>3. \A p \in points : p.id < nextNode'
      BY <1>5, <2>1
    <2> QED
      BY <1>3, <2>2, <2>3 DEF PointsAreOld, HitsAreOwn
  <1>14. IndexInv'
    BY <1>3, <1>5, <1>9, <1>11, <1>12, <1>13 DEF IndexInv
  <1> QED
    BY <1>10, <1>14

LEMMA RowsKeep ==
  ASSUME IndexTyped, IndexInv, AskForRows \/ EndPass
  PROVE  IndexTyped' /\ IndexInv'
  <1>1. /\ pass \in Pass /\ nodes \subseteq IndexEntry
        /\ UNCHANGED <<body, hashed, nodes, nextNode, points, unembedded, warned, lastVersion, resets,
                       indexFaults>>
    BY DEF IndexTyped, IndexTypeOK, AskForRows, EndPass
  <1>2. PointsAreOld' <=> PointsAreOld
    BY <1>1 DEF PointsAreOld, HitsAreOwn
  <1>3. CASE AskForRows
    <2>1. /\ pass' \in Pass /\ pass'.pc = "embedding" /\ pass'.rows = nodes /\ pass'.pending = {}
          /\ pass.pc = "parsed"
      BY <1>1, <1>3 DEF AskForRows, Pass, IndexInv
    <2> QED
      BY <1>1, <1>2, <2>1 DEF IndexTyped, IndexTypeOK, IndexInv, Covered, Pass
  <1>4. CASE EndPass
    <2>1. /\ pass' \in Pass /\ pass'.pc = "idle" /\ pass'.rows = {} /\ pass'.pending = {}
          /\ pass.pc = "embedding" /\ pass.rows = {} /\ pass.pending = {}
      BY <1>1, <1>4 DEF EndPass, PassOver, Pass
    <2> QED
      BY <1>1, <1>2, <2>1 DEF IndexTyped, IndexTypeOK, IndexInv, Covered, Pass
  <1> QED
    BY <1>3, <1>4

LEMMA TakeKeeps ==
  ASSUME IndexTyped, IndexInv, NEW e \in pass.rows, TakeRow(e)
  PROVE  IndexTyped' /\ IndexInv'
  <1>1. /\ pass \in Pass /\ nodes \subseteq IndexEntry /\ pass.pc = "embedding"
        /\ e \in nodes /\ e \in IndexEntry /\ body \in [Embedded -> TextVersions]
        /\ UNCHANGED <<body, hashed, nodes, nextNode, points, unembedded, warned, lastVersion, resets,
                       indexFaults>>
    BY DEF IndexTyped, IndexTypeOK, TakeRow, IndexInv
  <1>2. PointsAreOld' <=> PointsAreOld
    BY <1>1 DEF PointsAreOld, HitsAreOwn
  <1>3. CASE body[e.name] # e.version /\ pass' = [pass EXCEPT !.rows = @ \ {e}]
    <2>1. /\ pass' \in Pass /\ pass'.pc = "embedding" /\ pass'.rows = pass.rows \ {e}
          /\ pass'.pending = pass.pending
      BY <1>1, <1>3 DEF Pass
    <2>3. \A k \in nodes : Covered(k) => Covered(k)'
      BY <1>1, <1>3, <2>1 DEF Covered
    <2>4. \A x, k : SnippetOf(x, k)' <=> SnippetOf(x, k)
      BY <1>1 DEF SnippetOf
    <2> QED
      BY <1>1, <1>2, <2>1, <2>3, <2>4 DEF IndexTyped, IndexTypeOK, IndexInv, Pass
  <1>4. ASSUME NEW v \in Texts(e),
               pass' = [pass EXCEPT !.rows = @ \ {e}, !.pending = @ \cup {[e EXCEPT !.version = v]}]
        PROVE  IndexTyped' /\ IndexInv'
    <2> DEFINE x == [e EXCEPT !.version = v]
    <2>1. v \in {body[e.name], e.version}
      BY DEF Texts
    <2>2. x \in IndexEntry /\ x.id = e.id /\ x.name = e.name /\ (v = e.version => x = e)
      BY <1>1, <2>1 DEF IndexEntry
    <2>3. SnippetOf(x, e)
      BY <1>1, <2>1, <2>2 DEF SnippetOf
    <2> HIDE DEF x
    <2>4. /\ pass' \in Pass /\ pass'.pc = "embedding" /\ pass'.rows = pass.rows \ {e}
          /\ pass'.pending = pass.pending \cup {x}
      BY <1>1, <1>4, <2>2 DEF Pass, x
    <2>5. \A k \in nodes : Covered(k) => Covered(k)'
      BY <1>1, <2>3, <2>4 DEF Covered, SnippetOf
    <2>6. \A y, k : SnippetOf(y, k)' <=> SnippetOf(y, k)
      BY <1>1 DEF SnippetOf
    <2>7. \A y \in pass'.pending : \E k \in nodes : SnippetOf(y, k)
      BY <1>1, <2>3, <2>4 DEF IndexInv
    <2>8. IndexInv'
      BY <1>1, <1>2, <2>4, <2>5, <2>6, <2>7 DEF IndexInv
    <2> QED
      BY <1>1, <2>4, <2>8 DEF IndexTyped, IndexTypeOK, Pass
  <1> QED
    BY <1>3, <1>4 DEF TakeRow

LEMMA StoreKeeps ==
  ASSUME IndexTyped, IndexInv, StoreBatch
  PROVE  IndexTyped' /\ IndexInv'
  <1>1. /\ pass \in Pass /\ nodes \subseteq IndexEntry /\ pass.pc = "embedding"
        /\ points \subseteq IndexEntry /\ pass.pending \subseteq IndexEntry
        /\ points' = {p \in points : p.id \notin IdsOf(pass.pending)} \cup pass.pending
        /\ unembedded' = unembedded \ IdsOf(pass.pending)
        /\ UNCHANGED <<body, hashed, nodes, nextNode, warned, lastVersion, resets, indexFaults>>
    BY DEF IndexTyped, IndexTypeOK, StoreBatch, Due, Pass
  <1>2. /\ pass' \in Pass /\ pass'.pc = "embedding" /\ pass'.rows = pass.rows /\ pass'.pending = {}
    BY <1>1 DEF StoreBatch, Pass
  <1>3. \A x \in pass.pending : \E e \in nodes : SnippetOf(x, e)
    BY <1>1 DEF IndexInv
  <1>4. ASSUME NEW e \in nodes, e.id \in IdsOf(pass.pending) PROVE Covered(e)'
    <2>1. PICK x \in pass.pending : x.id = e.id
      BY <1>4 DEF IdsOf
    <2>2. SnippetOf(x, e)
      <3>1. PICK k \in nodes : SnippetOf(x, k)
        BY <1>3
      <3>2. k = e
        BY <2>1, <3>1 DEF SnippetOf, IndexInv
      <3> QED
        BY <3>1, <3>2
    <2> QED
      BY <1>1, <2>2 DEF Covered, SnippetOf
  <1>5. ASSUME NEW e \in nodes, e.id \notin IdsOf(pass.pending) PROVE Covered(e)'
    <2>1. Covered(e) /\ e \notin pass.pending
      BY <1>1, <1>5 DEF IndexInv, IdsOf
    <2> QED
      BY <1>1, <1>2, <1>5, <2>1 DEF Covered
  <1>6. PointsAreOld => PointsAreOld'
    <2>1. ASSUME NEW x \in pass.pending
          PROVE  x.id < nextNode /\ \A e \in nodes : x.id = e.id => x.name = e.name
      BY <1>3 DEF SnippetOf, IndexInv
    <2> QED
      BY <1>1, <2>1 DEF PointsAreOld, HitsAreOwn
  <1>7. IndexInv'
    BY <1>1, <1>2, <1>4, <1>5, <1>6 DEF IndexInv
  <1>8. IndexTyped'
    BY <1>1, <1>2 DEF IndexTyped, IndexTypeOK, Pass
  <1> QED
    BY <1>7, <1>8

LEMMA UnreadableKeeps ==
  ASSUME IndexTyped, IndexInv, NEW e \in pass.rows, TakeUnreadable(e)
  PROVE  IndexTyped' /\ IndexInv'
  <1>1. /\ pass \in Pass /\ pass.pc = "embedding" /\ e \in IndexEntry
        /\ UNCHANGED <<body, hashed, nodes, nextNode, points, warned, lastVersion, resets>>
        /\ indexFaults' \in 0..MaxIndexFaults
    BY IndexAssumption DEF IndexTyped, IndexTypeOK, TakeUnreadable, IndexFault
  <1>2. /\ pass' \in Pass /\ pass'.pc = "embedding" /\ pass'.rows = pass.rows \ {e}
        /\ pass'.pending = pass.pending
    BY <1>1 DEF TakeUnreadable, Pass
  <1>3. /\ unembedded' \subseteq Nat /\ unembedded \subseteq unembedded'
        /\ e \in points \/ e.id \in unembedded'
    BY <1>1 DEF TakeUnreadable, IdsOf, Bare, IndexEntry, IndexTyped, IndexTypeOK
  <1>4. \A k \in nodes : Covered(k) => Covered(k)'
    BY <1>1, <1>2, <1>3 DEF Covered
  <1>5. PointsAreOld' <=> PointsAreOld
    BY <1>1 DEF PointsAreOld, HitsAreOwn
  <1>6. \A x, k : SnippetOf(x, k)' <=> SnippetOf(x, k)
    BY <1>1 DEF SnippetOf
  <1>7. IndexInv'
    BY <1>1, <1>2, <1>4, <1>5, <1>6 DEF IndexInv
  <1> QED
    BY <1>1, <1>2, <1>3, <1>7 DEF IndexTyped, IndexTypeOK, Pass

LEMMA FailuresKeep ==
  ASSUME IndexTyped, IndexInv, StoreBatchFails \/ Abandon \/ SkipPass \/ DeleteFails
  PROVE  IndexTyped' /\ IndexInv'
  <1>1. /\ pass \in Pass /\ nodes \subseteq IndexEntry
        /\ UNCHANGED <<body, hashed, nodes, nextNode, points, warned, lastVersion, resets>>
        /\ indexFaults' \in 0..MaxIndexFaults
    BY IndexAssumption
       DEF IndexTyped, IndexTypeOK, StoreBatchFails, Abandon, SkipPass, DeleteFails, IndexFault
  <1>2. PointsAreOld' <=> PointsAreOld
    BY <1>1 DEF PointsAreOld, HitsAreOwn
  <1>3. unembedded' \subseteq Nat /\ unembedded \subseteq unembedded'
    BY <1>1 DEF IndexTyped, IndexTypeOK, StoreBatchFails, Abandon, SkipPass, DeleteFails,
       IdsOf, Bare, IndexEntry
  <1>4. CASE StoreBatchFails
    <2>1. /\ pass' \in Pass /\ pass'.pc = "embedding" /\ pass'.rows = pass.rows /\ pass'.pending = {}
          /\ pass.pc = "embedding"
      BY <1>1, <1>4 DEF StoreBatchFails, Due, Pass
    <2>2. ASSUME NEW e \in nodes PROVE Covered(e)'
      <3>1. Covered(e)
        BY <2>1 DEF IndexInv
      <3>2. CASE e \in pass.pending /\ e \notin points
        BY <1>4, <3>2 DEF StoreBatchFails, Covered, Bare, IdsOf
      <3> QED
        BY <1>1, <1>3, <2>1, <3>1, <3>2 DEF Covered
    <2>3. IndexInv'
      BY <1>1, <1>2, <2>1, <2>2 DEF IndexInv
    <2> QED
      BY <1>1, <1>3, <2>1, <2>3 DEF IndexTyped, IndexTypeOK, Pass
  <1>5. CASE Abandon \/ SkipPass \/ DeleteFails
    <2>1. /\ pass' \in Pass /\ pass'.pc = "idle" /\ pass'.rows = {} /\ pass'.pending = {}
          /\ pass.pc # "wiped"
      BY <1>1, <1>5 DEF Abandon, SkipPass, DeleteFails, PassOver, Pass
    <2>2. ASSUME NEW e \in nodes PROVE Covered(e)'
      BY <1>1, <1>5 DEF Abandon, SkipPass, DeleteFails, Covered, Bare, IdsOf
    <2>3. IndexInv'
      BY <1>1, <1>2, <2>1, <2>2 DEF IndexInv
    <2> QED
      BY <1>1, <1>3, <2>1, <2>3 DEF IndexTyped, IndexTypeOK, Pass
  <1> QED
    BY <1>4, <1>5

LEMMA ResetsKeep ==
  ASSUME IndexTyped, IndexInv,
         CleanGraph \/ ClearPoints \/ ClearingFails \/ DeletePoints \/ DeleteNodes
  PROVE  IndexTyped' /\ IndexInv'
  <1>1. /\ pass \in Pass /\ pass.rows = {} /\ pass.pending = {}
        /\ body \in [Embedded -> TextVersions] /\ UNCHANGED <<body, hashed, lastVersion>>
        /\ resets' \in 0..MaxResets /\ indexFaults' \in 0..MaxIndexFaults
    BY IndexAssumption DEF IndexTyped, IndexTypeOK, IndexInv, CleanGraph, ClearPoints, ClearingFails,
       DeletePoints, DeleteNodes, BeginReset, IndexFault
  <1>2. /\ pass' \in Pass /\ pass'.rows = {} /\ pass'.pending = {}
        /\ CleanGraph => pass'.pc = "wiped"
        /\ ClearPoints \/ ClearingFails => pass'.pc = "idle" /\ pass.pc = "wiped"
        /\ DeletePoints => pass'.pc = "deleting" /\ pass.pc = "idle"
        /\ DeleteNodes => pass'.pc = "idle" /\ pass.pc = "deleting"
    BY <1>1 DEF Pass, CleanGraph, ClearPoints, ClearingFails, DeletePoints, DeleteNodes, BeginReset,
       PassOver
  <1>3. /\ (nodes' = nodes /\ nextNode' = nextNode) \/ (nodes' = {} /\ nextNode' \in {0, nextNode})
        /\ points' \subseteq points /\ unembedded' \subseteq unembedded
    BY DEF CleanGraph, ClearPoints, ClearingFails, DeletePoints, DeleteNodes
  <1>4. IndexTyped'
    <2>1. warned' \in BOOLEAN
      BY DEF IndexTyped, IndexTypeOK, CleanGraph, ClearPoints, ClearingFails, DeletePoints, DeleteNodes
    <2>2. /\ nodes' \subseteq IndexEntry /\ points' \subseteq IndexEntry /\ nextNode' \in Nat
          /\ unembedded' \subseteq Nat /\ lastVersion' \in TextVersions
          /\ body' \in [Embedded -> TextVersions] /\ hashed' \in [Embedded -> TextVersions]
      BY <1>1, <1>3 DEF IndexTyped, IndexTypeOK
    <2>3. /\ pass'.pc \in {"idle", "parsed", "embedding", "wiped", "deleting"} /\ pass'.first \in Nat
          /\ pass'.rows \subseteq IndexEntry /\ pass'.pending \subseteq IndexEntry
      BY <1>2 DEF Pass
    <2> QED
      BY <1>1, <1>2, <2>1, <2>2, <2>3 DEF IndexTyped, IndexTypeOK
  <1>5. CASE CleanGraph
    <2>1. nodes' = {} /\ pass'.pc = "wiped"
      BY <1>2, <1>5 DEF CleanGraph
    <2> QED
      BY <1>1, <1>2, <1>4, <2>1 DEF IndexInv
  <1>6. CASE ClearPoints
    <2>1. nodes' = {} /\ pass'.pc = "idle" /\ points' = {}
      BY <1>2, <1>6 DEF ClearPoints, IndexInv
    <2> QED
      BY <1>1, <1>2, <1>4, <2>1 DEF IndexInv, PointsAreOld, HitsAreOwn
  <1>7. CASE ClearingFails
    <2>1. nodes' = {} /\ pass'.pc = "idle" /\ warned'
      BY <1>2, <1>7 DEF ClearingFails, IndexInv
    <2> QED
      BY <1>1, <1>2, <1>4, <2>1 DEF IndexInv
  <1>8. CASE DeletePoints
    <2>1. UNCHANGED <<nodes, nextNode, warned>> /\ pass'.pc = "deleting" /\ pass.pc = "idle"
      BY <1>2, <1>8 DEF DeletePoints
    <2>2. PointsAreOld => PointsAreOld'
      BY <1>3, <2>1 DEF PointsAreOld, HitsAreOwn
    <2> QED
      BY <1>1, <1>2, <1>4, <2>1, <2>2 DEF IndexInv
  <1>9. CASE DeleteNodes
    <2>1. /\ nodes' = {} /\ UNCHANGED <<nextNode, points, warned>> /\ pass'.pc = "idle"
          /\ pass.pc = "deleting"
      BY <1>2, <1>9 DEF DeleteNodes
    <2>2. PointsAreOld => PointsAreOld'
      BY <2>1 DEF PointsAreOld, HitsAreOwn
    <2> QED
      BY <1>1, <1>2, <1>4, <2>1, <2>2 DEF IndexInv
  <1> QED
    BY <1>5, <1>6, <1>7, <1>8, <1>9

LEMMA NextIndex ==
  ASSUME IndexTyped, IndexInv, [IndexNext]_indexVars
  PROVE  IndexTyped' /\ IndexInv'
  <1>1. CASE UNCHANGED indexVars
    BY <1>1 DEF indexVars, IndexTyped, IndexTypeOK, IndexInv, PointsAreOld, HitsAreOwn, Covered,
                SnippetOf, IndexEntry, Pass
  <1> QED
    BY <1>1, TextsKeep, ParseKeeps, RowsKeep, TakeKeeps, UnreadableKeeps, StoreKeeps, FailuresKeep,
       ResetsKeep DEF IndexNext

\* What semantic search finds is what the graph says, and all of it, unless the command or the
\* log said otherwise and nothing was embedded since (graph_updater.py:2743-2873,
\* vector_store.py:344-358).
THEOREM SearchIsHonest == IndexSpec => []IndexIsHonest
  <1>1. IndexTyped /\ IndexInv => IndexIsHonest
    BY DEF IndexInv, IndexIsHonest, EveryTextIsEmbedded, Covered, PointsAreOld, HitsAreOwn
  <1> QED
    BY <1>1, InitIndex, NextIndex, PTL DEF IndexSpec

(***************************************************************************)
(* DeadCode: what is live has a reason, and what is reached is alive       *)
(***************************************************************************)

DeadTyped == program \in Programs /\ DeadTypeOK

\* Every reachable state of the report has its types (dead_code.py dead_code_from_graph).
THEOREM DeadTypes == DeadSpec => []DeadTyped
<1>1. DeadInit => DeadTyped
  BY ProgramsAssumption DEF DeadInit, DeadTyped, DeadTypeOK, IsProgram, Symbols
<1>2. ASSUME DeadTyped, [DeadNext]_deadVars PROVE DeadTyped'
  <2> USE DEF DeadTyped, DeadTypeOK, configVars
  <2>p. IsProgram(program)
    BY <1>2, ProgramsAssumption
  <2>1. ASSUME NEW c \in Symbols, WalkComponents(c) PROVE DeadTyped'
    BY <1>2, <2>1 DEF WalkComponents, Symbols
  <2>2. ASSUME NEW s \in Symbols, Walk(s) PROVE DeadTyped'
    BY <1>2, <2>2 DEF Walk, Adds
  <2>3. ASSUME NEW s \in Symbols, Override(s) PROVE DeadTyped'
    BY <1>2, <2>3 DEF Override, Symbols
  <2>4. CASE CollectRoots
    BY <1>2, <2>4 DEF CollectRoots, Candidates
  <2>5. CASE RegisterClosures
    BY <1>2, <2>5 DEF RegisterClosures, Closures, Candidates
  <2>6. CASE Factories
    BY <1>2, <2>6 DEF Factories, Revived, Symbols
  <2>7. CASE LookForOverriders
    BY <1>2, <2>7 DEF LookForOverriders
  <2>8. CASE Dispatch
    BY <1>2, <2>8 DEF Dispatch, Symbols
  <2>9. CASE Report
    BY <1>2, <2>9 DEF Report, Candidates
  <2>10. CASE UNCHANGED deadVars
    BY <1>2, <2>10 DEF deadVars
  <2> QED
    BY <1>2, <2>1, <2>2, <2>3, <2>4, <2>5, <2>6, <2>7, <2>8, <2>9, <2>10 DEF DeadNext
<1> QED
  BY <1>1, <1>2, PTL DEF DeadSpec

-----------------------------------------------------------------------------
(* What is live has a reason *)

LEMMA ProgramTyped == DeadTyped => IsProgram(program)
  BY ProgramsAssumption DEF DeadTyped, DeadTypeOK

\* A set of classes that every inheritance leads into.
Downward(R) == \A e \in program.inherits : e[2] \in R => e[1] \in R

Reason ==
  /\ \A R \in SUBSET Classes : program.components \subseteq R /\ Downward(R) => react \subseteq R
  /\ stage = "components" => stack \subseteq react
  /\ \A S \in SUBSET Symbols :
       Closed(S) =>
         /\ live \subseteq S /\ added \subseteq S /\ frontier \subseteq S /\ overriders \subseteq S
         /\ stage # "components" => stack \subseteq S

\* What the rules ask for depends on the program and the configuration only.
LEMMA ClosedStays ==
  ASSUME UNCHANGED configVars, NEW S PROVE Closed(S)' <=> Closed(S)
<1>1. program' = program /\ withTests' = withTests /\ withClasses' = withClasses
  BY DEF configVars
<1>2. Candidates' = Candidates /\ Traversed' = Traversed
  BY <1>1 DEF Candidates, Traversed
<1>3. \A s, R : IsRoot(s, R)' <=> IsRoot(s, R)
  BY <1>1 DEF IsRoot
<1>4. RootsAreIn(S)' <=> RootsAreIn(S)
  BY <1>1, <1>2, <1>3 DEF RootsAreIn
<1>5. /\ ClosuresAreIn(S, S)' <=> ClosuresAreIn(S, S)
      /\ FactoriesAreIn(S, S)' <=> FactoriesAreIn(S, S)
      /\ OverridersAreIn(S, S)' <=> OverridersAreIn(S, S)
  BY <1>1, <1>2 DEF ClosuresAreIn, FactoriesAreIn, OverridersAreIn
<1> QED
  BY <1>2, <1>4, <1>5 DEF Closed

\* A root for some components is one for more of them.
LEMMA MoreComponents ==
  ASSUME NEW s, NEW Q, NEW R, Q \subseteq R, IsRoot(s, Q) PROVE IsRoot(s, R)
  BY DEF IsRoot

\* What is live is in every set the rules are closed on (dead_code.py dead_code_from_graph).
THEOREM LiveJustified == DeadSpec => []LiveHasReason
<1>1. DeadInit => Reason
  BY DEF DeadInit, Reason
<1>2. ASSUME DeadTyped, Reason, [DeadNext]_deadVars PROVE Reason'
  <2>p. IsProgram(program)
    BY <1>2, ProgramTyped
  <2>c. UNCHANGED configVars
    BY <1>2 DEF DeadNext, deadVars, configVars, WalkComponents, Walk, Override, CollectRoots,
                RegisterClosures, Factories, LookForOverriders, Dispatch, Report
  <2> DEFINE Below ==
        /\ \A R \in SUBSET Classes : program.components \subseteq R /\ Downward(R) => react' \subseteq R
        /\ stage' = "components" => stack' \subseteq react'
  <2>r. Below
    <3> USE <1>2 DEF Reason
    <3>1. ASSUME NEW c \in Symbols, WalkComponents(c) PROVE Below
      <4>1. c \in react
        BY <3>1 DEF WalkComponents
      <4>2. ASSUME NEW R \in SUBSET Classes, program.components \subseteq R, Downward(R)
            PROVE react' \subseteq R
        <5>1. react \subseteq R
          BY <4>2
        <5>2. \A d : <<d, c>> \in program.inherits => d \in R
          BY <4>1, <4>2, <5>1 DEF Downward
        <5> QED
          BY <3>1, <5>1, <5>2 DEF WalkComponents
      <4>3. stack' \subseteq react'
        BY <3>1 DEF WalkComponents
      <4> QED
        BY <4>2, <4>3
    <3>2. CASE /\ UNCHANGED react
               /\ stage' = "components" => UNCHANGED <<stage, stack>>
      BY <3>2
    <3> QED
      BY <3>1, <3>2 DEF DeadNext, deadVars, Walks, Walk, Override, CollectRoots, RegisterClosures,
         Factories, LookForOverriders, Dispatch, Report
  <2> DEFINE Inside(S) ==
        /\ live' \subseteq S /\ added' \subseteq S /\ frontier' \subseteq S /\ overriders' \subseteq S
        /\ stage' # "components" => stack' \subseteq S
  <2>s. ASSUME NEW S \in SUBSET Symbols, Closed(S) PROVE Inside(S)
    <3>0. /\ live \subseteq S /\ added \subseteq S /\ frontier \subseteq S /\ overriders \subseteq S
          /\ stage # "components" => stack \subseteq S
      BY <1>2, <2>s DEF Reason
    <3>t. /\ RootsAreIn(S)
          /\ \A e \in Traversed : e[1] \in S => e[2] \in S
          /\ ClosuresAreIn(S, S) /\ FactoriesAreIn(S, S) /\ OverridersAreIn(S, S)
      BY <2>s DEF Closed
    <3>1. ASSUME NEW c \in Symbols, WalkComponents(c) PROVE Inside(S)
      BY <3>0, <3>1 DEF WalkComponents
    <3>2. ASSUME NEW s \in Symbols, Walk(s) PROVE Inside(S)
      <4>1. s \in S /\ \A t : <<s, t>> \in Traversed => t \in S
        BY <3>0, <3>2, <3>t DEF Walk, Walks
      <4> QED
        BY <3>0, <3>2, <4>1 DEF Walk, Adds
    <3>3. ASSUME NEW s \in Symbols, Override(s) PROVE Inside(S)
      <4>1. s \in S /\ \A o : <<o, s>> \in program.overrides => o \in S
        BY <3>0, <3>3, <3>t DEF Override, OverridersAreIn
      <4> QED
        BY <3>0, <3>3, <4>1 DEF Override
    <3>4. CASE CollectRoots
      <4>1. ASSUME NEW s \in Candidates, IsRoot(s, react) PROVE s \in S
        <5>1. ASSUME NEW R \in SUBSET Classes, program.components \subseteq R,
                     \A e \in program.inherits : e[2] \in R => e[1] \in R
              PROVE IsRoot(s, R)
          <6>1. react \subseteq R
            BY <1>2, <5>1 DEF Reason, Downward
          <6> QED
            BY <4>1, <6>1, MoreComponents
        <5> QED
          BY <5>1, <3>t DEF RootsAreIn
      <4> QED
        BY <3>0, <3>4, <4>1 DEF CollectRoots
    <3>5. CASE RegisterClosures
      <4>1. Closures \subseteq S
        BY <3>0, <3>t DEF Closures, ClosuresAreIn
      <4> QED
        BY <3>0, <3>5, <4>1 DEF RegisterClosures
    <3>6. CASE Factories
      <4>1. Revived \subseteq S
        BY <3>0 DEF Revived
      <4>2. \A c \in Classes : (\E o \in Revived : <<o, c>> \in program.defines) =>
              c \in S /\ \A m \in Methods : <<c, m>> \in program.members => m \in S
        BY <3>t, <4>1 DEF FactoriesAreIn
      <4> QED
        BY <3>0, <3>6, <4>1, <4>2 DEF Factories
    <3>7. CASE LookForOverriders
      BY <3>0, <3>7 DEF LookForOverriders
    <3>8. CASE Dispatch
      BY <3>0, <3>8 DEF Dispatch
    <3>9. CASE Report
      BY <3>0, <3>9 DEF Report, RoundOver
    <3>10. CASE UNCHANGED deadVars
      BY <3>0, <3>10 DEF deadVars
    <3> QED
      BY <1>2, <3>1, <3>2, <3>3, <3>4, <3>5, <3>6, <3>7, <3>8, <3>9, <3>10 DEF DeadNext
  <2>1. program' = program
    BY <2>c DEF configVars
  <2>2. \A S : Closed(S)' <=> Closed(S)
    BY <2>c, ClosedStays
  <2> QED
    BY <2>r, <2>s, <2>1, <2>2 DEF Reason, Downward
<1>3. Reason => LiveHasReason
  BY DEF Reason, LiveHasReason
<1> QED
  BY <1>1, <1>2, <1>3, DeadTypes, PTL DEF DeadSpec

-----------------------------------------------------------------------------
(* What is reached is alive *)

ReactClosed ==
  /\ react \subseteq Classes /\ program.components \subseteq react
  /\ stage = "components" =>
       \A e \in program.inherits : e[2] \in react \ stack => e[1] \in react

\* What is still on the stack may have edges that lead out of what is live.
EdgesFollowed ==
  stage # "components" =>
    \A e \in Traversed :
      e[1] \in live /\ (stage \in Walks => e[1] \notin stack) => e[2] \in live \/ Escaped(e[1])

ClosuresFollowed == stage \notin {"components", "calls"} => ClosuresAreIn(live, early)

\* What was revived in this round was not yet looked at for classes.
FactoriesFollowed ==
  /\ stage \in {"factories", "overrides", "dispatch"} => FactoriesAreIn(live, live \ added)
  /\ stage = "done" => FactoriesAreIn(live, live)

OverridersFollowed ==
  /\ stage \in {"factories", "overrides"} => OverridersAreIn(live, live \ (frontier \cup added))
  /\ stage = "overrides" =>
       OverridersAreIn(live \cup overriders, (frontier \cup added \cup overriders) \ stack)
  /\ stage = "dispatch" => OverridersAreIn(live, live \ added)
  /\ stage = "done" => OverridersAreIn(live, live)

Alive ==
  /\ added \subseteq live /\ ReactClosed
  /\ IF stage = "components" THEN live = {} ELSE RootsAreIn(live)
  /\ EdgesFollowed /\ ClosuresFollowed /\ FactoriesFollowed /\ OverridersFollowed
  /\ stage = "done" => dead \cap live = {}

\* The configuration stays and what is live stays live.
LEMMA OnlyGrows ==
  ASSUME DeadTyped, [DeadNext]_deadVars, stage = "components" => live = {}
  PROVE /\ program' = program /\ withTests' = withTests /\ withClasses' = withClasses
        /\ live \subseteq live'
        /\ Candidates' = Candidates /\ Traversed' = Traversed
<1>1. UNCHANGED configVars /\ live \subseteq live'
  <2>1. ASSUME NEW s \in Symbols, WalkComponents(s) \/ Walk(s) \/ Override(s)
        PROVE UNCHANGED configVars /\ live \subseteq live'
    BY <2>1 DEF WalkComponents, Walk, Override
  <2>2. CASE CollectRoots \/ RegisterClosures \/ LookForOverriders \/ Dispatch \/ Report
    BY <2>2 DEF CollectRoots, RegisterClosures, LookForOverriders, Dispatch, Report
  <2>3. CASE Factories
    BY <2>3 DEF Factories
  <2>4. CASE UNCHANGED deadVars
    BY <2>4 DEF deadVars, configVars
  <2> QED
    BY <2>1, <2>2, <2>3, <2>4 DEF DeadNext
<1>2. program' = program /\ withTests' = withTests /\ withClasses' = withClasses
  BY <1>1 DEF configVars
<1> QED
  BY <1>1, <1>2 DEF Candidates, Traversed

LEMMA EscapeStays ==
  ASSUME DeadTyped, [DeadNext]_deadVars, stage = "components" => live = {}, NEW c, Escaped(c) PROVE Escaped(c)'
  BY OnlyGrows DEF Escaped

\* The closures of the rules stay closed when more is live.
LEMMA MoreIsLive ==
  ASSUME DeadTyped, [DeadNext]_deadVars, stage = "components" => live = {}
  PROVE /\ RootsAreIn(live) => RootsAreIn(live)'
        /\ \A S : /\ ClosuresAreIn(live, S) => \A e \in program.defines :
                        e[1] \in S /\ e[2] \in Candidates \cap program.decorated => e[2] \in live'
                  /\ OverridersAreIn(live, S) =>
                        \A e \in program.overrides : e[2] \in S => e[1] \in live'
<1>1. \A s, R : IsRoot(s, R)' <=> IsRoot(s, R)
  BY OnlyGrows DEF IsRoot
<1>2. RootsAreIn(live) => RootsAreIn(live)'
  BY OnlyGrows, <1>1 DEF RootsAreIn
<1> QED
  BY <1>2, OnlyGrows DEF ClosuresAreIn, OverridersAreIn

\* Nothing that is reached is reported, whatever the order of the walks (dead_code.py
\* dead_code_from_graph).
THEOREM ReachedAlive == DeadSpec => []ReachedIsAlive
<1>1. DeadInit => Alive
  BY ProgramsAssumption DEF DeadInit, Alive, ReactClosed, EdgesFollowed, ClosuresFollowed,
     FactoriesFollowed, OverridersFollowed, IsProgram
<1>2. ASSUME DeadTyped, Alive, [DeadNext]_deadVars PROVE Alive'
  <2>p. IsProgram(program)
    BY <1>2, ProgramTyped
  <2>l. stage = "components" => live = {}
    BY <1>2 DEF Alive
  <2>g. /\ program' = program /\ withTests' = withTests /\ withClasses' = withClasses
        /\ live \subseteq live' /\ Candidates' = Candidates /\ Traversed' = Traversed
    BY <1>2, <2>l, OnlyGrows
  <2>e. \A c : Escaped(c) => Escaped(c)'
    BY <1>2, <2>l, EscapeStays
  <2>m. /\ RootsAreIn(live) => RootsAreIn(live)'
        /\ \A S : /\ ClosuresAreIn(live, S) => \A e \in program.defines :
                        e[1] \in S /\ e[2] \in Candidates \cap program.decorated => e[2] \in live'
                  /\ OverridersAreIn(live, S) =>
                        \A e \in program.overrides : e[2] \in S => e[1] \in live'
    BY <1>2, <2>l, MoreIsLive
  <2>1. ASSUME NEW c \in Symbols, WalkComponents(c) PROVE Alive'
    <3>1. ReactClosed'
      BY <1>2, <2>p, <2>g, <2>1 DEF WalkComponents, Alive, ReactClosed, IsProgram
    <3> QED
      BY <1>2, <2>1, <3>1 DEF WalkComponents, Alive, EdgesFollowed, ClosuresFollowed,
         FactoriesFollowed, OverridersFollowed
  <2>2. CASE CollectRoots
    <3>1. RootsAreIn(live)'
      <4>1. ASSUME NEW s \in Candidates,
                   \A R \in SUBSET Classes :
                     /\ program.components \subseteq R
                     /\ \A e \in program.inherits : e[2] \in R => e[1] \in R
                     => IsRoot(s, R)
            PROVE IsRoot(s, react)
        BY <1>2, <2>2, <4>1 DEF Alive, ReactClosed, CollectRoots
      <4>2. \A s \in Candidates : IsRoot(s, react) => s \in live'
        BY <2>2 DEF CollectRoots
      <4>3. \A s, R : IsRoot(s, R)' <=> IsRoot(s, R)
        BY <2>g DEF IsRoot
      <4> QED
        BY <4>1, <4>2, <4>3, <2>g DEF RootsAreIn
    <3>2. added' = added /\ react' = react /\ stage' = "calls" /\ live' = stack'
      BY <2>2 DEF CollectRoots
    <3>3. ReactClosed' /\ added' = {}
      BY <1>2, <2>g, <2>l, <2>2, <3>2 DEF Alive, ReactClosed, CollectRoots
    <3>4. EdgesFollowed'
      BY <3>2 DEF EdgesFollowed, Walks
    <3> QED
      BY <3>1, <3>2, <3>3, <3>4 DEF Alive, ClosuresFollowed, FactoriesFollowed, OverridersFollowed
  <2>3. ASSUME NEW s \in Symbols, Walk(s) PROVE Alive'
    <3>0. /\ stage \in Walks /\ stage' = stage /\ react' = react /\ frontier' = frontier
          /\ early' = early /\ stack \ {s} \subseteq stack'
          /\ \A x : x \in live' => x \in live \/ x \in stack'
          /\ \A t \in Symbols : <<s, t>> \in Traversed => t \in live'
          /\ added \subseteq added' /\ added' \subseteq live'
          /\ stage \in {"factories", "dispatch"} => live' \ added' \subseteq live \ added
      BY <1>2, <2>3 DEF Walk, Adds, Alive
    <3>1. ReactClosed'
      BY <1>2, <2>g, <3>0 DEF Alive, ReactClosed, Walks
    <3>2. EdgesFollowed'
      <4> SUFFICES ASSUME NEW e \in Traversed, e[1] \in live', e[1] \notin stack', ~Escaped(e[1])'
                   PROVE e[2] \in live'
        BY <2>g, <3>0 DEF EdgesFollowed
      <4>1. CASE e[1] = s
        BY <2>p, <3>0, <4>1 DEF IsProgram, Traversed, Symbols
      <4>2. CASE e[1] # s
        <5>1. e[1] \in live /\ e[1] \notin stack /\ ~Escaped(e[1])
          BY <2>e, <3>0, <4>2
        <5> QED
          BY <1>2, <2>g, <3>0, <5>1 DEF Alive, EdgesFollowed, Walks
      <4> QED
        BY <4>1, <4>2
    <3>3. ClosuresFollowed'
      BY <1>2, <2>g, <2>m, <3>0 DEF Alive, ClosuresFollowed, ClosuresAreIn
    <3>4. FactoriesFollowed'
      BY <1>2, <2>g, <3>0 DEF Alive, FactoriesFollowed, FactoriesAreIn, Walks
    <3>5. OverridersFollowed'
      BY <1>2, <2>g, <3>0 DEF Alive, OverridersFollowed, OverridersAreIn, Walks
    <3> QED
      BY <1>2, <2>m, <3>0, <3>1, <3>2, <3>3, <3>4, <3>5 DEF Alive, Walks
  <2>4. CASE RegisterClosures
    <3>0. /\ stage = "calls" /\ stage' = "closures" /\ stack = {} /\ stack' = Closures
          /\ live' = live \cup Closures /\ early' = live /\ react' = react /\ added' = added
      BY <2>4 DEF RegisterClosures
    <3>1. ReactClosed'
      BY <1>2, <2>g, <3>0 DEF Alive, ReactClosed
    <3>2. EdgesFollowed'
      BY <1>2, <2>g, <2>e, <3>0 DEF Alive, EdgesFollowed, Walks
    <3>3. ClosuresFollowed'
      BY <2>g, <2>p, <3>0 DEF ClosuresFollowed, ClosuresAreIn, Closures, IsProgram
    <3> QED
      BY <1>2, <2>g, <2>m, <3>0, <3>1, <3>2, <3>3 DEF Alive, FactoriesFollowed, OverridersFollowed
  <2>5. CASE Factories
    <3> DEFINE made == {c \in Classes : \E o \in Revived : <<o, c>> \in program.defines}
               methods == {m \in Methods \ live : \E c \in made : <<c, m>> \in program.members}
    <3>0. /\ stage \in {"closures", "dispatch"} /\ stage' = "factories" /\ stack = {}
          /\ stack' = methods /\ live' = live \cup made \cup methods
          /\ added' = (made \cup methods) \ live /\ frontier' = Revived
          /\ react' = react /\ early' = early
      BY <2>5 DEF Factories, RoundOver
    <3>r. /\ Revived \subseteq live
          /\ stage = "closures" => Revived = live
          /\ stage = "dispatch" => Revived = added
      BY <1>2, <3>0 DEF Revived, Alive
    <3>a. live' \ added' = live
      BY <3>0
    <3>1. ReactClosed'
      BY <1>2, <2>g, <3>0 DEF Alive, ReactClosed
    <3>2. EdgesFollowed'
      <4>1. \A c \in made : Escaped(c)'
        <5> SUFFICES ASSUME NEW c \in made PROVE Escaped(c)
          BY <2>e
        <5> QED
          BY <3>r DEF Escaped
      <4> SUFFICES ASSUME NEW e \in Traversed, e[1] \in live', e[1] \notin stack', ~Escaped(e[1])'
                   PROVE e[2] \in live'
        BY <2>g, <3>0 DEF EdgesFollowed, Walks
      <4>2. e[1] \in live /\ ~Escaped(e[1])
        BY <2>e, <3>0, <4>1
      <4> QED
        BY <1>2, <2>g, <3>0, <4>2 DEF Alive, EdgesFollowed
    <3>3. ClosuresFollowed'
      BY <1>2, <2>g, <2>m, <3>0 DEF Alive, ClosuresFollowed, ClosuresAreIn
    <3>4. FactoriesFollowed'
      <4> SUFFICES ASSUME NEW e \in program.defines, e[1] \in live, e[2] \in Classes
                   PROVE /\ e[2] \in live'
                         /\ \A m \in Methods : <<e[2], m>> \in program.members => m \in live'
        BY <2>g, <3>0, <3>a DEF FactoriesFollowed, FactoriesAreIn
      <4>1. CASE e[1] \in Revived
        <5>1. <<e[1], e[2]>> \in program.defines
          BY <2>p DEF IsProgram
        <5>2. e[2] \in made
          BY <4>1, <5>1
        <5> QED
          BY <3>0, <5>2
      <4>2. CASE e[1] \notin Revived
        BY <1>2, <2>g, <3>0, <3>r, <4>2 DEF Alive, FactoriesFollowed, FactoriesAreIn
      <4> QED
        BY <4>1, <4>2
    <3>5. OverridersFollowed'
      <4>1. live' \ (frontier' \cup added') \subseteq live \ Revived
        BY <3>0
      <4> QED
        BY <1>2, <2>g, <2>m, <3>0, <3>r, <4>1 DEF Alive, OverridersFollowed, OverridersAreIn
    <3> QED
      BY <1>2, <2>m, <3>0, <3>1, <3>2, <3>3, <3>4, <3>5 DEF Alive
  <2>6. CASE LookForOverriders
    <3>0. /\ stage = "factories" /\ stage' = "overrides" /\ stack = {} /\ overriders' = {}
          /\ stack' = frontier \cup added
          /\ UNCHANGED <<react, live, added, frontier, early>>
      BY <2>6 DEF LookForOverriders
    <3>1. ReactClosed'
      BY <1>2, <2>g, <3>0 DEF Alive, ReactClosed
    <3>2. EdgesFollowed'
      BY <1>2, <2>g, <2>e, <3>0 DEF Alive, EdgesFollowed, Walks
    <3>3. ClosuresFollowed' /\ FactoriesFollowed'
      BY <1>2, <2>g, <3>0 DEF Alive, ClosuresFollowed, ClosuresAreIn, FactoriesFollowed, FactoriesAreIn
    <3>4. OverridersFollowed'
      BY <1>2, <2>g, <3>0 DEF Alive, OverridersFollowed, OverridersAreIn
    <3> QED
      BY <1>2, <2>m, <3>0, <3>1, <3>2, <3>3, <3>4 DEF Alive
  <2>7. ASSUME NEW s \in Symbols, Override(s) PROVE Alive'
    <3> DEFINE new == {o \in Methods \ (live \cup overriders) : <<o, s>> \in program.overrides}
    <3>0. /\ stage = "overrides" /\ stage' = "overrides" /\ s \in stack
          /\ overriders' = overriders \cup new /\ stack' = (stack \ {s}) \cup new
          /\ UNCHANGED <<react, live, added, frontier, early>>
      BY <2>7 DEF Override
    <3>1. ReactClosed'
      BY <1>2, <2>g, <3>0 DEF Alive, ReactClosed
    <3>2. EdgesFollowed'
      BY <1>2, <2>g, <2>e, <3>0 DEF Alive, EdgesFollowed, Walks
    <3>3. ClosuresFollowed' /\ FactoriesFollowed'
      BY <1>2, <2>g, <3>0 DEF Alive, ClosuresFollowed, ClosuresAreIn, FactoriesFollowed, FactoriesAreIn
    <3>4. OverridersFollowed'
      <4>1. OverridersAreIn(live, live \ (frontier \cup added))'
        BY <1>2, <2>g, <3>0 DEF Alive, OverridersFollowed, OverridersAreIn
      <4>2. ASSUME NEW e \in program.overrides,
                   e[2] \in (frontier \cup added \cup overriders') \ stack'
            PROVE e[1] \in live \cup overriders'
        <5>1. CASE e[2] = s
          BY <2>p, <3>0, <5>1 DEF IsProgram
        <5>2. CASE e[2] # s
          BY <1>2, <3>0, <4>2, <5>2 DEF Alive, OverridersFollowed, OverridersAreIn
        <5> QED
          BY <5>1, <5>2
      <4> QED
        BY <2>g, <3>0, <4>1, <4>2 DEF OverridersFollowed, OverridersAreIn
    <3> QED
      BY <1>2, <2>m, <3>0, <3>1, <3>2, <3>3, <3>4 DEF Alive
  <2>8. CASE Dispatch
    <3>0. /\ stage = "overrides" /\ stage' = "dispatch" /\ stack = {} /\ stack' = overriders
          /\ live' = live \cup overriders /\ added' = added \cup overriders
          /\ UNCHANGED <<react, early>>
      BY <2>8 DEF Dispatch
    <3>1. ReactClosed'
      BY <1>2, <2>g, <3>0 DEF Alive, ReactClosed
    <3>2. EdgesFollowed'
      BY <1>2, <2>g, <2>e, <3>0 DEF Alive, EdgesFollowed, Walks
    <3>3. ClosuresFollowed'
      BY <1>2, <2>g, <2>m, <3>0 DEF Alive, ClosuresFollowed, ClosuresAreIn
    <3>4. FactoriesFollowed'
      BY <1>2, <2>g, <3>0 DEF Alive, FactoriesFollowed, FactoriesAreIn
    <3>5. OverridersFollowed'
      <4> SUFFICES ASSUME NEW e \in program.overrides, e[2] \in live' \ added'
                   PROVE e[1] \in live'
        BY <2>g, <3>0 DEF OverridersFollowed, OverridersAreIn
      <4>1. e[2] \in live /\ e[2] \notin added
        BY <3>0
      <4>2. CASE e[2] \in frontier
        BY <1>2, <3>0, <4>2 DEF Alive, OverridersFollowed, OverridersAreIn
      <4>3. CASE e[2] \notin frontier
        BY <1>2, <3>0, <4>1, <4>3 DEF Alive, OverridersFollowed, OverridersAreIn
      <4> QED
        BY <4>2, <4>3
    <3> QED
      BY <1>2, <2>m, <3>0, <3>1, <3>2, <3>3, <3>4, <3>5 DEF Alive
  <2>9. CASE Report
    <3>0. /\ stage \in {"closures", "dispatch"} /\ stage' = "done" /\ stack = {}
          /\ stage = "closures" => live = {}
          /\ stage = "dispatch" => added = {}
          /\ dead' \cap live' = {}
          /\ UNCHANGED <<react, live, added, early>>
      BY <2>9 DEF Report, RoundOver, Revived
    <3>1. ReactClosed'
      BY <1>2, <2>g, <3>0 DEF Alive, ReactClosed
    <3>2. EdgesFollowed'
      BY <1>2, <2>g, <2>e, <3>0 DEF Alive, EdgesFollowed, Walks
    <3>3. ClosuresFollowed'
      BY <1>2, <2>g, <3>0 DEF Alive, ClosuresFollowed, ClosuresAreIn
    <3>4. FactoriesFollowed' /\ OverridersFollowed'
      BY <1>2, <2>g, <3>0 DEF Alive, FactoriesFollowed, FactoriesAreIn, OverridersFollowed,
         OverridersAreIn
    <3> QED
      BY <1>2, <2>m, <3>0, <3>1, <3>2, <3>3, <3>4 DEF Alive
  <2>10. CASE UNCHANGED deadVars
    BY <1>2, <2>10 DEF deadVars, Alive, ReactClosed, EdgesFollowed, ClosuresFollowed,
       FactoriesFollowed, OverridersFollowed, RootsAreIn, ClosuresAreIn, FactoriesAreIn,
       OverridersAreIn, Escaped, Candidates, Traversed, IsRoot
  <2> QED
    BY <1>2, <2>1, <2>2, <2>3, <2>4, <2>5, <2>6, <2>7, <2>8, <2>9, <2>10 DEF DeadNext
<1>3. Alive => ReachedIsAlive
  BY DEF Alive, ReachedIsAlive, EdgesFollowed, ClosuresFollowed, FactoriesFollowed,
     OverridersFollowed, Walks
<1> QED
  BY <1>1, <1>2, <1>3, DeadTypes, PTL DEF DeadSpec

(***************************************************************************)
(* HomeFiles: for every set of processes and of items                      *)
(***************************************************************************)

LEMMA NoCommandType == NoCommand \in Command
  BY DEF NoCommand, Command

\* Reading the file to change it.
LEMMA LoadsType ==
  ASSUME HomeTypeOK, NEW p \in Commands, NEW items \in SUBSET Items, NEW adds \in SUBSET Items,
         NEW takes \in SUBSET Items, NEW blind \in BOOLEAN, Loads(p, items, adds, takes, blind)
  PROVE  command' \in [Commands -> Command]
  <1> SUFFICES ASSUME NEW q \in Commands
               PROVE  (IF q = p THEN [pc |-> "loaded", items |-> items, adds |-> adds,
                                      takes |-> takes, met |-> Busy # {}, blind |-> blind]
                       ELSE [command[q] EXCEPT !.met = @ \/ q \in Busy]) \in Command
    BY DEF Loads
  <1>1. command[q] \in Command
    BY DEF HomeTypeOK
  <1>2. (Busy # {}) \in BOOLEAN /\ (command[q].met \/ q \in Busy) \in BOOLEAN
    OBVIOUS
  <1> QED
    BY <1>1, <1>2 DEF Command

LEMMA FileTypes ==
  ASSUME HomeTypeOK
  PROVE  /\ homeFile.items \in SUBSET Items /\ StateItems \in SUBSET Items
         /\ NoFile \in HomeFile /\ [kind |-> "torn", items |-> {}] \in HomeFile
         /\ \A p \in Commands : /\ command[p] \in Command
                                /\ [kind |-> "whole", items |-> command[p].items] \in HomeFile
  BY DEF HomeTypeOK, StateItems, NoFile, HomeFile, Command

\* The updates that read the file.
LoadSteps(p) ==
  \/ \E i \in Items : RecordSync(p, i) \/ RecordUnread(p, i) \/ AddRepo(p, i) \/ RemoveRepo(p, i)
  \/ \E overwrite \in BOOLEAN : CreateWorkspace(p, overwrite)

LEMMA LoadStepIs ==
  ASSUME HomeTypeOK, NEW p \in Commands, LoadSteps(p)
  PROVE  /\ Is(p, "idle")
         /\ UNCHANGED <<format, homeFile, kept, disturbed>> /\ homeFaults' \in 0..MaxHomeFaults
         /\ \E items, adds, takes \in SUBSET Items, blind \in BOOLEAN :
              /\ Loads(p, items, adds, takes, blind)
              /\ (~blind /\ homeFile.kind # "torn" /\ homeFile.items = kept
                  /\ (homeFile.kind = "none" => homeFile.items = {}))
                    => items = (kept \ takes) \cup adds
  <1>1. ASSUME NEW i \in Items, RecordSync(p, i)
        PROVE  Loads(p, StateItems \cup {i}, {i}, {}, FALSE) /\ StateItems \cup {i} \in SUBSET Items
    BY <1>1, FileTypes DEF RecordSync
  <1>2. ASSUME NEW i \in Items, AddRepo(p, i)
        PROVE  Loads(p, homeFile.items \cup {i}, {i}, {}, FALSE)
    BY <1>2 DEF AddRepo
  <1>3. ASSUME NEW i \in Items, RemoveRepo(p, i)
        PROVE  Loads(p, homeFile.items \ {i}, {}, {i}, FALSE)
    BY <1>3 DEF RemoveRepo
  <1>4. ASSUME NEW overwrite \in BOOLEAN, CreateWorkspace(p, overwrite)
        PROVE  Loads(p, {}, {}, Items, FALSE)
    BY <1>4 DEF CreateWorkspace
  <1>5. /\ Is(p, "idle") /\ UNCHANGED <<format, homeFile, kept, disturbed>>
        /\ homeFaults' \in 0..MaxHomeFaults
    <2>1. Is(p, "idle") /\ UNCHANGED <<format, homeFile, kept, disturbed>>
      BY DEF LoadSteps, RecordSync, RecordUnread, AddRepo, RemoveRepo, CreateWorkspace
    <2>2. \/ homeFaults' = homeFaults
          \/ homeFaults < MaxHomeFaults /\ homeFaults' = homeFaults + 1
      BY DEF LoadSteps, RecordSync, RecordUnread, AddRepo, RemoveRepo, CreateWorkspace
    <2> QED
      BY <2>1, <2>2, HomeBounds DEF HomeTypeOK
  <1>6. homeFile \in HomeFile /\ homeFile.items \in SUBSET Items /\ kept \in SUBSET Items
    BY FileTypes DEF HomeTypeOK
  <1>7. CASE \E i \in Items : RecordSync(p, i)
    <2>1. PICK i \in Items : RecordSync(p, i)
      BY <1>7
    <2>2. homeFile.kind # "torn" /\ (homeFile.kind = "none" => homeFile.items = {})
            => StateItems = homeFile.items
      BY <1>6 DEF StateItems, HomeFile
    <2>3. /\ Loads(p, StateItems \cup {i}, {i}, {}, FALSE)
          /\ StateItems \cup {i} \in SUBSET Items /\ {i} \in SUBSET Items /\ {} \in SUBSET Items
      BY <2>1, <1>1
    <2> QED
      BY <1>5, <2>2, <2>3
  <1>8. CASE \E i \in Items : AddRepo(p, i)
    <2>1. PICK i \in Items : AddRepo(p, i)
      BY <1>8
    <2>2. /\ Loads(p, homeFile.items \cup {i}, {i}, {}, FALSE)
          /\ homeFile.items \cup {i} \in SUBSET Items /\ {i} \in SUBSET Items
          /\ {} \in SUBSET Items
      BY <2>1, <1>2, <1>6
    <2> QED
      BY <1>5, <2>2
  <1>9. CASE \E i \in Items : RemoveRepo(p, i)
    <2>1. PICK i \in Items : RemoveRepo(p, i)
      BY <1>9
    <2>2. /\ Loads(p, homeFile.items \ {i}, {}, {i}, FALSE)
          /\ homeFile.items \ {i} \in SUBSET Items /\ {i} \in SUBSET Items
          /\ {} \in SUBSET Items
      BY <2>1, <1>3, <1>6
    <2> QED
      BY <1>5, <2>2
  <1>10. CASE \E overwrite \in BOOLEAN : CreateWorkspace(p, overwrite)
    <2>1. Loads(p, {}, {}, Items, FALSE) /\ {} \in SUBSET Items /\ Items \in SUBSET Items
      BY <1>10, <1>4
    <2>2. {} = (kept \ Items) \cup {}
      BY <1>6
    <2> QED
      BY <1>5, <2>1, <2>2
  <1>11. CASE \E i \in Items : RecordUnread(p, i)
    <2>1. PICK i \in Items : RecordUnread(p, i)
      BY <1>11
    <2>2. Loads(p, {i}, {i}, {}, TRUE) /\ {i} \in SUBSET Items /\ {} \in SUBSET Items
      BY <2>1 DEF RecordUnread
    <2> QED
      BY <1>5, <2>2
  <1> QED
    BY <1>7, <1>8, <1>9, <1>10, <1>11 DEF LoadSteps

-----------------------------------------------------------------------------
LEMMA InitHomeTypeOK == HomeInit => HomeTypeOK
  <1> SUFFICES ASSUME HomeInit PROVE HomeTypeOK
    OBVIOUS
  <1>1. homeFile \in HomeFile
    BY DEF HomeInit, NoFile, HomeFile
  <1>2. command \in [Commands -> Command]
    BY NoCommandType DEF HomeInit
  <1>3. homeFaults \in 0..MaxHomeFaults
    BY HomeBounds DEF HomeInit
  <1>4. format \in {"state", "workspace"} /\ kept \subseteq Items /\ disturbed \in BOOLEAN
    BY DEF HomeInit
  <1> QED
    BY <1>1, <1>2, <1>3, <1>4 DEF HomeTypeOK

LEMMA StepHomeTypeOK == HomeTypeOK /\ [HomeNext]_homeVars => HomeTypeOK'
  <1> SUFFICES ASSUME HomeTypeOK, [HomeNext]_homeVars PROVE HomeTypeOK'
    OBVIOUS
  <1>1. ASSUME NEW p \in Commands, LoadSteps(p) PROVE HomeTypeOK'
    <2>1. UNCHANGED <<format, homeFile, kept, disturbed>> /\ homeFaults' \in 0..MaxHomeFaults
      BY <1>1, LoadStepIs
    <2>2. command' \in [Commands -> Command]
      <3>1. PICK items, adds, takes \in SUBSET Items, blind \in BOOLEAN :
              Loads(p, items, adds, takes, blind)
        BY <1>1, LoadStepIs
      <3> QED
        BY <3>1, LoadsType
    <2> QED
      BY <2>1, <2>2 DEF HomeTypeOK
  <1>2. ASSUME NEW p \in Commands, OpenForWriting(p) PROVE HomeTypeOK'
    <2>1. command' \in [Commands -> Command]
      BY <1>2, FileTypes DEF OpenForWriting, HomeTypeOK, Command
    <2> QED
      BY <1>2, <2>1, FileTypes DEF OpenForWriting, HomeTypeOK
  <1>3. ASSUME NEW p \in Commands, FillFile(p) PROVE HomeTypeOK'
    <2>1. homeFile' \in HomeFile
      BY <1>3, FileTypes DEF FillFile
    <2>2. command' \in [Commands -> Command]
      BY <1>3, NoCommandType DEF FillFile, Ends, HomeTypeOK
    <2>3. kept' \subseteq Items /\ disturbed' \in BOOLEAN
      BY <1>3, FileTypes DEF FillFile, HomeTypeOK, Command
    <2> QED
      BY <1>3, <2>1, <2>2, <2>3 DEF FillFile, HomeTypeOK
  <1>4. ASSUME NEW p \in Commands, FillUnlinked(p) PROVE HomeTypeOK'
    BY <1>4, NoCommandType DEF FillUnlinked, Ends, HomeTypeOK
  <1>5. ASSUME NEW p \in Commands, DeleteWorkspace(p) PROVE HomeTypeOK'
    <2>1. command' \in [Commands -> Command]
      <3> SUFFICES ASSUME NEW q \in Commands
                   PROVE (IF Is(q, "open") THEN [command[q] EXCEPT !.pc = "unlinked", !.met = TRUE]
                          ELSE [command[q] EXCEPT !.met = @ \/ q \in Busy]) \in Command
        BY <1>5 DEF DeleteWorkspace
      <3>1. command[q] \in Command /\ (command[q].met \/ q \in Busy) \in BOOLEAN
        BY FileTypes
      <3> QED
        BY <3>1 DEF Command
    <2>2. disturbed' \in BOOLEAN
      BY <1>5 DEF DeleteWorkspace, HomeTypeOK
    <2> QED
      BY <1>5, <2>1, <2>2, FileTypes DEF DeleteWorkspace, HomeTypeOK
  <1>6. ASSUME NEW p \in Commands, CommandFails(p) PROVE HomeTypeOK'
    <2>1. command' \in [Commands -> Command]
      BY <1>6, NoCommandType DEF CommandFails, Ends, HomeTypeOK
    <2>2. homeFaults' \in 0..MaxHomeFaults
      BY <1>6, HomeBounds DEF CommandFails, HomeTypeOK
    <2>3. disturbed' \in BOOLEAN
      BY <1>6 DEF CommandFails, HomeTypeOK
    <2> QED
      BY <1>6, <2>1, <2>2, <2>3 DEF CommandFails, HomeTypeOK
  <1>7. CASE UNCHANGED homeVars
    BY <1>7 DEF homeVars, HomeTypeOK
  <1> QED
    BY <1>1, <1>2, <1>3, <1>4, <1>5, <1>6, <1>7 DEF HomeNext, LoadSteps

\* The state file and the workspace's file, and whoever is at them, have the forms they should
\* have (cgr_state.py, workspaces/storage.py).
THEOREM HomeTypes == HomeSpec => []HomeTypeOK
  BY InitHomeTypeOK, StepHomeTypeOK, PTL DEF HomeSpec

-----------------------------------------------------------------------------
(* What the updates recorded *)

\* Two that are at the file have met.
OverlapsAreMet ==
  \A p, q \in Busy : p # q => command[p].met

\* While nothing was disturbed, the file has what was recorded unless somebody is filling it, and
\* an update that met nobody and read the file is to write what it should.
FileIsRecorded ==
  ~disturbed =>
    /\ (\A p \in Commands : ~ Is(p, "open")) => homeFile.kind # "torn" /\ homeFile.items = kept
    /\ \A p \in Busy : ~command[p].met =>
         /\ ~command[p].blind => command[p].items = (kept \ command[p].takes) \cup command[p].adds
         /\ ~ Is(p, "unlinked")

AbsentIsEmpty == homeFile.kind = "none" => homeFile.items = {}

HomeInv == OverlapsAreMet /\ FileIsRecorded /\ AbsentIsEmpty

LEMMA InitHomeInv == HomeInit => HomeInv
  BY DEF HomeInit, HomeInv, OverlapsAreMet, FileIsRecorded, AbsentIsEmpty, Busy, Is, NoCommand, NoFile

LEMMA StepHomeInv == HomeTypeOK /\ HomeInv /\ [HomeNext]_homeVars => HomeInv'
  <1> SUFFICES ASSUME HomeTypeOK, HomeInv, [HomeNext]_homeVars PROVE HomeInv'
    OBVIOUS
  <1> USE DEF HomeInv
  <1>a. command \in [Commands -> Command] /\ \A q \in Commands : command[q] \in Command
    BY DEF HomeTypeOK
  <1>1. ASSUME NEW p \in Commands, LoadSteps(p) PROVE HomeInv'
    <2>1. /\ Is(p, "idle")
          /\ UNCHANGED <<format, homeFile, kept, disturbed>>
      BY <1>1, LoadStepIs
    <2>2. PICK items, adds, takes \in SUBSET Items, blind \in BOOLEAN :
            /\ Loads(p, items, adds, takes, blind)
            /\ (~blind /\ homeFile.kind # "torn" /\ homeFile.items = kept
                /\ (homeFile.kind = "none" => homeFile.items = {}))
                  => items = (kept \ takes) \cup adds
      BY <1>1, LoadStepIs
    <2>3. command'[p] = [pc |-> "loaded", items |-> items, adds |-> adds, takes |-> takes,
                         met |-> Busy # {}, blind |-> blind]
      BY <2>2 DEF Loads
    <2>4. \A q \in Commands \ {p} : command'[q] = [command[q] EXCEPT !.met = @ \/ q \in Busy]
      BY <2>2 DEF Loads
    <2>a. command'[p].pc = "loaded" /\ (Busy # {} => command'[p].met)
      <3> DEFINE overlap == Busy # {}
      <3>1. command'[p] = [pc |-> "loaded", items |-> items, adds |-> adds, takes |-> takes,
                           met |-> overlap, blind |-> blind]
        BY <2>3
      <3> HIDE DEF overlap
      <3>2. command'[p].pc = "loaded" /\ command'[p].met = overlap
        BY <3>1
      <3> QED
        BY <3>2, Zenon DEF overlap
    <2>b. \A q \in Commands \ {p} : /\ command'[q].pc = command[q].pc
                                    /\ q \in Busy => command'[q].met
      BY <1>a, <2>4 DEF Command
    <2>5. p \notin Busy /\ Busy' = Busy \cup {p}
      BY <2>1, <2>a, <2>b DEF Busy, Is
    <2>6. \A q \in Busy : q # p /\ q \in Commands /\ command'[q].met
      BY <2>b, <2>5 DEF Busy
    <2>7. OverlapsAreMet'
      BY <2>a, <2>5, <2>6 DEF OverlapsAreMet
    <2>8. \A q \in Commands : command'[q].pc = "open" <=> command[q].pc = "open"
      BY <2>1, <2>a, <2>b DEF Is
    <2>9. ASSUME ~disturbed, Busy = {}, ~blind
          PROVE  items = (kept \ takes) \cup adds
      BY <2>2, <2>9 DEF FileIsRecorded, AbsentIsEmpty, Busy, Is
    <2>10. FileIsRecorded'
      <3> SUFFICES ASSUME ~disturbed PROVE FileIsRecorded'
        BY <2>1 DEF FileIsRecorded
      <3>1. (\A q \in Commands : ~ Is(q, "open"))'
              => homeFile'.kind # "torn" /\ homeFile'.items = kept'
        BY <2>1, <2>8 DEF FileIsRecorded, Is
      <3>2. ASSUME NEW q \in Busy', ~command'[q].met
            PROVE  q = p /\ Busy = {}
        BY <2>a, <2>5, <2>6, <3>2
      <3>3. ASSUME Busy = {}, ~command'[p].blind
            PROVE  command'[p].items = (kept' \ command'[p].takes) \cup command'[p].adds
        <4>1. ~blind /\ command'[p].items = items /\ command'[p].takes = takes
              /\ command'[p].adds = adds
          BY <2>3, <3>3
        <4> QED
          BY <2>1, <2>9, <3>3, <4>1
      <3> QED
        BY <2>a, <3>1, <3>2, <3>3 DEF FileIsRecorded, Is
    <2> QED
      BY <2>1, <2>7, <2>10 DEF AbsentIsEmpty
  <1>2. ASSUME NEW p \in Commands, OpenForWriting(p) PROVE HomeInv'
    <2>1. /\ command'[p] = [command[p] EXCEPT !.pc = "open"]
          /\ \A q \in Commands \ {p} : command'[q] = command[q]
          /\ Is(p, "loaded") /\ UNCHANGED <<kept, disturbed>>
          /\ homeFile' = [kind |-> "torn", items |-> {}]
      BY <1>a, <1>2 DEF OpenForWriting
    <2>a. /\ command'[p].pc = "open" /\ command[p].pc = "loaded"
          /\ \A q \in Commands \ {p} : command'[q].pc = command[q].pc
      BY <1>a, <2>1 DEF Is, Command
    <2>2. Busy' = Busy /\ Is(p, "open")'
      BY <2>a DEF Busy, Is
    <2>3. \A q \in Commands : /\ command'[q].met = command[q].met
                              /\ command'[q].blind = command[q].blind
                              /\ command'[q].items = command[q].items
                              /\ command'[q].adds = command[q].adds
                              /\ command'[q].takes = command[q].takes
                              /\ Is(q, "unlinked")' => Is(q, "unlinked")
      BY <1>a, <2>1 DEF Command, Is
    <2>4. OverlapsAreMet' /\ AbsentIsEmpty'
      BY <2>1, <2>2, <2>3 DEF OverlapsAreMet, AbsentIsEmpty, Busy
    <2>5. FileIsRecorded'
      BY <2>1, <2>2, <2>3 DEF FileIsRecorded, Busy
    <2> QED
      BY <2>4, <2>5
  <1>e. ASSUME NEW p \in Commands, Ends(p)
        PROVE  /\ Busy' = Busy \ {p} /\ ~ Is(p, "open")'
               /\ \A q \in Commands \ {p} : command'[q] = command[q]
               /\ OverlapsAreMet'
    <2>1. /\ \A q \in Commands \ {p} : command'[q] = command[q]
          /\ command'[p] = NoCommand
      BY <1>a, <1>e DEF Ends
    <2>2. Busy' = Busy \ {p} /\ ~ Is(p, "open")'
      BY <1>a, <2>1 DEF Busy, Is, NoCommand
    <2> QED
      BY <2>1, <2>2 DEF OverlapsAreMet, Busy
  <1>3. ASSUME NEW p \in Commands, FillFile(p) PROVE HomeInv'
    <2>1. Ends(p) /\ Is(p, "open")
      BY <1>3 DEF FillFile
    <2>2. AbsentIsEmpty'
      BY <1>3 DEF FillFile, AbsentIsEmpty
    <2>3. ASSUME ~disturbed'
          PROVE  /\ ~disturbed /\ ~command[p].met /\ ~command[p].blind /\ p \in Busy
                 /\ homeFile' = [kind |-> "whole", items |-> command[p].items]
                 /\ kept' = (kept \ command[p].takes) \cup command[p].adds
      BY <1>3, <2>1, <2>3 DEF FillFile, Busy, Is
    <2>4. ASSUME ~disturbed'
          PROVE  homeFile'.kind # "torn" /\ homeFile'.items = kept'
      <3>1. command[p].items = (kept \ command[p].takes) \cup command[p].adds
        BY <2>3, <2>4, Zenon DEF FileIsRecorded
      <3>2. homeFile'.kind = "whole" /\ homeFile'.items = command[p].items
        BY <2>3, <2>4
      <3> QED
        BY <2>3, <2>4, <3>1, <3>2
    <2>5. ASSUME ~disturbed'
          PROVE  Busy' = {}
      BY <2>3, <2>5, <2>1, <1>e DEF OverlapsAreMet
    <2>6. FileIsRecorded'
      BY <2>4, <2>5 DEF FileIsRecorded
    <2> QED
      BY <2>1, <2>2, <2>6, <1>e
  <1>4. ASSUME NEW p \in Commands, FillUnlinked(p) PROVE HomeInv'
    BY <1>4, <1>e DEF FillUnlinked, FileIsRecorded, AbsentIsEmpty
  <1>5. ASSUME NEW p \in Commands, DeleteWorkspace(p) PROVE HomeInv'
    <2>1. /\ Is(p, "idle")
          /\ homeFile' = NoFile /\ kept' = {}
          /\ disturbed' = (disturbed /\ Busy # {})
          /\ \A q \in Commands :
               command'[q] = IF Is(q, "open") THEN [command[q] EXCEPT !.pc = "unlinked", !.met = TRUE]
                             ELSE [command[q] EXCEPT !.met = @ \/ q \in Busy]
      BY <1>5 DEF DeleteWorkspace
    <2>a. \A q \in Commands :
            /\ command'[q].pc = IF command[q].pc = "open" THEN "unlinked" ELSE command[q].pc
            /\ q \in Busy => command'[q].met
      <3> TAKE q \in Commands
      <3>1. CASE Is(q, "open")
        BY <1>a, <2>1, <3>1 DEF Command, Is
      <3>2. CASE ~ Is(q, "open")
        BY <1>a, <2>1, <3>2 DEF Command, Is
      <3> QED
        BY <3>1, <3>2
    <2>2. Busy' = Busy
      BY <2>a DEF Busy, Is
    <2>4. homeFile'.kind = "none" /\ homeFile'.items = {}
      BY <2>1 DEF NoFile
    <2> QED
      BY <2>1, <2>2, <2>a, <2>4 DEF OverlapsAreMet, FileIsRecorded, AbsentIsEmpty, Busy
  <1>6. ASSUME NEW p \in Commands, CommandFails(p) PROVE HomeInv'
    <2>1. /\ Ends(p) /\ UNCHANGED <<homeFile, kept>>
          /\ disturbed' = (disturbed \/ ~ Is(p, "loaded"))
      BY <1>6 DEF CommandFails
    <2>2. ASSUME ~disturbed'
          PROVE  ~disturbed /\ ~ Is(p, "open")
      BY <2>1, <2>2 DEF Is
    <2>a. Busy \subseteq Commands
      BY DEF Busy
    <2>3. FileIsRecorded'
      <3> SUFFICES ASSUME ~disturbed' PROVE FileIsRecorded'
        BY DEF FileIsRecorded
      <3>1. (\A q \in Commands : ~ Is(q, "open"))' => \A q \in Commands : ~ Is(q, "open")
        BY <2>1, <2>2, <1>e DEF Is
      <3>2. (\A q \in Commands : ~ Is(q, "open"))'
              => homeFile'.kind # "torn" /\ homeFile'.items = kept'
        BY <2>1, <2>2, <3>1 DEF FileIsRecorded
      <3>3. \A q \in Busy' : q \in Busy /\ command'[q] = command[q]
        BY <2>1, <2>a, <1>e
      <3> QED
        BY <2>1, <2>2, <3>2, <3>3 DEF FileIsRecorded, Is
    <2> QED
      BY <2>1, <2>3, <1>e DEF AbsentIsEmpty
  <1>7. CASE UNCHANGED homeVars
    BY <1>7 DEF homeVars, OverlapsAreMet, FileIsRecorded, AbsentIsEmpty, Busy, Is
  <1> QED
    BY <1>1, <1>2, <1>3, <1>4, <1>5, <1>6, <1>7 DEF HomeNext, LoadSteps

\* What the updates recorded is kept: an update writes what the earlier ones wrote together with
\* its own, as long as none overlaps another, stops half way, or writes a state file it could not
\* read (cgr_state.py _load and record_sync, workspaces/storage.py).
THEOREM RecordsKept == HomeSpec => []RecordedIsKept
  <1>1. HomeTypeOK /\ HomeInv => RecordedIsKept
    BY DEF HomeInv, FileIsRecorded, RecordedIsKept, Busy, Is
  <1> QED
    BY <1>1, HomeTypes, InitHomeInv, StepHomeInv, PTL DEF HomeSpec

(***************************************************************************)
(* The parts together                                                      *)
(***************************************************************************)

\* What a part does in the composition it may do alone: the others stand still while it moves.
THEOREM EngineIsItsParts ==
  EngineSpec => /\ SyncSpec /\ RegistrySpec /\ CacheSpec /\ HomeSpec /\ DeadSpec /\ DupSpec
                /\ IndexSpec
  <1>1. EngineInit => /\ SyncInit /\ RegistryInit /\ CacheInit /\ HomeInit /\ DeadInit /\ DupInit
                      /\ IndexInit
    BY DEF EngineInit
  <1>2. [EngineNext]_engineVars => [SyncNext]_syncVars
    BY DEF EngineNext, engineVars
  <1>3. [EngineNext]_engineVars => [RegistryNext]_registryVars
    BY DEF EngineNext, engineVars
  <1>4. [EngineNext]_engineVars => [CacheNext]_cacheVars
    BY DEF EngineNext, engineVars
  <1>5. [EngineNext]_engineVars => [HomeNext]_homeVars
    BY DEF EngineNext, engineVars
  <1>6. [EngineNext]_engineVars => [DeadNext]_deadVars
    BY DEF EngineNext, engineVars
  <1>7. [EngineNext]_engineVars => [DupNext]_dupVars
    BY DEF EngineNext, engineVars
  <1>8. [EngineNext]_engineVars => [IndexNext]_indexVars
    BY DEF EngineNext, engineVars
  <1> QED
    BY <1>1, <1>2, <1>3, <1>4, <1>5, <1>6, <1>7, <1>8, PTL
       DEF EngineSpec, SyncSpec, RegistrySpec, CacheSpec, HomeSpec, DeadSpec, DupSpec, IndexSpec

\* Every part has its types in every reachable state of the composition.
THEOREM EngineTypes == EngineSpec => []EngineTypeOK
  <1>1. IndexSpec => []IndexTyped
    BY InitIndex, NextIndex, PTL DEF IndexSpec
  <1>2. DeadTyped => DeadTypeOK
    BY DEF DeadTyped
  <1>3. IndexTyped => IndexTypeOK
    BY DEF IndexTyped
  <1>4. ASSUME SyncTypeOK, RegistryTypeOK, CacheTypeOK, HomeTypeOK, DeadTypeOK, DupTypeOK, IndexTypeOK
        PROVE  EngineTypeOK
    BY <1>4 DEF EngineTypeOK
  <1> QED
    BY <1>1, <1>2, <1>3, <1>4, EngineIsItsParts, SyncTypeCorrect, RegistryTypes, CacheTypeCorrect,
       HomeTypes, DeadTypes, DupTypeCorrect, PTL
=============================================================================
