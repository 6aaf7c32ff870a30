------------------------ MODULE LocustObjectsProofs ------------------------
(***************************************************************************)
(* Proofs about LRUCache and about LocustObjects, which uses it.           *)
(*   The cache: without pop_one the fifo lists the table in the order its  *)
(* keys came in, so that evictions take the oldest key; with it the cache  *)
(* still never outgrows its size.                                          *)
(*   The load test: its users never share an object, what they read is in  *)
(* the store, and what is in the store is within their reach, unless a     *)
(* request failed or the cache evicted it.  The load test uses the cache   *)
(* as CacheSpec describes, so what is proved of the cache holds in it.     *)
(***************************************************************************)
EXTENDS LocustObjects, SequenceTheorems, WellFoundedInduction, TLAPS

-----------------------------------------------------------------------------
(* The fifo of the cache. *)

\* A set of positions has a first one.
LEMMA FirstPosition ==
    ASSUME NEW I \in SUBSET Nat, I # {}
    PROVE  Min(I) \in I /\ \A i \in I : Min(I) <= i
<1> DEFINE Less == OpToRel(<, Nat)
<1>1. Less = {ij \in Nat \X Nat : ij[1] < ij[2]}
  BY DEF OpToRel
<1>2. IsWellFoundedOn(Less, Nat)
  BY NatLessThanWellFounded
<1> HIDE DEF Less
<1>3. PICK m \in I : \A i \in I : <<i, m>> \notin Less
  BY <1>2, WFMin
<1>4. ASSUME NEW i \in I PROVE m <= i
  <2>1. <<i, m>> \in Nat \X Nat /\ ~ (i < m)
    BY <1>1, <1>3
  <2> QED BY <2>1
<1> QED BY <1>3, <1>4 DEF Min

\* What deque.remove does to a fifo that has e in it.
LEMMA RemoveFirstProperties ==
    ASSUME NEW S, NEW s \in Seq(S), NEW e, \E i \in 1..Len(s) : s[i] = e
    PROVE  \E p \in 1..Len(s) :
             /\ s[p] = e
             /\ \A i \in 1..(p - 1) : s[i] # e
             /\ RemoveFirst(s, e) \in Seq(S)
             /\ Len(RemoveFirst(s, e)) = Len(s) - 1
             /\ \A j \in 1..(Len(s) - 1) :
                  RemoveFirst(s, e)[j] = IF j < p THEN s[j] ELSE s[j + 1]
<1> DEFINE I == {i \in 1..Len(s) : s[i] = e}
           p == Min(I)
           a == SubSeq(s, 1, p - 1)
           b == SubSeq(s, p + 1, Len(s))
<1>1. p \in I /\ \A i \in I : p <= i
  <2>1. I \in SUBSET Nat /\ I # {}
    OBVIOUS
  <2> HIDE DEF I
  <2> QED BY <2>1, FirstPosition
<1>2. RemoveFirst(s, e) = a \o b
  BY DEF RemoveFirst, RemoveAt, SelectInSeq
<1> HIDE DEF p
<1>3. p \in 1..Len(s) /\ s[p] = e /\ \A i \in 1..(p - 1) : s[i] # e
  BY <1>1
<1>4. /\ a \in Seq(S)
      /\ Len(a) = p - 1
      /\ \A i \in 1..(p - 1) : a[i] = s[i]
  <2>1. \A i \in 1..(p - 1) : s[i] \in S
    BY <1>3
  <2> QED BY <1>3, <2>1, SubSeqProperties
<1>5. /\ b \in Seq(S)
      /\ Len(b) = Len(s) - p
      /\ \A i \in 1..(Len(s) - p) : b[i] = s[p + i]
  <2>1. \A i \in (p + 1)..Len(s) : s[i] \in S
    BY <1>3
  <2>2. /\ b \in Seq(S)
        /\ Len(b) = IF p + 1 <= Len(s) THEN Len(s) - (p + 1) + 1 ELSE 0
        /\ \A i \in 1..(Len(s) - (p + 1) + 1) : b[i] = s[p + 1 + i - 1]
    BY <1>3, <2>1, SubSeqProperties
  <2> QED BY <1>3, <2>2
<1>6. /\ a \o b \in Seq(S)
      /\ Len(a \o b) = Len(s) - 1
      /\ \A j \in 1..(Len(s) - 1) : (a \o b)[j] = IF j < p THEN s[j] ELSE s[j + 1]
  <2> HIDE DEF a, b
  <2>1. /\ a \o b \in Seq(S)
        /\ Len(a \o b) = Len(a) + Len(b)
        /\ \A j \in 1..(Len(a) + Len(b)) :
             (a \o b)[j] = IF j <= Len(a) THEN a[j] ELSE b[j - Len(a)]
    BY <1>4, <1>5, ConcatProperties
  <2> QED BY <1>3, <1>4, <1>5, <2>1
<1> QED BY <1>2, <1>3, <1>6

\* A fifo that does not have e in it stays as it is.
LEMMA RemoveFirstAbsent ==
    ASSUME NEW S, NEW s \in Seq(S), NEW e, \A i \in 1..Len(s) : s[i] # e
    PROVE  RemoveFirst(s, e) = s
BY DEF RemoveFirst

\* Removing the left end of a fifo is popleft.
LEMMA RemoveLeftEnd ==
    ASSUME NEW S, NEW s \in Seq(S), s # <<>>
    PROVE  RemoveFirst(s, Head(s)) = Tail(s)
<1> DEFINE r == RemoveFirst(s, Head(s))
<1>1. Len(s) \in Nat /\ Len(s) >= 1 /\ s[1] = Head(s)
  OBVIOUS
<1>2. PICK p \in 1..Len(s) :
             /\ \A i \in 1..(p - 1) : s[i] # Head(s)
             /\ r \in Seq(S)
             /\ Len(r) = Len(s) - 1
             /\ \A j \in 1..(Len(s) - 1) : r[j] = IF j < p THEN s[j] ELSE s[j + 1]
  BY <1>1, RemoveFirstProperties
<1>3. p = 1
  BY <1>1, <1>2
<1>4. /\ Tail(s) \in Seq(S)
      /\ Len(Tail(s)) = Len(s) - 1
      /\ \A j \in 1..(Len(s) - 1) : Tail(s)[j] = s[j + 1]
  OBVIOUS
<1> HIDE DEF r
<1>5. \A j \in 1..Len(r) : r[j] = Tail(s)[j]
  BY <1>1, <1>2, <1>3, <1>4
<1> QED BY <1>2, <1>4, <1>5, SeqEqual DEF r

\* What deque.remove leaves of a fifo, whether e is in it or not.
LEMMA RemoveFirstKeeps ==
    ASSUME NEW S, NEW s \in Seq(S), NEW e
    PROVE  /\ RemoveFirst(s, e) \in Seq(S)
           /\ Len(RemoveFirst(s, e)) <= Len(s)
           /\ ToSet(s) \ {e} \subseteq ToSet(RemoveFirst(s, e))
           /\ IsInjective(s) => /\ IsInjective(RemoveFirst(s, e))
                               /\ ToSet(RemoveFirst(s, e)) = ToSet(s) \ {e}
<1> DEFINE r == RemoveFirst(s, e)
<1> HIDE DEF r
<1> SUFFICES /\ r \in Seq(S)
             /\ Len(r) <= Len(s)
             /\ ToSet(s) \ {e} \subseteq ToSet(r)
             /\ IsInjective(s) => IsInjective(r) /\ ToSet(r) = ToSet(s) \ {e}
  BY DEF r
<1>1. CASE \A i \in 1..Len(s) : s[i] # e
  <2>1. r = s
    BY <1>1, RemoveFirstAbsent DEF r
  <2> QED BY <1>1, <2>1 DEF ToSet
<1>2. CASE \E i \in 1..Len(s) : s[i] = e
  <2>1. PICK p \in 1..Len(s) :
             /\ s[p] = e
             /\ r \in Seq(S)
             /\ Len(r) = Len(s) - 1
             /\ \A j \in 1..(Len(s) - 1) : r[j] = IF j < p THEN s[j] ELSE s[j + 1]
    BY <1>2, RemoveFirstProperties DEF r
  <2>2. DOMAIN s = 1..Len(s) /\ DOMAIN r = 1..(Len(s) - 1) /\ Len(s) \in Nat
    BY <2>1
  <2>3. ASSUME NEW x \in ToSet(s) \ {e} PROVE x \in ToSet(r)
    <3>1. PICK i \in 1..Len(s) : s[i] = x
      BY <2>2 DEF ToSet
    <3>2. i # p
      BY <2>1, <3>1
    <3>3. CASE i < p
      BY <2>1, <2>2, <3>1, <3>3 DEF ToSet
    <3>4. CASE i > p
      <4>1. i - 1 \in 1..(Len(s) - 1) /\ r[i - 1] = x
        BY <2>1, <2>2, <3>1, <3>4
      <4> QED BY <2>2, <4>1 DEF ToSet
    <3> QED BY <3>2, <3>3, <3>4
  <2>4. ASSUME IsInjective(s) PROVE IsInjective(r) /\ ToSet(r) = ToSet(s) \ {e}
    <3>1. \A i, j \in 1..Len(s) : s[i] = s[j] => i = j
      BY <2>2, <2>4 DEF IsInjective
    <3>2. ASSUME NEW i \in 1..(Len(s) - 1), NEW j \in 1..(Len(s) - 1), r[i] = r[j]
          PROVE  i = j
      BY <2>1, <2>2, <3>1, <3>2
    <3>3. ASSUME NEW i \in 1..(Len(s) - 1) PROVE r[i] \in ToSet(s) \ {e}
      <4>1. PICK k \in 1..Len(s) : r[i] = s[k] /\ k # p
        <5>1. CASE i < p
          BY <2>1, <2>2, <5>1
        <5>2. CASE ~(i < p)
          <6>1. i + 1 \in 1..Len(s) /\ i + 1 # p /\ r[i] = s[i + 1]
            BY <2>1, <2>2, <5>2
          <6> QED BY <6>1
        <5> QED BY <5>1, <5>2
      <4>2. s[k] # e
        BY <2>1, <3>1, <4>1
      <4> QED BY <2>2, <4>1, <4>2 DEF ToSet
    <3>4. IsInjective(r)
      BY <2>2, <3>2 DEF IsInjective
    <3>5. ToSet(r) \subseteq ToSet(s) \ {e}
      BY <2>2, <3>3 DEF ToSet
    <3> QED BY <2>3, <3>4, <3>5
  <2> QED BY <2>1, <2>2, <2>3, <2>4
<1> QED BY <1>1, <1>2

\* What store() does to the fifo.
LEMMA GrownProperties ==
    ASSUME CacheTypeOK, NEW k \in Key, k \notin table
    PROVE  /\ Grown(k) \in Seq(Key)
           /\ Grown(k) # <<>>
           /\ Len(fifo) \in Nat
           /\ Len(Grown(k)) = Len(fifo) + 1
           /\ Grown(k)[Len(fifo) + 1] = k
           /\ \A i \in 1..Len(fifo) : Grown(k)[i] = fifo[i]
           /\ ToSet(Grown(k)) = ToSet(fifo) \cup {k}
<1> DEFINE g == Append(fifo, k)
<1>1. /\ g \in Seq(Key)
      /\ Len(fifo) \in Nat
      /\ Len(g) = Len(fifo) + 1
      /\ g[Len(fifo) + 1] = k
      /\ \A i \in 1..Len(fifo) : g[i] = fifo[i]
  BY DEF CacheTypeOK
<1> HIDE DEF g
<1>2. DOMAIN g = 1..(Len(fifo) + 1) /\ DOMAIN fifo = 1..Len(fifo)
  BY <1>1 DEF CacheTypeOK
<1>3. ToSet(g) = ToSet(fifo) \cup {k}
  <2>1. \A i \in 1..(Len(fifo) + 1) : i \in 1..Len(fifo) \/ i = Len(fifo) + 1
    BY <1>1
  <2> QED BY <1>1, <1>2, <2>1 DEF ToSet
<1>4. g # <<>>
  BY <1>1
<1>5. Grown(k) = g
  BY DEF Grown, g
<1> QED BY <1>1, <1>3, <1>4, <1>5

\* What popleft leaves of a fifo.
LEMMA TailProperties ==
    ASSUME NEW S, NEW s \in Seq(S), s # <<>>
    PROVE  /\ Tail(s) \in Seq(S)
           /\ Len(Tail(s)) = Len(s) - 1
           /\ Head(s) = s[1]
           /\ ToSet(s) \ {Head(s)} \subseteq ToSet(Tail(s))
           /\ IsInjective(s) => /\ IsInjective(Tail(s))
                               /\ ToSet(Tail(s)) = ToSet(s) \ {Head(s)}
<1>1. RemoveFirst(s, Head(s)) = Tail(s)
  BY RemoveLeftEnd
<1>2. /\ ToSet(s) \ {Head(s)} \subseteq ToSet(RemoveFirst(s, Head(s)))
      /\ IsInjective(s) => /\ IsInjective(RemoveFirst(s, Head(s)))
                          /\ ToSet(RemoveFirst(s, Head(s))) = ToSet(s) \ {Head(s)}
  BY RemoveFirstKeeps
<1>3. Tail(s) \in Seq(S) /\ Len(Tail(s)) = Len(s) - 1 /\ Head(s) = s[1]
  OBVIOUS
<1> QED BY <1>1, <1>2, <1>3

-----------------------------------------------------------------------------
(* The steps. *)

DBInv == CacheTypeOK /\ Bounded

\* store() evicts before the fifo outgrows the cache, and takes the evicted
\* key out of the table with it.
LEMMA StoreKeepsBound ==
    ASSUME DBInv, NEW k \in Key, Store(k)
    PROVE  DBInv'
<1> USE DEF DBInv, Bounded
<1>1. CASE k \in table
  <2>1. Grown(k) = fifo /\ Evicted(k) = {}
    <3>1. Grown(k) = fifo
      BY <1>1 DEF Grown
    <3>2. ~(Len(fifo) > MaxSize)
      BY CacheAssumption DEF CacheTypeOK
    <3> QED BY <3>1, <3>2 DEF Evicted
  <2>2. fifo' = fifo /\ table' = table /\ entered' = entered /\ popped' = popped
    BY <1>1, <2>1 DEF Store
  <2> QED BY <2>2 DEF CacheTypeOK
<1>2. CASE k \notin table
  <2> DEFINE g == Grown(k)
  <2>1. /\ g \in Seq(Key)
        /\ g # <<>>
        /\ Len(fifo) \in Nat
        /\ Len(g) = Len(fifo) + 1
        /\ ToSet(g) = ToSet(fifo) \cup {k}
    BY <1>2, GrownProperties
  <2>2. entered' \in Seq(Key) /\ popped' = popped
    <3>1. Append(entered, k) \in Seq(Key)
      BY DEF CacheTypeOK
    <3>2. RemoveFirst(Append(entered, k), Head(g)) \in Seq(Key)
      BY <3>1, RemoveFirstKeeps
    <3> QED BY <1>2, <3>1, <3>2 DEF Store
  <2>3. CASE Len(g) > MaxSize
    <3>1. Evicted(k) = {Head(g)}
      BY <2>3 DEF Evicted
    <3>2. fifo' = Tail(g) /\ table' = (table \cup {k}) \ {Head(g)}
      BY <3>1 DEF Store
    <3>3. /\ Tail(g) \in Seq(Key)
          /\ Len(Tail(g)) = Len(g) - 1
          /\ ToSet(g) \ {Head(g)} \subseteq ToSet(Tail(g))
      BY <2>1, TailProperties
    <3>4. table' \subseteq ToSet(fifo')
      BY <2>1, <3>2, <3>3
    <3>5. Len(fifo') <= MaxSize
      BY <2>1, <3>2, <3>3
    <3>6. CacheTypeOK'
      BY <2>2, <3>2, <3>3 DEF CacheTypeOK
    <3> QED BY <3>4, <3>5, <3>6
  <2>4. CASE ~(Len(g) > MaxSize)
    <3>1. Evicted(k) = {}
      BY <2>4 DEF Evicted
    <3>2. fifo' = g /\ table' = table \cup {k}
      BY <3>1 DEF Store
    <3>3. Len(fifo') <= MaxSize
      BY <2>1, <2>4, <3>2, CacheAssumption
    <3>4. table' \subseteq ToSet(fifo')
      BY <2>1, <3>2
    <3>5. CacheTypeOK'
      BY <2>1, <2>2, <3>2 DEF CacheTypeOK
    <3> QED BY <3>3, <3>4, <3>5
  <2> QED BY <2>3, <2>4
<1> QED BY <1>1, <1>2

\* delete() takes the key out of the table, and one entry out of the fifo.
LEMMA DeleteKeepsBound ==
    ASSUME DBInv, NEW k \in Key, Delete(k)
    PROVE  DBInv'
<1> USE DEF DBInv, Bounded, Delete
<1>1. /\ fifo' \in Seq(Key)
      /\ Len(fifo') <= Len(fifo)
      /\ ToSet(fifo) \ {k} \subseteq ToSet(fifo')
  BY RemoveFirstKeeps DEF CacheTypeOK
<1>2. entered' \in Seq(Key)
  BY RemoveFirstKeeps DEF CacheTypeOK
<1>3. CacheTypeOK'
  BY <1>1, <1>2 DEF CacheTypeOK
<1>4. Len(fifo') <= MaxSize
  BY <1>1, CacheAssumption DEF CacheTypeOK
<1>5. table' \subseteq ToSet(fifo')
  BY <1>1
<1> QED BY <1>3, <1>4, <1>5

\* An empty cache has the types of a cache.
LEMMA InitType == CacheInit => CacheTypeOK
<1>1. CacheInit => table \subseteq Key /\ fifo \in Seq(Key) /\ entered \in Seq(Key)
  BY DEF CacheInit
<1>2. CacheInit => popped \in BOOLEAN
  BY Zenon DEF CacheInit
<1> QED BY <1>1, <1>2 DEF CacheTypeOK

\* No operation makes the cache outgrow its size.
LEMMA BoundedStep ==
    ASSUME DBInv, [CacheNext]_cacheVars
    PROVE  DBInv'
<1>1. ASSUME NEW k \in Key, PopOne(k) PROVE DBInv'
  <2>1. entered' \in Seq(Key) /\ popped' = TRUE
    BY <1>1, RemoveFirstKeeps DEF DBInv, CacheTypeOK, PopOne
  <2> QED BY <1>1, <2>1 DEF DBInv, CacheTypeOK, Bounded, PopOne
<1>2. CASE UNCHANGED cacheVars
  BY <1>2 DEF cacheVars, DBInv, CacheTypeOK, Bounded
<1> QED BY <1>1, <1>2, StoreKeepsBound, DeleteKeepsBound DEF CacheNext

\* An InMemoryDB never outgrows its size, whatever is stored, deleted and
\* popped in whatever order.
THEOREM CacheIsBounded == CacheSpec => []Bounded
<1>1. CacheInit => DBInv
  <2>1. CacheInit => CacheTypeOK
    BY InitType
  <2>2. CacheInit => Bounded
    BY CacheAssumption DEF CacheInit, Bounded
  <2> QED BY <2>1, <2>2 DEF DBInv
<1>2. DBInv => Bounded
  BY DEF DBInv
<1> QED BY <1>1, <1>2, BoundedStep, PTL DEF CacheSpec

-----------------------------------------------------------------------------
(* Without pop_one. *)

\* store() keeps the fifo in step with the table.
LEMMA StoreKeepsMatch ==
    ASSUME DBInv, InStep, NEW k \in Key, Store(k)
    PROVE  InStep'
<1> USE DEF DBInv, Bounded, InStep
<1>1. CASE k \in table
  <2>1. Grown(k) = fifo
    BY <1>1 DEF Grown
  <2>2. Evicted(k) = {}
    BY <2>1, CacheAssumption DEF Evicted, CacheTypeOK
  <2>3. fifo' = fifo /\ table' = table /\ entered' = entered
    BY <1>1, <2>1, <2>2 DEF Store
  <2> QED BY <2>3
<1>2. CASE k \notin table
  <2> DEFINE g == Grown(k)
  <2>1. /\ g \in Seq(Key)
        /\ g # <<>>
        /\ Len(fifo) \in Nat
        /\ Len(g) = Len(fifo) + 1
        /\ g[Len(fifo) + 1] = k
        /\ \A i \in 1..Len(fifo) : g[i] = fifo[i]
        /\ ToSet(g) = ToSet(fifo) \cup {k}
    BY <1>2, GrownProperties
  <2>2. g = Append(entered, k)
    BY <1>2 DEF Grown
  <2> HIDE DEF g
  <2>3. IsInjective(g)
    <3>1. DOMAIN g = 1..(Len(fifo) + 1) /\ DOMAIN fifo = 1..Len(fifo)
      BY <2>1 DEF CacheTypeOK
    <3>2. \A i \in 1..Len(fifo) : g[i] # k
      BY <1>2, <2>1, <3>1 DEF ToSet
    <3>3. \A i, j \in 1..Len(fifo) : g[i] = g[j] => i = j
      BY <2>1, <3>1 DEF IsInjective
    <3>4. \A i \in 1..(Len(fifo) + 1) : i \in 1..Len(fifo) \/ i = Len(fifo) + 1
      BY <2>1
    <3> QED BY <2>1, <3>1, <3>2, <3>3, <3>4 DEF IsInjective
  <2>4. CASE Len(g) > MaxSize
    <3>1. Evicted(k) = {Head(g)}
      BY <2>4 DEF Evicted, g
    <3>2. /\ fifo' = Tail(g)
          /\ table' = (table \cup {k}) \ {Head(g)}
          /\ entered' = RemoveFirst(g, Head(g))
      BY <1>2, <2>2, <3>1 DEF Store, g
    <3>3. entered' = fifo'
      BY <2>1, <3>2, RemoveLeftEnd
    <3>4. IsInjective(fifo') /\ ToSet(fifo') = ToSet(g) \ {Head(g)}
      BY <2>1, <2>3, <3>2, TailProperties
    <3> QED BY <2>1, <3>2, <3>3, <3>4
  <2>5. CASE ~(Len(g) > MaxSize)
    <3>1. Evicted(k) = {}
      BY <2>5 DEF Evicted, g
    <3>2. fifo' = g /\ table' = table \cup {k} /\ entered' = g
      BY <1>2, <2>2, <3>1 DEF Store, g
    <3> QED BY <2>1, <2>3, <3>2
  <2> QED BY <2>4, <2>5
<1> QED BY <1>1, <1>2

\* delete() takes the key out of the table and out of the fifo.
LEMMA DeleteKeepsMatch ==
    ASSUME DBInv, InStep, NEW k \in Key, Delete(k)
    PROVE  InStep'
BY RemoveFirstKeeps DEF DBInv, CacheTypeOK, InStep, Delete

\* The invariant of a cache: only pop_one brings the fifo and the table out of
\* step.
CacheInv == DBInv /\ FifoMatchesTable

\* The invariant holds in every execution.
THEOREM CacheInvariant == CacheSpec => []CacheInv
<1>1. CacheInit => CacheInv
  <2>1. CacheInit => CacheTypeOK
    BY InitType
  <2>2. CacheInit => Bounded
    BY CacheAssumption DEF CacheInit, Bounded
  <2>3. CacheInit => FifoMatchesTable
    BY DEF CacheInit, FifoMatchesTable, InStep, ToSet, IsInjective
  <2> QED BY <2>1, <2>2, <2>3 DEF CacheInv, DBInv
<1>2. CacheInv /\ [CacheNext]_cacheVars => CacheInv'
  <2> SUFFICES ASSUME CacheInv, [CacheNext]_cacheVars PROVE CacheInv'
    OBVIOUS
  <2>1. DBInv'
    BY BoundedStep DEF CacheInv
  <2>2. ASSUME NEW k \in Key, Store(k) PROVE FifoMatchesTable'
    BY <2>2, StoreKeepsMatch DEF CacheInv, FifoMatchesTable, Store
  <2>3. ASSUME NEW k \in Key, Delete(k) PROVE FifoMatchesTable'
    BY <2>3, DeleteKeepsMatch DEF CacheInv, FifoMatchesTable, Delete
  <2>4. ASSUME NEW k \in Key, PopOne(k) PROVE FifoMatchesTable'
    BY <2>4 DEF PopOne, FifoMatchesTable
  <2>5. ASSUME UNCHANGED cacheVars PROVE FifoMatchesTable'
    BY <2>5 DEF cacheVars, CacheInv, FifoMatchesTable, InStep
  <2> QED
    <3>1. FifoMatchesTable'
      BY <2>2, <2>3, <2>4, <2>5 DEF CacheNext
    <3> QED BY <2>1, <3>1 DEF CacheInv
<1> QED BY <1>1, <1>2, PTL DEF CacheSpec

\* In an LRUCache the fifo lists the keys of the table, oldest first.
THEOREM FifoListsTheTable == CacheSpec => []FifoMatchesTable
<1>1. CacheInv => FifoMatchesTable
  BY DEF CacheInv
<1> QED BY <1>1, CacheInvariant, PTL

\* An LRUCache evicts its oldest entry, never the one just stored.
THEOREM OldestIsEvicted == CacheSpec => EvictsOldest
<1>1. ASSUME CacheInv, ~popped, NEW k \in Key, Store(k)
      PROVE  /\ k \in table'
             /\ table \ table' \subseteq {entered[i] : i \in DOMAIN entered \cap {1}}
  <2>1. /\ CacheTypeOK
        /\ Len(fifo) \in Nat
        /\ Len(fifo) <= MaxSize
        /\ DOMAIN fifo = 1..Len(fifo)
        /\ table = ToSet(fifo)
        /\ fifo = entered
    BY <1>1 DEF CacheInv, DBInv, CacheTypeOK, Bounded, FifoMatchesTable, InStep
  <2>2. table' = (table \cup {k}) \ Evicted(k)
    BY <1>1 DEF Store
  <2>3. CASE Evicted(k) = {}
    BY <2>2, <2>3
  <2>4. CASE Evicted(k) # {}
    <3>1. Len(Grown(k)) > MaxSize /\ Evicted(k) = {Head(Grown(k))}
      BY <2>4 DEF Evicted
    <3>2. k \notin table
      BY <2>1, <3>1, CacheAssumption DEF Grown
    <3>3. /\ Grown(k) \in Seq(Key)
          /\ Grown(k) # <<>>
          /\ Len(Grown(k)) = Len(fifo) + 1
          /\ \A i \in 1..Len(fifo) : Grown(k)[i] = fifo[i]
      BY <2>1, <3>2, GrownProperties
    <3>4. 1 \in 1..Len(fifo)
      BY <2>1, <3>1, <3>3, CacheAssumption
    <3>5. Head(Grown(k)) = fifo[1]
      BY <3>3, <3>4
    <3>6. fifo[1] \in table
      BY <2>1, <3>4 DEF ToSet
    <3>7. Evicted(k) = {entered[1]} /\ 1 \in DOMAIN entered
      BY <2>1, <3>1, <3>4, <3>5
    <3> QED BY <2>1, <2>2, <3>2, <3>6, <3>7
  <2> QED BY <2>3, <2>4
<1>2. CacheInv /\ [CacheNext]_cacheVars =>
        [\A k \in Key : ~popped /\ Store(k) =>
            /\ k \in table'
            /\ table \ table' \subseteq {entered[i] : i \in DOMAIN entered \cap {1}}]_cacheVars
  BY <1>1
<1> QED BY <1>2, CacheInvariant, PTL DEF CacheSpec, EvictsOldest

-----------------------------------------------------------------------------
(* The load test. *)


Popping == {"head", "download", "delete"}

\* What a user has in its hand it has alone, and out of the table.
HandInv ==
    /\ task \in [User -> Tasks]
    /\ hand \in [User -> SUBSET Key]
    /\ table \cup stored \subseteq named
    /\ \A u \in User : hand[u] \subseteq named
    /\ \A u \in User, k \in Key : k \in hand[u] => k \notin table /\ hand[u] = {k}
    /\ \A u \in User : task[u] = "idle" => hand[u] = {}
    /\ \A u \in User, v \in User, k \in Key : k \in hand[u] /\ k \in hand[v] => u = v

\* Where the objects are while the users run: the cache or a user has each one
\* that is in the store, and the store has each one that was popped.
StoreInv ==
    phase # "cleanup" =>
        /\ table \subseteq stored \cup unanswered
        /\ \A u \in User : task[u] \in Popping => hand[u] \subseteq stored \cup unanswered
        /\ \A u \in User : task[u] = "put" => hand[u] \cap stored = {}
        /\ \A k \in stored :
              \/ k \in table \cup forgotten \cup unanswered \cup evicted
              \/ \E u \in User : k \in hand[u]

IInv == HandInv /\ StoreInv /\ stored \subseteq Key /\ table \subseteq Key

\* The types of what a step changes.
LEMMA EndHands ==
    ASSUME IInv, NEW u \in User, NEW k \in Key, NEW t, End(u, t, k)
    PROVE  /\ task' \in [User -> Tasks] /\ hand' \in [User -> SUBSET Key]
           /\ hand'[u] = {} /\ task'[u] = "idle" /\ hand[u] = {k} /\ task[u] = t
           /\ \A v \in User \ {u} : hand'[v] = hand[v] /\ task'[v] = task[v] /\ k \notin hand[v]
           /\ k \notin table /\ k \in named
           /\ named' = named /\ phase' = phase /\ phase = "running"
<1>1. "idle" \in Tasks /\ {} \in SUBSET Key
  BY DEF Tasks
<1> QED BY <1>1 DEF IInv, HandInv, End

\* A task of u about k that ends leaves its object in the table, or nowhere.
LEMMA EndKeepsHands ==
    ASSUME IInv, NEW u \in User, NEW k \in Key, NEW t, End(u, t, k),
           table' \subseteq table \cup {k}, stored' \subseteq stored \cup {k}
    PROVE  HandInv' /\ table' \subseteq Key
<1>1. table' \subseteq Key
  BY DEF IInv
<1>2. HandInv'
  BY EndHands DEF IInv, HandInv
<1> QED BY <1>1, <1>2

\* What store_checksum does to the table.
LEMMA StoreTable ==
    ASSUME NEW k \in Key, StoreChecksum(k)
    PROVE  /\ table' \subseteq table \cup {k}
           /\ \A x \in table \cup {k} : x \in table' \/ x \in evicted'
           /\ evicted \subseteq evicted'
BY DEF StoreChecksum, Store

\* A task that ends, storing its object back: the object is in the store, or
\* its deletion was not answered.
LEMMA EndStoring ==
    ASSUME IInv, NEW u \in User, NEW k \in Key, NEW t, End(u, t, k), StoreChecksum(k),
           k \in stored' \cup unanswered', forgotten' = forgotten,
           unanswered \subseteq unanswered',
           stored' \subseteq stored \cup {k},
           stored \cup unanswered \subseteq stored' \cup unanswered'
    PROVE  IInv'
<1>1. HandInv' /\ table' \subseteq Key
  BY StoreTable, EndKeepsHands
<1>2. StoreInv'
  <2>1. table' \subseteq stored' \cup unanswered'
    BY StoreTable, EndHands DEF IInv, StoreInv
  <2>2. \A v \in User : task'[v] \in Popping => hand'[v] \subseteq stored' \cup unanswered'
    BY EndHands DEF IInv, StoreInv, Popping
  <2>3. \A v \in User : task'[v] = "put" => hand'[v] \cap stored' = {}
    BY EndHands DEF IInv, StoreInv
  <2>4. ASSUME NEW x \in stored'
        PROVE  \/ x \in table' \cup forgotten' \cup unanswered' \cup evicted'
               \/ \E v \in User : x \in hand'[v]
    <3>1. CASE x = k
      BY <3>1, StoreTable
    <3>2. CASE x # k
      <4>1. \/ x \in table \cup forgotten \cup unanswered \cup evicted
            \/ \E v \in User : x \in hand[v]
        BY <2>4, <3>2, EndHands DEF IInv, StoreInv
      <4>2. CASE x \in table \cup forgotten \cup unanswered \cup evicted
        BY <4>2, StoreTable
      <4>3. CASE \E v \in User : x \in hand[v]
        BY <3>2, <4>3, EndHands
      <4> QED BY <4>1, <4>2, <4>3
    <3> QED BY <3>1, <3>2
  <2> QED BY <2>1, <2>2, <2>3, <2>4 DEF StoreInv
<1>3. stored' \subseteq Key
  BY DEF IInv
<1> QED BY <1>1, <1>2, <1>3 DEF IInv

\* A task that ends and lets its object go.
LEMMA EndLettingGo ==
    ASSUME IInv, NEW u \in User, NEW k \in Key, NEW t, End(u, t, k),
           table' = table, evicted' = evicted,
           forgotten \subseteq forgotten', unanswered \subseteq unanswered',
           stored' \ {k} = stored \ {k},
           k \in stored' => k \in forgotten' \cup unanswered'
    PROVE  IInv'
<1>1. HandInv' /\ table' \subseteq Key
  BY EndKeepsHands
<1>2. StoreInv'
  <2>1. table' \subseteq stored' \cup unanswered'
    BY EndHands DEF IInv, StoreInv
  <2>2. \A v \in User : task'[v] \in Popping => hand'[v] \subseteq stored' \cup unanswered'
    BY EndHands DEF IInv, StoreInv, Popping
  <2>3. \A v \in User : task'[v] = "put" => hand'[v] \cap stored' = {}
    BY EndHands DEF IInv, StoreInv
  <2>4. ASSUME NEW x \in stored'
        PROVE  \/ x \in table' \cup forgotten' \cup unanswered' \cup evicted'
               \/ \E v \in User : x \in hand'[v]
    <3>1. CASE x = k
      BY <3>1, <2>4
    <3>2. CASE x # k
      <4>1. \/ x \in table \cup forgotten \cup unanswered \cup evicted
            \/ \E v \in User : x \in hand[v]
        BY <2>4, <3>2, EndHands DEF IInv, StoreInv
      <4>2. CASE x \in table \cup forgotten \cup unanswered \cup evicted
        BY <4>2
      <4>3. CASE \E v \in User : x \in hand[v]
        BY <3>2, <4>3, EndHands
      <4> QED BY <4>1, <4>2, <4>3
    <3> QED BY <3>1, <3>2
  <2> QED BY <2>1, <2>2, <2>3, <2>4 DEF StoreInv
<1>3. stored' \subseteq Key
  BY DEF IInv
<1> QED BY <1>1, <1>2, <1>3 DEF IInv

\* A user takes a new name: nobody else has it.
LEMMA BeginPutStep ==
    ASSUME IInv, NEW u \in User, NEW k \in Key, BeginPut(u, k)
    PROVE  IInv'
<1>1. /\ task' = [task EXCEPT ![u] = "put"] /\ hand' = [hand EXCEPT ![u] = {k}]
      /\ named' = named \cup {k} /\ k \notin named /\ "put" \in Tasks /\ "put" \notin Popping
      /\ table' = table /\ stored' = stored /\ unanswered' = unanswered
      /\ forgotten' = forgotten /\ evicted' = evicted /\ phase' = phase
  BY DEF BeginPut, Tasks, Popping, cacheVars, s3Vars, whyVars
<1>2. /\ task' \in [User -> Tasks] /\ hand' \in [User -> SUBSET Key]
      /\ task'[u] = "put" /\ hand'[u] = {k}
      /\ \A v \in User \ {u} : task'[v] = task[v] /\ hand'[v] = hand[v]
  BY <1>1 DEF IInv, HandInv
<1>3. \A v \in User : k \notin hand[v]
  BY <1>1 DEF IInv, HandInv
<1>4. hand[u] = {}
  BY DEF BeginPut, IInv, HandInv
<1>5. HandInv'
  BY <1>1, <1>2, <1>3 DEF IInv, HandInv
<1>6. /\ table' \subseteq table /\ stored' = stored
      /\ \A x \in Key : x \in table => x \in table' \cup hand'[u]
  BY <1>1, <1>2 DEF IInv
<1>7. StoreInv'
  <2> SUFFICES ASSUME phase # "cleanup" PROVE StoreInv'
    BY <1>1 DEF StoreInv
  <2>1. table' \subseteq stored' \cup unanswered'
    BY <1>1, <1>6 DEF IInv, StoreInv
  <2>2. \A v \in User : task'[v] \in Popping => hand'[v] \subseteq stored' \cup unanswered'
    BY <1>1, <1>2 DEF IInv, StoreInv
  <2>3. \A v \in User : task'[v] = "put" => hand'[v] \cap stored' = {}
    BY <1>1, <1>2, <1>5 DEF IInv, HandInv, StoreInv
  <2>4. ASSUME NEW x \in stored
        PROVE  \/ x \in table' \cup forgotten' \cup unanswered' \cup evicted'
               \/ \E v \in User : x \in hand'[v]
    <3>1. CASE \E v \in User : x \in hand[v]
      BY <1>2, <1>4, <3>1
    <3>2. CASE ~ \E v \in User : x \in hand[v]
      BY <1>1, <1>2, <1>6, <3>2 DEF IInv, StoreInv
    <3> QED BY <3>1, <3>2
  <2> QED BY <1>6, <2>1, <2>2, <2>3, <2>4 DEF StoreInv
<1> QED BY <1>1, <1>5, <1>7 DEF IInv
\* A user pops an object, which leaves the table for its hand.
LEMMA BeginPoppedStep ==
    ASSUME IInv, NEW u \in User, NEW k \in Key, NEW t \in Popping, BeginPopped(u, t, k)
    PROVE  IInv'
<1>1. /\ task' = [task EXCEPT ![u] = t] /\ hand' = [hand EXCEPT ![u] = {k}]
      /\ t \in Tasks /\ t # "idle" /\ t # "put" /\ k \in table /\ table' = table \ {k} /\ named' = named
      /\ stored' = stored /\ unanswered' = unanswered
      /\ forgotten' = forgotten /\ evicted' = evicted /\ phase' = phase /\ phase = "running"
  BY DEF BeginPopped, PopOne, Tasks, Popping, s3Vars, whyVars
<1>2. /\ task' \in [User -> Tasks] /\ hand' \in [User -> SUBSET Key]
      /\ task'[u] = t /\ hand'[u] = {k}
      /\ \A v \in User \ {u} : task'[v] = task[v] /\ hand'[v] = hand[v]
  BY <1>1 DEF IInv, HandInv
<1>3. \A v \in User : k \notin hand[v]
  BY <1>1 DEF IInv, HandInv
<1>4. hand[u] = {}
  BY DEF BeginPopped, IInv, HandInv
<1>5. HandInv'
  BY <1>1, <1>2, <1>3 DEF IInv, HandInv
<1>6. /\ table' \subseteq table /\ stored' = stored
      /\ \A x \in Key : x \in table => x \in table' \cup hand'[u]
  BY <1>1, <1>2 DEF IInv
<1>7. StoreInv'
  <2> SUFFICES ASSUME phase # "cleanup" PROVE StoreInv'
    BY <1>1 DEF StoreInv
  <2>1. table' \subseteq stored' \cup unanswered'
    BY <1>1, <1>6 DEF IInv, StoreInv
  <2>2. \A v \in User : task'[v] \in Popping => hand'[v] \subseteq stored' \cup unanswered'
    BY <1>1, <1>2 DEF IInv, StoreInv
  <2>3. \A v \in User : task'[v] = "put" => hand'[v] \cap stored' = {}
    BY <1>1, <1>2 DEF IInv, StoreInv
  <2>4. ASSUME NEW x \in stored
        PROVE  \/ x \in table' \cup forgotten' \cup unanswered' \cup evicted'
               \/ \E v \in User : x \in hand'[v]
    <3>1. CASE \E v \in User : x \in hand[v]
      BY <1>2, <1>4, <3>1
    <3>2. CASE ~ \E v \in User : x \in hand[v]
      BY <1>1, <1>2, <1>6, <3>2 DEF IInv, StoreInv
    <3> QED BY <3>1, <3>2
  <2> QED BY <1>6, <2>1, <2>2, <2>3, <2>4 DEF StoreInv
<1> QED BY <1>1, <1>5, <1>7 DEF IInv

\* The object leaves the store and the table for good.
LEMMA DeletedStep ==
    ASSUME IInv, NEW u \in User, NEW k \in Key, Deleted(u, k)
    PROVE  IInv'
<1>1. /\ End(u, "delete", k)
      /\ stored' = stored \ {k} /\ table' = table \ {k}
      /\ forgotten' = forgotten /\ unanswered' = unanswered /\ evicted' = evicted
  BY DEF Deleted, Delete, whyVars
<1>2. table' = table
  BY <1>1, EndHands
<1> QED BY <1>1, <1>2, EndLettingGo

\* Ending a task keeps the invariant, whatever the task and its outcome.
LEMMA EndStep ==
    ASSUME IInv, NEW u \in User, NEW k \in Key,
           \/ Uploaded(u, k) \/ UploadFails(u, k)
           \/ \E t \in {"head", "download"} : Read(u, t, k) \/ ReadFails(u, t, k)
           \/ Deleted(u, k) \/ DeleteFails(u, k)
    PROVE  IInv'
<1>1. CASE Uploaded(u, k)
  BY <1>1, EndStoring DEF Uploaded
<1>2. CASE UploadFails(u, k)
  <2>1. k \notin stored
    BY <1>2, EndHands DEF UploadFails, IInv, StoreInv
  <2> QED BY <1>2, <2>1, EndLettingGo DEF UploadFails, cacheVars
<1>3. ASSUME NEW t, Read(u, t, k) PROVE IInv'
  BY <1>3, EndStoring DEF Read
<1>4. ASSUME NEW t, ReadFails(u, t, k) PROVE IInv'
  BY <1>4, EndLettingGo DEF ReadFails, cacheVars
<1>5. CASE DeleteFails(u, k)
  <2>1. k \in stored \cup unanswered
    BY <1>5, EndHands DEF DeleteFails, IInv, StoreInv, Popping
  <2> QED BY <1>5, <2>1, EndStoring DEF DeleteFails
<1> QED BY <1>1, <1>2, <1>3, <1>4, <1>5, DeletedStep

\* on_test_start and on_test_stop.
LEMMA PhaseStep ==
    ASSUME IInv,
           SpawnUsers \/ StopUsers \/ \E b \in Bucket : CreateBucket(b) \/ DeleteBucket(b)
    PROVE  IInv'
<1>1. CASE SpawnUsers
  BY <1>1 DEF SpawnUsers, IInv, HandInv, StoreInv, cacheVars, s3Vars, whyVars
<1>2. CASE StopUsers
  <2>1. /\ phase' = "cleanup" /\ table' = table /\ named' = named
        /\ task' = [u \in User |-> "idle"] /\ hand' = [u \in User |-> {}]
    BY <1>2 DEF StopUsers, cacheVars
  <2>2. stored' \subseteq Key /\ stored' \subseteq named
    BY <1>2 DEF StopUsers, Held, IInv, HandInv
  <2> QED BY <2>1, <2>2 DEF IInv, HandInv, StoreInv, Tasks
<1>3. ASSUME NEW b \in Bucket, CreateBucket(b) PROVE IInv'
  BY <1>3 DEF CreateBucket, IInv, HandInv, StoreInv, cacheVars, whyVars
<1>4. ASSUME NEW b \in Bucket, DeleteBucket(b) PROVE IInv'
  <2>1. /\ stored' \subseteq stored /\ phase = "cleanup" /\ phase' = phase
        /\ table' = table /\ named' = named /\ task' = task /\ hand' = hand
    BY <1>4 DEF DeleteBucket, cacheVars
  <2> QED BY <2>1 DEF IInv, HandInv, StoreInv
<1> QED BY <1>1, <1>2, <1>3, <1>4

\* The invariant holds in every execution.
THEOREM LocustInvariant == Spec => []IInv
<1>1. Init => IInv
  BY DEF Init, CacheInit, IInv, HandInv, StoreInv, Tasks
<1>2. IInv /\ [Next]_vars => IInv'
  <2>1. IInv /\ UNCHANGED vars => IInv'
    BY DEF vars, cacheVars, s3Vars, whyVars, IInv, HandInv, StoreInv
  <2>2. ASSUME IInv, Next PROVE IInv'
    BY <2>2, PhaseStep, BeginPutStep, BeginPoppedStep, EndStep DEF Next, Popping
  <2> QED BY <2>1, <2>2
<1> QED BY <1>1, <1>2, PTL DEF Spec

\* No two users work on the same object, whatever requests fail and whatever
\* the cache evicts.
THEOREM UsersDoNotShare == Spec => []OneUserPerObject
<1>1. IInv => OneUserPerObject
  BY DEF IInv, HandInv, OneUserPerObject
<1> QED BY <1>1, LocustInvariant, PTL

\* A user heads or downloads an object the store has, unless its deletion was
\* not answered.
THEOREM ReadsAreOfStoredObjects == Spec => []ReadsFindTheirObject
<1>1. IInv => ReadsFindTheirObject
  BY DEF IInv, HandInv, StoreInv, Popping, Held, ReadsFindTheirObject
<1> QED BY <1>1, LocustInvariant, PTL

\* An object in the store can be reached by a user, unless a request for it
\* failed or it was evicted.
THEOREM ObjectsStayInReach == Spec => []NothingStranded
<1>1. IInv => NothingStranded
  BY DEF IInv, HandInv, StoreInv, Held, NothingStranded
<1> QED BY <1>1, LocustInvariant, PTL

-----------------------------------------------------------------------------
(* The cache in the load test. *)

\* What a user does at the end of its request, to the cache.
LEMMA EndUsesCache ==
    ASSUME NEW u \in User, NEW k \in Key,
           \/ Uploaded(u, k) \/ UploadFails(u, k)
           \/ \E t \in {"head", "download"} : Read(u, t, k) \/ ReadFails(u, t, k)
           \/ Deleted(u, k) \/ DeleteFails(u, k)
    PROVE  [CacheNext]_cacheVars
<1>1. ASSUME StoreChecksum(k) PROVE CacheNext
  BY <1>1 DEF StoreChecksum, CacheNext
<1>2. ASSUME Deleted(u, k) PROVE CacheNext
  BY <1>2 DEF Deleted, CacheNext
<1>3. ASSUME UploadFails(u, k) PROVE UNCHANGED cacheVars
  BY <1>3 DEF UploadFails
<1>4. ASSUME NEW t, ReadFails(u, t, k) PROVE UNCHANGED cacheVars
  BY <1>4 DEF ReadFails
<1>5. ASSUME NEW t, Read(u, t, k) PROVE StoreChecksum(k)
  BY <1>5 DEF Read
<1>6. ASSUME Uploaded(u, k) \/ DeleteFails(u, k) PROVE StoreChecksum(k)
  BY <1>6 DEF Uploaded, DeleteFails
<1> QED BY <1>1, <1>2, <1>3, <1>4, <1>5, <1>6

\* Whatever the users and locust do, they do to the cache what its operations
\* do, one at a time, or nothing.
LEMMA StepUsesCache ==
    ASSUME [Next]_vars
    PROVE  [CacheNext]_cacheVars
<1>1. ASSUME SpawnUsers \/ StopUsers PROVE UNCHANGED cacheVars
  BY <1>1 DEF SpawnUsers, StopUsers
<1>2. ASSUME NEW b \in Bucket, CreateBucket(b) \/ DeleteBucket(b)
      PROVE  UNCHANGED cacheVars
  BY <1>2 DEF CreateBucket, DeleteBucket
<1>3. ASSUME NEW u \in User, NEW k \in Key, BeginPut(u, k)
      PROVE  UNCHANGED cacheVars
  BY <1>3 DEF BeginPut
<1>4. ASSUME NEW u \in User, NEW k \in Key, NEW t, BeginPopped(u, t, k)
      PROVE  CacheNext
  BY <1>4 DEF BeginPopped, CacheNext
<1>5. ASSUME UNCHANGED vars PROVE UNCHANGED cacheVars
  BY <1>5 DEF vars
<1> QED BY <1>1, <1>2, <1>3, <1>4, <1>5, EndUsesCache DEF Next

\* The load test implements the cache it shares: every behaviour of it is one
\* of CacheSpec, seen in the cache alone.
THEOREM LoadTestUsesTheCache == Spec => CacheSpec
<1>1. Init => CacheInit
  BY DEF Init
<1>2. [Next]_vars => [CacheNext]_cacheVars
  BY StepUsesCache
<1> QED BY <1>1, <1>2, PTL DEF Spec, CacheSpec

\* So, however many users pop, store back and delete, the cache stays within
\* its size, and no entry is out of reach of an eviction.
COROLLARY LoadTestCacheIsBounded == Spec => []Bounded
BY LoadTestUsesTheCache, CacheIsBounded, PTL

\* And until the first object is popped an eviction takes the oldest one, never
\* the one just stored.
COROLLARY LoadTestEvictsOldest == Spec => EvictsOldest
BY LoadTestUsesTheCache, OldestIsEvicted, PTL

=============================================================================
