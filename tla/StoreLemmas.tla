----------------------------- MODULE StoreLemmas -----------------------------
(***************************************************************************)
(* What the operators of SubstreamsStore and the folds they are built from *)
(* do to a store, for any number of writes: an induction over the writes,  *)
(* carried out with the well-foundedness of the natural numbers, for each  *)
(* fold by itself.  The same for gcd, and what it makes of decimals.       *)
(***************************************************************************)
EXTENDS SubstreamsStore, SequenceTheorems, FiniteSetTheorems, WellFoundedInduction, TLAPS

(* A set of numbers with 0 and every successor has them all.               *)
LEMMA Induction ==
  ASSUME NEW T, 0 \in T, \A n \in T : n + 1 \in T
  PROVE  Nat \subseteq T
<1> DEFINE U == {n \in Nat : n \notin T}
<1> SUFFICES ASSUME U # {} PROVE FALSE
  OBVIOUS
<1>1. U \subseteq Nat
  OBVIOUS
<1>2. PICK n \in U : \A m \in U : ~ (<<m, n>> \in OpToRel(<, Nat))
  <2> HIDE DEF U
  <2> QED
    BY <1>1, NatLessThanWellFounded, WFMin
<1>3. \A m \in U : ~ (m < n)
  BY <1>1, <1>2 DEF OpToRel
<1>4. n # 0 /\ n - 1 \in Nat /\ n - 1 \notin U
  BY <1>1, <1>3
<1>5. n - 1 \in T
  BY <1>4
<1>6. (n - 1) + 1 \in T
  BY <1>5
<1>7. n \in T
  BY <1>1, <1>6
<1> QED
  BY <1>7

(* The sets that a fold from left to right takes apart.                    *)
LEMMA MaxIs ==
  ASSUME NEW S \in SUBSET Nat, NEW m \in S, \A y \in S : y <= m
  PROVE  Max(S) = m
<1>1. m \in S /\ \A y \in S : m >= y
  OBVIOUS
<1>2. \A x \in S : (\A y \in S : x >= y) => x = m
  OBVIOUS
<1> QED
  BY <1>1, <1>2, Zenon DEF Max

LEMMA LastOfSubset ==
  ASSUME NEW k \in Nat, NEW s \in SUBSET (1 .. k + 1), k + 1 \in s
  PROVE  Max(s) = k + 1 /\ s \ {Max(s)} \in SUBSET (1 .. k)
<1>1. s \in SUBSET Nat /\ \A y \in s : y <= k + 1
  OBVIOUS
<1>2. Max(s) = k + 1
  BY <1>1, MaxIs
<1>3. \A y \in s \ {k + 1} : y \in 1 .. k
  OBVIOUS
<1> QED
  BY <1>2, <1>3

LEMMA LastOfInterval ==
  ASSUME NEW k \in Nat
  PROVE  Max(1 .. k + 1) = k + 1 /\ (1 .. k + 1) \ {k + 1} = 1 .. k
<1>1. (1 .. k + 1) \in SUBSET (1 .. k + 1) /\ k + 1 \in 1 .. k + 1
  OBVIOUS
<1>2. \A y : y \in (1 .. k + 1) \ {k + 1} <=> y \in 1 .. k
  OBVIOUS
<1> QED
  BY <1>1, <1>2, LastOfSubset

-----------------------------------------------------------------------------
(* Writing one key.                                                        *)
Keys(store) == DOMAIN store.kv \cup {store.deltas[i].key : i \in DOMAIN store.deltas}

IsStore(store) ==
  /\ store = [kv |-> store.kv, deltas |-> store.deltas]
  /\ IsFiniteSet(DOMAIN store.kv)
  /\ store.deltas \in Seq(ToSet(store.deltas))

LEMMA EmptyStoreIsStore == IsStore(EmptyStore) /\ Keys(EmptyStore) = {}
<1>1. EmptyStore.kv = <<>> /\ EmptyStore.deltas = <<>>
  BY DEF EmptyStore
<1>2. DOMAIN <<>> = {}
  OBVIOUS
<1> QED
  BY <1>1, <1>2, FS_EmptySet DEF IsStore, Keys, ToSet, EmptyStore

LEMMA NextBlockIsStore ==
  ASSUME NEW store, IsStore(store)
  PROVE  IsStore(NextBlock(store)) /\ NextBlock(store).kv = store.kv
         /\ Keys(NextBlock(store)) \subseteq Keys(store)
<1>1. NextBlock(store).kv = store.kv /\ NextBlock(store).deltas = <<>>
  BY DEF NextBlock, IsStore
<1>2. NextBlock(store) = [kv |-> store.kv, deltas |-> <<>>]
  BY DEF NextBlock, IsStore
<1> QED
  BY <1>1, <1>2 DEF IsStore, Keys, ToSet

DeltaKeys(store) == {store.deltas[i].key : i \in DOMAIN store.deltas}

LEMMA AppendDelta ==
  ASSUME NEW store, IsStore(store), NEW d, NEW new,
         new = [kv |-> new.kv, deltas |-> Append(store.deltas, d)], IsFiniteSet(DOMAIN new.kv)
  PROVE  IsStore(new) /\ DeltaKeys(new) = DeltaKeys(store) \cup {d.key}
<1> DEFINE S == ToSet(store.deltas) \cup {d}
<1>1. store.deltas \in Seq(S) /\ d \in S
  <2>1. ToSet(store.deltas) \subseteq S /\ d \in S
    OBVIOUS
  <2> HIDE DEF S
  <2> QED
    BY <2>1, SeqMonotonic DEF IsStore
<1>2. new.deltas = Append(store.deltas, d)
  OBVIOUS
<1>3. /\ new.deltas \in Seq(S)
      /\ DOMAIN new.deltas = DOMAIN store.deltas \cup {Len(store.deltas) + 1}
      /\ \A i \in DOMAIN store.deltas : new.deltas[i] = store.deltas[i]
      /\ new.deltas[Len(store.deltas) + 1] = d
  <2> HIDE DEF S
  <2>1. /\ new.deltas \in Seq(S)
        /\ Len(new.deltas) = Len(store.deltas) + 1
        /\ \A i \in 1 .. Len(store.deltas) : new.deltas[i] = store.deltas[i]
        /\ new.deltas[Len(store.deltas) + 1] = d
    BY <1>1, <1>2, AppendProperties
  <2>2. /\ DOMAIN store.deltas = 1 .. Len(store.deltas)
        /\ DOMAIN new.deltas = 1 .. Len(new.deltas)
        /\ Len(store.deltas) \in Nat
    BY <1>1, <2>1, LenProperties
  <2> QED
    BY <2>1, <2>2
<1>4. ToSet(new.deltas) = S
  BY <1>3 DEF ToSet
<1>5. DeltaKeys(new) = DeltaKeys(store) \cup {d.key}
  BY <1>3 DEF DeltaKeys
<1> HIDE DEF S
<1>6. IsStore(new)
  BY <1>2, <1>3, <1>4 DEF IsStore
<1> QED
  BY <1>5, <1>6

LEMMA PutIsStore ==
  ASSUME NEW store, IsStore(store), NEW ord, NEW key, NEW value
  PROVE  LET new == Put(store, ord, key, value) IN
         /\ IsStore(new)
         /\ DOMAIN new.kv = DOMAIN store.kv \cup {key}
         /\ Keys(new) = Keys(store) \cup {key}
         /\ new.kv[key] = value
         /\ \A k \in DOMAIN store.kv \ {key} : new.kv[k] = store.kv[k]
<1> DEFINE new == Put(store, ord, key, value)
           d == [op |-> IF Has(store, key) THEN "UPDATE" ELSE "CREATE", ord |-> ord,
                 key |-> key, old |-> GetLast(store, key), new |-> value]
<1>1. /\ new.kv = [k \in DOMAIN store.kv \cup {key} |-> IF k = key THEN value ELSE store.kv[k]]
      /\ new = [kv |-> new.kv, deltas |-> Append(store.deltas, d)]
  BY DEF Put
<1>2. IsFiniteSet(DOMAIN store.kv \cup {key})
  BY FS_AddElement DEF IsStore
<1>3. d.key = key
  OBVIOUS
<1> HIDE DEF d, new
<1>4. IsStore(new) /\ DeltaKeys(new) = DeltaKeys(store) \cup {key}
  BY <1>1, <1>2, <1>3, AppendDelta
<1> QED
  BY <1>1, <1>4 DEF Keys, DeltaKeys, new

LEMMA DeleteKeyIsStore ==
  ASSUME NEW store, IsStore(store), NEW key \in DOMAIN store.kv
  PROVE  LET new == DeleteKey(key, store) IN
         /\ IsStore(new)
         /\ DOMAIN new.kv = DOMAIN store.kv \ {key}
         /\ Keys(new) \subseteq Keys(store)
         /\ \A k \in DOMAIN store.kv \ {key} : new.kv[k] = store.kv[k]
<1> DEFINE new == DeleteKey(key, store)
           d == [op |-> "DELETE", ord |-> 0, key |-> key, old |-> store.kv[key], new |-> Absent]
<1>1. /\ new.kv = [k \in DOMAIN store.kv \ {key} |-> store.kv[k]]
      /\ new = [kv |-> new.kv, deltas |-> Append(store.deltas, d)]
  BY DEF DeleteKey
<1>2. IsFiniteSet(DOMAIN store.kv \ {key})
  BY FS_RemoveElement DEF IsStore
<1>3. d.key = key
  OBVIOUS
<1> HIDE DEF d, new
<1>4. IsStore(new) /\ DeltaKeys(new) = DeltaKeys(store) \cup {key}
  BY <1>1, <1>2, <1>3, AppendDelta
<1> QED
  BY <1>1, <1>4 DEF Keys, DeltaKeys, new

-----------------------------------------------------------------------------
(* The folds over a sequence of writes or of prefixes: what a step does is *)
(* told by the store's update policy, "delete" or the valueType it adds;   *)
(* "sum" and "count" add up numbers without a store.                       *)
Step(policy, store, w) ==
  CASE policy = "set"    -> Put(store, w[1], w[2], w[3])
    [] policy = "delete" -> DeletePrefix(store, w[1], w[2])
    [] policy = "sum"    -> Plus(store, w)
    [] policy = "count"  -> store + w
    [] OTHER             -> Put(store, w[1], w[2], Added(store, policy, w[2], w[3]))

IsFold(policy, store, writes, D, g) ==
  g = [s \in SUBSET D |->
         IF s = {} THEN store ELSE Step(policy, g[s \ {Max(s)}], writes[Max(s)])]

LEMMA FoldExists ==
  ASSUME NEW policy, NEW store, NEW writes, NEW n \in Nat
  PROVE  \E g : IsFold(policy, store, writes, 1 .. n, g)
<1> DEFINE T == {k \in Nat : \E g : IsFold(policy, store, writes, 1 .. k, g)}
<1>1. 0 \in T
  <2> DEFINE g == [s \in SUBSET (1 .. 0) |-> store]
  <2>1. \A s \in SUBSET (1 .. 0) : s = {}
    OBVIOUS
  <2>2. IsFold(policy, store, writes, 1 .. 0, g)
    BY <2>1 DEF IsFold
  <2> QED
    BY <2>2
<1>2. ASSUME NEW k \in T
      PROVE  k + 1 \in T
  <2>1. k \in Nat
    OBVIOUS
  <2>2. PICK g : IsFold(policy, store, writes, 1 .. k, g)
    OBVIOUS
  <2> DEFINE f == [s \in SUBSET (1 .. k + 1) |->
                     IF k + 1 \in s THEN Step(policy, g[s \ {k + 1}], writes[k + 1]) ELSE g[s]]
  <2>3. ASSUME NEW s \in SUBSET (1 .. k + 1)
        PROVE  f[s] = IF s = {} THEN store ELSE Step(policy, f[s \ {Max(s)}], writes[Max(s)])
    <3>1. CASE k + 1 \in s
      <4>1. Max(s) = k + 1 /\ s \ {k + 1} \in SUBSET (1 .. k) /\ k + 1 \notin s \ {k + 1}
        BY <2>1, <3>1, LastOfSubset
      <4>2. s \ {k + 1} \in SUBSET (1 .. k + 1)
        OBVIOUS
      <4>3. f[s \ {k + 1}] = g[s \ {k + 1}]
        BY <4>1, <4>2
      <4> QED
        BY <3>1, <4>1, <4>3
    <3>2. CASE k + 1 \notin s
      <4>1. s \in SUBSET (1 .. k) /\ s \ {Max(s)} \in SUBSET (1 .. k)
        <5>1. \A i \in s : i # k + 1 /\ i \in 1 .. k + 1
          BY <3>2
        <5>2. \A i \in s : i \in 1 .. k
          BY <2>1, <5>1
        <5> QED
          BY <5>2
      <4>2. s \ {Max(s)} \in SUBSET (1 .. k + 1) /\ k + 1 \notin s \ {Max(s)}
        BY <3>2
      <4>3. f[s] = g[s] /\ f[s \ {Max(s)}] = g[s \ {Max(s)}]
        BY <3>2, <4>2
      <4>4. g[s] = IF s = {} THEN store ELSE Step(policy, g[s \ {Max(s)}], writes[Max(s)])
        BY <2>2, <4>1 DEF IsFold
      <4> QED
        BY <4>3, <4>4
    <3> QED
      BY <3>1, <3>2
  <2>4. f = [s \in SUBSET (1 .. k + 1) |->
               IF s = {} THEN store ELSE Step(policy, f[s \ {Max(s)}], writes[Max(s)])]
    <3>1. f = [s \in SUBSET (1 .. k + 1) |-> f[s]]
      OBVIOUS
    <3> HIDE DEF f
    <3> QED
      BY <2>3, <3>1
  <2>5. IsFold(policy, store, writes, 1 .. k + 1, f)
    BY <2>4 DEF IsFold
  <2> HIDE DEF f
  <2> QED
    BY <2>1, <2>5
<1> HIDE DEF T
<1>3. n \in T
  BY <1>1, <1>2, Induction
<1> QED
  BY <1>3 DEF T

OneByOne(policy, store, writes, n, h) ==
  /\ h[0] = store
  /\ \A i \in 1 .. n : h[i] = Step(policy, h[i - 1], writes[i])

LEMMA FoldSteps ==
  ASSUME NEW policy, NEW store, NEW writes, NEW n \in Nat, NEW g,
         IsFold(policy, store, writes, 1 .. n, g)
  PROVE  \E h : OneByOne(policy, store, writes, n, h) /\ h[n] = g[1 .. n]
<1> DEFINE h == [i \in 0 .. n |-> g[1 .. i]]
<1>1. h[0] = store
  <2>1. 1 .. 0 = {} /\ {} \in SUBSET (1 .. n) /\ 0 \in 0 .. n
    OBVIOUS
  <2> QED
    BY <2>1 DEF IsFold
<1>2. ASSUME NEW i \in 1 .. n
      PROVE  h[i] = Step(policy, h[i - 1], writes[i])
  <2>1. i - 1 \in Nat /\ (i - 1) + 1 = i /\ i - 1 \in 0 .. n /\ i \in 0 .. n
    OBVIOUS
  <2>2. Max(1 .. i) = i /\ (1 .. i) \ {i} = 1 .. i - 1
    BY <2>1, LastOfInterval
  <2>3. 1 .. i \in SUBSET (1 .. n) /\ 1 .. i # {}
    OBVIOUS
  <2>4. g[1 .. i] = Step(policy, g[1 .. i - 1], writes[i])
    BY <2>2, <2>3 DEF IsFold
  <2> QED
    BY <2>1, <2>4
<1>3. h[n] = g[1 .. n]
  OBVIOUS
<1> HIDE DEF h
<1> QED
  BY <1>1, <1>2, <1>3 DEF OneByOne

(* set_many, add_many and the deletions of several prefixes are such folds.*)
PutsFold(store, writes, D, g) ==
  g = [s \in SUBSET D |->
         IF s = {} THEN store
         ELSE Put(g[s \ {Max(s)}], writes[Max(s)][1], writes[Max(s)][2], writes[Max(s)][3])]

AddsFold(valueType, store, writes, D, g) ==
  g = [s \in SUBSET D |->
         IF s = {} THEN store
         ELSE Put(g[s \ {Max(s)}], writes[Max(s)][1], writes[Max(s)][2],
                  Added(g[s \ {Max(s)}], valueType, writes[Max(s)][2], writes[Max(s)][3]))]

DeletesFold(store, prefixes, D, g) ==
  g = [s \in SUBSET D |->
         IF s = {} THEN store
         ELSE DeletePrefix(g[s \ {Max(s)}], prefixes[Max(s)][1], prefixes[Max(s)][2])]

LEMMA PutsUnfold ==
  ASSUME NEW store, NEW writes, \E g : PutsFold(store, writes, DOMAIN writes, g)
  PROVE  \E g : /\ PutsFold(store, writes, DOMAIN writes, g)
                /\ PutAll(store, writes) = g[DOMAIN writes]
  BY DEF PutsFold, PutAll, FoldLeft, MapThenFoldSet

LEMMA AddsUnfold ==
  ASSUME NEW valueType, NEW store, NEW writes,
         \E g : AddsFold(valueType, store, writes, DOMAIN writes, g)
  PROVE  \E g : /\ AddsFold(valueType, store, writes, DOMAIN writes, g)
                /\ AddAll(store, writes, valueType) = g[DOMAIN writes]
  BY DEF AddsFold, AddAll, FoldLeft, MapThenFoldSet

LEMMA DeletesUnfold ==
  ASSUME NEW store, NEW prefixes, \E g : DeletesFold(store, prefixes, DOMAIN prefixes, g)
  PROVE  \E g : /\ DeletesFold(store, prefixes, DOMAIN prefixes, g)
                /\ DeletePrefixes(store, prefixes) = g[DOMAIN prefixes]
  BY DEF DeletesFold, DeletePrefixes, FoldLeft, MapThenFoldSet

LEMMA PutAllSteps ==
  ASSUME NEW store, NEW writes, NEW n \in Nat, DOMAIN writes = 1 .. n
  PROVE  \E h : OneByOne("set", store, writes, n, h) /\ PutAll(store, writes) = h[n]
<1>1. ASSUME NEW g, NEW D
      PROVE  IsFold("set", store, writes, D, g) <=> PutsFold(store, writes, D, g)
  BY DEF IsFold, PutsFold, Step
<1>2. PICK g : PutsFold(store, writes, 1 .. n, g) /\ PutAll(store, writes) = g[1 .. n]
  BY <1>1, FoldExists, PutsUnfold
<1> QED
  BY <1>1, <1>2, FoldSteps

LEMMA AddAllSteps ==
  ASSUME NEW valueType, valueType \notin {"set", "delete", "sum", "count"},
         NEW store, NEW writes, NEW n \in Nat, DOMAIN writes = 1 .. n
  PROVE  \E h : /\ OneByOne(valueType, store, writes, n, h)
                /\ AddAll(store, writes, valueType) = h[n]
<1>1. ASSUME NEW g, NEW D
      PROVE  IsFold(valueType, store, writes, D, g) <=> AddsFold(valueType, store, writes, D, g)
  BY DEF IsFold, AddsFold, Step
<1>2. PICK g : /\ AddsFold(valueType, store, writes, 1 .. n, g)
               /\ AddAll(store, writes, valueType) = g[1 .. n]
  BY <1>1, FoldExists, AddsUnfold
<1> QED
  BY <1>1, <1>2, FoldSteps

LEMMA DeletePrefixesSteps ==
  ASSUME NEW store, NEW prefixes, NEW n \in Nat, DOMAIN prefixes = 1 .. n
  PROVE  \E h : /\ OneByOne("delete", store, prefixes, n, h)
                /\ DeletePrefixes(store, prefixes) = h[n]
<1>1. ASSUME NEW g, NEW D
      PROVE  IsFold("delete", store, prefixes, D, g) <=> DeletesFold(store, prefixes, D, g)
  BY DEF IsFold, DeletesFold, Step
<1>2. PICK g : /\ DeletesFold(store, prefixes, 1 .. n, g)
               /\ DeletePrefixes(store, prefixes) = g[1 .. n]
  BY <1>1, FoldExists, DeletesUnfold
<1> QED
  BY <1>1, <1>2, FoldSteps

(* The keys of writes.                                                     *)
Written(writes) == {writes[i][2] : i \in DOMAIN writes}

(* A key has the value that was written to it last.                        *)
LEMMA PutAllIsStore ==
  ASSUME NEW store, IsStore(store), NEW n \in Nat, NEW writes, DOMAIN writes = 1 .. n
  PROVE  LET new == PutAll(store, writes) IN
         /\ IsStore(new)
         /\ DOMAIN new.kv = DOMAIN store.kv \cup Written(writes)
         /\ Keys(new) = Keys(store) \cup Written(writes)
         /\ \A k \in DOMAIN store.kv \ Written(writes) : new.kv[k] = store.kv[k]
         /\ \A k \in Written(writes) :
              \E i \in 1 .. n : /\ writes[i][2] = k /\ new.kv[k] = writes[i][3]
                                /\ \A j \in i + 1 .. n : writes[j][2] # k
<1>1. PICK h : OneByOne("set", store, writes, n, h) /\ PutAll(store, writes) = h[n]
  BY PutAllSteps
<1> DEFINE W(m) == {writes[i][2] : i \in 1 .. m}
           Good(m) ==
             /\ IsStore(h[m])
             /\ DOMAIN h[m].kv = DOMAIN store.kv \cup W(m)
             /\ Keys(h[m]) = Keys(store) \cup W(m)
             /\ \A k \in DOMAIN store.kv \ W(m) : h[m].kv[k] = store.kv[k]
             /\ \A k \in W(m) :
                  \E i \in 1 .. m : /\ writes[i][2] = k /\ h[m].kv[k] = writes[i][3]
                                    /\ \A j \in i + 1 .. m : writes[j][2] # k
           T == {m \in Nat : m <= n => Good(m)}
<1>2. 0 \in T
  <2>1. W(0) = {}
    OBVIOUS
  <2> HIDE DEF W
  <2> QED
    BY <1>1, <2>1 DEF OneByOne
<1>3. ASSUME NEW m \in T
      PROVE  m + 1 \in T
  <2>1. m \in Nat
    OBVIOUS
  <2>2. SUFFICES ASSUME m + 1 <= n
                 PROVE  Good(m + 1)
    BY <2>1
  <2>3. Good(m)
    BY <2>1, <2>2
  <2> DEFINE w == writes[m + 1]
  <2>4. h[m + 1] = Put(h[m], w[1], w[2], w[3])
    <3>1. m + 1 \in 1 .. n /\ (m + 1) - 1 = m
      BY <2>1, <2>2
    <3>2. h[m + 1] = Step("set", h[(m + 1) - 1], w)
      BY <1>1, <3>1 DEF OneByOne
    <3> QED
      BY <3>1, <3>2 DEF Step
  <2>5. W(m + 1) = W(m) \cup {w[2]}
    <3>1. \A i : i \in 1 .. m + 1 <=> i \in 1 .. m \/ i = m + 1
      BY <2>1
    <3> QED
      BY <3>1
  <2> HIDE DEF w
  <2>6. /\ IsStore(h[m + 1])
        /\ DOMAIN h[m + 1].kv = DOMAIN h[m].kv \cup {w[2]}
        /\ Keys(h[m + 1]) = Keys(h[m]) \cup {w[2]}
        /\ h[m + 1].kv[w[2]] = w[3]
        /\ \A k \in DOMAIN h[m].kv \ {w[2]} : h[m + 1].kv[k] = h[m].kv[k]
    BY <2>3, <2>4, PutIsStore
  <2>7. ASSUME NEW k \in W(m + 1)
        PROVE  \E i \in 1 .. m + 1 : /\ writes[i][2] = k /\ h[m + 1].kv[k] = writes[i][3]
                                     /\ \A j \in i + 1 .. m + 1 : writes[j][2] # k
    <3>1. CASE k = w[2]
      <4>1. m + 1 \in 1 .. m + 1 /\ \A j \in (m + 1) + 1 .. m + 1 : FALSE
        BY <2>1
      <4> QED
        BY <3>1, <4>1, <2>6 DEF w
    <3>2. CASE k # w[2]
      <4>1. k \in W(m)
        BY <3>2, <2>5
      <4>2. PICK i \in 1 .. m : /\ writes[i][2] = k /\ h[m].kv[k] = writes[i][3]
                                /\ \A j \in i + 1 .. m : writes[j][2] # k
        BY <2>3, <4>1
      <4>3. \A j \in i + 1 .. m + 1 : j \in i + 1 .. m \/ j = m + 1
        BY <2>1
      <4>4. \A j \in i + 1 .. m + 1 : writes[j][2] # k
        BY <3>2, <4>2, <4>3 DEF w
      <4>5. k \in DOMAIN h[m].kv \ {w[2]}
        <5> HIDE DEF W
        <5> QED
          BY <2>3, <4>1, <3>2
      <4>6. h[m + 1].kv[k] = h[m].kv[k]
        BY <2>6, <4>5
      <4>7. i \in 1 .. m + 1
        BY <2>1
      <4> QED
        BY <4>2, <4>4, <4>6, <4>7
    <3> QED
      BY <3>1, <3>2
  <2> QED
    <3> HIDE DEF W
    <3> QED
      BY <2>3, <2>5, <2>6, <2>7
<1> HIDE DEF T
<1>4. n \in T
  BY <1>2, <1>3, Induction
<1>5. Good(n)
  BY <1>4 DEF T
<1>6. Written(writes) = W(n)
  BY DEF Written
<1> HIDE DEF W
<1> QED
  BY <1>1, <1>5, <1>6 DEF OneByOne

(* Adding keeps the same keys; what a key holds depends on what it held.   *)
LEMMA AddAllIsStore ==
  ASSUME NEW store, IsStore(store), NEW n \in Nat, NEW writes, DOMAIN writes = 1 .. n,
         NEW valueType, valueType \notin {"set", "delete", "sum", "count"}
  PROVE  LET new == AddAll(store, writes, valueType) IN
         /\ IsStore(new)
         /\ DOMAIN new.kv = DOMAIN store.kv \cup Written(writes)
         /\ Keys(new) = Keys(store) \cup Written(writes)
         /\ \A k \in DOMAIN store.kv \ Written(writes) : new.kv[k] = store.kv[k]
<1>1. PICK h : /\ OneByOne(valueType, store, writes, n, h)
               /\ AddAll(store, writes, valueType) = h[n]
  BY AddAllSteps
<1> DEFINE W(m) == {writes[i][2] : i \in 1 .. m}
           Good(m) ==
             /\ IsStore(h[m])
             /\ DOMAIN h[m].kv = DOMAIN store.kv \cup W(m)
             /\ Keys(h[m]) = Keys(store) \cup W(m)
             /\ \A k \in DOMAIN store.kv \ W(m) : h[m].kv[k] = store.kv[k]
           T == {m \in Nat : m <= n => Good(m)}
<1>2. 0 \in T
  <2>1. W(0) = {}
    OBVIOUS
  <2> HIDE DEF W
  <2> QED
    BY <1>1, <2>1 DEF OneByOne
<1>3. ASSUME NEW m \in T
      PROVE  m + 1 \in T
  <2>1. m \in Nat
    OBVIOUS
  <2>2. SUFFICES ASSUME m + 1 <= n
                 PROVE  Good(m + 1)
    BY <2>1
  <2>3. Good(m)
    BY <2>1, <2>2
  <2> DEFINE w == writes[m + 1]
  <2>4. h[m + 1] = Put(h[m], w[1], w[2], Added(h[m], valueType, w[2], w[3]))
    <3>1. m + 1 \in 1 .. n /\ (m + 1) - 1 = m
      BY <2>1, <2>2
    <3>2. h[m + 1] = Step(valueType, h[(m + 1) - 1], w)
      BY <1>1, <3>1 DEF OneByOne
    <3> QED
      BY <3>1, <3>2 DEF Step
  <2>5. W(m + 1) = W(m) \cup {w[2]}
    <3>1. \A i : i \in 1 .. m + 1 <=> i \in 1 .. m \/ i = m + 1
      BY <2>1
    <3> QED
      BY <3>1
  <2> HIDE DEF w
  <2>6. /\ IsStore(h[m + 1])
        /\ DOMAIN h[m + 1].kv = DOMAIN h[m].kv \cup {w[2]}
        /\ Keys(h[m + 1]) = Keys(h[m]) \cup {w[2]}
        /\ \A k \in DOMAIN h[m].kv \ {w[2]} : h[m + 1].kv[k] = h[m].kv[k]
    BY <2>3, <2>4, PutIsStore
  <2> QED
    <3> HIDE DEF W
    <3> QED
      BY <2>3, <2>5, <2>6
<1> HIDE DEF T
<1>4. n \in T
  BY <1>2, <1>3, Induction
<1>5. Good(n)
  BY <1>4 DEF T
<1>6. Written(writes) = W(n)
  BY DEF Written
<1> HIDE DEF W
<1> QED
  BY <1>1, <1>5, <1>6

-----------------------------------------------------------------------------
(* delete_prefix: a fold over a finite set, in any order.                  *)
AnyOf(s) == CHOOSE x \in s : TRUE

IsDeletion(store, D, g) ==
  g = [s \in SUBSET D |-> IF s = {} THEN store ELSE DeleteKey(AnyOf(s), g[s \ {AnyOf(s)}])]

LEMMA DeletionUnfolds ==
  ASSUME NEW store, NEW D, \E g : IsDeletion(store, D, g)
  PROVE  \E g : IsDeletion(store, D, g) /\ FoldSet(DeleteKey, store, D) = g[D]
  BY DEF IsDeletion, AnyOf, FoldSet, MapThenFoldSet

LEMMA AnyIsIn ==
  ASSUME NEW D, IsFiniteSet(D), NEW s \in SUBSET D, s # {}
  PROVE  /\ AnyOf(s) \in s
         /\ IsFiniteSet(s) /\ Cardinality(s) \in Nat /\ Cardinality(s) # 0
         /\ Cardinality(s \ {AnyOf(s)}) = Cardinality(s) - 1
         /\ Cardinality(s \ {AnyOf(s)}) \in Nat
<1>1. AnyOf(s) \in s
  BY DEF AnyOf
<1>2. IsFiniteSet(s) /\ IsFiniteSet(s \ {AnyOf(s)})
  BY <1>1, FS_Subset
<1>3. Cardinality(s \ {AnyOf(s)}) = Cardinality(s) - 1
  BY <1>1, <1>2, FS_RemoveElement
<1>4. Cardinality(s \ {AnyOf(s)}) \in Nat /\ Cardinality(s) \in Nat
  BY <1>2, FS_CardinalityType
<1>5. Cardinality(s) # 0
  BY <1>3, <1>4
<1> QED
  BY <1>1, <1>2, <1>3, <1>4, <1>5

Small(D, k) == {s \in SUBSET D : Cardinality(s) <= k}

LEMMA DeletionExists ==
  ASSUME NEW store, NEW D, IsFiniteSet(D)
  PROVE  \E g : IsDeletion(store, D, g)
<1> DEFINE Partial(k, g) ==
             g = [s \in Small(D, k) |->
                    IF s = {} THEN store ELSE DeleteKey(AnyOf(s), g[s \ {AnyOf(s)}])]
           T == {k \in Nat : \E g : Partial(k, g)}
<1>1. 0 \in T
  <2> DEFINE g == [s \in Small(D, 0) |-> store]
  <2>1. ASSUME NEW s \in Small(D, 0)
        PROVE  s = {}
    <3>1. s \in SUBSET D /\ Cardinality(s) <= 0
      BY DEF Small
    <3>2. s # {} => Cardinality(s) \in Nat /\ Cardinality(s) # 0
      BY <3>1, AnyIsIn
    <3> QED
      BY <3>1, <3>2
  <2>2. Partial(0, g)
    BY <2>1
  <2> QED
    BY <2>2
<1>2. ASSUME NEW k \in T
      PROVE  k + 1 \in T
  <2>1. k \in Nat
    OBVIOUS
  <2>2. PICK g : Partial(k, g)
    OBVIOUS
  <2> DEFINE f == [s \in Small(D, k + 1) |->
                     IF Cardinality(s) <= k THEN g[s]
                     ELSE DeleteKey(AnyOf(s), g[s \ {AnyOf(s)}])]
  <2>3. ASSUME NEW s \in Small(D, k + 1), s # {}
        PROVE  s \ {AnyOf(s)} \in Small(D, k) /\ s \ {AnyOf(s)} \in Small(D, k + 1)
    <3>1. s \in SUBSET D /\ Cardinality(s) <= k + 1 /\ s \ {AnyOf(s)} \in SUBSET D
      BY DEF Small
    <3>2. /\ Cardinality(s \ {AnyOf(s)}) = Cardinality(s) - 1
          /\ Cardinality(s) \in Nat
      BY <2>3, <3>1, AnyIsIn
    <3> QED
      BY <2>1, <3>1, <3>2 DEF Small
  <2>4. ASSUME NEW s \in Small(D, k + 1)
        PROVE  f[s] = IF s = {} THEN store ELSE DeleteKey(AnyOf(s), f[s \ {AnyOf(s)}])
    <3>1. CASE s = {}
      <4>1. Cardinality(s) <= k /\ s \in Small(D, k)
        BY <2>1, <3>1, FS_EmptySet DEF Small
      <4>2. f[s] = g[s] /\ g[s] = store
        BY <2>2, <3>1, <4>1
      <4> QED
        BY <3>1, <4>2
    <3>2. CASE s # {}
      <4>1. /\ s \ {AnyOf(s)} \in Small(D, k) /\ s \ {AnyOf(s)} \in Small(D, k + 1)
            /\ Cardinality(s \ {AnyOf(s)}) <= k
        BY <2>3, <3>2 DEF Small
      <4>2. f[s \ {AnyOf(s)}] = g[s \ {AnyOf(s)}]
        BY <4>1
      <4>3. CASE Cardinality(s) <= k
        <5>1. s \in Small(D, k)
          BY <4>3 DEF Small
        <5>2. f[s] = g[s]
          BY <4>3
        <5>3. g[s] = DeleteKey(AnyOf(s), g[s \ {AnyOf(s)}])
          BY <2>2, <3>2, <5>1
        <5> QED
          BY <3>2, <4>2, <5>2, <5>3
      <4>4. CASE ~(Cardinality(s) <= k)
        BY <3>2, <4>2, <4>4
      <4> QED
        BY <4>3, <4>4
    <3> QED
      BY <3>1, <3>2
  <2>5. Partial(k + 1, f)
    <3>1. f = [s \in Small(D, k + 1) |-> f[s]]
      OBVIOUS
    <3> HIDE DEF f
    <3> QED
      BY <2>4, <3>1
  <2>6. k + 1 \in Nat
    BY <2>1
  <2> HIDE DEF f, Partial
  <2> QED
    BY <2>5, <2>6
<1>3. Cardinality(D) \in Nat
  BY FS_CardinalityType
<1> HIDE DEF T
<1>4. Cardinality(D) \in T
  BY <1>1, <1>2, <1>3, Induction
<1>5. Small(D, Cardinality(D)) = SUBSET D
  BY FS_Subset DEF Small
<1>6. PICK g : Partial(Cardinality(D), g)
  BY <1>4 DEF T
<1>7. IsDeletion(store, D, g)
  BY <1>5, <1>6 DEF IsDeletion
<1> QED
  BY <1>7

LEMMA DeletionIsStore ==
  ASSUME NEW store, IsStore(store), NEW D \in SUBSET DOMAIN store.kv
  PROVE  LET new == FoldSet(DeleteKey, store, D) IN
         /\ IsStore(new)
         /\ DOMAIN new.kv = DOMAIN store.kv \ D
         /\ Keys(new) \subseteq Keys(store)
         /\ \A k \in DOMAIN store.kv \ D : new.kv[k] = store.kv[k]
<1>1. IsFiniteSet(D)
  BY FS_Subset DEF IsStore
<1>2. PICK g : IsDeletion(store, D, g) /\ FoldSet(DeleteKey, store, D) = g[D]
  BY <1>1, DeletionExists, DeletionUnfolds
<1> DEFINE Good(s) ==
             /\ IsStore(g[s])
             /\ DOMAIN g[s].kv = DOMAIN store.kv \ s
             /\ Keys(g[s]) \subseteq Keys(store)
             /\ \A k \in DOMAIN store.kv \ s : g[s].kv[k] = store.kv[k]
           T == {k \in Nat : \A s \in Small(D, k) : Good(s)}
<1>3. Good({})
  <2>1. {} \in SUBSET D
    OBVIOUS
  <2>2. g[{}] = store
    BY <1>2, <2>1 DEF IsDeletion
  <2> QED
    BY <2>2
<1>4. ASSUME NEW s \in SUBSET D, s # {}, Good(s \ {AnyOf(s)})
      PROVE  Good(s)
  <2>1. AnyOf(s) \in s /\ s \ {AnyOf(s)} \in SUBSET D
    BY <1>1, <1>4, AnyIsIn
  <2>2. g[s] = DeleteKey(AnyOf(s), g[s \ {AnyOf(s)}])
    BY <1>2, <1>4 DEF IsDeletion
  <2>3. AnyOf(s) \in DOMAIN g[s \ {AnyOf(s)}].kv
    BY <1>4, <2>1
  <2> DEFINE before == g[s \ {AnyOf(s)}]
             a == AnyOf(s)
  <2>7. IsStore(before) /\ a \in DOMAIN before.kv /\ g[s] = DeleteKey(a, before)
    BY <1>4, <2>2, <2>3
  <2>8. /\ IsStore(g[s])
        /\ DOMAIN g[s].kv = DOMAIN before.kv \ {a}
        /\ Keys(g[s]) \subseteq Keys(before)
        /\ \A k \in DOMAIN before.kv \ {a} : g[s].kv[k] = before.kv[k]
    <3> HIDE DEF before, a
    <3> QED
      BY <2>7, DeleteKeyIsStore
  <2>4. /\ IsStore(g[s])
        /\ DOMAIN g[s].kv = DOMAIN g[s \ {AnyOf(s)}].kv \ {AnyOf(s)}
        /\ Keys(g[s]) \subseteq Keys(g[s \ {AnyOf(s)}])
        /\ \A k \in DOMAIN g[s \ {AnyOf(s)}].kv \ {AnyOf(s)} :
             g[s].kv[k] = g[s \ {AnyOf(s)}].kv[k]
    BY <2>8
  <2>5. DOMAIN g[s].kv = DOMAIN store.kv \ s
    BY <1>4, <2>1, <2>4
  <2>6. \A k \in DOMAIN store.kv \ s : g[s].kv[k] = store.kv[k]
    BY <1>4, <2>1, <2>4
  <2> QED
    BY <1>4, <2>4, <2>5, <2>6
<1> HIDE DEF Good
<1>5. 0 \in T
  <2>1. ASSUME NEW s \in Small(D, 0)
        PROVE  s = {}
    <3>1. s \in SUBSET D /\ Cardinality(s) <= 0
      BY DEF Small
    <3>2. s # {} => Cardinality(s) \in Nat /\ Cardinality(s) # 0
      BY <1>1, <3>1, AnyIsIn
    <3> QED
      BY <3>1, <3>2
  <2> QED
    BY <1>3, <2>1
<1>6. ASSUME NEW k \in T
      PROVE  k + 1 \in T
  <2>1. k \in Nat /\ \A s \in Small(D, k) : Good(s)
    OBVIOUS
  <2>2. ASSUME NEW s \in Small(D, k + 1)
        PROVE  Good(s)
    <3>1. CASE s = {}
      BY <1>3, <3>1
    <3>2. CASE s # {}
      <4>1. s \in SUBSET D /\ Cardinality(s) <= k + 1 /\ s \ {AnyOf(s)} \in SUBSET D
        BY DEF Small
      <4>2. Cardinality(s \ {AnyOf(s)}) = Cardinality(s) - 1 /\ Cardinality(s) \in Nat
        BY <1>1, <3>2, <4>1, AnyIsIn
      <4>3. s \ {AnyOf(s)} \in Small(D, k)
        BY <2>1, <4>1, <4>2 DEF Small
      <4> QED
        BY <1>4, <2>1, <3>2, <4>1, <4>3
    <3> QED
      BY <3>1, <3>2
  <2> QED
    BY <2>1, <2>2
<1>7. Cardinality(D) \in Nat
  BY <1>1, FS_CardinalityType
<1> HIDE DEF T
<1>8. Cardinality(D) \in T
  BY <1>5, <1>6, <1>7, Induction
<1>9. D \in Small(D, Cardinality(D))
  BY <1>7 DEF Small
<1>10. Good(D)
  BY <1>8, <1>9 DEF T
<1> QED
  BY <1>2, <1>10 DEF Good

(* The keys that delete_prefix takes away.                                 *)
HasPrefix(k, p) == k[1] = p[1] /\ k[2] = p[2]

Without(p, store, new) ==
  /\ IsStore(new)
  /\ \A k : k \in DOMAIN new.kv <=> k \in DOMAIN store.kv /\ ~HasPrefix(k, p)
  /\ Keys(new) \subseteq Keys(store)
  /\ \A k \in DOMAIN new.kv : new.kv[k] = store.kv[k]

LEMMA DeletePrefixIsStore ==
  ASSUME NEW store, IsStore(store), NEW p
  PROVE  Without(p, store, DeletePrefix(store, p[1], p[2]))
<1> DEFINE D == {k \in DOMAIN store.kv : k[1] = p[1] /\ k[2] = p[2]}
           new == DeletePrefix(store, p[1], p[2])
<1>1. D \in SUBSET DOMAIN store.kv
  OBVIOUS
<1>2. new = FoldSet(DeleteKey, store, D)
  BY DEF DeletePrefix
<1>3. \A k : k \in DOMAIN store.kv \ D <=> k \in DOMAIN store.kv /\ ~HasPrefix(k, p)
  BY DEF HasPrefix
<1> HIDE DEF D, new
<1>4. /\ IsStore(new)
      /\ DOMAIN new.kv = DOMAIN store.kv \ D
      /\ Keys(new) \subseteq Keys(store)
      /\ \A k \in DOMAIN store.kv \ D : new.kv[k] = store.kv[k]
  BY <1>1, <1>2, DeletionIsStore
<1> QED
  BY <1>3, <1>4 DEF Without, new

LEMMA DeletePrefixesIsStore ==
  ASSUME NEW store, IsStore(store), NEW n \in Nat, NEW prefixes, DOMAIN prefixes = 1 .. n
  PROVE  LET new == DeletePrefixes(store, prefixes) IN
         /\ IsStore(new)
         /\ \A k : k \in DOMAIN new.kv <=>
                  k \in DOMAIN store.kv /\ \A i \in 1 .. n : ~HasPrefix(k, prefixes[i])
         /\ Keys(new) \subseteq Keys(store)
         /\ \A k \in DOMAIN new.kv : new.kv[k] = store.kv[k]
<1>1. PICK h : /\ OneByOne("delete", store, prefixes, n, h)
               /\ DeletePrefixes(store, prefixes) = h[n]
  BY DeletePrefixesSteps
<1> DEFINE Left(m) == {k \in DOMAIN store.kv : \A i \in 1 .. m : ~HasPrefix(k, prefixes[i])}
           Good(m) ==
             /\ IsStore(h[m])
             /\ DOMAIN h[m].kv = Left(m)
             /\ Keys(h[m]) \subseteq Keys(store)
             /\ \A k \in Left(m) : h[m].kv[k] = store.kv[k]
           T == {m \in Nat : m <= n => Good(m)}
<1>2. 0 \in T
  <2>1. Left(0) = DOMAIN store.kv
    OBVIOUS
  <2> HIDE DEF Left
  <2> QED
    BY <1>1, <2>1 DEF OneByOne
<1>3. ASSUME NEW m \in T
      PROVE  m + 1 \in T
  <2>1. m \in Nat
    OBVIOUS
  <2>2. SUFFICES ASSUME m + 1 <= n
                 PROVE  Good(m + 1)
    BY <2>1
  <2>3. Good(m)
    BY <2>1, <2>2
  <2> DEFINE p == prefixes[m + 1]
  <2>4. h[m + 1] = DeletePrefix(h[m], p[1], p[2])
    <3>1. m + 1 \in 1 .. n /\ (m + 1) - 1 = m
      BY <2>1, <2>2
    <3>2. h[m + 1] = Step("delete", h[(m + 1) - 1], p)
      BY <1>1, <3>1 DEF OneByOne
    <3> QED
      BY <3>1, <3>2 DEF Step
  <2>5. \A k : k \in Left(m + 1) <=> k \in Left(m) /\ ~HasPrefix(k, p)
    <3>1. \A i : i \in 1 .. m + 1 <=> i \in 1 .. m \/ i = m + 1
      BY <2>1
    <3> QED
      BY <3>1
  <2> HIDE DEF p
  <2>8. IsStore(h[m])
    BY <2>3
  <2>9. Without(p, h[m], h[m + 1])
    <3> HIDE DEF Left, Good
    <3> QED
      BY <2>8, <2>4, DeletePrefixIsStore
  <2>6. /\ IsStore(h[m + 1])
        /\ \A k : k \in DOMAIN h[m + 1].kv <=> k \in DOMAIN h[m].kv /\ ~HasPrefix(k, p)
        /\ Keys(h[m + 1]) \subseteq Keys(h[m])
        /\ \A k \in DOMAIN h[m + 1].kv : h[m + 1].kv[k] = h[m].kv[k]
    <3> HIDE DEF Left, Good
    <3> QED
      BY <2>9 DEF Without
  <2> HIDE DEF Left
  <2>7. DOMAIN h[m + 1].kv = Left(m + 1)
    BY <2>3, <2>5, <2>6
  <2> QED
    BY <2>3, <2>5, <2>6, <2>7
<1> HIDE DEF T
<1>4. n \in T
  BY <1>2, <1>3, Induction
<1>5. Good(n)
  BY <1>4 DEF T
<1> QED
  BY <1>1, <1>5

-----------------------------------------------------------------------------
(* Sequences that are put together from others.                            *)
IsFlatten(seqs, n, f) ==
  f = [i \in 1 .. n |-> IF i = 1 THEN seqs[i] ELSE f[i - 1] \o seqs[i]]

LEMMA FlattenExists ==
  ASSUME NEW seqs, NEW n \in Nat
  PROVE  \E f : IsFlatten(seqs, n, f)
<1> DEFINE T == {k \in Nat : \E f : IsFlatten(seqs, k, f)}
<1>1. 0 \in T
  <2> DEFINE f == [i \in 1 .. 0 |-> <<>>]
  <2>1. f = [i \in 1 .. 0 |-> IF i = 1 THEN seqs[i] ELSE f[i - 1] \o seqs[i]]
    OBVIOUS
  <2>2. IsFlatten(seqs, 0, f)
    BY <2>1 DEF IsFlatten
  <2> HIDE DEF f
  <2> QED
    BY <2>2
<1>2. ASSUME NEW k \in T
      PROVE  k + 1 \in T
  <2>1. k \in Nat
    OBVIOUS
  <2>2. PICK g : IsFlatten(seqs, k, g)
    OBVIOUS
  <2> DEFINE f == [i \in 1 .. k + 1 |->
                     IF i \in 1 .. k THEN g[i]
                     ELSE IF i = 1 THEN seqs[i] ELSE g[i - 1] \o seqs[i]]
  <2>3. ASSUME NEW i \in 1 .. k + 1
        PROVE  f[i] = IF i = 1 THEN seqs[i] ELSE f[i - 1] \o seqs[i]
    <3>1. i \in 1 .. k => g[i] = IF i = 1 THEN seqs[i] ELSE g[i - 1] \o seqs[i]
      BY <2>2 DEF IsFlatten
    <3>2. i # 1 => i - 1 \in 1 .. k /\ i - 1 \in 1 .. k + 1
      BY <2>1
    <3> QED
      BY <3>1, <3>2
  <2>4. f = [i \in 1 .. k + 1 |-> f[i]]
    OBVIOUS
  <2> HIDE DEF f
  <2>5. IsFlatten(seqs, k + 1, f)
    BY <2>3, <2>4 DEF IsFlatten
  <2> QED
    BY <2>1, <2>5
<1> HIDE DEF T
<1>3. n \in T
  BY <1>1, <1>2, Induction
<1> QED
  BY <1>3 DEF T

(* The part before i, and after it.                                        *)
PartByPart(seqs, n, f) ==
  /\ 1 <= n => f[1] = seqs[1]
  /\ \A i \in 2 .. n : f[i] = f[i - 1] \o seqs[i]

LEMMA FlattenUnfold ==
  ASSUME NEW n \in Nat, n # 0, NEW seqs, Len(seqs) = n, \E f : IsFlatten(seqs, n, f)
  PROVE  \E f : IsFlatten(seqs, n, f) /\ FlattenSeq(seqs) = f[n]
  BY DEF IsFlatten, FlattenSeq

LEMMA FlattenParts ==
  ASSUME NEW n \in Nat, n # 0, NEW seqs, Len(seqs) = n
  PROVE  \E f : PartByPart(seqs, n, f) /\ FlattenSeq(seqs) = f[n]
<1>1. PICK f : IsFlatten(seqs, n, f) /\ FlattenSeq(seqs) = f[n]
  BY FlattenExists, FlattenUnfold
<1>2. \A i \in 1 .. n : f[i] = IF i = 1 THEN seqs[i] ELSE f[i - 1] \o seqs[i]
  BY <1>1 DEF IsFlatten
<1>3. 1 <= n => f[1] = seqs[1]
  BY <1>2
<1>4. ASSUME NEW i \in 2 .. n
      PROVE  f[i] = f[i - 1] \o seqs[i]
  <2>1. i \in 1 .. n /\ i # 1
    OBVIOUS
  <2> QED
    BY <1>2, <2>1
<1>5. PartByPart(seqs, n, f)
  BY <1>3, <1>4 DEF PartByPart
<1> QED
  BY <1>1, <1>5

(* The elements are those of the parts.                                    *)
LEMMA FlattenIsSeq ==
  ASSUME NEW S, NEW n \in Nat, NEW seqs, seqs \in [1 .. n -> Seq(S)]
  PROVE  FlattenSeq(seqs) \in Seq(S)
<1>1. Len(seqs) = n /\ seqs \in Seq(Seq(S))
  OBVIOUS
<1>2. CASE n = 0
  <2>1. seqs = <<>>
    BY <1>1, <1>2
  <2>2. FlattenSeq(seqs) = seqs
    BY <1>1, <1>2 DEF FlattenSeq
  <2>3. <<>> \in Seq(S)
    OBVIOUS
  <2> QED
    BY <2>1, <2>2, <2>3, Zenon
<1>3. CASE n # 0
  <2>1. PICK f : PartByPart(seqs, n, f) /\ FlattenSeq(seqs) = f[n]
    BY <1>1, <1>3, FlattenParts
  <2> DEFINE T == {m \in Nat : m + 1 <= n => f[m + 1] \in Seq(S)}
  <2>2. 0 \in T
    BY <2>1, <1>3 DEF PartByPart
  <2>3. ASSUME NEW m \in T
        PROVE  m + 1 \in T
    <3>1. m \in Nat
      OBVIOUS
    <3>2. SUFFICES ASSUME (m + 1) + 1 <= n
                   PROVE  f[(m + 1) + 1] \in Seq(S)
      BY <3>1
    <3>3. f[m + 1] \in Seq(S)
      BY <3>1, <3>2
    <3>4. (m + 1) + 1 \in 2 .. n /\ ((m + 1) + 1) - 1 = m + 1
      BY <3>1, <3>2
    <3>5. f[(m + 1) + 1] = f[m + 1] \o seqs[(m + 1) + 1]
      BY <2>1, <3>4 DEF PartByPart
    <3>6. seqs[(m + 1) + 1] \in Seq(S)
      BY <3>4
    <3> QED
      BY <3>3, <3>5, <3>6, ConcatProperties
  <2> HIDE DEF T
  <2>4. n - 1 \in T
    BY <1>3, <2>2, <2>3, Induction
  <2> QED
    BY <1>3, <2>1, <2>4 DEF T
<1> QED
  BY <1>2, <1>3

-----------------------------------------------------------------------------
(* Lists: sequences of whatever they have for elements.                    *)
IsList(s) == s \in Seq(ToSet(s))

(* The elements of s are x(1), ..., x(n).                                  *)
HasLength(s, n) == n \in Nat /\ Len(s) = n /\ DOMAIN s = 1 .. n /\ s = [i \in 1 .. n |-> s[i]]

LEMMA ListHasLength ==
  ASSUME NEW s, IsList(s)
  PROVE  HasLength(s, Len(s))
<1> DEFINE S == ToSet(s)
<1>1. s \in Seq(S)
  BY DEF IsList
<1> HIDE DEF S
<1>2. Len(s) \in Nat /\ s \in [1 .. Len(s) -> S] /\ DOMAIN s = 1 .. Len(s)
  BY <1>1, LenProperties
<1>3. s = [i \in 1 .. Len(s) |-> s[i]]
  BY <1>2
<1> QED
  BY <1>2, <1>3 DEF HasLength

LEMMA FunctionIsList ==
  ASSUME NEW s, NEW n \in Nat, s = [i \in 1 .. n |-> s[i]]
  PROVE  IsList(s) /\ Len(s) = n
<1> DEFINE S == ToSet(s)
<1>1. DOMAIN s = 1 .. n
  OBVIOUS
<1>2. \A i \in 1 .. n : s[i] \in S
  BY <1>1 DEF ToSet
<1> HIDE DEF S
<1>3. s \in [1 .. n -> S]
  BY <1>2
<1>4. s \in Seq(S) /\ Len(s) = n
  BY <1>3
<1> QED
  BY <1>4 DEF IsList, S

LEMMA SeqIsList ==
  ASSUME NEW S, NEW s \in Seq(S)
  PROVE  IsList(s) /\ ToSet(s) \subseteq S /\ \A i \in DOMAIN s : s[i] \in S
<1>1. Len(s) \in Nat /\ s \in [1 .. Len(s) -> S] /\ DOMAIN s = 1 .. Len(s)
  BY LenProperties
<1>2. s = [i \in 1 .. Len(s) |-> s[i]] /\ \A i \in 1 .. Len(s) : s[i] \in S
  BY <1>1
<1>3. IsList(s)
  BY <1>1, <1>2, FunctionIsList
<1>4. ToSet(s) \subseteq S
  BY <1>1, <1>2 DEF ToSet
<1> QED
  BY <1>1, <1>2, <1>3, <1>4

LEMMA EmptyIsList == IsList(<<>>) /\ ToSet(<<>>) = {} /\ DOMAIN <<>> = {} /\ Len(<<>>) = 0
<1>1. DOMAIN <<>> = {} /\ <<>> \in Seq({}) /\ Len(<<>>) = 0
  OBVIOUS
<1>2. ToSet(<<>>) = {}
  BY <1>1 DEF ToSet
<1> QED
  BY <1>1, <1>2 DEF IsList

(* What is computed from each element of a list is a list.                 *)
LEMMA ImageIsList ==
  ASSUME NEW s, IsList(s), NEW f, f = [i \in DOMAIN s |-> f[i]]
  PROVE  IsList(f) /\ Len(f) = Len(s) /\ DOMAIN f = DOMAIN s
<1>1. HasLength(s, Len(s))
  BY ListHasLength
<1>2. Len(s) \in Nat /\ DOMAIN s = 1 .. Len(s)
  BY <1>1 DEF HasLength
<1>3. f = [i \in 1 .. Len(s) |-> f[i]]
  BY <1>2
<1>4. IsList(f) /\ Len(f) = Len(s)
  BY <1>2, <1>3, FunctionIsList
<1> QED
  BY <1>2, <1>3, <1>4

(* The rest of a list has the elements of the list but for the first.      *)
LEMMA TailOfList ==
  ASSUME NEW s, IsList(s), s # <<>>
  PROVE  /\ IsList(Tail(s))
         /\ Len(Tail(s)) = Len(s) - 1 /\ Len(s) - 1 \in Nat
         /\ Head(s) = s[1]
         /\ \A i \in 1 .. Len(s) - 1 : Tail(s)[i] = s[i + 1]
         /\ ToSet(s) = {Head(s)} \cup ToSet(Tail(s))
<1> DEFINE S == ToSet(s)
<1>1. s \in Seq(S)
  BY DEF IsList
<1>2. DOMAIN s = 1 .. Len(s) /\ Len(s) \in Nat
  BY ListHasLength DEF HasLength
<1> HIDE DEF S
<1>3. /\ Tail(s) \in Seq(S) /\ Len(Tail(s)) = Len(s) - 1
      /\ \A i \in 1 .. Len(Tail(s)) : Tail(s)[i] = s[i + 1]
  BY <1>1, HeadTailProperties
<1>4. IsList(Tail(s)) /\ DOMAIN Tail(s) = 1 .. Len(s) - 1 /\ Len(s) - 1 \in Nat
  <2>1. IsList(Tail(s))
    BY <1>3, SeqIsList
  <2>2. HasLength(Tail(s), Len(s) - 1)
    BY <1>3, <2>1, ListHasLength
  <2> QED
    BY <2>1, <2>2 DEF HasLength
<1>5. Head(s) = s[1]
  BY <1>1
<1>6. ASSUME NEW x
      PROVE  x \in ToSet(s) <=> x = Head(s) \/ x \in ToSet(Tail(s))
  <2>1. x \in ToSet(s) <=> \E i \in 1 .. Len(s) : x = s[i]
    BY <1>2 DEF ToSet
  <2>2. x \in ToSet(Tail(s)) <=> \E i \in 1 .. Len(s) - 1 : x = s[i + 1]
    BY <1>3, <1>4 DEF ToSet
  <2>3. ASSUME NEW i \in 1 .. Len(s), i # 1, x = s[i]
        PROVE  \E j \in 1 .. Len(s) - 1 : x = s[j + 1]
    <3>1. i - 1 \in 1 .. Len(s) - 1 /\ (i - 1) + 1 = i
      BY <1>2, <2>3
    <3> QED
      BY <2>3, <3>1
  <2>4. (\E i \in 1 .. Len(s) : x = s[i]) => x = s[1] \/ \E i \in 1 .. Len(s) - 1 : x = s[i + 1]
    BY <2>3
  <2>5. 1 \in 1 .. Len(s) /\ \A j \in 1 .. Len(s) - 1 : j + 1 \in 1 .. Len(s)
    BY <1>2, <1>4
  <2> QED
    BY <1>5, <2>1, <2>2, <2>4, <2>5
<1> QED
  BY <1>3, <1>4, <1>5, <1>6

LEMMA AppendToList ==
  ASSUME NEW s, IsList(s), NEW e
  PROVE  /\ IsList(Append(s, e))
         /\ Len(Append(s, e)) = Len(s) + 1
         /\ DOMAIN Append(s, e) = 1 .. Len(s) + 1
         /\ \A i \in 1 .. Len(s) : Append(s, e)[i] = s[i]
         /\ Append(s, e)[Len(s) + 1] = e
         /\ ToSet(Append(s, e)) = ToSet(s) \cup {e}
<1> DEFINE S == ToSet(s) \cup {e}
           t == Append(s, e)
<1>1. s \in Seq(S) /\ e \in S
  <2>1. ToSet(s) \subseteq S /\ e \in S
    OBVIOUS
  <2> HIDE DEF S
  <2> QED
    BY <2>1, SeqMonotonic DEF IsList
<1>2. Len(s) \in Nat /\ DOMAIN s = 1 .. Len(s)
  BY ListHasLength DEF HasLength
<1>3. /\ t \in Seq(S) /\ Len(t) = Len(s) + 1
      /\ \A i \in 1 .. Len(s) : t[i] = s[i]
      /\ t[Len(s) + 1] = e
  <2> HIDE DEF S
  <2> QED
    BY <1>1, AppendProperties
<1> HIDE DEF S, t
<1>4. IsList(t) /\ HasLength(t, Len(s) + 1)
  <2>1. IsList(t)
    BY <1>3, SeqIsList
  <2> QED
    BY <1>3, <2>1, ListHasLength
<1>5. DOMAIN t = 1 .. Len(s) + 1
  BY <1>4 DEF HasLength
<1>6. ToSet(t) = ToSet(s) \cup {e}
  <2>1. \A i : i \in 1 .. Len(s) + 1 <=> i \in 1 .. Len(s) \/ i = Len(s) + 1
    BY <1>2
  <2> QED
    BY <1>2, <1>3, <1>5, <2>1 DEF ToSet
<1> QED
  BY <1>3, <1>4, <1>5, <1>6 DEF t

LEMMA ConcatOfLists ==
  ASSUME NEW s, IsList(s), NEW t, IsList(t)
  PROVE  /\ IsList(s \o t)
         /\ Len(s \o t) = Len(s) + Len(t)
         /\ DOMAIN (s \o t) = 1 .. Len(s) + Len(t)
         /\ \A i \in 1 .. Len(s) : (s \o t)[i] = s[i]
         /\ \A i \in 1 .. Len(t) : (s \o t)[Len(s) + i] = t[i]
         /\ ToSet(s \o t) = ToSet(s) \cup ToSet(t)
<1> DEFINE S == ToSet(s) \cup ToSet(t)
           u == s \o t
<1>1. s \in Seq(S) /\ t \in Seq(S)
  <2>1. ToSet(s) \subseteq S /\ ToSet(t) \subseteq S
    OBVIOUS
  <2> HIDE DEF S
  <2> QED
    BY <2>1, SeqMonotonic DEF IsList
<1>2. /\ Len(s) \in Nat /\ DOMAIN s = 1 .. Len(s)
      /\ Len(t) \in Nat /\ DOMAIN t = 1 .. Len(t)
  BY ListHasLength DEF HasLength
<1>3. /\ u \in Seq(S) /\ Len(u) = Len(s) + Len(t)
      /\ \A i \in 1 .. Len(s) + Len(t) : u[i] = IF i <= Len(s) THEN s[i] ELSE t[i - Len(s)]
  <2> HIDE DEF S
  <2> QED
    BY <1>1, ConcatProperties
<1> HIDE DEF S, u
<1>4. IsList(u) /\ DOMAIN u = 1 .. Len(s) + Len(t)
  <2>1. IsList(u)
    BY <1>3, SeqIsList
  <2> QED
    BY <1>3, <2>1, ListHasLength DEF HasLength
<1>5. \A i \in 1 .. Len(s) : i \in 1 .. Len(s) + Len(t) /\ u[i] = s[i]
  BY <1>2, <1>3
<1>6. \A i \in 1 .. Len(t) : Len(s) + i \in 1 .. Len(s) + Len(t) /\ u[Len(s) + i] = t[i]
  BY <1>2, <1>3
<1>7. \A i \in 1 .. Len(s) + Len(t) :
        \/ i \in 1 .. Len(s) /\ u[i] = s[i]
        \/ i - Len(s) \in 1 .. Len(t) /\ u[i] = t[i - Len(s)]
  BY <1>2, <1>3
<1>8. ToSet(u) = ToSet(s) \cup ToSet(t)
  <2>1. ASSUME NEW x \in ToSet(s)
        PROVE  x \in ToSet(u)
    <3>1. PICK i \in 1 .. Len(s) : x = s[i]
      BY <1>2 DEF ToSet
    <3> QED
      BY <1>4, <1>5, <3>1 DEF ToSet
  <2>2. ASSUME NEW x \in ToSet(t)
        PROVE  x \in ToSet(u)
    <3>1. PICK i \in 1 .. Len(t) : x = t[i]
      BY <1>2 DEF ToSet
    <3> QED
      BY <1>4, <1>6, <3>1 DEF ToSet
  <2>3. ASSUME NEW x \in ToSet(u)
        PROVE  x \in ToSet(s) \cup ToSet(t)
    <3>1. PICK i \in 1 .. Len(s) + Len(t) : x = u[i]
      BY <1>4 DEF ToSet
    <3> QED
      BY <1>2, <1>7, <3>1 DEF ToSet
  <2> QED
    BY <2>1, <2>2, <2>3
<1> QED
  BY <1>3, <1>4, <1>5, <1>6, <1>8 DEF u

(* The lists in a list, one after the other.                               *)
LEMMA FlattenHasAll ==
  ASSUME NEW seqs, IsList(seqs), \A i \in DOMAIN seqs : IsList(seqs[i])
  PROVE  \A i \in DOMAIN seqs : ToSet(seqs[i]) \subseteq ToSet(FlattenSeq(seqs))
<1> DEFINE n == Len(seqs)
<1>1. n \in Nat /\ DOMAIN seqs = 1 .. n
  BY ListHasLength DEF HasLength
<1> SUFFICES ASSUME n # 0
             PROVE  \A i \in DOMAIN seqs : ToSet(seqs[i]) \subseteq ToSet(FlattenSeq(seqs))
  BY <1>1
<1>2. PICK f : PartByPart(seqs, n, f) /\ FlattenSeq(seqs) = f[n]
  BY <1>1, FlattenParts
<1> DEFINE Good(m) == IsList(f[m]) /\ \A i \in 1 .. m : ToSet(seqs[i]) \subseteq ToSet(f[m])
           T == {m \in Nat : m + 1 <= n => Good(m + 1)}
<1> HIDE DEF n
<1>3. 0 \in T
  <2>1. f[1] = seqs[1] /\ 1 \in DOMAIN seqs
    BY <1>1, <1>2 DEF PartByPart
  <2>2. Good(1)
    BY <2>1
  <2> HIDE DEF Good
  <2> QED
    BY <2>2
<1>4. ASSUME NEW m \in T
      PROVE  m + 1 \in T
  <2>1. m \in Nat
    OBVIOUS
  <2>2. SUFFICES ASSUME (m + 1) + 1 <= n
                 PROVE  Good((m + 1) + 1)
    BY <2>1
  <2> DEFINE k == (m + 1) + 1
  <2>3. Good(m + 1)
    <3>1. m + 1 <= n
      BY <1>1, <2>1, <2>2
    <3> HIDE DEF Good
    <3> QED
      BY <3>1
  <2>4. k \in 2 .. n /\ k - 1 = m + 1 /\ k \in 1 .. n
    BY <1>1, <2>1, <2>2
  <2>5. \A i \in 1 .. k : i \in 1 .. m + 1 \/ i = k
    BY <2>1
  <2> HIDE DEF k
  <2>6. f[k] = f[k - 1] \o seqs[k]
    BY <1>2, <2>4 DEF PartByPart
  <2>7. IsList(f[k]) /\ ToSet(f[k]) = ToSet(f[m + 1]) \cup ToSet(seqs[k])
    <3>1. f[k] = f[m + 1] \o seqs[k]
      BY <2>4, <2>6
    <3>2. IsList(f[m + 1]) /\ IsList(seqs[k])
      BY <1>1, <2>3, <2>4
    <3> HIDE DEF Good
    <3>3. /\ IsList(f[m + 1] \o seqs[k])
          /\ ToSet(f[m + 1] \o seqs[k]) = ToSet(f[m + 1]) \cup ToSet(seqs[k])
      BY <3>2, ConcatOfLists
    <3> HIDE DEF T
    <3> QED
      BY <3>1, <3>3, Zenon
  <2>8. Good(k)
    BY <2>3, <2>5, <2>7
  <2> QED
    BY <2>8 DEF k
<1> HIDE DEF T
<1>5. n - 1 \in T /\ (n - 1) + 1 = n
  BY <1>1, <1>3, <1>4, Induction
<1>6. Good(n)
  BY <1>1, <1>5 DEF T
<1> QED
  BY <1>1, <1>2, <1>6

LEMMA FlattenOfLists ==
  ASSUME NEW seqs, IsList(seqs), \A i \in DOMAIN seqs : IsList(seqs[i])
  PROVE  /\ IsList(FlattenSeq(seqs))
         /\ \A x \in ToSet(FlattenSeq(seqs)) : \E i \in DOMAIN seqs : x \in ToSet(seqs[i])
         /\ \A i \in DOMAIN seqs : ToSet(seqs[i]) \subseteq ToSet(FlattenSeq(seqs))
<1> DEFINE S == UNION {ToSet(seqs[i]) : i \in DOMAIN seqs}
<1>1. Len(seqs) \in Nat /\ DOMAIN seqs = 1 .. Len(seqs)
      /\ seqs = [i \in 1 .. Len(seqs) |-> seqs[i]]
  BY ListHasLength DEF HasLength
<1>2. ASSUME NEW i \in 1 .. Len(seqs)
      PROVE  seqs[i] \in Seq(S)
  <2>1. ToSet(seqs[i]) \subseteq S
    BY <1>1
  <2>2. seqs[i] \in Seq(ToSet(seqs[i]))
    BY <1>1 DEF IsList
  <2> HIDE DEF S
  <2> QED
    BY <2>1, <2>2, SeqMonotonic
<1> HIDE DEF S
<1>3. seqs \in [1 .. Len(seqs) -> Seq(S)]
  BY <1>1, <1>2
<1>4. FlattenSeq(seqs) \in Seq(S)
  BY <1>1, <1>3, FlattenIsSeq
<1>5. IsList(FlattenSeq(seqs)) /\ ToSet(FlattenSeq(seqs)) \subseteq S
  BY <1>4, SeqIsList
<1> QED
  BY <1>5, FlattenHasAll DEF S

(* Lists whose elements are each related to all that come later.           *)
Ordered(R, s) == \A i, j \in DOMAIN s : i < j => <<s[i], s[j]>> \in R

LEMMA ConcatOrdered ==
  ASSUME NEW R, NEW s, IsList(s), Ordered(R, s), NEW t, IsList(t), Ordered(R, t),
         \A x \in ToSet(s), y \in ToSet(t) : <<x, y>> \in R
  PROVE  Ordered(R, s \o t)
<1> DEFINE u == s \o t
<1>1. /\ DOMAIN u = 1 .. Len(s) + Len(t)
      /\ \A i \in 1 .. Len(s) : u[i] = s[i]
      /\ \A i \in 1 .. Len(t) : u[Len(s) + i] = t[i]
  BY ConcatOfLists
<1>2. /\ Len(s) \in Nat /\ DOMAIN s = 1 .. Len(s)
      /\ Len(t) \in Nat /\ DOMAIN t = 1 .. Len(t)
  BY ListHasLength DEF HasLength
<1> HIDE DEF u
<1>3. ASSUME NEW i \in 1 .. Len(s) + Len(t)
      PROVE  \/ i \in 1 .. Len(s) /\ u[i] = s[i]
             \/ i > Len(s) /\ i - Len(s) \in 1 .. Len(t) /\ u[i] = t[i - Len(s)]
  <2>1. i > Len(s) => i - Len(s) \in 1 .. Len(t) /\ Len(s) + (i - Len(s)) = i
    BY <1>2
  <2>2. ~(i > Len(s)) => i \in 1 .. Len(s)
    BY <1>2
  <2> QED
    BY <1>1, <2>1, <2>2
<1>4. ASSUME NEW i \in 1 .. Len(s) + Len(t), NEW j \in 1 .. Len(s) + Len(t), i < j
      PROVE  <<u[i], u[j]>> \in R
  <2>1. CASE i \in 1 .. Len(s) /\ j \in 1 .. Len(s)
    BY <1>1, <1>2, <1>4, <2>1 DEF Ordered
  <2>2. CASE i \in 1 .. Len(s) /\ j > Len(s)
    <3>1. u[i] \in ToSet(s)
      BY <1>1, <1>2, <2>2 DEF ToSet
    <3>2. j - Len(s) \in DOMAIN t /\ u[j] = t[j - Len(s)]
      <4>1. j \notin 1 .. Len(s)
        BY <1>2, <2>2
      <4>2. j - Len(s) \in 1 .. Len(t) /\ u[j] = t[j - Len(s)]
        BY <1>3, <4>1
      <4> QED
        BY <1>2, <4>2
    <3>3. u[j] \in ToSet(t)
      BY <3>2 DEF ToSet
    <3> QED
      BY <3>1, <3>3
  <2>3. CASE i > Len(s)
    <3>1. j > Len(s)
      BY <1>2, <1>4, <2>3
    <3>2. /\ i - Len(s) \in 1 .. Len(t) /\ u[i] = t[i - Len(s)]
          /\ j - Len(s) \in 1 .. Len(t) /\ u[j] = t[j - Len(s)]
      BY <1>2, <1>3, <2>3, <3>1
    <3>3. i - Len(s) < j - Len(s)
      BY <1>2, <1>4
    <3> QED
      BY <1>2, <3>2, <3>3 DEF Ordered
  <2>4. i > Len(s) \/ i \in 1 .. Len(s)
    BY <1>2
  <2>5. j > Len(s) \/ j \in 1 .. Len(s)
    BY <1>2
  <2> QED
    BY <2>1, <2>2, <2>3, <2>4, <2>5
<1> QED
  BY <1>1, <1>4 DEF Ordered, u

LEMMA FlattenOrdered ==
  ASSUME NEW R, NEW seqs, IsList(seqs),
         \A i \in DOMAIN seqs : IsList(seqs[i]) /\ Ordered(R, seqs[i]),
         \A i, j \in DOMAIN seqs : i < j =>
           \A x \in ToSet(seqs[i]), y \in ToSet(seqs[j]) : <<x, y>> \in R
  PROVE  Ordered(R, FlattenSeq(seqs))
<1>1. Len(seqs) \in Nat /\ DOMAIN seqs = 1 .. Len(seqs)
  BY ListHasLength DEF HasLength
<1>2. CASE Len(seqs) = 0
  <2>1. FlattenSeq(seqs) = seqs
    BY <1>2 DEF FlattenSeq
  <2>2. DOMAIN seqs = {}
    BY <1>1, <1>2
  <2> QED
    BY <2>1, <2>2 DEF Ordered
<1>3. CASE Len(seqs) # 0
  <2> DEFINE n == Len(seqs)
  <2>1. PICK f : PartByPart(seqs, n, f) /\ FlattenSeq(seqs) = f[n]
    BY <1>1, <1>3, FlattenParts
  <2> DEFINE Good(m) ==
               /\ IsList(f[m])
               /\ Ordered(R, f[m])
               /\ \A x \in ToSet(f[m]) : \E i \in 1 .. m : x \in ToSet(seqs[i])
             T == {m \in Nat : m + 1 <= n => Good(m + 1)}
  <2> HIDE DEF n
  <2>2. n \in Nat /\ n # 0 /\ DOMAIN seqs = 1 .. n
    BY <1>1, <1>3 DEF n
  <2>3. 0 \in T
    <3>1. f[1] = seqs[1] /\ 1 \in DOMAIN seqs /\ 1 \in 1 .. 1
      BY <2>1, <2>2 DEF PartByPart
    <3>2. Good(1)
      BY <3>1
    <3> HIDE DEF Good
    <3> QED
      BY <3>2
  <2>4. ASSUME NEW m \in T
        PROVE  m + 1 \in T
    <3>1. m \in Nat
      OBVIOUS
    <3>2. SUFFICES ASSUME (m + 1) + 1 <= n
                   PROVE  Good((m + 1) + 1)
      BY <3>1
    <3> DEFINE k == (m + 1) + 1
    <3>3. Good(m + 1)
      <4>1. m + 1 <= n
        BY <2>2, <3>1, <3>2
      <4> HIDE DEF Good
      <4> QED
        BY <4>1
    <3>4. f[k] = f[m + 1] \o seqs[k] /\ k \in DOMAIN seqs
      <4>1. k \in 2 .. n /\ k - 1 = m + 1 /\ k \in 1 .. n
        BY <2>2, <3>1, <3>2
      <4> HIDE DEF k
      <4>2. f[k] = f[k - 1] \o seqs[k]
        BY <2>1, <4>1 DEF PartByPart
      <4> QED
        BY <2>2, <4>1, <4>2
    <3>5. \A i \in 1 .. m + 1 : i \in DOMAIN seqs /\ i < k /\ i \in 1 .. k
      BY <2>2, <3>1, <3>2
    <3>6. k \in 1 .. k
      BY <3>1
    <3> HIDE DEF k
    <3>7. \A x \in ToSet(f[m + 1]), y \in ToSet(seqs[k]) : <<x, y>> \in R
      BY <3>3, <3>4, <3>5
    <3>8. Ordered(R, f[k])
      BY <3>3, <3>4, <3>7, ConcatOrdered
    <3>9. IsList(f[k]) /\ ToSet(f[k]) = ToSet(f[m + 1]) \cup ToSet(seqs[k])
      BY <3>3, <3>4, ConcatOfLists
    <3>10. \A x \in ToSet(f[k]) : \E i \in 1 .. k : x \in ToSet(seqs[i])
      BY <3>3, <3>5, <3>6, <3>9
    <3> QED
      BY <3>8, <3>9, <3>10 DEF k
  <2> HIDE DEF T
  <2>5. n - 1 \in T /\ (n - 1) + 1 = n
    BY <2>2, <2>3, <2>4, Induction
  <2>6. Good(n)
    BY <2>2, <2>5 DEF T
  <2> QED
    BY <2>1, <2>6
<1> QED
  BY <1>2, <1>3

(* A list of one element.                                                  *)
LEMMA SingletonIsList ==
  ASSUME NEW x
  PROVE  IsList(<<x>>) /\ ToSet(<<x>>) = {x} /\ \A R : Ordered(R, <<x>>)
<1>1. <<x>> \in Seq({x}) /\ DOMAIN <<x>> = {1} /\ <<x>>[1] = x
  OBVIOUS
<1>2. IsList(<<x>>) /\ ToSet(<<x>>) = {x}
  BY <1>1, SeqIsList DEF ToSet
<1> QED
  BY <1>1, <1>2 DEF Ordered

(* A selection from a list: each element is kept or not.                   *)
Selection(s, kept) ==
  /\ kept = [j \in DOMAIN s |-> kept[j]]
  /\ \A j \in DOMAIN s : kept[j] \in {<<s[j]>>, <<>>}

LEMMA SelectionIsList ==
  ASSUME NEW s, IsList(s), NEW kept, Selection(s, kept)
  PROVE  /\ IsList(FlattenSeq(kept))
         /\ \A x \in ToSet(FlattenSeq(kept)) : \E j \in DOMAIN s : x = s[j] /\ kept[j] # <<>>
         /\ \A R : Ordered(R, s) => Ordered(R, FlattenSeq(kept))
<1>1. IsList(kept) /\ DOMAIN kept = DOMAIN s
  BY ImageIsList DEF Selection
<1>2. \A j \in DOMAIN kept : IsList(kept[j])
  BY <1>1, EmptyIsList, SingletonIsList DEF Selection
<1>3. IsList(FlattenSeq(kept))
      /\ \A x \in ToSet(FlattenSeq(kept)) : \E j \in DOMAIN kept : x \in ToSet(kept[j])
  BY <1>1, <1>2, FlattenOfLists
<1>4. ASSUME NEW j \in DOMAIN s, NEW x \in ToSet(kept[j])
      PROVE  x = s[j] /\ kept[j] # <<>>
  <2>1. kept[j] # <<>>
    BY EmptyIsList
  <2>2. kept[j] = <<s[j]>>
    BY <2>1 DEF Selection
  <2>3. x \in {s[j]}
    BY <2>2, SingletonIsList
  <2> QED
    BY <2>1, <2>3
<1>5. ASSUME NEW R, Ordered(R, s)
      PROVE  Ordered(R, FlattenSeq(kept))
  <2>1. ASSUME NEW j \in DOMAIN kept
        PROVE  Ordered(R, kept[j])
    <3>1. Ordered(R, <<>>)
      BY EmptyIsList DEF Ordered
    <3> QED
      BY <1>1, <3>1, SingletonIsList DEF Selection
  <2>2. ASSUME NEW i \in DOMAIN kept, NEW j \in DOMAIN kept, i < j,
               NEW x \in ToSet(kept[i]), NEW y \in ToSet(kept[j])
        PROVE  <<x, y>> \in R
    <3>1. x = s[i] /\ y = s[j]
      BY <1>1, <1>4
    <3> QED
      BY <1>1, <1>5, <2>2, <3>1 DEF Ordered
  <2> QED
    BY <1>1, <1>2, <2>1, <2>2, FlattenOrdered
<1> QED
  BY <1>1, <1>3, <1>4, <1>5

(* Where the elements of a selection were: p tells for each its place in   *)
(* s, of the first m.  The places ascend, and none that is kept is missed. *)
PlacesUpTo(s, kept, m, found, p) ==
  /\ \A k \in 1 .. Len(found) : p[k] \in 1 .. m /\ kept[p[k]] # <<>> /\ found[k] = s[p[k]]
  /\ \A k, l \in 1 .. Len(found) : k < l => p[k] < p[l]
  /\ \A j \in 1 .. m : kept[j] # <<>> => \E k \in 1 .. Len(found) : p[k] = j

LEMMA PlacesSkip ==
  ASSUME NEW s, NEW kept, NEW m \in Nat, NEW found, NEW p, PlacesUpTo(s, kept, m, found, p),
         kept[m + 1] = <<>>
  PROVE  PlacesUpTo(s, kept, m + 1, found, p)
<1>1. \A j \in 1 .. m + 1 : j \in 1 .. m \/ j = m + 1
  OBVIOUS
<1>2. \A j \in 1 .. m : j \in 1 .. m + 1
  OBVIOUS
<1> QED
  BY <1>1, <1>2 DEF PlacesUpTo

LEMMA PlacesTake ==
  ASSUME NEW s, NEW kept, NEW m \in Nat, NEW found, NEW p, PlacesUpTo(s, kept, m, found, p),
         NEW new, Len(found) \in Nat, Len(new) = Len(found) + 1, kept[m + 1] # <<>>,
         \A k \in 1 .. Len(found) : new[k] = found[k], new[Len(found) + 1] = s[m + 1]
  PROVE  \E q : PlacesUpTo(s, kept, m + 1, new, q)
<1> DEFINE n == Len(found)
           q == [k \in 1 .. n + 1 |-> IF k = n + 1 THEN m + 1 ELSE p[k]]
<1>1. n \in Nat /\ Len(new) = n + 1
  OBVIOUS
<1>2. \A k \in 1 .. n : q[k] = p[k] /\ k \in 1 .. n + 1
  OBVIOUS
<1>3. q[n + 1] = m + 1 /\ n + 1 \in 1 .. n + 1
  OBVIOUS
<1>4. \A k \in 1 .. n + 1 : k \in 1 .. n \/ k = n + 1
  OBVIOUS
<1>5. \A k \in 1 .. n : p[k] \in 1 .. m /\ kept[p[k]] # <<>> /\ found[k] = s[p[k]]
  BY DEF PlacesUpTo
<1>6. \A k \in 1 .. n : new[k] = found[k]
  OBVIOUS
<1>7. new[n + 1] = s[m + 1]
  OBVIOUS
<1> HIDE DEF q
<1>8. ASSUME NEW k \in 1 .. n + 1
      PROVE  q[k] \in 1 .. m + 1 /\ kept[q[k]] # <<>> /\ new[k] = s[q[k]]
  <2>1. CASE k \in 1 .. n
    BY <1>2, <1>5, <1>6, <2>1
  <2>2. CASE k = n + 1
    BY <1>3, <1>7, <2>2
  <2> QED
    BY <1>4, <2>1, <2>2
<1>9. ASSUME NEW k \in 1 .. n + 1, NEW l \in 1 .. n + 1, k < l
      PROVE  q[k] < q[l]
  <2>1. k \in 1 .. n
    BY <1>9, <1>1
  <2>2. CASE l \in 1 .. n
    BY <1>2, <1>9, <2>1, <2>2 DEF PlacesUpTo
  <2>3. CASE l = n + 1
    BY <1>2, <1>3, <1>5, <2>1, <2>3
  <2> QED
    BY <1>4, <2>2, <2>3
<1>10. ASSUME NEW j \in 1 .. m + 1, kept[j] # <<>>
       PROVE  \E k \in 1 .. n + 1 : q[k] = j
  <2>1. CASE j = m + 1
    BY <1>3, <2>1
  <2>2. CASE j \in 1 .. m
    <3>1. PICK k \in 1 .. n : p[k] = j
      BY <1>10, <2>2 DEF PlacesUpTo
    <3> QED
      BY <1>2, <3>1
  <2> QED
    BY <2>1, <2>2
<1> QED
  BY <1>1, <1>8, <1>9, <1>10 DEF PlacesUpTo

LEMMA SelectionPlaces ==
  ASSUME NEW s, IsList(s), NEW kept, Selection(s, kept)
  PROVE  /\ IsList(FlattenSeq(kept))
         /\ \E p : PlacesUpTo(s, kept, Len(s), FlattenSeq(kept), p)
<1> DEFINE n == Len(s)
<1>1. IsList(kept) /\ Len(kept) = n /\ DOMAIN kept = DOMAIN s
  BY ImageIsList DEF Selection
<1>2. n \in Nat /\ DOMAIN s = 1 .. n
  BY ListHasLength DEF HasLength
<1>3. IsList(FlattenSeq(kept))
  BY SelectionIsList
<1>4. CASE n = 0
  <2>1. \A x \in ToSet(FlattenSeq(kept)) : FALSE
    BY <1>2, <1>4, SelectionIsList
  <2>2. DOMAIN FlattenSeq(kept) = 1 .. Len(FlattenSeq(kept))
    BY <1>3, ListHasLength DEF HasLength
  <2>3. \A k \in 1 .. Len(FlattenSeq(kept)) : FALSE
    BY <2>1, <2>2 DEF ToSet
  <2>4. PlacesUpTo(s, kept, n, FlattenSeq(kept), <<>>)
    BY <1>2, <1>4, <2>3 DEF PlacesUpTo
  <2> QED
    BY <1>3, <2>4
<1>5. CASE n # 0
  <2>1. PICK f : PartByPart(kept, n, f) /\ FlattenSeq(kept) = f[n]
    BY <1>1, <1>2, <1>5, FlattenParts
  <2> DEFINE Good(m) == IsList(f[m]) /\ \E p : PlacesUpTo(s, kept, m, f[m], p)
             T == {m \in Nat : m + 1 <= n => Good(m + 1)}
  <2> HIDE DEF n
  <2>2. ASSUME NEW m \in Nat, m + 1 <= n, NEW before, NEW after, IsList(before),
               \E p : PlacesUpTo(s, kept, m, before, p),
               \/ kept[m + 1] = <<>> /\ after = before
               \/ /\ kept[m + 1] # <<>> /\ Len(after) = Len(before) + 1
                  /\ \A k \in 1 .. Len(before) : after[k] = before[k]
                  /\ after[Len(before) + 1] = s[m + 1]
        PROVE  \E p : PlacesUpTo(s, kept, m + 1, after, p)
    <3>1. Len(before) \in Nat
      BY <2>2, ListHasLength DEF HasLength
    <3> QED
      BY <2>2, <3>1, PlacesSkip, PlacesTake
  <2>3. ASSUME NEW m \in Nat, m + 1 <= n
        PROVE  m + 1 \in DOMAIN s /\ kept[m + 1] \in {<<s[m + 1]>>, <<>>}
    <3>1. m + 1 \in DOMAIN s
      BY <1>2, <2>3
    <3> QED
      BY <3>1 DEF Selection
  <2>4. \A x : /\ IsList(<<x>>) /\ Len(<<x>>) = 1 /\ <<x>>[1] = x /\ <<x>> # <<>>
    BY SingletonIsList
  <2>5. 0 \in T
    <3>1. f[1] = kept[1] /\ 0 + 1 = 1 /\ 0 + 1 <= n
      BY <1>2, <1>5, <2>1 DEF PartByPart
    <3>2. PlacesUpTo(s, kept, 0, <<>>, <<>>)
      BY EmptyIsList DEF PlacesUpTo
    <3>3. IsList(f[1])
      BY <2>3, <2>4, <3>1, EmptyIsList
    <3>4. \/ kept[1] = <<>> /\ f[1] = <<>>
          \/ /\ kept[1] # <<>> /\ Len(f[1]) = Len(<<>>) + 1
             /\ \A k \in 1 .. Len(<<>>) : f[1][k] = <<>>[k]
             /\ f[1][Len(<<>>) + 1] = s[1]
      BY <2>3, <2>4, <3>1, EmptyIsList
    <3>5. \E p : PlacesUpTo(s, kept, 0 + 1, f[1], p)
      BY <2>2, <3>1, <3>2, <3>4, EmptyIsList
    <3> QED
      BY <3>1, <3>3, <3>5
  <2>6. ASSUME NEW m \in T
        PROVE  m + 1 \in T
    <3>1. m \in Nat
      OBVIOUS
    <3>2. SUFFICES ASSUME (m + 1) + 1 <= n
                   PROVE  Good((m + 1) + 1)
      BY <3>1
    <3> DEFINE k == (m + 1) + 1
    <3>3. m + 1 <= n /\ m + 1 \in Nat /\ k \in 2 .. n /\ k - 1 = m + 1
      BY <1>2, <3>1, <3>2
    <3>4. Good(m + 1)
      <4> HIDE DEF Good
      <4> QED
        BY <3>3
    <3>5. f[k] = f[m + 1] \o kept[k]
      <4> HIDE DEF k
      <4> QED
        BY <2>1, <3>3 DEF PartByPart
    <3>6. kept[k] \in {<<s[k]>>, <<>>} /\ IsList(f[m + 1]) /\ IsList(kept[k])
      BY <2>3, <2>4, <3>2, <3>3, <3>4, EmptyIsList
    <3> DEFINE before == f[m + 1]
               part == kept[k]
    <3>7. PICK after : after = f[k]
      OBVIOUS
    <3>8. /\ IsList(after) /\ Len(after) = Len(before) + Len(part)
          /\ DOMAIN after = 1 .. Len(before) + Len(part)
          /\ \A i \in 1 .. Len(before) : after[i] = before[i]
          /\ \A i \in 1 .. Len(part) : after[Len(before) + i] = part[i]
      <4> HIDE DEF before, part
      <4>1. after = before \o part
        BY <3>5, <3>7 DEF before, part
      <4>2. IsList(before) /\ IsList(part)
        BY <3>6 DEF before, part
      <4> QED
        BY ONLY <4>1, <4>2, ConcatOfLists
    <3>9. \/ kept[k] = <<>> /\ after = before
          \/ /\ kept[k] # <<>> /\ Len(after) = Len(before) + 1
             /\ \A i \in 1 .. Len(before) : after[i] = before[i]
             /\ after[Len(before) + 1] = s[k]
      <4>1. CASE part = <<>>
        <5>1. HasLength(after, Len(after)) /\ HasLength(before, Len(before))
          BY <3>6, <3>8, ListHasLength
        <5>2. Len(after) = Len(before) /\ Len(before) \in Nat
          BY <3>8, <4>1, <5>1, EmptyIsList DEF HasLength
        <5>3. \A i \in 1 .. Len(before) : after[i] = before[i]
          BY <3>8
        <5>4. /\ after = [i \in 1 .. Len(before) |-> after[i]]
              /\ before = [i \in 1 .. Len(before) |-> before[i]]
          BY <5>1, <5>2 DEF HasLength
        <5> HIDE DEF before, part
        <5>5. after = before
          BY <5>3, <5>4
        <5> QED
          BY <4>1, <5>5 DEF part
      <4>2. CASE part # <<>>
        <5>1. part = <<s[k]>>
          BY <3>6, <4>2
        <5>2. Len(part) = 1 /\ part[1] = s[k] /\ 1 \in 1 .. Len(part)
          BY <2>4, <5>1
        <5> HIDE DEF part, before
        <5>3. Len(after) = Len(before) + 1 /\ after[Len(before) + 1] = s[k]
          BY <3>8, <5>2
        <5> QED
          BY <3>8, <4>2, <5>3 DEF part
      <4> QED
        BY <4>1, <4>2
    <3>10. \E p : PlacesUpTo(s, kept, k, after, p)
      <4>1. \E p : PlacesUpTo(s, kept, m + 1, before, p)
        BY <3>4
      <4> HIDE DEF before
      <4>2. k = (m + 1) + 1 /\ (m + 1) + 1 <= n /\ m + 1 \in Nat /\ IsList(before)
        BY <3>2, <3>3, <3>6 DEF before
      <4> QED
        BY <2>2, <3>9, <4>1, <4>2
    <3> QED
      BY <3>7, <3>8, <3>10
  <2> HIDE DEF T
  <2>7. n - 1 \in T /\ (n - 1) + 1 = n
    BY <1>2, <1>5, <2>5, <2>6, Induction
  <2>8. Good(n)
    BY <1>2, <2>7 DEF T
  <2> QED
    BY <1>3, <2>1, <2>8 DEF n
<1> QED
  BY <1>4, <1>5

-----------------------------------------------------------------------------
(* The greatest of a set of numbers below n.                               *)
LEMMA GreatestExists ==
  ASSUME NEW n \in Nat, NEW S \in SUBSET (1 .. n), S # {}
  PROVE  \E m \in S : \A i \in S : i <= m
<1> DEFINE T == {k \in Nat : (\E i \in S : i <= k) =>
                               \E m \in S : m <= k /\ \A i \in S : i <= k => i <= m}
<1>1. 0 \in T
  BY DEF T
<1>2. ASSUME NEW k \in T
      PROVE  k + 1 \in T
  <2>1. k \in Nat /\ ((\E i \in S : i <= k) =>
                         \E m \in S : m <= k /\ \A i \in S : i <= k => i <= m)
    OBVIOUS
  <2> HIDE DEF T
  <2>2. CASE k + 1 \in S
    <3>1. \A i \in S : i <= k + 1 => i <= k + 1
      OBVIOUS
    <3> QED
      BY <2>1, <2>2 DEF T
  <2>3. CASE k + 1 \notin S
    <3>1. \A i \in S : i <= k + 1 <=> i <= k
      BY <2>1, <2>3
    <3> QED
      BY <2>1, <3>1 DEF T
  <2> QED
    BY <2>2, <2>3
<1> HIDE DEF T
<1>3. n \in T
  BY <1>1, <1>2, Induction
<1>4. \A i \in S : i <= n
  OBVIOUS
<1> QED
  BY <1>3, <1>4 DEF T

(* Of writes in the order of their ordinals the latest of a key is kept.   *)
InOrdinals(writes) ==
  \A i, j \in DOMAIN writes :
    /\ writes[i][1] \in Nat
    /\ i < j => writes[i][1] <= writes[j][1]

LEMMA PutAllKeepsLatest ==
  ASSUME NEW store, IsStore(store), NEW writes, IsList(writes), InOrdinals(writes),
         NEW w \in ToSet(writes),
         \A v \in ToSet(writes) : v[2] = w[2] /\ v # w => v[1] < w[1]
  PROVE  GetLast(PutAll(store, writes), w[2]) = w[3]
<1> DEFINE n == Len(writes)
           new == PutAll(store, writes)
<1>1. n \in Nat /\ DOMAIN writes = 1 .. n
  BY ListHasLength DEF HasLength
<1> HIDE DEF n, new
<1>2. PICK i \in 1 .. n : writes[i] = w
  BY <1>1 DEF ToSet
<1>3. w[2] \in Written(writes)
  BY <1>1, <1>2 DEF Written
<1>4. /\ DOMAIN new.kv = DOMAIN store.kv \cup Written(writes)
      /\ \A k \in Written(writes) :
              \E j \in 1 .. n : /\ writes[j][2] = k /\ new.kv[k] = writes[j][3]
                                /\ \A m \in j + 1 .. n : writes[m][2] # k
  BY <1>1, PutAllIsStore DEF new
<1>5. PICK j \in 1 .. n : /\ writes[j][2] = w[2] /\ new.kv[w[2]] = writes[j][3]
                          /\ \A m \in j + 1 .. n : writes[m][2] # w[2]
  BY <1>3, <1>4
<1>6. i <= j
  BY <1>1, <1>2, <1>5
<1>7. writes[j] \in ToSet(writes) /\ writes[i][1] \in Nat /\ writes[j][1] \in Nat
  BY <1>1 DEF ToSet, InOrdinals
<1>8. writes[i][1] <= writes[j][1]
  BY <1>1, <1>6, <1>7 DEF InOrdinals
<1>9. writes[j] = w
  BY <1>2, <1>5, <1>7, <1>8
<1> QED
  BY <1>3, <1>4, <1>5, <1>9 DEF GetLast, Has, new

(* A key that is not written keeps its value.                              *)
LEMMA PutAllKeepsOthers ==
  ASSUME NEW store, IsStore(store), NEW writes, IsList(writes),
         NEW k, \A v \in ToSet(writes) : v[2] # k
  PROVE  GetLast(PutAll(store, writes), k) = GetLast(store, k)
<1> DEFINE n == Len(writes)
           new == PutAll(store, writes)
<1>1. n \in Nat /\ DOMAIN writes = 1 .. n
  BY ListHasLength DEF HasLength
<1> HIDE DEF n, new
<1>2. k \notin Written(writes)
  BY DEF Written, ToSet
<1>3. /\ DOMAIN new.kv = DOMAIN store.kv \cup Written(writes)
      /\ \A c \in DOMAIN store.kv \ Written(writes) : new.kv[c] = store.kv[c]
  BY <1>1, PutAllIsStore DEF new
<1> QED
  BY <1>2, <1>3 DEF GetLast, Has, new

(* Neither does one without the prefix of a deletion.                      *)
LEMMA DeletePrefixesKeepsOthers ==
  ASSUME NEW store, IsStore(store), NEW n \in Nat, NEW prefixes, DOMAIN prefixes = 1 .. n,
         NEW k, \A i \in 1 .. n : prefixes[i][1] # k[1]
  PROVE  GetLast(DeletePrefixes(store, prefixes), k) = GetLast(store, k)
<1> DEFINE new == DeletePrefixes(store, prefixes)
<1>1. /\ \A c : c \in DOMAIN new.kv <=>
               c \in DOMAIN store.kv /\ \A i \in 1 .. n : ~HasPrefix(c, prefixes[i])
      /\ \A c \in DOMAIN new.kv : new.kv[c] = store.kv[c]
  BY DeletePrefixesIsStore
<1> HIDE DEF new
<1>2. \A i \in 1 .. n : ~HasPrefix(k, prefixes[i])
  BY DEF HasPrefix
<1> QED
  BY <1>1, <1>2 DEF GetLast, Has, new

(* What is read of a key that a store never had.                           *)
LEMMA NothingRead ==
  ASSUME NEW store, NEW ord, NEW key, key \notin Keys(store)
  PROVE  GetAt(store, ord, key) = Absent /\ GetLast(store, key) = Absent
<1>1. /\ key \notin DOMAIN store.kv
      /\ \A i \in DOMAIN store.deltas : store.deltas[i].key # key
  BY DEF Keys
<1> QED
  BY <1>1 DEF GetAt, GetLast, Has

(* The least of a set of numbers.                                          *)
LEMMA MinIsIn ==
  ASSUME NEW S \in SUBSET Nat, S # {}
  PROVE  Min(S) \in S
<1>1. PICK n \in S : \A m \in S : ~ (<<m, n>> \in OpToRel(<, Nat))
  BY NatLessThanWellFounded, WFMin
<1>2. \A m \in S : ~ (m < n)
  BY <1>1 DEF OpToRel
<1>3. \A m \in S : n <= m
  BY <1>2
<1> QED
  BY <1>3 DEF Min

-----------------------------------------------------------------------------
(* Euclid's algorithm ends: a % b is smaller than b.                       *)
Remainders(f, b) == [a \in Nat |-> IF b = 0 THEN a ELSE f[a % b][b]]
EuclidOn(D, f) == f = [b \in D |-> Remainders(f, b)]

LEMMA Remainder == ASSUME NEW a \in Nat, NEW b \in Nat \ {0} PROVE a % b \in 0 .. b - 1
  OBVIOUS

LEMMA EuclidExists ==
  ASSUME NEW n \in Nat
  PROVE  \E f : EuclidOn(0 .. n, f)
<1> DEFINE T == {k \in Nat : \E f : EuclidOn(0 .. k, f)}
<1>1. 0 \in T
  <2> DEFINE f == [b \in 0 .. 0 |-> [a \in Nat |-> a]]
  <2>1. \A b \in 0 .. 0 : b = 0 /\ Remainders(f, b) = [a \in Nat |-> a]
    BY DEF Remainders
  <2>2. EuclidOn(0 .. 0, f)
    BY <2>1 DEF EuclidOn
  <2> QED
    BY <2>2
<1>2. ASSUME NEW k \in T
      PROVE  k + 1 \in T
  <2>1. k \in Nat
    OBVIOUS
  <2>2. PICK f : EuclidOn(0 .. k, f)
    OBVIOUS
  <2> DEFINE h == [b \in 0 .. k + 1 |-> Remainders(f, b)]
  <2>3. \A b \in 0 .. k : h[b] = f[b]
    BY <2>1, <2>2 DEF EuclidOn
  <2> HIDE DEF T
  <2>4. ASSUME NEW b \in 0 .. k + 1
        PROVE  Remainders(f, b) = Remainders(h, b)
    <3>1. ASSUME NEW a \in Nat, b # 0
          PROVE  f[a % b] = h[a % b]
      <4>1. a % b \in 0 .. b - 1
        BY <2>1, <3>1, Remainder
      <4>2. a % b \in 0 .. k
        BY <2>1, <4>1
      <4> HIDE DEF h
      <4> QED
        BY <2>3, <4>2
    <3> HIDE DEF h
    <3> QED
      BY <3>1 DEF Remainders
  <2>5. h = [b \in 0 .. k + 1 |-> Remainders(h, b)]
    BY <2>4
  <2> HIDE DEF h
  <2>6. EuclidOn(0 .. k + 1, h)
    BY <2>5 DEF EuclidOn
  <2> QED
    BY <2>1, <2>6 DEF T
<1> HIDE DEF T
<1>3. n \in T
  BY <1>1, <1>2, Induction
<1> QED
  BY <1>3 DEF T

LEMMA EuclidAgrees ==
  ASSUME NEW m \in Nat, NEW n \in Nat, NEW f, NEW g,
         EuclidOn(0 .. m, f), EuclidOn(0 .. n, g)
  PROVE  \A b \in 0 .. m \cap 0 .. n : f[b] = g[b]
<1> DEFINE T == {k \in Nat : \A b \in (0 .. m) \cap (0 .. n) : b <= k => f[b] = g[b]}
<1>0. \A b \in (0 .. m) \cap (0 .. n) : f[b] = Remainders(f, b) /\ g[b] = Remainders(g, b)
  BY DEF EuclidOn
<1>1. 0 \in T
  <2>1. Remainders(f, 0) = Remainders(g, 0)
    BY DEF Remainders
  <2> QED
    BY <1>0, <2>1
<1>2. ASSUME NEW k \in T
      PROVE  k + 1 \in T
  <2>1. k \in Nat /\ \A b \in (0 .. m) \cap (0 .. n) : b <= k => f[b] = g[b]
    OBVIOUS
  <2> HIDE DEF T
  <2>2. ASSUME NEW b \in (0 .. m) \cap (0 .. n), b = k + 1
        PROVE  Remainders(f, b) = Remainders(g, b)
    <3>1. ASSUME NEW a \in Nat
          PROVE  f[a % b] = g[a % b]
      <4> b \in Nat \ {0}
        BY <2>1, <2>2
      <4>1. a % b \in 0 .. b - 1
        BY Remainder
      <4>2. a % b \in (0 .. m) \cap (0 .. n) /\ a % b <= k
        BY <2>1, <2>2, <4>1
      <4> QED
        BY <2>1, <4>2
    <3> QED
      BY <3>1 DEF Remainders
  <2>3. \A b \in (0 .. m) \cap (0 .. n) : b <= k + 1 => b <= k \/ b = k + 1
    BY <2>1
  <2> QED
    BY <1>0, <2>1, <2>2, <2>3 DEF T
<1> HIDE DEF T
<1>3. \A b \in (0 .. m) \cap (0 .. n) : b \in T /\ b <= b
  BY <1>1, <1>2, Induction
<1> QED
  BY <1>3 DEF T

LEMMA GcdUnfolds == gcd = [b \in Nat |-> Remainders(gcd, b)]
<1> DEFINE part(n) == CHOOSE f : EuclidOn(0 .. n, f)
           g == [b \in Nat |-> part(b)[b]]
<1>1. \A n \in Nat : EuclidOn(0 .. n, part(n))
  BY EuclidExists
<1> HIDE DEF part
<1>2. ASSUME NEW b \in Nat
      PROVE  g[b] = Remainders(g, b)
  <2>1. g[b] = Remainders(part(b), b)
    BY <1>1 DEF EuclidOn
  <2>2. ASSUME NEW a \in Nat, b # 0
        PROVE  part(b)[a % b] = g[a % b]
    <3>1. a % b \in 0 .. b - 1
      BY <2>2, Remainder
    <3>2. a % b \in Nat /\ a % b \in (0 .. b) \cap (0 .. (a % b))
      BY <3>1
    <3>3. part(b)[a % b] = part(a % b)[a % b]
      BY <1>1, <3>2, EuclidAgrees
    <3> QED
      BY <3>2, <3>3
  <2> HIDE DEF g
  <2>3. Remainders(part(b), b) = Remainders(g, b)
    BY <2>2 DEF Remainders
  <2> QED
    BY <2>1, <2>3
<1>3. g = [b \in Nat |-> Remainders(g, b)]
  BY <1>2
<1> HIDE DEF g
<1>4. \E f : f = [b \in Nat |-> [a \in Nat |-> IF b = 0 THEN a ELSE f[a % b][b]]]
  BY <1>3 DEF Remainders
<1>5. gcd = [b \in Nat |-> [a \in Nat |-> IF b = 0 THEN a ELSE gcd[a % b][b]]]
  BY <1>4, Zenon DEF gcd
<1> QED
  BY <1>5 DEF Remainders
LEMMA GcdStep ==
  ASSUME NEW b \in Nat, NEW a \in Nat
  PROVE  gcd[b][a] = IF b = 0 THEN a ELSE gcd[a % b][b]
<1>1. gcd[b] = Remainders(gcd, b)
  BY GcdUnfolds
<1> QED
  BY <1>1 DEF Remainders

(* The divisor is positive, and at most as large as either number.         *)
LEMMA GcdAtMost ==
  ASSUME NEW b \in Nat \ {0}, NEW a \in Nat
  PROVE  gcd[b][a] \in 1 .. b
<1> DEFINE T == {k \in Nat : \A c \in Nat \ {0}, d \in Nat : c <= k => gcd[c][d] \in 1 .. c}
<1>1. 0 \in T
  OBVIOUS
<1>2. ASSUME NEW k \in T
      PROVE  k + 1 \in T
  <2>1. k \in Nat /\ \A c \in Nat \ {0}, d \in Nat : c <= k => gcd[c][d] \in 1 .. c
    OBVIOUS
  <2> HIDE DEF T
  <2>2. ASSUME NEW c \in Nat \ {0}, NEW d \in Nat, c <= k + 1
        PROVE  gcd[c][d] \in 1 .. c
    <3>1. d % c \in 0 .. c - 1 /\ gcd[c][d] = gcd[d % c][c]
      BY Remainder, GcdStep
    <3>2. CASE d % c = 0
      <4>1. gcd[0][c] = c
        BY GcdStep
      <4> QED
        BY <3>1, <3>2, <4>1
    <3>3. CASE d % c # 0
      <4>1. d % c \in Nat \ {0} /\ d % c <= k
        BY <2>1, <2>2, <3>1, <3>3
      <4>2. gcd[d % c][c] \in 1 .. (d % c)
        BY <2>1, <4>1
      <4> QED
        BY <3>1, <4>1, <4>2
    <3> QED
      BY <3>2, <3>3
  <2> QED
    BY <2>1, <2>2 DEF T
<1> HIDE DEF T
<1>3. b \in T
  BY <1>1, <1>2, Induction
<1> QED
  BY <1>3 DEF T

LEMMA GcdOrder ==
  ASSUME NEW a \in Nat \ {0}, NEW b \in Nat \ {0}
  PROVE  gcd[b][a] = gcd[a][b]
<1>1. ASSUME NEW c \in Nat \ {0}, NEW d \in Nat \ {0}, d < c
      PROVE  gcd[c][d] = gcd[d][c]
  <2>1. d % c = d
    BY <1>1
  <2> QED
    BY <2>1, GcdStep
<1> QED
  BY <1>1

LEMMA GcdOfEqual ==
  ASSUME NEW a \in Nat
  PROVE  gcd[a][a] = a
<1>1. CASE a = 0
  BY <1>1, GcdStep
<1>2. CASE a # 0
  <2>1. a % a = 0
    BY <1>2
  <2>2. gcd[0][a] = a
    BY GcdStep
  <2> QED
    BY <1>2, <2>1, <2>2, GcdStep
<1> QED
  BY <1>1, <1>2

LEMMA GcdOfZero ==
  ASSUME NEW d \in Nat \ {0}
  PROVE  gcd[d][0] = d
<1>1. 0 % d = 0
  OBVIOUS
<1>2. gcd[0][d] = d
  BY GcdStep
<1> QED
  BY <1>1, <1>2, GcdStep

-----------------------------------------------------------------------------
(* Decimal numbers: nothing divided is zero, and equal numbers divide to   *)
(* one.                                                                    *)
LEMMA FractionOfZero ==
  ASSUME NEW d \in Nat \ {0}
  PROVE  Fraction(0, d) = Zero
<1>1. d \div d = 1 /\ 0 \div d = 0
  OBVIOUS
<1> QED
  BY <1>1, GcdOfZero DEF Fraction, Zero, Magnitude

LEMMA FractionOfEqual ==
  ASSUME NEW d \in Nat \ {0}
  PROVE  Fraction(d, d) = One
<1>1. d \div d = 1
  OBVIOUS
<1> QED
  BY <1>1, GcdOfEqual DEF Fraction, One, Magnitude

(* What a positive number is in lowest terms.                              *)
Positive(x) == x \in (Nat \ {0}) \X (Nat \ {0})

LEMMA FractionPositive ==
  ASSUME NEW n \in Nat \ {0}, NEW d \in Nat \ {0}
  PROVE  Positive(Fraction(n, d)) /\ Fraction(n, d) = <<n \div gcd[d][n], d \div gcd[d][n]>>
<1> DEFINE g == gcd[d][n]
<1>1. g \in 1 .. d /\ g \in 1 .. n
  BY GcdAtMost, GcdOrder
<1>2. Fraction(n, d) = <<n \div g, d \div g>>
  BY DEF Fraction, Magnitude
<1>3. ASSUME NEW m \in Nat \ {0}, NEW c \in 1 .. m
      PROVE  m \div c \in Nat \ {0}
  <2>1. m \div c \in Nat
    OBVIOUS
  <2>2. m \div c # 0
    OBVIOUS
  <2> QED
    BY <2>1, <2>2
<1> HIDE DEF g
<1>4. n \div g \in Nat \ {0} /\ d \div g \in Nat \ {0}
  BY <1>1, <1>3
<1> QED
  BY <1>2, <1>4 DEF Positive, g

LEMMA OverPositive ==
  ASSUME NEW x, NEW y, Positive(x), Positive(y)
  PROVE  Positive(Over(x, y))
<1>1. x[1] * y[2] \in Nat \ {0} /\ x[2] * y[1] \in Nat \ {0}
  BY DEF Positive
<1> QED
  BY <1>1, FractionPositive DEF Over

(* The two prices of a pair are inverse to each other.                     *)
LEMMA OverInverse ==
  ASSUME NEW x, NEW y, Positive(x), Positive(y)
  PROVE  Times(Over(x, y), Over(y, x)) = One
<1>1. x \in (Nat \ {0}) \X (Nat \ {0}) /\ y \in (Nat \ {0}) \X (Nat \ {0})
  BY DEF Positive
<1> DEFINE p == x[1] * y[2]
           q == x[2] * y[1]
           g == gcd[q][p]
<1>2. p \in Nat \ {0} /\ q \in Nat \ {0} /\ y[1] * x[2] = q /\ y[2] * x[1] = p
  BY <1>1
<1>3. Over(x, y) = Fraction(p, q) /\ Over(y, x) = Fraction(q, p)
  BY <1>2 DEF Over
<1> HIDE DEF p, q
<1>4. Fraction(p, q) = <<p \div g, q \div g>> /\ Fraction(q, p) = <<q \div g, p \div g>>
  BY <1>2, FractionPositive, GcdOrder
<1>5. p \div g \in Nat \ {0} /\ q \div g \in Nat \ {0}
  BY <1>2, <1>4, FractionPositive DEF Positive
<1> DEFINE u == p \div g
           v == q \div g
<1>6. Times(<<u, v>>, <<v, u>>) = Fraction(u * v, v * u)
  BY DEF Times
<1>7. u * v \in Nat \ {0} /\ v * u = u * v
  BY <1>5
<1> HIDE DEF u, v
<1>8. Times(<<u, v>>, <<v, u>>) = One
  BY <1>6, <1>7, FractionOfEqual
<1> QED
  BY <1>3, <1>4, <1>8 DEF u, v

-----------------------------------------------------------------------------
(* How exact fractions add up, and what it makes of lists of numbers.      *)

(* Division has one result.                                                *)
LEMMA DivisionIs ==
  ASSUME NEW a \in Nat, NEW b \in Nat \ {0}, NEW q \in Nat, NEW r \in Nat, r < b, a = b * q + r
  PROVE  a % b = r /\ a \div b = q
<1>1. a = b * (a \div b) + (a % b) /\ a % b \in 0 .. b - 1 /\ a \div b \in Nat
  OBVIOUS
<1> DEFINE s == a \div b
           t == a % b
<1>2. s \in Nat /\ t \in Nat /\ t < b /\ b * s + t = b * q + r
  BY <1>1
<1> HIDE DEF s, t
<1>3. ~(s > q)
  <2>1. ASSUME s > q
        PROVE  FALSE
    <3>1. PICK d \in Nat \ {0} : s = q + d
      <4>1. s - q \in Nat \ {0} /\ s = q + (s - q)
        BY <1>2, <2>1
      <4> QED
        BY <4>1
    <3>2. b * s = b * q + b * d
      BY <3>1
    <3>3. b * d >= b
      BY <3>1
    <3> QED
      BY <1>2, <3>2, <3>3
  <2> QED
    BY <2>1
<1>4. ~(q > s)
  <2>1. ASSUME q > s
        PROVE  FALSE
    <3>1. PICK d \in Nat \ {0} : q = s + d
      <4>1. q - s \in Nat \ {0} /\ q = s + (q - s)
        BY <1>2, <2>1
      <4> QED
        BY <4>1
    <3>2. b * q = b * s + b * d
      BY <1>2, <3>1
    <3>3. b * d >= b
      BY <3>1
    <3> QED
      BY <1>2, <3>2, <3>3
  <2> QED
    BY <2>1
<1>5. s = q
  BY <1>2, <1>3, <1>4
<1>6. t = r
  BY <1>2, <1>5
<1> QED
  BY <1>5, <1>6 DEF s, t

(* A common factor of two numbers is one of their divisor.                 *)
LEMMA GcdScales ==
  ASSUME NEW k \in Nat \ {0}, NEW b \in Nat, NEW a \in Nat
  PROVE  gcd[k * b][k * a] = k * gcd[b][a]
<1> DEFINE T == {m \in Nat : \A c \in Nat, d \in Nat : c <= m => gcd[k * c][k * d] = k * gcd[c][d]}
<1>0. \A d \in Nat : gcd[k * 0][k * d] = k * gcd[0][d]
  <2>1. \A d \in Nat : k * d \in Nat /\ k * 0 = 0
    OBVIOUS
  <2> QED
    BY <2>1, GcdStep
<1>1. 0 \in T
  BY <1>0
<1>2. ASSUME NEW m \in T
      PROVE  m + 1 \in T
  <2>1. m \in Nat /\ \A c \in Nat, d \in Nat : c <= m => gcd[k * c][k * d] = k * gcd[c][d]
    OBVIOUS
  <2> HIDE DEF T
  <2>2. ASSUME NEW c \in Nat \ {0}, NEW d \in Nat, c <= m + 1
        PROVE  gcd[k * c][k * d] = k * gcd[c][d]
    <3> DEFINE q == d \div c
               r == d % c
    <3>1. q \in Nat /\ r \in Nat /\ r < c /\ d = c * q + r
      OBVIOUS
    <3>2. gcd[c][d] = gcd[r][c]
      BY GcdStep
    <3> HIDE DEF q, r
    <3>3. k * c \in Nat \ {0} /\ k * d \in Nat /\ k * r \in Nat
      BY <3>1
    <3>4. k * r < k * c
      BY <3>1
    <3>5. k * d = (k * c) * q + k * r
      BY <3>1
    <3>6. (k * d) % (k * c) = k * r
      BY <3>1, <3>3, <3>4, <3>5, DivisionIs
    <3>7. gcd[k * c][k * d] = gcd[k * r][k * c]
      BY <3>3, <3>6, GcdStep
    <3>8. gcd[k * r][k * c] = k * gcd[r][c]
      BY <2>1, <2>2, <3>1
    <3> QED
      BY <3>2, <3>7, <3>8
  <2> QED
    BY <1>0, <2>1, <2>2 DEF T
<1> HIDE DEF T
<1>3. b \in T
  BY <1>1, <1>2, Induction
<1> QED
  BY <1>3 DEF T

(* It divides both.                                                        *)
Scaled(a, b, g, x, y) == a = g * x /\ b = g * y

LEMMA GcdDivides ==
  ASSUME NEW b \in Nat \ {0}, NEW a \in Nat
  PROVE  \E g \in Nat \ {0}, x \in Nat, y \in Nat \ {0} : g = gcd[b][a] /\ Scaled(a, b, g, x, y)
<1> DEFINE Divides(c, d) ==
             \E g \in Nat \ {0}, x \in Nat, y \in Nat \ {0} : g = gcd[c][d] /\ Scaled(d, c, g, x, y)
           T == {m \in Nat : \A c \in Nat \ {0}, d \in Nat : c <= m => Divides(c, d)}
<1> HIDE DEF Divides
<1>1. 0 \in T
  OBVIOUS
<1>2. ASSUME NEW m \in T
      PROVE  m + 1 \in T
  <2>1. m \in Nat /\ \A c \in Nat \ {0}, d \in Nat : c <= m => Divides(c, d)
    OBVIOUS
  <2> HIDE DEF T
  <2>2. ASSUME NEW c \in Nat \ {0}, NEW d \in Nat, c <= m + 1
        PROVE  Divides(c, d)
    <3> DEFINE q == d \div c
               r == d % c
    <3>1. q \in Nat /\ r \in Nat /\ r < c /\ d = c * q + r
      OBVIOUS
    <3>2. gcd[c][d] = gcd[r][c]
      BY GcdStep
    <3> HIDE DEF q, r
    <3>3. CASE r = 0
      <4>1. gcd[c][d] = c
        BY <3>2, <3>3, GcdStep
      <4>2. d = c * q /\ c = c * 1
        BY <3>1, <3>3
      <4>3. Scaled(d, c, c, q, 1)
        BY <4>2 DEF Scaled
      <4> QED
        BY <3>1, <4>1, <4>3 DEF Divides
    <3>4. CASE r # 0
      <4>1. r \in Nat \ {0} /\ r <= m
        BY <2>1, <2>2, <3>1, <3>4
      <4>2. PICK g \in Nat \ {0}, x \in Nat, y \in Nat \ {0} :
              g = gcd[r][c] /\ Scaled(c, r, g, x, y)
        BY <2>1, <4>1 DEF Divides
      <4>3. c = g * x /\ r = g * y
        BY <4>2 DEF Scaled
      <4>4. d = g * (x * q + y)
        <5>1. d = (g * x) * q + g * y
          BY <3>1, <4>3
        <5> QED
          BY <3>1, <5>1
      <4>5. x * q + y \in Nat \ {0} /\ x \in Nat \ {0}
        BY <3>1, <4>3
      <4>6. Scaled(d, c, g, x * q + y, x)
        BY <4>3, <4>4 DEF Scaled
      <4> QED
        BY <3>2, <4>2, <4>5, <4>6 DEF Divides
    <3> QED
      BY <3>3, <3>4
  <2> QED
    BY <2>1, <2>2 DEF T
<1> HIDE DEF T
<1>3. b \in T
  BY <1>1, <1>2, Induction
<1>4. Divides(b, a)
  BY <1>3 DEF T
<1> QED
  BY <1>4 DEF Divides

-----------------------------------------------------------------------------
(* What a fraction is in lowest terms.                                     *)
InTerms(n, d, g, p, q) ==
  Fraction(n, d) = <<p, q>> /\ Scaled(n, d, g, p, q) /\ g = gcd[d][Magnitude(n)]

LEMMA FractionIs ==
  ASSUME NEW n \in Int, NEW d \in Nat \ {0}
  PROVE  \E g \in Nat \ {0}, p \in Int, q \in Nat \ {0} : InTerms(n, d, g, p, q)
<1> DEFINE m == Magnitude(n)
<1>1. m \in Nat /\ (n < 0 => n = -m) /\ (~(n < 0) => n = m)
  BY DEF Magnitude
<1> HIDE DEF m
<1>2. PICK g \in Nat \ {0}, x \in Nat, y \in Nat \ {0} : g = gcd[d][m] /\ Scaled(m, d, g, x, y)
  BY <1>1, GcdDivides
<1>3. m \div g = x /\ d \div g = y
  <2>1. m = g * x + 0 /\ d = g * y + 0
    BY <1>2 DEF Scaled
  <2>2. 0 < g
    OBVIOUS
  <2>3. m \div g = x
    BY <1>1, <2>1, <2>2, DivisionIs
  <2>4. d \div g = y
    BY <2>1, <2>2, DivisionIs
  <2> QED
    BY <2>3, <2>4
<1>4. CASE n < 0
  <2>1. Fraction(n, d) = <<-x, y>>
    BY <1>2, <1>3, <1>4 DEF Fraction, m
  <2>2. n = -(g * x) /\ d = g * y
    BY <1>1, <1>2, <1>4 DEF Scaled
  <2>3. -(g * x) = g * (-x) /\ -x \in Int
    OBVIOUS
  <2>4. Scaled(n, d, g, -x, y)
    BY <2>2, <2>3 DEF Scaled
  <2> QED
    BY <1>2, <2>1, <2>3, <2>4 DEF m, InTerms
<1>5. CASE ~(n < 0)
  <2>1. n \div g = x
    BY <1>1, <1>3, <1>5
  <2>2. Fraction(n, d) = <<x, y>>
    BY <1>2, <1>3, <1>5, <2>1 DEF Fraction, m
  <2>3. x \in Int /\ Scaled(n, d, g, x, y)
    BY <1>1, <1>2, <1>5
  <2> QED
    BY <1>2, <2>2, <2>3 DEF m, InTerms
<1> QED
  BY <1>4, <1>5

LEMMA CancelFactor ==
  ASSUME NEW k \in Nat \ {0}, NEW p \in Int, NEW q \in Int, k * p = k * q
  PROVE  p = q
<1>1. k * (p - q) = 0
  OBVIOUS
<1>2. p - q = 0
  BY <1>1
<1> QED
  BY <1>2

(* A common factor cancels.                                                *)
LEMMA FractionCancels ==
  ASSUME NEW n \in Int, NEW d \in Nat \ {0}, NEW k \in Nat \ {0}
  PROVE  Fraction(k * n, k * d) = Fraction(n, d)
<1>1. PICK g \in Nat \ {0}, p \in Int, q \in Nat \ {0} : InTerms(n, d, g, p, q)
  BY FractionIs
<1>2. k * n \in Int /\ k * d \in Nat \ {0}
  OBVIOUS
<1>3. PICK h \in Nat \ {0}, s \in Int, t \in Nat \ {0} : InTerms(k * n, k * d, h, s, t)
  BY <1>2, FractionIs
<1>4. Magnitude(k * n) = k * Magnitude(n) /\ Magnitude(n) \in Nat
  <2>1. CASE n < 0
    <3>1. k * n < 0 /\ k * (-n) = -(k * n)
      BY <2>1
    <3> QED
      BY <2>1, <3>1 DEF Magnitude
  <2>2. CASE ~(n < 0)
    <3>1. ~(k * n < 0)
      BY <2>2
    <3> QED
      BY <2>2, <3>1 DEF Magnitude
  <2> QED
    BY <2>1, <2>2
<1>5. h = k * g
  <2>1. h = gcd[k * d][k * Magnitude(n)] /\ g = gcd[d][Magnitude(n)]
    BY <1>1, <1>3, <1>4 DEF InTerms
  <2>2. PICK m \in Nat : m = Magnitude(n)
    BY <1>4
  <2>3. gcd[k * d][k * m] = k * gcd[d][m]
    BY GcdScales
  <2> QED
    BY <2>1, <2>2, <2>3
<1>6. h * p = h * s /\ h * q = h * t
  <2>1. h * p = k * (g * p) /\ h * q = k * (g * q)
    BY <1>5
  <2>2. n = g * p /\ d = g * q /\ k * n = h * s /\ k * d = h * t
    BY <1>1, <1>3 DEF InTerms, Scaled
  <2> QED
    BY <2>1, <2>2
<1>7. p = s
  BY <1>6, CancelFactor
<1>8. q = t
  BY <1>6, CancelFactor
<1> QED
  BY <1>1, <1>3, <1>7, <1>8 DEF InTerms

(* Equal numbers have one form.                                            *)
LEMMA FractionsEqual ==
  ASSUME NEW n \in Int, NEW d \in Nat \ {0}, NEW m \in Int, NEW c \in Nat \ {0}, n * c = m * d
  PROVE  Fraction(n, d) = Fraction(m, c)
<1>1. Fraction(c * n, c * d) = Fraction(n, d) /\ Fraction(d * m, d * c) = Fraction(m, c)
  BY FractionCancels
<1>2. c * n = d * m /\ c * d = d * c
  OBVIOUS
<1> QED
  BY <1>1, <1>2

Decimal(x) == \E n \in Int, d \in Nat \ {0} : x = Fraction(n, d)

(* A decimal number is the fraction of its two parts.                      *)
LEMMA DecimalParts ==
  ASSUME NEW x, Decimal(x)
  PROVE  /\ x[1] \in Int /\ x[2] \in Nat \ {0}
         /\ x = Fraction(x[1], x[2])
         /\ x = <<x[1], x[2]>>
<1>1. PICK n \in Int, d \in Nat \ {0} : x = Fraction(n, d)
  BY DEF Decimal
<1>2. PICK g \in Nat \ {0}, p \in Int, q \in Nat \ {0} : InTerms(n, d, g, p, q)
  BY FractionIs
<1>3. Fraction(g * p, g * q) = Fraction(p, q)
  BY FractionCancels
<1>4. Fraction(n, d) = <<p, q>> /\ n = g * p /\ d = g * q
  BY <1>2 DEF InTerms, Scaled
<1>5. x = <<p, q>> /\ x = Fraction(p, q)
  BY <1>1, <1>3, <1>4
<1> QED
  BY <1>5

(* The sum of two fractions.                                               *)
LEMMA PlusOfFractions ==
  ASSUME NEW a \in Int, NEW b \in Nat \ {0}, NEW c \in Int, NEW d \in Nat \ {0}
  PROVE  Plus(Fraction(a, b), Fraction(c, d)) = Fraction(a * d + c * b, b * d)
<1>1. PICK g \in Nat \ {0}, p \in Int, q \in Nat \ {0} : InTerms(a, b, g, p, q)
  BY FractionIs
<1>2. PICK h \in Nat \ {0}, r \in Int, s \in Nat \ {0} : InTerms(c, d, h, r, s)
  BY FractionIs
<1>3. Plus(Fraction(a, b), Fraction(c, d)) = Fraction(p * s + r * q, q * s)
  BY <1>1, <1>2 DEF Plus, InTerms
<1>4. p * s + r * q \in Int /\ q * s \in Nat \ {0} /\ g * h \in Nat \ {0}
  OBVIOUS
<1>5. Fraction((g * h) * (p * s + r * q), (g * h) * (q * s)) = Fraction(p * s + r * q, q * s)
  BY <1>4, FractionCancels
<1>6. b * d = (g * h) * (q * s)
  <2>1. (g * q) * (h * s) = (g * h) * (q * s)
    OBVIOUS
  <2> QED
    BY <1>1, <1>2, <2>1 DEF InTerms, Scaled
<1>7. a * d + c * b = (g * h) * (p * s + r * q)
  <2>1. (g * p) * (h * s) + (h * r) * (g * q) = (g * h) * (p * s + r * q)
    OBVIOUS
  <2> QED
    BY <1>1, <1>2, <2>1 DEF InTerms, Scaled
<1> QED
  BY <1>3, <1>5, <1>6, <1>7

(* Of two with one denominator.                                            *)
LEMMA PlusOverOne ==
  ASSUME NEW a \in Int, NEW c \in Int, NEW b \in Nat \ {0}
  PROVE  Plus(Fraction(a, b), Fraction(c, b)) = Fraction(a + c, b)
<1>1. a * b + c * b = b * (a + c) /\ b * b \in Nat \ {0} /\ a + c \in Int
  OBVIOUS
<1> QED
  BY <1>1, PlusOfFractions, FractionCancels

LEMMA ZeroIsDecimal == Decimal(Zero)
  BY FractionOfZero DEF Decimal

LEMMA PlusIsDecimal ==
  ASSUME NEW x, NEW y, Decimal(x), Decimal(y)
  PROVE  Decimal(Plus(x, y)) /\ Plus(x, y) = Plus(y, x) /\ Plus(x, Zero) = x /\ Plus(Zero, x) = x
<1>1. PICK a \in Int, b \in Nat \ {0} : x = Fraction(a, b)
  BY DEF Decimal
<1>2. PICK c \in Int, d \in Nat \ {0} : y = Fraction(c, d)
  BY DEF Decimal
<1>3. Plus(x, y) = Fraction(a * d + c * b, b * d) /\ Plus(y, x) = Fraction(c * b + a * d, d * b)
  BY <1>1, <1>2, PlusOfFractions
<1>4. a * d + c * b \in Int /\ b * d \in Nat \ {0} /\ b * d = d * b
      /\ a * d + c * b = c * b + a * d
  OBVIOUS
<1>5. Zero = Fraction(0, b)
  BY FractionOfZero
<1>6. Plus(x, Zero) = x /\ Plus(Zero, x) = x
  BY <1>1, <1>5, PlusOverOne
<1> QED
  BY <1>3, <1>4, <1>6 DEF Decimal

LEMMA PlusAssociates ==
  ASSUME NEW x, NEW y, NEW z, Decimal(x), Decimal(y), Decimal(z)
  PROVE  Plus(Plus(x, y), z) = Plus(x, Plus(y, z))
<1>1. PICK a \in Int, b \in Nat \ {0} : x = Fraction(a, b)
  BY DEF Decimal
<1>2. PICK c \in Int, d \in Nat \ {0} : y = Fraction(c, d)
  BY DEF Decimal
<1>3. PICK e \in Int, f \in Nat \ {0} : z = Fraction(e, f)
  BY DEF Decimal
<1> DEFINE n == a * d + c * b
           m == c * f + e * d
<1>4. n \in Int /\ m \in Int /\ b * d \in Nat \ {0} /\ d * f \in Nat \ {0}
  OBVIOUS
<1>5. Plus(x, y) = Fraction(n, b * d) /\ Plus(y, z) = Fraction(m, d * f)
  <2>1. Plus(x, y) = Fraction(n, b * d)
    BY <1>1, <1>2, PlusOfFractions
  <2>2. Plus(y, z) = Fraction(m, d * f)
    BY <1>2, <1>3, PlusOfFractions
  <2> QED
    BY <2>1, <2>2
<1>6. n * f + e * (b * d) = a * (d * f) + m * b /\ (b * d) * f = b * (d * f)
  OBVIOUS
<1> HIDE DEF n, m
<1>7. Plus(Plus(x, y), z) = Fraction(n * f + e * (b * d), (b * d) * f)
  BY <1>3, <1>4, <1>5, PlusOfFractions
<1>8. Plus(x, Plus(y, z)) = Fraction(a * (d * f) + m * b, b * (d * f))
  BY <1>1, <1>4, <1>5, PlusOfFractions
<1> QED
  BY <1>6, <1>7, <1>8

LEMMA MinusOfFraction ==
  ASSUME NEW n \in Int, NEW d \in Nat \ {0}
  PROVE  Minus(Fraction(n, d)) = Fraction(-n, d)
<1>0. PICK m \in Int : m = -n
  OBVIOUS
<1>1. PICK g \in Nat \ {0}, p \in Int, q \in Nat \ {0} : InTerms(n, d, g, p, q)
  BY FractionIs
<1>2. PICK h \in Nat \ {0}, s \in Int, t \in Nat \ {0} : InTerms(m, d, h, s, t)
  BY FractionIs
<1>3. Magnitude(m) = Magnitude(n)
  BY <1>0 DEF Magnitude
<1>4. h = g
  BY <1>1, <1>2, <1>3 DEF InTerms
<1>5. g * (-p) = g * s /\ g * q = g * t
  <2>1. n = g * p /\ d = g * q /\ m = g * s /\ d = g * t
    BY <1>1, <1>2, <1>4 DEF InTerms, Scaled
  <2>2. -(g * p) = g * (-p)
    OBVIOUS
  <2> QED
    BY <1>0, <2>1, <2>2
<1>6. s = -p
  <2>1. -p \in Int
    OBVIOUS
  <2> QED
    BY <1>5, <2>1, CancelFactor
<1>7. t = q
  BY <1>5, CancelFactor
<1> QED
  BY <1>0, <1>1, <1>2, <1>6, <1>7 DEF Minus, InTerms

LEMMA MinusIsDecimal ==
  ASSUME NEW x, NEW y, Decimal(x), Decimal(y)
  PROVE  /\ Decimal(Minus(x)) /\ Minus(Plus(x, y)) = Plus(Minus(x), Minus(y))
         /\ Minus(Zero) = Zero
<1>1. PICK a \in Int, b \in Nat \ {0} : x = Fraction(a, b)
  BY DEF Decimal
<1>2. PICK c \in Int, d \in Nat \ {0} : y = Fraction(c, d)
  BY DEF Decimal
<1>3. Minus(x) = Fraction(-a, b) /\ Minus(y) = Fraction(-c, d)
  BY <1>1, <1>2, MinusOfFraction
<1>4. a * d + c * b \in Int /\ b * d \in Nat \ {0}
      /\ -(a * d + c * b) = (-a) * d + (-c) * b
  OBVIOUS
<1>5. Plus(x, y) = Fraction(a * d + c * b, b * d)
      /\ Plus(Minus(x), Minus(y)) = Fraction((-a) * d + (-c) * b, b * d)
  BY <1>1, <1>2, <1>3, PlusOfFractions
<1>6. Minus(Plus(x, y)) = Plus(Minus(x), Minus(y))
  BY <1>4, <1>5, MinusOfFraction
<1>7. Decimal(Minus(x))
  BY <1>3 DEF Decimal
<1>8. Minus(Zero) = Zero
  <2>1. ASSUME NEW n \in Int
        PROVE  Minus(Fraction(n, 1)) = Fraction(0 - n, 1)
    <3>1. -n = 0 - n
      OBVIOUS
    <3> QED
      BY <3>1, MinusOfFraction
  <2>2. Minus(Fraction(0, 1)) = Fraction(0 - 0, 1)
    BY <2>1
  <2>3. 0 - 0 = 0
    OBVIOUS
  <2> QED
    BY <2>2, <2>3, FractionOfZero
<1> QED
  BY <1>6, <1>7, <1>8
-----------------------------------------------------------------------------
(* The two kinds of numbers that stores add up: decimals and integers.     *)
Adds(valueType) == valueType \notin {"set", "delete", "sum", "count"}
IsNumber(valueType, x) == IF valueType = "bigfloat" THEN Decimal(x) ELSE x \in Int
Nothing(valueType) == IF valueType = "bigfloat" THEN Zero ELSE 0

LEMMA AddLaws ==
  ASSUME NEW vt, NEW x, NEW y, NEW z, IsNumber(vt, x), IsNumber(vt, y), IsNumber(vt, z)
  PROVE  /\ IsNumber(vt, Nothing(vt))
         /\ IsNumber(vt, AddValues(vt, x, y))
         /\ AddValues(vt, AddValues(vt, x, y), z) = AddValues(vt, x, AddValues(vt, y, z))
         /\ AddValues(vt, x, y) = AddValues(vt, y, x)
         /\ AddValues(vt, x, Nothing(vt)) = x /\ AddValues(vt, Nothing(vt), x) = x
<1>1. CASE vt = "bigfloat"
  <2>1. Decimal(x) /\ Decimal(y) /\ Decimal(z)
    BY <1>1 DEF IsNumber
  <2>2. Decimal(Zero) /\ Decimal(Plus(x, y)) /\ Plus(x, y) = Plus(y, x)
        /\ Plus(x, Zero) = x /\ Plus(Zero, x) = x
    BY <2>1, ZeroIsDecimal, PlusIsDecimal
  <2>3. Plus(Plus(x, y), z) = Plus(x, Plus(y, z))
    BY <2>1, PlusAssociates
  <2> QED
    BY <1>1, <2>2, <2>3 DEF IsNumber, AddValues, Nothing
<1>2. CASE vt # "bigfloat"
  <2>1. x \in Int /\ y \in Int /\ z \in Int
    BY <1>2 DEF IsNumber
  <2> QED
    BY <1>2, <2>1 DEF IsNumber, AddValues, Nothing
<1> QED
  BY <1>1, <1>2

(* The total of a list, and the totals on the way to it.                   *)
Total(valueType, s) ==
  IF valueType = "bigfloat" THEN FoldLeft(Plus, Zero, s)
  ELSE FoldLeft(LAMBDA sum, n : sum + n, 0, s)

Running(valueType, s, n, h) ==
  h[0] = Nothing(valueType) /\ \A i \in 1 .. n : h[i] = AddValues(valueType, h[i - 1], s[i])

SumsFold(s, D, g) ==
  g = [t \in SUBSET D |-> IF t = {} THEN Zero ELSE Plus(g[t \ {Max(t)}], s[Max(t)])]
CountsFold(s, D, g) ==
  g = [t \in SUBSET D |-> IF t = {} THEN 0 ELSE g[t \ {Max(t)}] + s[Max(t)]]

LEMMA SumUnfolds ==
  ASSUME NEW s, \E g : SumsFold(s, DOMAIN s, g)
  PROVE  \E g : SumsFold(s, DOMAIN s, g) /\ FoldLeft(Plus, Zero, s) = g[DOMAIN s]
  BY DEF SumsFold, FoldLeft, MapThenFoldSet

LEMMA CountUnfolds ==
  ASSUME NEW s, \E g : CountsFold(s, DOMAIN s, g)
  PROVE  \E g : /\ CountsFold(s, DOMAIN s, g)
                /\ FoldLeft(LAMBDA sum, n : sum + n, 0, s) = g[DOMAIN s]
  BY DEF CountsFold, FoldLeft, MapThenFoldSet

LEMMA TotalSteps ==
  ASSUME NEW vt, NEW n \in Nat, NEW s, DOMAIN s = 1 .. n
  PROVE  \E h : Running(vt, s, n, h) /\ Total(vt, s) = h[n]
<1>1. CASE vt = "bigfloat"
  <2>1. ASSUME NEW g, NEW D
        PROVE  IsFold("sum", Zero, s, D, g) <=> SumsFold(s, D, g)
    BY DEF IsFold, SumsFold, Step
  <2>2. PICK g : SumsFold(s, 1 .. n, g) /\ FoldLeft(Plus, Zero, s) = g[1 .. n]
    BY <2>1, FoldExists, SumUnfolds
  <2>3. PICK h : OneByOne("sum", Zero, s, n, h) /\ h[n] = g[1 .. n]
    <3>1. IsFold("sum", Zero, s, 1 .. n, g)
      BY <2>1, <2>2
    <3> QED
      BY <3>1, FoldSteps
  <2>4. Running(vt, s, n, h)
    BY <1>1, <2>3 DEF OneByOne, Running, Step, AddValues, Nothing
  <2> QED
    BY <1>1, <2>2, <2>3, <2>4 DEF Total
<1>2. CASE vt # "bigfloat"
  <2>1. ASSUME NEW g, NEW D
        PROVE  IsFold("count", 0, s, D, g) <=> CountsFold(s, D, g)
    BY DEF IsFold, CountsFold, Step
  <2>2. PICK g : /\ CountsFold(s, 1 .. n, g)
                 /\ FoldLeft(LAMBDA sum, k : sum + k, 0, s) = g[1 .. n]
    BY <2>1, FoldExists, CountUnfolds
  <2>3. PICK h : OneByOne("count", 0, s, n, h) /\ h[n] = g[1 .. n]
    <3>1. IsFold("count", 0, s, 1 .. n, g)
      BY <2>1, <2>2
    <3> QED
      BY <3>1, FoldSteps
  <2>4. Running(vt, s, n, h)
    BY <1>2, <2>3 DEF OneByOne, Running, Step, AddValues, Nothing
  <2> QED
    BY <1>2, <2>2, <2>3, <2>4 DEF Total
<1> QED
  BY <1>1, <1>2

LEMMA NothingIsNumber == ASSUME NEW vt PROVE IsNumber(vt, Nothing(vt))
  BY ZeroIsDecimal DEF IsNumber, Nothing

(* A total of numbers is one.                                              *)
LEMMA RunningNumbers ==
  ASSUME NEW vt, NEW n \in Nat, NEW s, NEW h, Running(vt, s, n, h),
         \A i \in 1 .. n : IsNumber(vt, s[i])
  PROVE  \A m \in 0 .. n : IsNumber(vt, h[m])
<1> DEFINE T == {m \in Nat : m <= n => IsNumber(vt, h[m])}
<1>1. 0 \in T
  BY NothingIsNumber DEF Running
<1>2. ASSUME NEW m \in T
      PROVE  m + 1 \in T
  <2> SUFFICES ASSUME m + 1 <= n
               PROVE  IsNumber(vt, h[m + 1])
    OBVIOUS
  <2>1. m + 1 \in 1 .. n /\ (m + 1) - 1 = m /\ IsNumber(vt, h[m])
    OBVIOUS
  <2>2. h[m + 1] = AddValues(vt, h[m], s[m + 1])
    BY <2>1 DEF Running
  <2> QED
    BY <2>1, <2>2, AddLaws
<1> HIDE DEF T
<1>3. \A m \in Nat : m \in T
  BY <1>1, <1>2, Induction
<1> QED
  BY <1>3 DEF T

LEMMA TotalIsNumber ==
  ASSUME NEW vt, NEW n \in Nat, NEW s, DOMAIN s = 1 .. n, \A i \in 1 .. n : IsNumber(vt, s[i])
  PROVE  IsNumber(vt, Total(vt, s))
<1>1. PICK h : Running(vt, s, n, h) /\ Total(vt, s) = h[n]
  BY TotalSteps
<1>2. n \in 0 .. n
  OBVIOUS
<1> QED
  BY <1>1, <1>2, RunningNumbers

(* Lists that begin alike have the same totals so far.                     *)
Alike(s, t, n) == \A i \in 1 .. n : s[i] = t[i]

LEMMA RunningAlike ==
  ASSUME NEW vt, NEW n \in Nat, NEW s, NEW h, Running(vt, s, n, h),
         NEW k \in Nat, NEW t, NEW g, Running(vt, t, k, g), n <= k, Alike(s, t, n)
  PROVE  h[n] = g[n]
<1> DEFINE T == {m \in Nat : m <= n => h[m] = g[m]}
<1>1. 0 \in T
  BY DEF Running
<1>2. ASSUME NEW m \in T
      PROVE  m + 1 \in T
  <2> SUFFICES ASSUME m + 1 <= n
               PROVE  h[m + 1] = g[m + 1]
    OBVIOUS
  <2>1. m + 1 \in 1 .. n /\ m + 1 \in 1 .. k /\ (m + 1) - 1 = m /\ h[m] = g[m]
    OBVIOUS
  <2> QED
    BY <2>1 DEF Running, Alike
<1> HIDE DEF T
<1>3. n \in T
  BY <1>1, <1>2, Induction
<1> QED
  BY <1>3 DEF T

LEMMA TotalOfNone ==
  ASSUME NEW vt, NEW s, DOMAIN s = {}
  PROVE  Total(vt, s) = Nothing(vt)
<1>1. DOMAIN s = 1 .. 0
  OBVIOUS
<1> QED
  BY <1>1, TotalSteps DEF Running

(* The total of two lists one after the other.                             *)
Numbers(vt, s, n) == \A i \in 1 .. n : IsNumber(vt, s[i])
Joined(s, n, t, k, u) ==
  /\ DOMAIN s = 1 .. n /\ DOMAIN t = 1 .. k /\ DOMAIN u = 1 .. n + k
  /\ \A i \in 1 .. n : u[i] = s[i]
  /\ \A i \in 1 .. k : u[n + i] = t[i]

LEMMA TotalOfConcat ==
  ASSUME NEW vt, NEW n \in Nat, NEW k \in Nat, NEW s, NEW t, NEW u, Joined(s, n, t, k, u),
         Numbers(vt, s, n), Numbers(vt, t, k)
  PROVE  Total(vt, u) = AddValues(vt, Total(vt, s), Total(vt, t))
<1>0. DOMAIN s = 1 .. n /\ DOMAIN t = 1 .. k /\ DOMAIN u = 1 .. n + k /\ n + k \in Nat
  BY DEF Joined
<1>1. PICK f : Running(vt, s, n, f) /\ Total(vt, s) = f[n]
  BY <1>0, TotalSteps
<1>2. PICK g : Running(vt, t, k, g) /\ Total(vt, t) = g[k]
  BY <1>0, TotalSteps
<1>3. PICK h : Running(vt, u, n + k, h) /\ Total(vt, u) = h[n + k]
  BY <1>0, TotalSteps
<1>4. n <= n + k /\ Alike(s, u, n)
  BY DEF Alike, Joined
<1>5. h[n] = f[n]
  BY <1>0, <1>1, <1>3, <1>4, RunningAlike
<1>6. IsNumber(vt, f[n]) /\ \A m \in 0 .. k : IsNumber(vt, g[m])
  <2>1. n \in 0 .. n
    OBVIOUS
  <2> QED
    BY <1>1, <1>2, <2>1, RunningNumbers DEF Numbers
<1> DEFINE T == {m \in Nat : m <= k => h[n + m] = AddValues(vt, f[n], g[m])}
<1>7. 0 \in T
  <2>1. n + 0 = n /\ g[0] = Nothing(vt)
    BY <1>2 DEF Running
  <2>2. AddValues(vt, f[n], Nothing(vt)) = f[n]
    BY <1>6, AddLaws
  <2> QED
    BY <1>5, <2>1, <2>2
<1>8. ASSUME NEW m \in T
      PROVE  m + 1 \in T
  <2> SUFFICES ASSUME m + 1 <= k
               PROVE  h[n + (m + 1)] = AddValues(vt, f[n], g[m + 1])
    OBVIOUS
  <2>1. /\ m + 1 \in 1 .. k /\ m \in 0 .. k /\ (m + 1) - 1 = m
        /\ n + (m + 1) \in 1 .. n + k /\ (n + (m + 1)) - 1 = n + m
        /\ h[n + m] = AddValues(vt, f[n], g[m])
    OBVIOUS
  <2>2. h[n + (m + 1)] = AddValues(vt, h[n + m], u[n + (m + 1)])
    BY <1>3, <2>1 DEF Running
  <2>3. g[m + 1] = AddValues(vt, g[m], t[m + 1])
    BY <1>2, <2>1 DEF Running
  <2>4. u[n + (m + 1)] = t[m + 1] /\ IsNumber(vt, t[m + 1]) /\ IsNumber(vt, g[m])
    BY <1>6, <2>1 DEF Joined, Numbers
  <2> HIDE DEF T
  <2> QED
    BY <1>6, <2>1, <2>2, <2>3, <2>4, AddLaws
<1> HIDE DEF T
<1>9. k \in T
  BY <1>7, <1>8, Induction
<1>10. h[n + k] = AddValues(vt, f[n], g[k])
  BY <1>9 DEF T
<1> QED
  BY <1>1, <1>2, <1>3, <1>10

(* And with one more.                                                      *)
LEMMA TotalGrows ==
  ASSUME NEW vt, NEW n \in Nat, NEW s, DOMAIN s = 1 .. n, NEW u, DOMAIN u = 1 .. n + 1,
         Alike(s, u, n)
  PROVE  Total(vt, u) = AddValues(vt, Total(vt, s), u[n + 1])
<1>1. PICK f : Running(vt, s, n, f) /\ Total(vt, s) = f[n]
  BY TotalSteps
<1>2. n + 1 \in Nat /\ n <= n + 1 /\ n + 1 \in 1 .. n + 1 /\ (n + 1) - 1 = n
  OBVIOUS
<1>3. PICK h : Running(vt, u, n + 1, h) /\ Total(vt, u) = h[n + 1]
  BY <1>2, TotalSteps
<1>4. f[n] = h[n]
  BY <1>1, <1>2, <1>3, RunningAlike
<1> QED
  BY <1>1, <1>2, <1>3, <1>4 DEF Running

LEMMA TotalAlike ==
  ASSUME NEW vt, NEW n \in Nat, NEW s, DOMAIN s = 1 .. n, NEW t, DOMAIN t = 1 .. n, Alike(s, t, n)
  PROVE  Total(vt, s) = Total(vt, t)
<1>1. PICK f : Running(vt, s, n, f) /\ Total(vt, s) = f[n]
  BY TotalSteps
<1>2. PICK h : Running(vt, t, n, h) /\ Total(vt, t) = h[n]
  BY TotalSteps
<1>3. n <= n
  OBVIOUS
<1> QED
  BY <1>1, <1>2, <1>3, RunningAlike

LEMMA TotalOfNothings ==
  ASSUME NEW vt, NEW n \in Nat, NEW s, DOMAIN s = 1 .. n, \A i \in 1 .. n : s[i] = Nothing(vt)
  PROVE  Total(vt, s) = Nothing(vt)
<1>1. PICK h : Running(vt, s, n, h) /\ Total(vt, s) = h[n]
  BY TotalSteps
<1>2. AddValues(vt, Nothing(vt), Nothing(vt)) = Nothing(vt)
  BY NothingIsNumber, AddLaws
<1> DEFINE T == {m \in Nat : m <= n => h[m] = Nothing(vt)}
<1>3. 0 \in T
  BY <1>1 DEF Running
<1>4. ASSUME NEW m \in T
      PROVE  m + 1 \in T
  <2> SUFFICES ASSUME m + 1 <= n
               PROVE  h[m + 1] = Nothing(vt)
    OBVIOUS
  <2>1. m + 1 \in 1 .. n /\ (m + 1) - 1 = m /\ h[m] = Nothing(vt)
    OBVIOUS
  <2> QED
    BY <1>1, <1>2, <2>1 DEF Running
<1> HIDE DEF T
<1>5. n \in T
  BY <1>3, <1>4, Induction
<1> QED
  BY <1>1, <1>5 DEF T

OnlyAt(vt, s, n, j) == IsNumber(vt, s[j]) /\ \A i \in 1 .. n : i # j => s[i] = Nothing(vt)

LEMMA TotalOfOne ==
  ASSUME NEW vt, NEW n \in Nat, NEW s, DOMAIN s = 1 .. n, NEW j \in 1 .. n, OnlyAt(vt, s, n, j)
  PROVE  Total(vt, s) = s[j]
<1>1. PICK h : Running(vt, s, n, h) /\ Total(vt, s) = h[n]
  BY TotalSteps
<1>2. IsNumber(vt, Nothing(vt))
  BY NothingIsNumber
<1>3. /\ AddValues(vt, Nothing(vt), Nothing(vt)) = Nothing(vt)
      /\ AddValues(vt, s[j], Nothing(vt)) = s[j]
      /\ AddValues(vt, Nothing(vt), s[j]) = s[j]
  BY <1>2, AddLaws DEF OnlyAt
<1> DEFINE T == {m \in Nat : m <= n => h[m] = IF m < j THEN Nothing(vt) ELSE s[j]}
<1>4. 0 \in T
  BY <1>1 DEF Running
<1>5. ASSUME NEW m \in T
      PROVE  m + 1 \in T
  <2> SUFFICES ASSUME m + 1 <= n
               PROVE  h[m + 1] = IF m + 1 < j THEN Nothing(vt) ELSE s[j]
    OBVIOUS
  <2>1. /\ m + 1 \in 1 .. n /\ (m + 1) - 1 = m
        /\ h[m] = IF m < j THEN Nothing(vt) ELSE s[j]
    OBVIOUS
  <2>2. h[m + 1] = AddValues(vt, h[m], s[m + 1])
    BY <1>1, <2>1 DEF Running
  <2>3. CASE m + 1 < j
    BY <1>3, <2>1, <2>2, <2>3 DEF OnlyAt
  <2>4. CASE m + 1 = j
    BY <1>3, <2>1, <2>2, <2>4
  <2>5. CASE m + 1 > j
    BY <1>3, <2>1, <2>2, <2>5 DEF OnlyAt
  <2> QED
    BY <2>3, <2>4, <2>5
<1> HIDE DEF T
<1>6. n \in T
  BY <1>4, <1>5, Induction
<1> QED
  BY <1>1, <1>6 DEF T

(* Adding up sums, and negated numbers.                                    *)
LEMMA TotalOfSums ==
  ASSUME NEW vt, NEW n \in Nat, NEW s, DOMAIN s = 1 .. n, NEW t, DOMAIN t = 1 .. n,
         NEW u, DOMAIN u = 1 .. n, Numbers(vt, s, n), Numbers(vt, t, n),
         \A i \in 1 .. n : u[i] = AddValues(vt, s[i], t[i])
  PROVE  Total(vt, u) = AddValues(vt, Total(vt, s), Total(vt, t))
<1>1. PICK f : Running(vt, s, n, f) /\ Total(vt, s) = f[n]
  BY TotalSteps
<1>2. PICK g : Running(vt, t, n, g) /\ Total(vt, t) = g[n]
  BY TotalSteps
<1>3. PICK h : Running(vt, u, n, h) /\ Total(vt, u) = h[n]
  BY TotalSteps
<1>4. \A m \in 0 .. n : IsNumber(vt, f[m])
  BY <1>1, RunningNumbers DEF Numbers
<1>5. \A m \in 0 .. n : IsNumber(vt, g[m])
  BY <1>2, RunningNumbers DEF Numbers
<1> DEFINE T == {m \in Nat : m <= n => h[m] = AddValues(vt, f[m], g[m])}
<1>6. 0 \in T
  <2>1. AddValues(vt, Nothing(vt), Nothing(vt)) = Nothing(vt)
    BY NothingIsNumber, AddLaws
  <2> QED
    BY <1>1, <1>2, <1>3, <2>1 DEF Running
<1>7. ASSUME NEW m \in T
      PROVE  m + 1 \in T
  <2> SUFFICES ASSUME m + 1 <= n
               PROVE  h[m + 1] = AddValues(vt, f[m + 1], g[m + 1])
    OBVIOUS
  <2>1. /\ m + 1 \in 1 .. n /\ (m + 1) - 1 = m /\ m \in 0 .. n
        /\ h[m] = AddValues(vt, f[m], g[m])
    OBVIOUS
  <2> HIDE DEF T
  <2>2. /\ f[m + 1] = AddValues(vt, f[m], s[m + 1])
        /\ g[m + 1] = AddValues(vt, g[m], t[m + 1])
        /\ h[m + 1] = AddValues(vt, h[m], AddValues(vt, s[m + 1], t[m + 1]))
    BY <1>1, <1>2, <1>3, <2>1 DEF Running
  <2>3. PICK a, b, x, y : a = f[m] /\ b = g[m] /\ x = s[m + 1] /\ y = t[m + 1]
    OBVIOUS
  <2>4. IsNumber(vt, a) /\ IsNumber(vt, b) /\ IsNumber(vt, x) /\ IsNumber(vt, y)
    BY <1>4, <1>5, <2>1, <2>3 DEF Numbers
  <2>5. IsNumber(vt, AddValues(vt, x, y)) /\ AddValues(vt, b, x) = AddValues(vt, x, b)
        /\ IsNumber(vt, AddValues(vt, b, y)) /\ IsNumber(vt, AddValues(vt, a, x))
    BY <2>4, AddLaws
  <2>6. AddValues(vt, AddValues(vt, a, b), AddValues(vt, x, y))
          = AddValues(vt, a, AddValues(vt, b, AddValues(vt, x, y)))
    BY <2>4, <2>5, AddLaws
  <2>7. AddValues(vt, b, AddValues(vt, x, y)) = AddValues(vt, AddValues(vt, b, x), y)
    BY <2>4, AddLaws
  <2>8. AddValues(vt, AddValues(vt, x, b), y) = AddValues(vt, x, AddValues(vt, b, y))
    BY <2>4, AddLaws
  <2>9. AddValues(vt, a, AddValues(vt, x, AddValues(vt, b, y)))
          = AddValues(vt, AddValues(vt, a, x), AddValues(vt, b, y))
    BY <2>4, <2>5, AddLaws
  <2> QED
    BY <2>1, <2>2, <2>3, <2>5, <2>6, <2>7, <2>8, <2>9
<1> HIDE DEF T
<1>8. n \in T
  BY <1>6, <1>7, Induction
<1> QED
  BY <1>1, <1>2, <1>3, <1>8 DEF T

LEMMA TotalOfNegated ==
  ASSUME NEW n \in Nat, NEW s, DOMAIN s = 1 .. n, NEW t, DOMAIN t = 1 .. n,
         Numbers("bigfloat", s, n), \A i \in 1 .. n : t[i] = Minus(s[i])
  PROVE  Total("bigfloat", t) = Minus(Total("bigfloat", s))
<1>1. PICK f : Running("bigfloat", s, n, f) /\ Total("bigfloat", s) = f[n]
  BY TotalSteps
<1>2. PICK g : Running("bigfloat", t, n, g) /\ Total("bigfloat", t) = g[n]
  BY TotalSteps
<1>3. \A m \in 0 .. n : Decimal(f[m])
  <2>1. \A m \in 0 .. n : IsNumber("bigfloat", f[m])
    BY <1>1, RunningNumbers DEF Numbers
  <2> QED
    BY <2>1 DEF IsNumber
<1> DEFINE T == {m \in Nat : m <= n => g[m] = Minus(f[m])}
<1>4. 0 \in T
  <2>1. Minus(Zero) = Zero
    BY ZeroIsDecimal, MinusIsDecimal
  <2> QED
    BY <1>1, <1>2, <2>1 DEF Running, Nothing
<1>5. ASSUME NEW m \in T
      PROVE  m + 1 \in T
  <2> SUFFICES ASSUME m + 1 <= n
               PROVE  g[m + 1] = Minus(f[m + 1])
    OBVIOUS
  <2>1. m + 1 \in 1 .. n /\ (m + 1) - 1 = m /\ m \in 0 .. n /\ g[m] = Minus(f[m])
    OBVIOUS
  <2> HIDE DEF T
  <2>2. f[m + 1] = Plus(f[m], s[m + 1]) /\ g[m + 1] = Plus(g[m], Minus(s[m + 1]))
    BY <1>1, <1>2, <2>1 DEF Running, AddValues
  <2>3. Decimal(f[m]) /\ Decimal(s[m + 1])
    BY <1>3, <2>1 DEF Numbers, IsNumber
  <2> QED
    BY <2>1, <2>2, <2>3, MinusIsDecimal
<1> HIDE DEF T
<1>6. n \in T
  BY <1>4, <1>5, Induction
<1> QED
  BY <1>1, <1>2, <1>6 DEF T

(* Adding up amounts that are scaled alike.                                *)
ScaledBy(s, t, n, b) == \A i \in 1 .. n : s[i] \in Int /\ t[i] = Fraction(s[i], b)

LEMMA TotalOfScaled ==
  ASSUME NEW b \in Nat \ {0}, NEW n \in Nat, NEW s, DOMAIN s = 1 .. n, NEW t, DOMAIN t = 1 .. n,
         ScaledBy(s, t, n, b)
  PROVE  Total("bigfloat", t) = Fraction(Total("bigint", s), b)
<1>0. /\ \A i \in 1 .. n : s[i] \in Int
      /\ \A i \in 1 .. n : t[i] = Fraction(s[i], b)
  BY DEF ScaledBy
<1>1. PICK f : Running("bigint", s, n, f) /\ Total("bigint", s) = f[n]
  BY TotalSteps
<1>2. PICK g : Running("bigfloat", t, n, g) /\ Total("bigfloat", t) = g[n]
  BY TotalSteps
<1>3. \A m \in 0 .. n : f[m] \in Int
  <2>1. \A m \in 0 .. n : IsNumber("bigint", f[m])
    BY <1>0, <1>1, RunningNumbers DEF IsNumber
  <2> QED
    BY <2>1 DEF IsNumber
<1> DEFINE T == {m \in Nat : m <= n => g[m] = Fraction(f[m], b)}
<1>4. 0 \in T
  <2>1. f[0] = 0 /\ g[0] = Zero
    BY <1>1, <1>2 DEF Running, Nothing
  <2> QED
    BY <2>1, FractionOfZero
<1>5. ASSUME NEW m \in T
      PROVE  m + 1 \in T
  <2> SUFFICES ASSUME m + 1 <= n
               PROVE  g[m + 1] = Fraction(f[m + 1], b)
    OBVIOUS
  <2>1. m + 1 \in 1 .. n /\ (m + 1) - 1 = m /\ m \in 0 .. n /\ g[m] = Fraction(f[m], b)
    OBVIOUS
  <2> HIDE DEF T
  <2>2. f[m + 1] = f[m] + s[m + 1] /\ g[m + 1] = Plus(g[m], t[m + 1])
    BY <1>1, <1>2, <2>1 DEF Running, AddValues
  <2>3. f[m] \in Int /\ s[m + 1] \in Int /\ t[m + 1] = Fraction(s[m + 1], b)
    BY <1>0, <1>3, <2>1
  <2> QED
    BY <2>1, <2>2, <2>3, PlusOverOne
<1> HIDE DEF T
<1>6. n \in T
  BY <1>4, <1>5, Induction
<1> QED
  BY <1>1, <1>2, <1>6 DEF T

(* What add_many leaves under a key: what was there and the writes to it.  *)
HeldValue(valueType, store, key) == IF Has(store, key) THEN store.kv[key] ELSE Nothing(valueType)

Parts(valueType, writes, key) ==
  [i \in DOMAIN writes |-> IF writes[i][2] = key THEN writes[i][3] ELSE Nothing(valueType)]

CountsUp(valueType, writes, key) ==
  \A i \in DOMAIN writes : writes[i][2] = key => IsNumber(valueType, writes[i][3])

LEMMA OneAdded ==
  ASSUME NEW vt, NEW store, NEW w, NEW key, IsNumber(vt, HeldValue(vt, store, key)),
         w[2] = key => IsNumber(vt, w[3])
  PROVE  LET new == Put(store, w[1], w[2], Added(store, vt, w[2], w[3])) IN
         HeldValue(vt, new, key) = AddValues(vt, HeldValue(vt, store, key),
                                         IF w[2] = key THEN w[3] ELSE Nothing(vt))
<1> DEFINE value == Added(store, vt, w[2], w[3])
           new == Put(store, w[1], w[2], value)
<1>1. new.kv = [k \in DOMAIN store.kv \cup {w[2]} |-> IF k = w[2] THEN value ELSE store.kv[k]]
  BY DEF Put
<1>2. CASE w[2] = key
  <2>1. HeldValue(vt, new, key) = value
    BY <1>1, <1>2 DEF HeldValue, Has
  <2>2. AddValues(vt, Nothing(vt), w[3]) = w[3]
    BY <1>2, AddLaws
  <2>3. value = AddValues(vt, HeldValue(vt, store, key), w[3])
    BY <1>2, <2>2 DEF Added, HeldValue
  <2> QED
    BY <1>2, <2>1, <2>3
<1>3. CASE w[2] # key
  <2>1. HeldValue(vt, new, key) = HeldValue(vt, store, key)
    BY <1>1, <1>3 DEF HeldValue, Has
  <2>2. AddValues(vt, HeldValue(vt, store, key), Nothing(vt)) = HeldValue(vt, store, key)
    BY AddLaws
  <2> QED
    BY <1>3, <2>1, <2>2
<1> QED
  BY <1>2, <1>3

LEMMA PartsAre ==
  ASSUME NEW vt, NEW writes, NEW key, CountsUp(vt, writes, key)
  PROVE  /\ DOMAIN Parts(vt, writes, key) = DOMAIN writes
         /\ \A i \in DOMAIN writes :
              /\ Parts(vt, writes, key)[i] = IF writes[i][2] = key THEN writes[i][3]
                                             ELSE Nothing(vt)
              /\ IsNumber(vt, Parts(vt, writes, key)[i])
<1>1. IsNumber(vt, Nothing(vt))
  BY NothingIsNumber
<1> QED
  BY <1>1 DEF Parts, CountsUp

LEMMA AddedToKey ==
  ASSUME NEW vt, Adds(vt), NEW store, NEW n \in Nat, NEW writes, DOMAIN writes = 1 .. n,
         NEW key, IsNumber(vt, HeldValue(vt, store, key)), CountsUp(vt, writes, key)
  PROVE  HeldValue(vt, AddAll(store, writes, vt), key)
           = AddValues(vt, HeldValue(vt, store, key), Total(vt, Parts(vt, writes, key)))
<1>p. PICK parts : parts = Parts(vt, writes, key)
  OBVIOUS
<1>0. /\ DOMAIN parts = 1 .. n
      /\ \A i \in 1 .. n : parts[i] = IF writes[i][2] = key THEN writes[i][3] ELSE Nothing(vt)
      /\ Numbers(vt, parts, n)
  BY <1>p, PartsAre DEF Numbers
<1>1. PICK h : OneByOne(vt, store, writes, n, h) /\ AddAll(store, writes, vt) = h[n]
  BY AddAllSteps DEF Adds
<1>2. PICK g : Running(vt, parts, n, g) /\ Total(vt, parts) = g[n]
  BY <1>0, TotalSteps
<1>3. \A m \in 0 .. n : IsNumber(vt, g[m])
  BY <1>0, <1>2, RunningNumbers DEF Numbers
<1>v. PICK v : v = HeldValue(vt, store, key) /\ IsNumber(vt, v)
  OBVIOUS
<1> DEFINE T == {m \in Nat : m <= n => HeldValue(vt, h[m], key) = AddValues(vt, v, g[m])}
<1>4. 0 \in T
  <2>1. h[0] = store /\ g[0] = Nothing(vt)
    BY <1>1, <1>2 DEF OneByOne, Running
  <2>2. AddValues(vt, v, Nothing(vt)) = v
    BY <1>v, AddLaws
  <2> QED
    BY <1>v, <2>1, <2>2
<1>5. ASSUME NEW m \in T
      PROVE  m + 1 \in T
  <2> SUFFICES ASSUME m + 1 <= n
               PROVE  HeldValue(vt, h[m + 1], key) = AddValues(vt, v, g[m + 1])
    OBVIOUS
  <2>1. /\ m + 1 \in 1 .. n /\ (m + 1) - 1 = m /\ m \in 0 .. n
        /\ HeldValue(vt, h[m], key) = AddValues(vt, v, g[m])
    OBVIOUS
  <2> HIDE DEF T
  <2>w. PICK w : w = writes[m + 1]
    OBVIOUS
  <2>2. h[m + 1] = Put(h[m], w[1], w[2], Added(h[m], vt, w[2], w[3]))
    <3>1. h[m + 1] = Step(vt, h[(m + 1) - 1], writes[m + 1])
      BY <1>1, <2>1 DEF OneByOne
    <3> QED
      BY <2>1, <2>w, <3>1 DEF Step, Adds
  <2>3. g[m + 1] = AddValues(vt, g[m], parts[m + 1])
    BY <1>2, <2>1 DEF Running
  <2>4. parts[m + 1] = IF w[2] = key THEN w[3] ELSE Nothing(vt)
    BY <1>0, <2>1, <2>w
  <2>5. IsNumber(vt, parts[m + 1]) /\ IsNumber(vt, g[m])
    BY <1>0, <1>3, <2>1 DEF Numbers
  <2>6. IsNumber(vt, HeldValue(vt, h[m], key))
    BY <1>v, <2>1, <2>5, AddLaws
  <2>7. w[2] = key => IsNumber(vt, w[3])
    BY <2>1, <2>w DEF CountsUp
  <2>8. HeldValue(vt, h[m + 1], key) = AddValues(vt, HeldValue(vt, h[m], key), parts[m + 1])
    BY <2>2, <2>4, <2>6, <2>7, OneAdded
  <2> QED
    BY <1>v, <2>1, <2>3, <2>5, <2>8, AddLaws
<1> HIDE DEF T
<1>6. n \in T
  BY <1>4, <1>5, Induction
<1>7. HeldValue(vt, h[n], key) = AddValues(vt, v, g[n])
  BY <1>6 DEF T
<1> QED
  BY <1>1, <1>2, <1>7, <1>p, <1>v

(* The total of what was written before, and of what is written now.       *)
LEMMA KeyGrows ==
  ASSUME NEW vt, Adds(vt), NEW store, NEW key, NEW n \in Nat, NEW k \in Nat, NEW s, NEW writes,
         DOMAIN writes = 1 .. k, CountsUp(vt, writes, key), NEW u,
         Joined(s, n, Parts(vt, writes, key), k, u), Numbers(vt, s, n),
         HeldValue(vt, store, key) = Total(vt, s)
  PROVE  HeldValue(vt, AddAll(store, writes, vt), key) = Total(vt, u)
<1>p. PICK p : p = Parts(vt, writes, key)
  OBVIOUS
<1>1. DOMAIN s = 1 .. n /\ Joined(s, n, p, k, u)
  BY <1>p DEF Joined
<1>2. Numbers(vt, p, k)
  BY <1>p, PartsAre DEF Numbers
<1>3. IsNumber(vt, HeldValue(vt, store, key))
  BY <1>1, TotalIsNumber DEF Numbers
<1>4. Total(vt, u) = AddValues(vt, Total(vt, s), Total(vt, p))
  BY <1>1, <1>2, TotalOfConcat
<1>5. HeldValue(vt, AddAll(store, writes, vt), key)
        = AddValues(vt, HeldValue(vt, store, key), Total(vt, p))
  BY <1>3, <1>p, AddedToKey
<1> QED
  BY <1>4, <1>5

(* What a list of writes books under a key in all.                         *)
Booked(vt, writes, key, value) ==
  IsList(writes) /\ CountsUp(vt, writes, key) /\ Total(vt, Parts(vt, writes, key)) = value

LEMMA BookedIsNumber ==
  ASSUME NEW vt, NEW writes, NEW key, NEW value, Booked(vt, writes, key, value)
  PROVE  IsNumber(vt, value)
<1>1. Len(writes) \in Nat /\ DOMAIN writes = 1 .. Len(writes)
  BY ListHasLength DEF Booked, HasLength
<1>2. /\ DOMAIN Parts(vt, writes, key) = 1 .. Len(writes)
      /\ \A i \in 1 .. Len(writes) : IsNumber(vt, Parts(vt, writes, key)[i])
  BY <1>1, PartsAre DEF Booked
<1> QED
  BY <1>1, <1>2, TotalIsNumber DEF Booked

LEMMA NoneBooked ==
  ASSUME NEW vt, NEW writes, IsList(writes), NEW key, \A i \in DOMAIN writes : writes[i][2] # key
  PROVE  Booked(vt, writes, key, Nothing(vt))
<1>1. Len(writes) \in Nat /\ DOMAIN writes = 1 .. Len(writes)
  BY ListHasLength DEF HasLength
<1>2. CountsUp(vt, writes, key)
  BY DEF CountsUp
<1>p. PICK s : s = Parts(vt, writes, key)
  OBVIOUS
<1>3. DOMAIN s = 1 .. Len(writes) /\ \A i \in 1 .. Len(writes) : s[i] = Nothing(vt)
  BY <1>1, <1>2, <1>p, PartsAre
<1>4. Total(vt, s) = Nothing(vt)
  BY <1>1, <1>3, TotalOfNothings
<1> QED
  BY <1>2, <1>4, <1>p DEF Booked

LEMMA OneBooked ==
  ASSUME NEW vt, NEW writes, IsList(writes), NEW key, NEW j \in DOMAIN writes,
         writes[j][2] = key, IsNumber(vt, writes[j][3]),
         \A i \in DOMAIN writes : i # j => writes[i][2] # key
  PROVE  Booked(vt, writes, key, writes[j][3])
<1>1. Len(writes) \in Nat /\ DOMAIN writes = 1 .. Len(writes)
  BY ListHasLength DEF HasLength
<1>2. CountsUp(vt, writes, key)
  BY DEF CountsUp
<1>p. PICK s : s = Parts(vt, writes, key)
  OBVIOUS
<1>3. /\ DOMAIN s = 1 .. Len(writes) /\ s[j] = writes[j][3]
      /\ \A i \in 1 .. Len(writes) : i # j => s[i] = Nothing(vt)
  BY <1>1, <1>2, <1>p, PartsAre
<1>n. PICK n \in Nat : n = Len(writes) /\ DOMAIN s = 1 .. n /\ j \in 1 .. n
  BY <1>1, <1>3
<1>4. OnlyAt(vt, s, n, j)
  BY <1>3, <1>n DEF OnlyAt
<1>5. Total(vt, s) = s[j]
  BY <1>4, <1>n, TotalOfOne
<1> QED
  BY <1>2, <1>3, <1>5, <1>p DEF Booked

LEMMA BookedConcat ==
  ASSUME NEW vt, NEW s, NEW t, NEW key, NEW x, NEW y, Booked(vt, s, key, x), Booked(vt, t, key, y)
  PROVE  Booked(vt, s \o t, key, AddValues(vt, x, y))
<1>u. PICK u : u = s \o t
  OBVIOUS
<1>p. PICK p, q, r : p = Parts(vt, s, key) /\ q = Parts(vt, t, key) /\ r = Parts(vt, u, key)
  OBVIOUS
<1>n. PICK n, k \in Nat : n = Len(s) /\ k = Len(t)
  BY ListHasLength DEF Booked, HasLength
<1>1. DOMAIN s = 1 .. n /\ DOMAIN t = 1 .. k
  BY <1>n, ListHasLength DEF Booked, HasLength
<1>2. /\ IsList(u) /\ DOMAIN u = 1 .. n + k
      /\ \A i \in 1 .. n : u[i] = s[i]
      /\ \A i \in 1 .. k : u[n + i] = t[i]
  BY <1>u, <1>n, ConcatOfLists DEF Booked
<1>3. \A i \in 1 .. n + k : i \in 1 .. n \/ (i - n \in 1 .. k /\ i = n + (i - n))
  OBVIOUS
<1>4. CountsUp(vt, s, key) /\ CountsUp(vt, t, key)
  BY DEF Booked
<1>5. CountsUp(vt, u, key)
  <2> SUFFICES ASSUME NEW i \in 1 .. n + k, u[i][2] = key
               PROVE  IsNumber(vt, u[i][3])
    BY <1>2 DEF CountsUp
  <2>1. CASE i \in 1 .. n
    BY <1>1, <1>2, <1>4, <2>1 DEF CountsUp
  <2>2. CASE i - n \in 1 .. k /\ i = n + (i - n)
    <3>1. u[i] = t[i - n]
      BY <1>2, <2>2
    <3> QED
      BY <1>1, <1>4, <2>2, <3>1 DEF CountsUp
  <2> QED
    BY <1>3, <2>1, <2>2
<1>6. /\ DOMAIN p = 1 .. n
      /\ \A i \in 1 .. n : /\ p[i] = IF s[i][2] = key THEN s[i][3] ELSE Nothing(vt)
                           /\ IsNumber(vt, p[i])
  BY <1>1, <1>4, <1>p, PartsAre
<1>7. /\ DOMAIN q = 1 .. k
      /\ \A i \in 1 .. k : /\ q[i] = IF t[i][2] = key THEN t[i][3] ELSE Nothing(vt)
                           /\ IsNumber(vt, q[i])
  BY <1>1, <1>4, <1>p, PartsAre
<1>8. /\ DOMAIN r = 1 .. n + k
      /\ \A i \in 1 .. n + k : r[i] = IF u[i][2] = key THEN u[i][3] ELSE Nothing(vt)
  BY <1>2, <1>5, <1>p, PartsAre
<1>9. \A i \in 1 .. n : i \in 1 .. n + k /\ r[i] = p[i]
  <2>1. \A i \in 1 .. n : i \in 1 .. n + k
    OBVIOUS
  <2> QED
    BY <1>2, <1>6, <1>8, <2>1
<1>10. \A i \in 1 .. k : r[n + i] = q[i]
  <2>1. \A i \in 1 .. k : n + i \in 1 .. n + k
    OBVIOUS
  <2> QED
    BY <1>2, <1>7, <1>8, <2>1
<1>11. Joined(p, n, q, k, r) /\ Numbers(vt, p, n) /\ Numbers(vt, q, k)
  BY <1>6, <1>7, <1>8, <1>9, <1>10 DEF Joined, Numbers
<1>12. Total(vt, r) = AddValues(vt, Total(vt, p), Total(vt, q))
  BY <1>n, <1>11, TotalOfConcat
<1>13. Total(vt, p) = x /\ Total(vt, q) = y
  BY <1>p DEF Booked
<1> QED
  BY <1>2, <1>5, <1>12, <1>13, <1>p, <1>u DEF Booked

(* The two parts a decimal is computed from.                               *)
HasParts(x) == x[1] \in Int /\ x[2] \in Nat \ {0}

LEMMA DecimalHasParts ==
  ASSUME NEW x, Decimal(x)
  PROVE  HasParts(x)
BY DecimalParts DEF HasParts

LEMMA TimesIsDecimal ==
  ASSUME NEW x, NEW y, HasParts(x), HasParts(y)
  PROVE  Decimal(Times(x, y))
<1>1. PICK a, c \in Int : a = x[1] /\ c = y[1]
  BY DEF HasParts
<1>2. PICK b, d \in Nat \ {0} : b = x[2] /\ d = y[2]
  BY DEF HasParts
<1>3. a * c \in Int /\ b * d \in Nat \ {0}
  OBVIOUS
<1>4. Times(x, y) = Fraction(a * c, b * d)
  BY <1>1, <1>2 DEF Times
<1> QED
  BY <1>3, <1>4 DEF Decimal

LEMMA OverIsDecimal ==
  ASSUME NEW x, Decimal(x), NEW n \in Nat \ {0}
  PROVE  Decimal(Over(x, Fraction(n, 1)))
<1>1. PICK a \in Int : a = x[1]
  BY DecimalParts
<1>2. PICK b \in Nat \ {0} : b = x[2]
  BY DecimalParts
<1>y. PICK y : y = Fraction(n, 1)
  OBVIOUS
<1>3. PICK c, d \in Nat \ {0} : c = y[1] /\ d = y[2]
  <2>1. Positive(y)
    BY <1>y, FractionPositive
  <2> QED
    BY <2>1 DEF Positive
<1>4. a * d \in Int /\ b * c \in Nat \ {0}
  OBVIOUS
<1>5. Over(x, y) = Fraction(a * d, b * c)
  BY <1>1, <1>2, <1>3 DEF Over
<1> QED
  BY <1>4, <1>5, <1>y DEF Decimal

=============================================================================
