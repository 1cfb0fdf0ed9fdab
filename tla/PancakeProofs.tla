---------------------------- MODULE PancakeProofs ----------------------------
(***************************************************************************)
(* The PancakeSwap substreams, from the logs of a block to what its        *)
(* handlers leave in the stores.                                           *)
(***************************************************************************)
EXTENDS Pancake, StoreLemmas

-----------------------------------------------------------------------------
(* The logs of a block come in the order of their ordinals.                *)
LEMMA RankExists ==
  ASSUME NEW ls, IsFiniteSet(ls), \A l \in ls : l.ord \in Nat,
         \A l, m \in ls : l # m => l.ord # m.ord
  PROVE  /\ Cardinality(ls) \in Nat
         /\ \A i \in 1 .. Cardinality(ls) : \E l \in ls : Cardinality(Before(ls, l)) = i - 1
<1> DEFINE n == Cardinality(ls)
           rank == [l \in ls |-> Cardinality(Before(ls, l))]
<1>1. n \in Nat
  BY FS_CardinalityType
<1>2. ASSUME NEW l \in ls
      PROVE  /\ IsFiniteSet(Before(ls, l))
             /\ Cardinality(Before(ls, l)) \in 0 .. n - 1
  <2>1. Before(ls, l) \in SUBSET ls /\ l \notin Before(ls, l)
    BY DEF Before
  <2>2. IsFiniteSet(Before(ls, l)) /\ Cardinality(Before(ls, l)) <= n
    BY <2>1, FS_Subset
  <2>3. Cardinality(Before(ls, l)) # n
    BY <2>1, FS_Subset
  <2>4. Cardinality(Before(ls, l)) \in Nat
    BY <2>2, FS_CardinalityType
  <2> QED
    BY <1>1, <2>2, <2>3, <2>4
<1>3. ASSUME NEW l \in ls, NEW m \in ls, l.ord < m.ord
      PROVE  Cardinality(Before(ls, l)) # Cardinality(Before(ls, m))
  <2>1. Before(ls, l) \in SUBSET Before(ls, m)
    BY <1>3 DEF Before
  <2>2. l \in Before(ls, m) /\ l \notin Before(ls, l)
    BY <1>3 DEF Before
  <2> QED
    BY <1>2, <2>1, <2>2, FS_Subset
<1>4. rank \in [ls -> 0 .. n - 1]
  BY <1>2
<1>5. \A l, m \in ls : rank[l] = rank[m] => l = m
  <2> SUFFICES ASSUME NEW l \in ls, NEW m \in ls, l # m PROVE rank[l] # rank[m]
    OBVIOUS
  <2>1. l.ord < m.ord \/ m.ord < l.ord
    OBVIOUS
  <2> QED
    BY <1>3, <2>1
<1> HIDE DEF rank
<1>6. rank \in Injection(ls, 0 .. n - 1)
  BY <1>4, <1>5 DEF Injection, IsInjective
<1>7. IsFiniteSet(0 .. n - 1) /\ Cardinality(0 .. n - 1) = n
  BY <1>1, FS_Interval
<1>8. rank \in Surjection(ls, 0 .. n - 1)
  <2> HIDE DEF n
  <2> QED
    BY <1>6, <1>7, FS_Injection DEF n
<1>9. ASSUME NEW i \in 1 .. n
      PROVE  \E l \in ls : Cardinality(Before(ls, l)) = i - 1
  <2>1. i - 1 \in 0 .. n - 1
    BY <1>1
  <2>2. PICK l \in ls : rank[l] = i - 1
    BY <1>8, <2>1 DEF Surjection
  <2> QED
    BY <2>2 DEF rank
<1> QED
  BY <1>1, <1>9

Earlier(ls) == {x \in ls \X ls : x[1].ord < x[2].ord}

LEMMA LogsInOrder ==
  ASSUME NEW b \in Blocks, NEW k \in DOMAIN b
  PROVE  /\ IsList(Logs(b[k]))
         /\ ToSet(Logs(b[k])) \subseteq LogsOf(b[k])
         /\ Ordered(Earlier(LogsOf(b[k])), Logs(b[k]))
<1> DEFINE ls == LogsOf(b[k])
           s == Logs(b[k])
           n == Cardinality(ls)
<1>1. /\ IsFiniteSet(ls) /\ \A l \in ls : l.ord \in Nat
      /\ \A l, m \in ls : l # m => l.ord # m.ord
  BY BlocksAssumption
<1> HIDE DEF ls
<1>2. n \in Nat /\ \A i \in 1 .. n : \E l \in ls : Cardinality(Before(ls, l)) = i - 1
  BY <1>1, RankExists
<1>3. s = [i \in 1 .. n |-> CHOOSE l \in ls : Cardinality(Before(ls, l)) = i - 1]
  BY DEF Logs, ls
<1> HIDE DEF n, s
<1>4. s = [i \in 1 .. n |-> s[i]] /\ DOMAIN s = 1 .. n
  BY <1>3
<1>5. IsList(s)
  BY <1>2, <1>4, FunctionIsList
<1>6. ASSUME NEW i \in 1 .. n
      PROVE  s[i] \in ls /\ Cardinality(Before(ls, s[i])) = i - 1
  BY <1>2, <1>3
<1>7. ASSUME NEW i \in 1 .. n, NEW j \in 1 .. n, i < j
      PROVE  s[i].ord < s[j].ord
  <2>1. SUFFICES ASSUME ~(s[i].ord < s[j].ord) PROVE FALSE
    OBVIOUS
  <2>2. s[i].ord \in Nat /\ s[j].ord \in Nat
    BY <1>1, <1>6
  <2>3. Before(ls, s[j]) \in SUBSET Before(ls, s[i])
    BY <1>1, <2>1, <2>2 DEF Before
  <2>4. IsFiniteSet(Before(ls, s[i]))
    BY <1>1, FS_Subset DEF Before
  <2>5. Cardinality(Before(ls, s[j])) <= Cardinality(Before(ls, s[i]))
    BY <2>3, <2>4, FS_Subset
  <2>6. j - 1 <= i - 1
    BY <1>6, <2>5
  <2> QED
    BY <1>2, <1>7, <2>6
<1>8. ToSet(s) \subseteq ls
  BY <1>4, <1>6 DEF ToSet
<1>9. Ordered(Earlier(ls), s)
  BY <1>4, <1>6, <1>7 DEF Ordered, Earlier
<1> QED
  BY <1>5, <1>8, <1>9 DEF s, ls

-----------------------------------------------------------------------------
(* Which component a step is of, and what it does to the chain's variables *)
(* and to the handler that runs.                                           *)
LEMMA ComponentSteps ==
  ASSUME [Next]_vars
  PROVE  \/ ProduceBlock /\ UNCHANGED <<tokenVars, priceVars, eventVars, volumeVars, dbVars>>
         \/ TokensNext /\ UNCHANGED <<priceVars, eventVars, volumeVars, dbVars>>
         \/ PricesNext /\ UNCHANGED <<tokenVars, eventVars, volumeVars, dbVars>>
         \/ EventsNext /\ UNCHANGED <<tokenVars, priceVars, volumeVars, dbVars>>
         \/ VolumesNext /\ UNCHANGED <<tokenVars, priceVars, eventVars, dbVars>>
         \/ DbNext /\ UNCHANGED <<tokenVars, priceVars, eventVars, volumeVars>>
         \/ UNCHANGED <<chainVars, tokenVars, priceVars, eventVars, volumeVars, dbVars>>
  BY Zenon DEF Next, vars

(* The handlers of a component, and where they hand over to.               *)
Hands(from, to) ==
  /\ stage \in from
  /\ \/ panic' = panic /\ stage' \in to
     \/ panic' = stage /\ stage' = stage
  /\ UNCHANGED <<request, number, hour, trxs, onChain>>

TokenHandlers == {"map_pairs", "store_pairs", "store_pcs_tokens"}
PriceHandlers == {"map_reserves", "store_reserves", "store_prices"}
EventHandlers == {"map_burn_swaps_events", "read_calls"}
VolumeHandlers == {"store_totals", "count_events", "store_volumes", "add_volumes"}
DbHandlers == {"db_out", "squash"}

LEMMA TokensHand ==
  ASSUME TokensNext
  PROVE  Hands(TokenHandlers, {"store_pairs", "store_pcs_tokens", "map_reserves"})
BY DEF TokensNext, MapPairs, StorePairs, TokenFound, TokenCalled, CallFails, CallPanics,
       TokensStored, StoreToken, AtToken, At, Then, Panic, Hands, TokenHandlers

LEMMA PricesHand ==
  ASSUME PricesNext
  PROVE  Hands(PriceHandlers, {"store_reserves", "store_prices", "map_burn_swaps_events", "idle"})
BY DEF PricesNext, MapReserves, MapReservesPanics, StoreReserves, StorePrices,
       StorePricesPanics, At, Then, Panic, Hands, PriceHandlers

LEMMA EventsHand ==
  ASSUME EventsNext
  PROVE  Hands(EventHandlers, {"read_calls", "store_totals"})
BY DEF EventsNext, StartEvents, SkipCall, CallToEvent, EventsPanic, EventsMapped, AtCall, At,
       Then, Panic, Hands, EventHandlers

LEMMA VolumesHand ==
  ASSUME VolumesNext
  PROVE  Hands(VolumeHandlers, {"count_events", "store_volumes", "add_volumes", "db_out"})
BY DEF VolumesNext, StartTotals, CountEvent, EventsCounted, StartVolumes, AddVolume,
       VolumesAdded, At, Then, Hands, VolumeHandlers

LEMMA DbHands ==
  ASSUME DbNext
  PROVE  Hands(DbHandlers, {"squash", "idle"})
BY DEF DbNext, DbOut, DbOutPanic, SquashBlock, At, Then, Panic, Hands, DbHandlers

(* The chain: a handler runs on a block of the chain, whose pairs exist.   *)
ChainInv ==
  /\ request \in {"store_prices", "db_out", "db_out_priced"}
  /\ number \in 0 .. MaxBlocks
  /\ hour \in Nat
  /\ stage \in Handlers \cup {"idle"}
  /\ panic \in Handlers \cup {Absent}
  /\ stage # "idle" => trxs \in Blocks /\ CreatedBy(trxs) \subseteq onChain

LEMMA ChainStart == Init => ChainInv
BY ClockAssumption DEF Init, ChainInit, ChainInv

LEMMA HandsKeepChain ==
  ASSUME ChainInv, NEW from \in SUBSET Handlers, NEW to \in SUBSET (Handlers \cup {"idle"}),
         Hands(from, to)
  PROVE  ChainInv'
<1>1. UNCHANGED <<request, number, hour, trxs, onChain>>
  BY DEF Hands
<1>2. stage \in Handlers /\ stage # "idle"
  BY DEF Hands, Handlers
<1>3. stage' \in Handlers \cup {"idle"} /\ panic' \in Handlers \cup {Absent}
  BY <1>2 DEF Hands, ChainInv
<1>4. CreatedBy(trxs)' = CreatedBy(trxs)
  BY <1>1 DEF CreatedBy, Logs, LogsOf
<1> QED
  BY <1>1, <1>2, <1>3, <1>4 DEF ChainInv

LEMMA ChainKept == ChainInv /\ [Next]_vars => ChainInv'
<1> SUFFICES ASSUME ChainInv, [Next]_vars
             PROVE  ChainInv'
  OBVIOUS
<1>1. CASE ProduceBlock
  <2>1. PICK b \in Blocks : trxs' = b /\ onChain' = onChain \cup CreatedBy(b)
    BY <1>1 DEF ProduceBlock
  <2>2. hour' \in Nat
    BY <1>1, ClockAssumption DEF ProduceBlock, ChainInv
  <2>3. number' \in 0 .. MaxBlocks
    BY <1>1, ClockAssumption DEF ProduceBlock, ChainInv
  <2>4. CreatedBy(trxs)' = CreatedBy(b)
    BY <2>1 DEF CreatedBy, Logs, LogsOf
  <2>5. stage' \in Handlers /\ UNCHANGED <<request, panic>>
    BY <1>1 DEF ProduceBlock, Handlers
  <2> QED
    BY <2>1, <2>2, <2>3, <2>4, <2>5 DEF ChainInv
<1>2. CASE TokensNext
  BY <1>2, TokensHand, HandsKeepChain DEF TokenHandlers, Handlers
<1>3. CASE PricesNext
  BY <1>3, PricesHand, HandsKeepChain DEF PriceHandlers, Handlers
<1>4. CASE EventsNext
  BY <1>4, EventsHand, HandsKeepChain DEF EventHandlers, Handlers
<1>5. CASE VolumesNext
  BY <1>5, VolumesHand, HandsKeepChain DEF VolumeHandlers, Handlers
<1>6. CASE DbNext
  BY <1>6, DbHands, HandsKeepChain DEF DbHandlers, Handlers
<1>7. CASE UNCHANGED chainVars
  <2>1. CreatedBy(trxs)' = CreatedBy(trxs)
    BY <1>7 DEF chainVars, CreatedBy, Logs, LogsOf
  <2> QED
    BY <1>7, <2>1 DEF ChainInv, chainVars
<1> QED
  BY <1>1, <1>2, <1>3, <1>4, <1>5, <1>6, <1>7, ComponentSteps

-----------------------------------------------------------------------------
(* The logs of a block, and the pairs map_pairs takes from them.           *)
LEMMA BlockIsList ==
  ASSUME NEW b \in Blocks
  PROVE  IsList(b)
BY BlocksAssumption DEF IsList

LEMMA BlockLogsIsList ==
  ASSUME trxs \in Blocks
  PROVE  IsList(BlockLogs)
<1> DEFINE parts == [i \in DOMAIN trxs |-> Logs(trxs[i])]
<1>1. IsList(parts) /\ DOMAIN parts = DOMAIN trxs
  BY BlockIsList, ImageIsList
<1>2. \A i \in DOMAIN parts : IsList(parts[i])
  BY LogsInOrder
<1>3. IsList(FlattenSeq(parts))
  <2> HIDE DEF parts
  <2> QED
    BY <1>1, <1>2, FlattenOfLists
<1> QED
  BY <1>3 DEF BlockLogs, Each

PairIn(l) == [address |-> l.words[3], token0 |-> l.words[1], token1 |-> l.words[2],
              block |-> number, ord |-> l.ord]

(* Of one list, or of two: the first is created before the second.         *)
CreatedBefore(p, q) == p.ord < q.ord /\ p.address # q.address

LEMMA PairsOfTransaction ==
  ASSUME NEW b \in Blocks, NEW k \in DOMAIN b
  PROVE  /\ IsList(PairsOf(b[k]))
         /\ \A i \in DOMAIN PairsOf(b[k]) :
              \E l \in ToSet(Logs(b[k])) : l.sig = "PairCreated" /\ PairsOf(b[k])[i] = PairIn(l)
         /\ \A i, j \in DOMAIN PairsOf(b[k]) :
              i < j => CreatedBefore(PairsOf(b[k])[i], PairsOf(b[k])[j])
<1> DEFINE s == Logs(b[k])
           kept == [j \in DOMAIN s |-> IF s[j].sig = "PairCreated" THEN << s[j] >> ELSE <<>>]
           created == Where(s, LAMBDA l : l.sig = "PairCreated")
           R == Earlier(LogsOf(b[k]))
<1>1. IsList(s) /\ ToSet(s) \subseteq LogsOf(b[k]) /\ Ordered(R, s)
  BY LogsInOrder
<1>2. created = FlattenSeq(kept)
  BY DEF Where, Each
<1>3. Selection(s, kept)
  BY DEF Selection
<1>4. \A j \in DOMAIN s : kept[j] # <<>> => s[j].sig = "PairCreated"
  OBVIOUS
<1>5. PairsOf(b[k]) = [i \in DOMAIN created |-> PairIn(created[i])]
  BY DEF PairsOf, PairIn
<1> HIDE DEF s, kept, created, R
<1>6. IsList(created) /\ Ordered(R, created)
  BY <1>1, <1>2, <1>3, SelectionIsList
<1>7. \A x \in ToSet(created) : \E j \in DOMAIN s : x = s[j] /\ kept[j] # <<>>
  BY <1>1, <1>2, <1>3, SelectionIsList
<1>8. IsList(PairsOf(b[k])) /\ DOMAIN PairsOf(b[k]) = DOMAIN created
  BY <1>5, <1>6, ImageIsList
<1>9. ASSUME NEW i \in DOMAIN created
      PROVE  /\ created[i] \in ToSet(s) /\ created[i] \in LogsOf(b[k])
             /\ created[i].sig = "PairCreated" /\ PairsOf(b[k])[i] = PairIn(created[i])
  <2>1. created[i] \in ToSet(created)
    BY DEF ToSet
  <2>2. PICK j \in DOMAIN s : created[i] = s[j] /\ kept[j] # <<>>
    BY <1>7, <2>1
  <2>3. s[j] \in ToSet(s) /\ s[j].sig = "PairCreated"
    BY <1>4, <2>2 DEF ToSet
  <2> QED
    BY <1>1, <1>5, <2>2, <2>3
<1>10. ASSUME NEW i \in DOMAIN created, NEW j \in DOMAIN created, i < j
       PROVE  CreatedBefore(PairsOf(b[k])[i], PairsOf(b[k])[j])
  <2>1. created[i].ord < created[j].ord
    BY <1>6, <1>10 DEF Ordered, R, Earlier
  <2>2. created[i].ord \in Nat /\ created[j].ord \in Nat
    BY <1>9, BlocksAssumption
  <2>3. created[i] # created[j]
    BY <2>1, <2>2
  <2>4. created[i].words[3] # created[j].words[3]
    BY <1>9, <2>3, BlocksAssumption
  <2>5. PairsOf(b[k])[i] = PairIn(created[i]) /\ PairsOf(b[k])[j] = PairIn(created[j])
    BY <1>9
  <2>6. \A l : PairIn(l).ord = l.ord /\ PairIn(l).address = l.words[3]
    BY DEF PairIn
  <2> QED
    BY <2>1, <2>4, <2>5, <2>6 DEF CreatedBefore
<1>11. ASSUME NEW i \in DOMAIN PairsOf(b[k])
       PROVE  \E l \in ToSet(s) : l.sig = "PairCreated" /\ PairsOf(b[k])[i] = PairIn(l)
  BY <1>8, <1>9
<1>12. ASSUME NEW i \in DOMAIN PairsOf(b[k]), NEW j \in DOMAIN PairsOf(b[k]), i < j
       PROVE  CreatedBefore(PairsOf(b[k])[i], PairsOf(b[k])[j])
  BY <1>8, <1>10, <1>12
<1> QED
  BY <1>8, <1>11, <1>12 DEF s

(* The two tokens of a pair are not the same, and have decimals.           *)
TwoTokens(p) == p.token0 # p.token1 /\ {p.token0, p.token1} \subseteq DOMAIN DecimalsOf

BlockPairs(ps) ==
  /\ IsList(ps)
  /\ \A i \in DOMAIN ps : /\ ps[i].block = number
                          /\ ps[i].ord \in Nat
                          /\ TwoTokens(ps[i])
                          /\ ps[i].address \in CreatedBy(trxs)
  /\ \A i, j \in DOMAIN ps : i < j => CreatedBefore(ps[i], ps[j])

LEMMA LogIsOf ==
  ASSUME NEW b \in Blocks, NEW k \in DOMAIN b, NEW l \in ToSet(Logs(b[k])), l.sig = "PairCreated"
  PROVE  /\ l \in LogsOf(b[k])
         /\ PairIn(l).block = number /\ PairIn(l).ord \in Nat /\ PairIn(l).ord = l.ord
         /\ PairIn(l).address \in CreatedBy(b) /\ PairIn(l).address = l.words[3]
         /\ TwoTokens(PairIn(l))
<1>1. l \in LogsOf(b[k]) /\ l.ord \in Nat
  BY LogsInOrder, BlocksAssumption
<1>2. l.words[3] \in CreatedBy(b)
  BY DEF CreatedBy
<1>3. /\ l.words[1] # l.words[2] /\ l.words[1] \in DOMAIN DecimalsOf
      /\ l.words[2] \in DOMAIN DecimalsOf
  BY <1>1, BlocksAssumption, PricesAssumption
<1> QED
  BY <1>1, <1>2, <1>3 DEF PairIn, TwoTokens

LEMMA PairsMapped ==
  ASSUME trxs \in Blocks, MapPairs
  PROVE  BlockPairs(pairs')
<1> DEFINE parts == [i \in DOMAIN trxs |-> IF trxs[i].to = Factory THEN PairsOf(trxs[i]) ELSE <<>>]
           P == UNION {ToSet(parts[i]) : i \in DOMAIN parts}
           R == {x \in P \X P : CreatedBefore(x[1], x[2])}
<1>1. pairs' = FlattenSeq(parts)
  BY DEF MapPairs, Each
<1>2. IsList(parts) /\ DOMAIN parts = DOMAIN trxs
  BY BlockIsList, ImageIsList
<1>3. ASSUME NEW i \in DOMAIN parts
      PROVE  /\ IsList(parts[i])
             /\ \A j \in DOMAIN parts[i] :
                  \E l \in ToSet(Logs(trxs[i])) : l.sig = "PairCreated" /\ parts[i][j] = PairIn(l)
             /\ \A j, m \in DOMAIN parts[i] : j < m => CreatedBefore(parts[i][j], parts[i][m])
  <2>1. CASE trxs[i].to = Factory
    <3>1. parts[i] = PairsOf(trxs[i])
      BY <1>2, <2>1
    <3> HIDE DEF parts
    <3> QED
      BY <1>2, <3>1, PairsOfTransaction
  <2>2. CASE trxs[i].to # Factory
    <3>1. parts[i] = <<>>
      BY <1>2, <2>2
    <3> HIDE DEF parts
    <3> QED
      BY <3>1, EmptyIsList
  <2> QED
    BY <2>1, <2>2
<1> HIDE DEF parts
<1>4. ASSUME NEW i \in DOMAIN parts, NEW p \in ToSet(parts[i])
      PROVE  \E l \in ToSet(Logs(trxs[i])) : l.sig = "PairCreated" /\ p = PairIn(l)
  BY <1>3 DEF ToSet
<1>5. ASSUME NEW i \in DOMAIN parts
      PROVE  Ordered(R, parts[i])
  <2> SUFFICES ASSUME NEW j \in DOMAIN parts[i], NEW m \in DOMAIN parts[i], j < m
               PROVE  << parts[i][j], parts[i][m] >> \in R
    BY DEF Ordered
  <2>1. parts[i][j] \in P /\ parts[i][m] \in P
    BY DEF ToSet
  <2>2. CreatedBefore(parts[i][j], parts[i][m])
    BY <1>3
  <2> QED
    BY <2>1, <2>2
<1>6. ASSUME NEW i \in DOMAIN parts, NEW j \in DOMAIN parts, i < j,
             NEW p \in ToSet(parts[i]), NEW q \in ToSet(parts[j])
      PROVE  << p, q >> \in R
  <2>1. PICK l \in ToSet(Logs(trxs[i])) : l.sig = "PairCreated" /\ p = PairIn(l)
    BY <1>4
  <2>2. PICK m \in ToSet(Logs(trxs[j])) : m.sig = "PairCreated" /\ q = PairIn(m)
    BY <1>4
  <2>3. /\ l \in LogsOf(trxs[i]) /\ p.ord = l.ord /\ p.address = l.words[3]
        /\ m \in LogsOf(trxs[j]) /\ q.ord = m.ord /\ q.address = m.words[3]
        /\ p.ord \in Nat /\ q.ord \in Nat
    BY <1>2, <2>1, <2>2, LogIsOf
  <2>4. l.ord < m.ord
    BY <1>2, <1>6, <2>3, BlocksAssumption
  <2>5. l # m
    BY <2>3, <2>4
  <2>6. l.words[3] # m.words[3]
    BY <1>2, <2>1, <2>2, <2>3, <2>5, BlocksAssumption
  <2>7. p \in P /\ q \in P
    OBVIOUS
  <2> QED
    BY <2>3, <2>4, <2>6, <2>7 DEF CreatedBefore
<1>7. \A i \in DOMAIN parts : IsList(parts[i])
  BY <1>3
<1> HIDE DEF R
<1>8. IsList(pairs') /\ \A p \in ToSet(pairs') : \E i \in DOMAIN parts : p \in ToSet(parts[i])
  BY <1>1, <1>2, <1>7, FlattenOfLists
<1>9. Ordered(R, pairs')
  BY <1>1, <1>2, <1>5, <1>6, <1>7, FlattenOrdered
<1>10. ASSUME NEW i \in DOMAIN pairs'
       PROVE  /\ pairs'[i].block = number /\ pairs'[i].ord \in Nat
              /\ pairs'[i].address \in CreatedBy(trxs) /\ TwoTokens(pairs'[i])
  <2>1. pairs'[i] \in ToSet(pairs')
    BY DEF ToSet
  <2>2. PICK k \in DOMAIN parts : pairs'[i] \in ToSet(parts[k])
    BY <1>8, <2>1
  <2>3. PICK l \in ToSet(Logs(trxs[k])) : l.sig = "PairCreated" /\ pairs'[i] = PairIn(l)
    BY <1>4, <2>2
  <2> QED
    BY <1>2, <2>3, LogIsOf
<1>11. ASSUME NEW i \in DOMAIN pairs', NEW j \in DOMAIN pairs', i < j
       PROVE  CreatedBefore(pairs'[i], pairs'[j])
  BY <1>9, <1>11 DEF Ordered, R
<1> QED
  BY <1>8, <1>10, <1>11 DEF BlockPairs

-----------------------------------------------------------------------------
(* The store of pairs: a pair is found by its address and by its tokens.   *)
KeyOf(k, p) == k = PairKey(p.address) \/ k = TokensKey(p.token0, p.token1)

PairsKnown ==
  /\ IsStore(pairStore)
  /\ \A a : KnownPair(a) => PairAt(a).address = a /\ a \in onChain
  /\ \A k \in DOMAIN pairStore.kv : \E p \in Pairs : KeyOf(k, p)
  /\ \A p \in Pairs : TwoTokens(p)
  /\ stage \in {"map_pairs", "store_pairs"} => \A a \in CreatedBy(trxs) : ~KnownPair(a)
  /\ stage \notin {"idle", "map_pairs"} => BlockPairs(pairs)

LEMMA KeysDiffer ==
  /\ \A a : PairKey(a) = << "pair", a >> /\ PairKey(a)[1] = "pair"
  /\ \A t0, t1 : TokensKey(t0, t1)[1] = "tokens"
  /\ \A a, b : PairKey(a) = PairKey(b) => a = b
  /\ \A a, t0, t1 : PairKey(a) # TokensKey(t0, t1)
BY DEF PairKey, TokensKey

LEMMA PairsAre ==
  ASSUME PairsKnown
  PROVE  /\ \A p \in Pairs : KnownPair(p.address) /\ PairAt(p.address) = p
         /\ \A a : KnownPair(a) => PairAt(a) \in Pairs
<1>1. ASSUME NEW k \in DOMAIN pairStore.kv, k[1] = "pair"
      PROVE  k = PairKey(pairStore.kv[k].address)
  <2>1. PICK p \in Pairs : KeyOf(k, p)
    BY DEF PairsKnown
  <2>2. k = PairKey(p.address)
    BY <1>1, <2>1, KeysDiffer DEF KeyOf
  <2> QED
    BY <2>2 DEF PairsKnown, KnownPair, Has, PairAt
<1>2. ASSUME NEW p \in Pairs
      PROVE  KnownPair(p.address) /\ PairAt(p.address) = p
  BY <1>1 DEF Pairs, KnownPair, Has, PairAt
<1>3. ASSUME NEW a, KnownPair(a)
      PROVE  PairAt(a) \in Pairs
  <2>1. PairKey(a) \in DOMAIN pairStore.kv /\ PairKey(a)[1] = "pair"
    BY <1>3, KeysDiffer DEF KnownPair, Has
  <2> QED
    BY <2>1 DEF Pairs, PairAt
<1> QED
  BY <1>2, <1>3

PairWrites(p) == << << p.ord, PairKey(p.address), p >>,
                    << p.ord, TokensKey(p.token0, p.token1), p >> >>

LEMMA PairWritesAre ==
  ASSUME NEW p
  PROVE  /\ IsList(PairWrites(p))
         /\ \A w \in ToSet(PairWrites(p)) : w[3] = p /\ KeyOf(w[2], p)
         /\ \E w \in ToSet(PairWrites(p)) : w[2] = PairKey(p.address)
<1>1. /\ PairWrites(p) = [i \in 1 .. 2 |-> PairWrites(p)[i]]
      /\ PairWrites(p)[1] = << p.ord, PairKey(p.address), p >>
      /\ PairWrites(p)[2] = << p.ord, TokensKey(p.token0, p.token1), p >>
  BY DEF PairWrites
<1>2. IsList(PairWrites(p)) /\ DOMAIN PairWrites(p) = 1 .. 2
  BY <1>1, FunctionIsList
<1>3. \A i \in 1 .. 2 : i = 1 \/ i = 2
  OBVIOUS
<1> QED
  BY <1>1, <1>2, <1>3 DEF ToSet, KeyOf

LEMMA PairsStored ==
  ASSUME PairsKnown, stage = "store_pairs", StorePairs
  PROVE  /\ IsStore(pairStore')
         /\ Pairs' = Pairs \cup ToSet(pairs)
         /\ \A a : KnownPair(a)' =>
              PairAt(a)'.address = a /\ (KnownPair(a) \/ a \in CreatedBy(trxs))
         /\ \A k \in DOMAIN pairStore'.kv : \E p \in Pairs' : KeyOf(k, p)
<1> DEFINE two == [i \in DOMAIN pairs |-> PairWrites(pairs[i])]
           writes == FlattenSeq(two)
           n == Len(writes)
           old == NextBlock(pairStore)
           kv == pairStore'.kv
<1>1. pairStore' = PutAll(old, writes)
  BY DEF StorePairs, Each, PairWrites
<1>2. IsList(pairs) /\ BlockPairs(pairs)
  BY DEF PairsKnown, BlockPairs
<1>3. IsList(two) /\ DOMAIN two = DOMAIN pairs
  BY <1>2, ImageIsList
<1>4. \A i \in DOMAIN two : two[i] = PairWrites(pairs[i])
  BY <1>3
<1>5. \A i \in DOMAIN two : IsList(two[i])
  BY <1>4, PairWritesAre
<1> HIDE DEF two
<1>6. /\ IsList(writes)
      /\ \A w \in ToSet(writes) : \E i \in DOMAIN two : w \in ToSet(two[i])
      /\ \A i \in DOMAIN two : ToSet(two[i]) \subseteq ToSet(writes)
  BY <1>3, <1>5, FlattenOfLists
<1> HIDE DEF writes
<1>7. n \in Nat /\ DOMAIN writes = 1 .. n
  BY <1>6, ListHasLength DEF HasLength
<1>8. IsStore(old) /\ old.kv = pairStore.kv
  BY NextBlockIsStore DEF PairsKnown
<1> HIDE DEF n, old
<1>9. /\ IsStore(pairStore')
      /\ DOMAIN kv = DOMAIN pairStore.kv \cup Written(writes)
      /\ \A k \in DOMAIN pairStore.kv \ Written(writes) : kv[k] = pairStore.kv[k]
      /\ \A k \in Written(writes) : \E i \in 1 .. n : writes[i][2] = k /\ kv[k] = writes[i][3]
  BY <1>1, <1>7, <1>8, PutAllIsStore
<1>10. ASSUME NEW w \in ToSet(writes)
       PROVE  w[3] \in ToSet(pairs) /\ KeyOf(w[2], w[3])
  <2>1. PICK i \in DOMAIN two : w \in ToSet(two[i])
    BY <1>6
  <2>2. w[3] = pairs[i] /\ KeyOf(w[2], pairs[i])
    BY <1>4, <2>1, PairWritesAre
  <2> QED
    BY <1>3, <2>2 DEF ToSet
<1>11. ASSUME NEW k \in Written(writes)
       PROVE  kv[k] \in ToSet(pairs) /\ KeyOf(k, kv[k])
  <2>1. PICK i \in 1 .. n : writes[i][2] = k /\ kv[k] = writes[i][3]
    BY <1>9
  <2>2. writes[i] \in ToSet(writes)
    BY <1>7 DEF ToSet
  <2> QED
    BY <1>10, <2>1, <2>2
<1>12. ASSUME NEW p \in ToSet(pairs)
       PROVE  PairKey(p.address) \in Written(writes) /\ p.address \in CreatedBy(trxs)
  <2>1. PICK i \in DOMAIN pairs : p = pairs[i]
    BY DEF ToSet
  <2>2. PICK w \in ToSet(two[i]) : w[2] = PairKey(p.address)
    BY <1>3, <1>4, <2>1, PairWritesAre
  <2>3. PICK j \in DOMAIN writes : w = writes[j]
    BY <1>3, <1>6, <2>1, <2>2 DEF ToSet
  <2> QED
    BY <1>2, <2>1, <2>2, <2>3 DEF BlockPairs, Written
<1>13. ASSUME NEW p \in ToSet(pairs), NEW q \in ToSet(pairs), p.address = q.address
       PROVE  p = q
  <2>1. PICK i \in DOMAIN pairs, j \in DOMAIN pairs : p = pairs[i] /\ q = pairs[j]
    BY DEF ToSet
  <2>2. i \in Int /\ j \in Int
    BY <1>2, ListHasLength DEF HasLength
  <2>3. ~(i < j) /\ ~(j < i)
    BY <1>2, <1>13, <2>1 DEF BlockPairs, CreatedBefore
  <2> QED
    BY <2>1, <2>2, <2>3
<1>14. ASSUME NEW p \in ToSet(pairs)
       PROVE  kv[PairKey(p.address)] = p
  <2>1. kv[PairKey(p.address)] \in ToSet(pairs)
        /\ KeyOf(PairKey(p.address), kv[PairKey(p.address)])
    BY <1>11, <1>12
  <2>2. kv[PairKey(p.address)].address = p.address
    BY <2>1, KeysDiffer DEF KeyOf
  <2> QED
    BY <1>13, <2>1, <2>2
<1>15. ASSUME NEW a, KnownPair(a)
       PROVE  PairKey(a) \notin Written(writes) /\ kv[PairKey(a)] = PairAt(a)
              /\ PairKey(a) \in DOMAIN pairStore.kv
  <2>1. SUFFICES ASSUME PairKey(a) \in Written(writes) PROVE FALSE
    BY <1>9, <1>15 DEF KnownPair, Has, PairAt
  <2>2. kv[PairKey(a)] \in ToSet(pairs) /\ KeyOf(PairKey(a), kv[PairKey(a)])
    BY <1>11, <2>1
  <2>3. kv[PairKey(a)].address = a
    BY <2>2, KeysDiffer DEF KeyOf
  <2>4. a \in CreatedBy(trxs)
    BY <1>12, <2>2, <2>3
  <2> QED
    BY <1>15, <2>4 DEF PairsKnown
<1>16. ASSUME NEW a, PairKey(a) \in DOMAIN kv
       PROVE  \/ KnownPair(a) /\ kv[PairKey(a)] = PairAt(a)
              \/ kv[PairKey(a)] \in ToSet(pairs) /\ kv[PairKey(a)].address = a
  <2>1. CASE PairKey(a) \in Written(writes)
    BY <1>11, <2>1, KeysDiffer DEF KeyOf
  <2>2. CASE PairKey(a) \notin Written(writes)
    <3>1. KnownPair(a)
      BY <1>9, <1>16, <2>2 DEF KnownPair, Has
    <3> QED
      BY <1>15, <3>1
  <2> QED
    BY <2>1, <2>2
<1>17. ASSUME NEW k \in DOMAIN kv, k[1] = "pair"
       PROVE  \E a : k = PairKey(a)
  <2>1. CASE k \in Written(writes)
    BY <1>11, <1>17, <2>1, KeysDiffer DEF KeyOf
  <2>2. CASE k \in DOMAIN pairStore.kv
    BY <1>17, <2>2, KeysDiffer DEF KeyOf, PairsKnown
  <2> QED
    BY <1>9, <2>1, <2>2
<1>18. Pairs' = {kv[k] : k \in {x \in DOMAIN kv : x[1] = "pair"}}
  BY DEF Pairs
<1>19. Pairs' \subseteq Pairs \cup ToSet(pairs)
  <2> SUFFICES ASSUME NEW k \in DOMAIN kv, k[1] = "pair"
               PROVE  kv[k] \in Pairs \cup ToSet(pairs)
    BY <1>18
  <2>1. PICK a : k = PairKey(a)
    BY <1>17
  <2> QED
    BY <1>16, <2>1, PairsAre
<1>20. Pairs \subseteq Pairs'
  <2> SUFFICES ASSUME NEW p \in Pairs PROVE p \in Pairs'
    OBVIOUS
  <2>1. KnownPair(p.address) /\ PairAt(p.address) = p
    BY PairsAre
  <2>2. PairKey(p.address) \in DOMAIN kv /\ kv[PairKey(p.address)] = p
    BY <1>9, <1>15, <2>1
  <2> QED
    BY <1>18, <2>2, KeysDiffer
<1>21. ToSet(pairs) \subseteq Pairs'
  <2> SUFFICES ASSUME NEW p \in ToSet(pairs) PROVE p \in Pairs'
    OBVIOUS
  <2> QED
    BY <1>9, <1>12, <1>14, <1>18, KeysDiffer
<1>22. ASSUME NEW a, KnownPair(a)'
       PROVE  PairAt(a)'.address = a /\ (KnownPair(a) \/ a \in CreatedBy(trxs))
  <2>1. PairKey(a) \in DOMAIN kv /\ PairAt(a)' = kv[PairKey(a)]
    BY <1>22 DEF KnownPair, Has, PairAt
  <2>2. CASE KnownPair(a) /\ kv[PairKey(a)] = PairAt(a)
    BY <2>1, <2>2 DEF PairsKnown
  <2>3. CASE kv[PairKey(a)] \in ToSet(pairs) /\ kv[PairKey(a)].address = a
    BY <1>12, <2>1, <2>3
  <2> QED
    BY <1>16, <2>1, <2>2, <2>3
<1>23. ASSUME NEW k \in DOMAIN kv
       PROVE  \E p \in Pairs' : KeyOf(k, p)
  <2>1. CASE k \in Written(writes)
    BY <1>11, <1>21, <2>1
  <2>2. CASE k \in DOMAIN pairStore.kv
    BY <1>20, <2>2 DEF PairsKnown
  <2> QED
    BY <1>9, <2>1, <2>2
<1> QED
  BY <1>9, <1>19, <1>20, <1>21, <1>22, <1>23

LEMMA PairsKnownStart == Init => PairsKnown
<1> SUFFICES ASSUME Init PROVE PairsKnown
  OBVIOUS
<1>1. pairStore = EmptyStore /\ stage = "idle"
  BY DEF Init, TokensInit, ChainInit
<1>2. IsStore(pairStore) /\ Keys(pairStore) = {}
  BY <1>1, EmptyStoreIsStore
<1>3. DOMAIN pairStore.kv = {}
  BY <1>2 DEF Keys
<1>4. Pairs = {}
  BY <1>3 DEF Pairs
<1> QED
  BY <1>1, <1>2, <1>3, <1>4 DEF PairsKnown, KnownPair, Has

(* What the other components see of the pairs does not change.             *)
SamePairs == UNCHANGED <<pairs, pairStore>>

LEMMA SamePairsKept ==
  ASSUME PairsKnown, SamePairs, UNCHANGED <<number, trxs, onChain>>,
         stage' \in {"map_pairs", "store_pairs"} => stage' = stage,
         stage' \notin {"idle", "map_pairs"} => stage \notin {"idle", "map_pairs"}
  PROVE  PairsKnown'
<1>1. /\ CreatedBy(trxs)' = CreatedBy(trxs)
      /\ Pairs' = Pairs
      /\ \A a : (KnownPair(a)' <=> KnownPair(a)) /\ PairAt(a)' = PairAt(a)
  BY DEF SamePairs, CreatedBy, Logs, LogsOf, Pairs, KnownPair, PairAt, Has
<1>2. BlockPairs(pairs) => BlockPairs(pairs)'
  BY <1>1 DEF SamePairs, BlockPairs
<1>3. /\ IsStore(pairStore')
      /\ \A k \in DOMAIN pairStore'.kv : \E p \in Pairs' : KeyOf(k, p)
  BY <1>1 DEF SamePairs, PairsKnown
<1>4. \A a : KnownPair(a)' => PairAt(a)'.address = a /\ a \in onChain'
  BY <1>1 DEF PairsKnown
<1>5. stage' \in {"map_pairs", "store_pairs"} => \A a \in CreatedBy(trxs)' : ~KnownPair(a)'
  BY <1>1 DEF PairsKnown
<1>6. stage' \notin {"idle", "map_pairs"} => BlockPairs(pairs)'
  BY <1>2 DEF PairsKnown
<1>7. \A p \in Pairs' : TwoTokens(p)
  BY <1>1 DEF PairsKnown
<1> QED
  BY <1>3, <1>4, <1>5, <1>6, <1>7 DEF PairsKnown

LEMMA PairsKnownKept == ChainInv /\ PairsKnown /\ [Next]_vars => PairsKnown'
<1> SUFFICES ASSUME ChainInv, PairsKnown, [Next]_vars
             PROVE  PairsKnown'
  OBVIOUS
<1>1. CASE ProduceBlock /\ UNCHANGED tokenVars
  <2>1. SamePairs /\ stage' = "map_pairs"
    BY <1>1 DEF tokenVars, SamePairs, ProduceBlock
  <2>2. /\ Pairs' = Pairs
        /\ \A a : (KnownPair(a)' <=> KnownPair(a)) /\ PairAt(a)' = PairAt(a)
    BY <2>1 DEF SamePairs, Pairs, KnownPair, PairAt, Has
  <2>3. CreatedBy(trxs)' \cap onChain = {} /\ onChain \subseteq onChain'
    <3>1. PICK b \in Blocks : /\ CreatedBy(b) \cap onChain = {} /\ trxs' = b
                              /\ onChain' = onChain \cup CreatedBy(b)
      BY <1>1 DEF ProduceBlock
    <3>2. CreatedBy(trxs)' = CreatedBy(b)
      BY <3>1 DEF CreatedBy, Logs, LogsOf
    <3> QED
      BY <3>1, <3>2
  <2>4. \A a \in CreatedBy(trxs)' : ~KnownPair(a)'
    BY <2>2, <2>3 DEF PairsKnown
  <2>5. \A a : KnownPair(a)' => PairAt(a)'.address = a /\ a \in onChain'
    BY <2>2, <2>3 DEF PairsKnown
  <2>6. /\ IsStore(pairStore')
        /\ \A k \in DOMAIN pairStore'.kv : \E p \in Pairs' : KeyOf(k, p)
    BY <2>1, <2>2 DEF SamePairs, PairsKnown
  <2>7. \A p \in Pairs' : TwoTokens(p)
    BY <2>2 DEF PairsKnown
  <2> QED
    BY <2>1, <2>4, <2>5, <2>6, <2>7 DEF PairsKnown
<1>2. CASE MapPairs
  <2>1. /\ stage = "map_pairs" /\ stage' = "store_pairs"
        /\ UNCHANGED <<number, trxs, onChain, pairStore>>
    BY <1>2 DEF MapPairs, At, Then
  <2>2. BlockPairs(pairs')
    BY <1>2, <2>1, PairsMapped DEF ChainInv
  <2>3. /\ CreatedBy(trxs)' = CreatedBy(trxs)
        /\ Pairs' = Pairs
        /\ \A a : (KnownPair(a)' <=> KnownPair(a)) /\ PairAt(a)' = PairAt(a)
    BY <2>1 DEF CreatedBy, Logs, LogsOf, Pairs, KnownPair, PairAt, Has
  <2>4. BlockPairs(pairs)'
    BY <2>1, <2>2, <2>3 DEF BlockPairs
  <2>5. /\ IsStore(pairStore')
        /\ \A k \in DOMAIN pairStore'.kv : \E p \in Pairs' : KeyOf(k, p)
    BY <2>1, <2>3 DEF PairsKnown
  <2>6. \A a : KnownPair(a)' => PairAt(a)'.address = a /\ a \in onChain'
    BY <2>1, <2>3 DEF PairsKnown
  <2>7. \A a \in CreatedBy(trxs)' : ~KnownPair(a)'
    BY <2>1, <2>3 DEF PairsKnown
  <2>8. \A p \in Pairs' : TwoTokens(p)
    BY <2>3 DEF PairsKnown
  <2> QED
    BY <2>1, <2>4, <2>5, <2>6, <2>7, <2>8 DEF PairsKnown
<1>3. CASE StorePairs
  <2>1. /\ stage = "store_pairs" /\ stage' = "store_pcs_tokens"
        /\ UNCHANGED <<number, trxs, onChain, pairs>>
    BY <1>3 DEF StorePairs, At, Then
  <2>2. /\ IsStore(pairStore')
        /\ \A a : KnownPair(a)' =>
             PairAt(a)'.address = a /\ (KnownPair(a) \/ a \in CreatedBy(trxs))
        /\ \A k \in DOMAIN pairStore'.kv : \E p \in Pairs' : KeyOf(k, p)
    BY <1>3, <2>1, PairsStored
  <2>3. CreatedBy(trxs) \subseteq onChain
    BY <2>1 DEF ChainInv
  <2>4. \A a : KnownPair(a)' => PairAt(a)'.address = a /\ a \in onChain'
    BY <2>1, <2>2, <2>3 DEF PairsKnown
  <2>5. CreatedBy(trxs)' = CreatedBy(trxs)
    BY <2>1 DEF CreatedBy, Logs, LogsOf
  <2>6. BlockPairs(pairs) => BlockPairs(pairs)'
    BY <2>1, <2>5 DEF BlockPairs
  <2>7. BlockPairs(pairs)'
    BY <2>1, <2>6 DEF PairsKnown
  <2>8. \A p \in Pairs' : TwoTokens(p)
    <3>1. Pairs' = Pairs \cup ToSet(pairs) /\ BlockPairs(pairs)
      BY <1>3, <2>1, PairsStored DEF PairsKnown
    <3> QED
      BY <3>1 DEF PairsKnown, BlockPairs, ToSet
  <2> QED
    BY <2>1, <2>2, <2>4, <2>7, <2>8 DEF PairsKnown
<1>4. CASE TokenFound \/ TokenCalled \/ CallFails \/ CallPanics \/ TokensStored
  <2>1. SamePairs /\ UNCHANGED <<number, trxs, onChain>>
        /\ stage = "store_pcs_tokens" /\ stage' \in {"store_pcs_tokens", "map_reserves"}
    BY <1>4 DEF TokenFound, TokenCalled, CallFails, CallPanics, TokensStored, StoreToken,
                AtToken, At, Then, Panic, SamePairs, tokenVars
  <2> QED
    BY <2>1, SamePairsKept
<1>5. CASE (PricesNext \/ EventsNext \/ VolumesNext \/ DbNext) /\ UNCHANGED tokenVars
  <2>1. SamePairs
    BY <1>5 DEF tokenVars, SamePairs
  <2>2. /\ UNCHANGED <<number, trxs, onChain>>
        /\ stage \notin {"idle", "map_pairs", "store_pairs"}
        /\ stage' \notin {"map_pairs", "store_pairs"}
    BY <1>5, PricesHand, EventsHand, VolumesHand, DbHands
       DEF Hands, PriceHandlers, EventHandlers, VolumeHandlers, DbHandlers
  <2> QED
    BY <2>1, <2>2, SamePairsKept
<1>6. CASE UNCHANGED <<chainVars, tokenVars>>
  BY <1>6, SamePairsKept DEF SamePairs, chainVars, tokenVars
<1> QED
  BY <1>1, <1>2, <1>3, <1>4, <1>5, <1>6, ComponentSteps DEF TokensNext

-----------------------------------------------------------------------------
(* The loop of store_pcs_tokens: what it has not reached yet.              *)
AheadIn(todo, from, p, s) == \E i \in DOMAIN todo : p = todo[i] /\ (i = 1 => from <= s)

InOrder(todo) ==
  /\ IsList(todo)
  /\ \A i, j \in DOMAIN todo : i < j => todo[i].ord < todo[j].ord

LEMMA PairDone ==
  ASSUME NEW todo, InOrder(todo), todo # <<>>, NEW from \in Sides
  PROVE  /\ InOrder(Tail(todo))
         /\ ToSet(Tail(todo)) \subseteq ToSet(todo) /\ Head(todo) \in ToSet(todo)
         /\ \A p : \A s \in Sides :
              AheadIn(todo, from, p, s) =>
                AheadIn(Tail(todo), 0, p, s) \/ (p = Head(todo) /\ from <= s)
         /\ \A p : \A s \in Sides :
              AheadIn(Tail(todo), 0, p, s) =>
                AheadIn(todo, from, p, s) /\ Head(todo).ord < p.ord
<1> DEFINE n == Len(todo) - 1
           rest == Tail(todo)
<1>1. n \in Nat /\ DOMAIN todo = 1 .. n + 1
  BY TailOfList, ListHasLength DEF HasLength, InOrder
<1>2. /\ IsList(rest) /\ Head(todo) = todo[1]
      /\ \A i \in 1 .. n : rest[i] = todo[i + 1]
      /\ ToSet(todo) = {Head(todo)} \cup ToSet(rest)
      /\ Len(rest) = n
  BY TailOfList DEF InOrder
<1>3. DOMAIN rest = 1 .. n
  BY <1>2, ListHasLength DEF HasLength
<1> HIDE DEF n, rest
<1>4. \A i \in 1 .. n : i + 1 \in 1 .. n + 1 /\ i + 1 # 1 /\ 1 < i + 1 /\ 1 \in 1 .. n + 1
  BY <1>1
<1>5. \A i \in 1 .. n + 1 : i = 1 \/ (i - 1 \in 1 .. n /\ i = (i - 1) + 1)
  BY <1>1
<1>6. InOrder(rest)
  <2> SUFFICES ASSUME NEW i \in 1 .. n, NEW j \in 1 .. n, i < j
               PROVE  rest[i].ord < rest[j].ord
    BY <1>2, <1>3 DEF InOrder
  <2>1. i + 1 < j + 1
    BY <1>1
  <2>2. todo[i + 1].ord < todo[j + 1].ord
    BY <1>1, <1>4, <2>1 DEF InOrder
  <2> QED
    BY <1>2, <2>2
<1>7. ASSUME NEW p, NEW s \in Sides, AheadIn(todo, from, p, s)
      PROVE  AheadIn(rest, 0, p, s) \/ (p = Head(todo) /\ from <= s)
  <2>1. PICK i \in 1 .. n + 1 : p = todo[i] /\ (i = 1 => from <= s)
    BY <1>1, <1>7 DEF AheadIn
  <2>2. CASE i = 1
    BY <1>2, <2>1, <2>2
  <2>3. CASE i - 1 \in 1 .. n /\ i = (i - 1) + 1
    <3>1. rest[i - 1] = p /\ i - 1 \in DOMAIN rest
      BY <1>2, <1>3, <2>1, <2>3
    <3>2. 0 <= s
      BY DEF Sides
    <3> QED
      BY <3>1, <3>2 DEF AheadIn
  <2> QED
    BY <1>5, <2>2, <2>3
<1>8. ASSUME NEW p, NEW s \in Sides, AheadIn(rest, 0, p, s)
      PROVE  AheadIn(todo, from, p, s) /\ Head(todo).ord < p.ord
  <2>1. PICK i \in 1 .. n : p = rest[i]
    BY <1>3, <1>8 DEF AheadIn
  <2>2. p = todo[i + 1] /\ i + 1 \in DOMAIN todo /\ i + 1 # 1
    BY <1>1, <1>2, <1>4, <2>1
  <2>3. todo[1].ord < todo[i + 1].ord
    BY <1>1, <1>4 DEF InOrder
  <2> QED
    BY <1>2, <2>2, <2>3 DEF AheadIn
<1> QED
  BY <1>2, <1>6, <1>7, <1>8 DEF rest

LEMMA TokenDone ==
  ASSUME NEW todo, InOrder(todo), todo # <<>>
  PROVE  /\ \A p : \A s \in Sides :
              AheadIn(todo, 0, p, s) => AheadIn(todo, 1, p, s) \/ (p = Head(todo) /\ s = 0)
         /\ \A p : \A s \in Sides :
              AheadIn(todo, 1, p, s) =>
                AheadIn(todo, 0, p, s) /\ (s = 0 => Head(todo).ord < p.ord)
<1>1. Head(todo) = todo[1] /\ 1 \in DOMAIN todo /\ \A i \in DOMAIN todo : i = 1 \/ 1 < i
  BY TailOfList, ListHasLength DEF HasLength, InOrder
<1>2. \A s \in Sides : s = 0 \/ s = 1
  BY DEF Sides
<1>3. ASSUME NEW p, NEW s \in Sides, AheadIn(todo, 0, p, s)
      PROVE  AheadIn(todo, 1, p, s) \/ (p = Head(todo) /\ s = 0)
  <2>1. PICK i \in DOMAIN todo : p = todo[i] /\ (i = 1 => 0 <= s)
    BY <1>3 DEF AheadIn
  <2>2. CASE i # 1 \/ s = 1
    <3>1. i = 1 => 1 <= s
      BY <2>2
    <3> QED
      BY <2>1, <3>1 DEF AheadIn
  <2>3. CASE i = 1 /\ s = 0
    BY <1>1, <2>1, <2>3
  <2> QED
    BY <1>2, <2>2, <2>3
<1>4. ASSUME NEW p, NEW s \in Sides, AheadIn(todo, 1, p, s)
      PROVE  AheadIn(todo, 0, p, s) /\ (s = 0 => Head(todo).ord < p.ord)
  <2>1. PICK i \in DOMAIN todo : p = todo[i] /\ (i = 1 => 1 <= s)
    BY <1>4 DEF AheadIn
  <2>2. i = 1 => 0 <= s
    BY <1>2
  <2>3. s = 0 => 1 < i
    BY <1>1, <2>1
  <2> QED
    BY <1>1, <2>1, <2>2, <2>3 DEF AheadIn, InOrder
<1> QED
  BY <1>3, <1>4

LEMMA NextTokenAdvances ==
  ASSUME InOrder(todoPairs), todoPairs # <<>>, side \in Sides, NextToken
  PROVE  /\ InOrder(todoPairs') /\ side' \in Sides
         /\ ToSet(todoPairs') \subseteq ToSet(todoPairs) /\ pair \in ToSet(todoPairs)
         /\ \A p : \A s \in Sides :
              AheadIn(todoPairs, side, p, s) =>
                AheadIn(todoPairs', side', p, s) \/ (p = pair /\ s = side)
         /\ \A p : \A s \in Sides :
              AheadIn(todoPairs', side', p, s) =>
                AheadIn(todoPairs, side, p, s) /\ (s = side => pair.ord < p.ord)
<1>1. CASE side = 0
  <2>1. side' = 1 /\ todoPairs' = todoPairs
    BY <1>1 DEF NextToken
  <2>2. pair \in ToSet(todoPairs)
    BY PairDone DEF pair
  <2>3. 1 \in Sides
    BY DEF Sides
  <2> QED
    BY <1>1, <2>1, <2>2, <2>3, TokenDone DEF pair
<1>2. CASE side = 1
  <2>1. side' = 0 /\ todoPairs' = Tail(todoPairs)
    BY <1>2 DEF NextToken, NextPair
  <2>2. 0 \in Sides /\ \A s \in Sides : 1 <= s => s = 1
    BY DEF Sides
  <2> QED
    BY <1>2, <2>1, <2>2, PairDone DEF pair
<1> QED
  BY <1>1, <1>2 DEF Sides

(* Why a token is missing; what the loop still has to reach; and where a   *)
(* flag that stands comes from: a call in this block, for a pair before    *)
(* all that are ahead.                                                     *)
Explained(p, s) ==
  \/ HasToken(TokenOf(p, s))
  \/ \E r \in rpcs : /\ r.block = p.block
                     /\ \/ ~r.ok /\ r.ord = p.ord /\ r.side <= s
                        \/ r.ok /\ r.ord < p.ord /\ r.side = s

Ahead(p, s) == stage = "store_pcs_tokens" /\ AheadIn(todoPairs, side, p, s)

RetryExplained ==
  \A s \in Sides : retry[s] /\ stage = "store_pcs_tokens" =>
    \E r \in rpcs : /\ r.block = number /\ r.ok /\ r.side = s
                    /\ \A p : Ahead(p, s) => r.ord < p.ord

LoopInv ==
  /\ IsStore(tokenStore)
  /\ side \in Sides
  /\ retry \in [Sides -> BOOLEAN]
  /\ todoPairs # <<>> => stage = "store_pcs_tokens"
  /\ InOrder(todoPairs)
  /\ \A p \in ToSet(todoPairs) : p.block = number /\ p.ord \in Nat
  /\ RetryExplained
  /\ \A p \in Pairs : \A s \in Sides : Explained(p, s) \/ Ahead(p, s)

LEMMA LoopStart == Init => LoopInv
<1> SUFFICES ASSUME Init PROVE LoopInv
  OBVIOUS
<1>1. /\ pairStore = EmptyStore /\ tokenStore = EmptyStore /\ stage = "idle"
      /\ todoPairs = <<>> /\ side = 0 /\ retry = [s \in Sides |-> FALSE]
  BY DEF Init, TokensInit, ChainInit
<1>2. IsStore(tokenStore)
  BY <1>1, EmptyStoreIsStore
<1>3. Pairs = {}
  <2>1. DOMAIN pairStore.kv = {}
    BY <1>1, EmptyStoreIsStore DEF Keys
  <2> QED
    BY <2>1 DEF Pairs
<1>4. InOrder(todoPairs) /\ ToSet(todoPairs) = {}
  BY <1>1, EmptyIsList DEF InOrder
<1>5. RetryExplained /\ side \in Sides /\ retry \in [Sides -> BOOLEAN]
  BY <1>1 DEF RetryExplained, Sides
<1> QED
  BY <1>1, <1>2, <1>3, <1>4, <1>5 DEF LoopInv

(* The calls and the tokens only become more.                              *)
LEMMA ExplainedStays ==
  ASSUME rpcs \subseteq rpcs', DOMAIN tokenStore.kv \subseteq DOMAIN tokenStore'.kv,
         NEW p, NEW s \in Sides, Explained(p, s)
  PROVE  Explained(p, s)'
<1>1. HasToken(TokenOf(p, s)) => HasToken(TokenOf(p, s))'
  BY DEF HasToken, TokenOf, Has
<1> QED
  BY <1>1 DEF Explained

LEMMA SetIfNotExistsIsStore ==
  ASSUME NEW store, IsStore(store), NEW ord, NEW key, NEW value
  PROVE  LET new == SetIfNotExists(store, ord, key, value) IN
         /\ IsStore(new)
         /\ DOMAIN new.kv = DOMAIN store.kv \cup {key}
<1>1. CASE key \in DOMAIN store.kv
  BY <1>1 DEF SetIfNotExists, Has
<1>2. CASE key \notin DOMAIN store.kv
  BY <1>2, PutIsStore DEF SetIfNotExists, Has
<1> QED
  BY <1>1, <1>2

LEMMA TokenIsStored ==
  ASSUME LoopInv, NEW t, StoreToken(t)
  PROVE  /\ IsStore(tokenStore') /\ HasToken(t)'
         /\ DOMAIN tokenStore.kv \subseteq DOMAIN tokenStore'.kv
         /\ NextToken /\ stage' = "store_pcs_tokens"
         /\ UNCHANGED <<pairStore, number>>
         /\ Pairs' = Pairs
<1>1. tokenStore' = SetIfNotExists(tokenStore, pair.ord, TokenKey(t), t)
      /\ NextToken /\ stage' = "store_pcs_tokens" /\ UNCHANGED <<pairStore, number>>
  BY DEF StoreToken, Then
<1>2. IsStore(tokenStore') /\ DOMAIN tokenStore'.kv = DOMAIN tokenStore.kv \cup {TokenKey(t)}
  BY <1>1, SetIfNotExistsIsStore DEF LoopInv
<1>3. HasToken(t)'
  BY <1>2 DEF HasToken, Has, TokenKey
<1>4. Pairs' = Pairs
  BY <1>1 DEF Pairs
<1> QED
  BY <1>1, <1>2, <1>3, <1>4

LEMMA OutsideTheLoop ==
  ASSUME LoopInv, todoPairs = <<>>, stage' # "store_pcs_tokens",
         UNCHANGED <<pairStore, tokenStore, rpcs, retry, side, todoPairs>>
  PROVE  LoopInv'
<1>1. \A p \in Pairs : \A s \in Sides : Explained(p, s)
  BY EmptyIsList DEF LoopInv, Ahead, AheadIn
<1>2. \A p \in Pairs' : \A s \in Sides : Explained(p, s)'
  BY <1>1 DEF Explained, HasToken, Has, TokenOf, Pairs
<1>3. ToSet(todoPairs)' = {} /\ InOrder(todoPairs)'
  BY EmptyIsList DEF InOrder
<1> QED
  BY <1>2, <1>3 DEF LoopInv, RetryExplained

LEMMA NothingAdvances ==
  ASSUME LoopInv, rpcs \subseteq rpcs',
         UNCHANGED <<pairStore, tokenStore, retry, side, todoPairs, stage, number>>
  PROVE  LoopInv'
<1>1. Pairs' = Pairs /\ \A p : \A s \in Sides : Ahead(p, s)' <=> Ahead(p, s)
  BY DEF Pairs, Ahead
<1>2. \A p \in Pairs' : \A s \in Sides : Explained(p, s)' \/ Ahead(p, s)'
  BY <1>1, ExplainedStays DEF LoopInv
<1>3. RetryExplained'
  BY <1>1 DEF LoopInv, RetryExplained
<1>4. ToSet(todoPairs)' = ToSet(todoPairs) /\ (InOrder(todoPairs)' <=> InOrder(todoPairs))
  BY DEF InOrder
<1> QED
  BY <1>2, <1>3, <1>4 DEF LoopInv

LEMMA LoopStarts ==
  ASSUME LoopInv, PairsKnown, StorePairs
  PROVE  LoopInv'
<1>1. /\ stage = "store_pairs" /\ stage' = "store_pcs_tokens"
      /\ tokenStore' = NextBlock(tokenStore) /\ todoPairs' = pairs /\ side' = 0
      /\ retry' = [s \in Sides |-> FALSE] /\ UNCHANGED <<number, rpcs>>
  BY DEF StorePairs, At, Then
<1>2. IsStore(tokenStore') /\ tokenStore'.kv = tokenStore.kv
  BY <1>1, NextBlockIsStore DEF LoopInv
<1>3. Pairs' = Pairs \cup ToSet(pairs)
  BY <1>1, PairsStored
<1>4. BlockPairs(pairs)
  BY <1>1 DEF PairsKnown
<1>5. InOrder(pairs) /\ \A p \in ToSet(pairs) : p.block = number /\ p.ord \in Nat
  BY <1>4 DEF BlockPairs, InOrder, CreatedBefore, ToSet
<1>6. ASSUME NEW p \in Pairs, NEW s \in Sides
      PROVE  Explained(p, s)'
  <2>1. Explained(p, s)
    BY <1>1 DEF LoopInv, Ahead
  <2> QED
    BY <1>1, <1>2, <2>1, ExplainedStays
<1>7. ASSUME NEW p \in ToSet(pairs), NEW s \in Sides
      PROVE  Ahead(p, s)'
  <2>1. 0 <= s
    BY DEF Sides
  <2>2. AheadIn(pairs, 0, p, s)
    BY <2>1 DEF AheadIn, ToSet
  <2> QED
    BY <1>1, <2>2 DEF Ahead
<1>8. \A p \in Pairs' : \A s \in Sides : Explained(p, s)' \/ Ahead(p, s)'
  BY <1>3, <1>6, <1>7
<1>9. RetryExplained' /\ side' \in Sides /\ retry' \in [Sides -> BOOLEAN]
  BY <1>1 DEF RetryExplained, Sides
<1>10. InOrder(todoPairs)' /\ ToSet(todoPairs)' = ToSet(pairs)
  BY <1>1, <1>5
<1> QED
  BY <1>1, <1>2, <1>5, <1>8, <1>9, <1>10 DEF LoopInv

(* A token of a pair is done: it is there, or a flag that stands explains  *)
(* why it is not.                                                          *)
LEMMA TokenAdvances ==
  ASSUME LoopInv, AtToken, NEW t, StoreToken(t), rpcs \subseteq rpcs',
         NEW q, q = pair, NEW u, u = side, Explained(q, u)', retry' \in [Sides -> BOOLEAN],
         \A s \in Sides : retry'[s] =>
           \E r \in rpcs' : /\ r.block = number /\ r.ok /\ r.side = s
                            /\ \/ \A p : Ahead(p, s) => r.ord < p.ord
                               \/ s = side /\ r.ord = pair.ord
  PROVE  LoopInv'
<1>1. /\ stage = "store_pcs_tokens" /\ todoPairs # <<>>
      /\ InOrder(todoPairs) /\ side \in Sides
  BY DEF AtToken, At, LoopInv
<1>2. /\ IsStore(tokenStore') /\ DOMAIN tokenStore.kv \subseteq DOMAIN tokenStore'.kv
      /\ NextToken /\ stage' = "store_pcs_tokens" /\ number' = number /\ Pairs' = Pairs
  BY TokenIsStored
<1>3. /\ InOrder(todoPairs') /\ side' \in Sides
      /\ ToSet(todoPairs') \subseteq ToSet(todoPairs)
  BY <1>1, <1>2, NextTokenAdvances
<1>4. ASSUME NEW p, NEW s \in Sides, Ahead(p, s)
      PROVE  Ahead(p, s)' \/ (p = pair /\ s = side)
  BY <1>1, <1>2, <1>4, NextTokenAdvances DEF Ahead
<1>5. ASSUME NEW p, NEW s \in Sides, Ahead(p, s)'
      PROVE  Ahead(p, s) /\ (s = side => pair.ord < p.ord)
  BY <1>1, <1>2, <1>5, NextTokenAdvances DEF Ahead
<1>6. ASSUME NEW p \in Pairs', NEW s \in Sides
      PROVE  Explained(p, s)' \/ Ahead(p, s)'
  <2>1. Explained(p, s) => Explained(p, s)'
    BY <1>2, ExplainedStays
  <2>2. Explained(p, s) \/ Ahead(p, s)
    BY <1>2 DEF LoopInv
  <2>3. p = pair /\ s = side => Explained(p, s)'
    OBVIOUS
  <2> QED
    BY <1>4, <2>1, <2>2, <2>3
<1>7. RetryExplained'
  <2> SUFFICES ASSUME NEW s \in Sides, retry'[s]
               PROVE  \E r \in rpcs' : /\ r.block = number /\ r.ok /\ r.side = s
                                       /\ \A p : Ahead(p, s)' => r.ord < p.ord
    BY <1>2 DEF RetryExplained
  <2>1. PICK r \in rpcs' : /\ r.block = number /\ r.ok /\ r.side = s
                           /\ \/ \A p : Ahead(p, s) => r.ord < p.ord
                              \/ s = side /\ r.ord = pair.ord
    OBVIOUS
  <2>2. \A p : Ahead(p, s)' => r.ord < p.ord
    BY <1>5, <2>1
  <2> QED
    BY <2>1, <2>2
<1>8. \A p \in ToSet(todoPairs') : p.block = number' /\ p.ord \in Nat
  BY <1>2, <1>3 DEF LoopInv
<1>9. InOrder(todoPairs)' /\ ToSet(todoPairs)' = ToSet(todoPairs')
  BY <1>3
<1> QED
  BY <1>2, <1>3, <1>6, <1>7, <1>8, <1>9 DEF LoopInv

LEMMA FoundAdvances ==
  ASSUME LoopInv, TokenFound
  PROVE  LoopInv'
<1>1. /\ AtToken /\ UNCHANGED <<retry, rpcs>> /\ StoreToken(TokenKept)
      /\ todoPairs # <<>> /\ stage = "store_pcs_tokens" /\ side \in Sides
  BY DEF TokenFound, AtToken, At, LoopInv
<1>2. pair \in ToSet(todoPairs)
  BY <1>1, PairDone DEF LoopInv, pair
<1>3. pair.block = number /\ AheadIn(todoPairs, side, pair, side)
  <2>1. 1 \in DOMAIN todoPairs /\ pair = todoPairs[1] /\ side <= side
    BY <1>1, TailOfList, ListHasLength DEF HasLength, InOrder, LoopInv, pair, Sides
  <2> QED
    BY <1>2, <2>1 DEF AheadIn, LoopInv
<1>q. PICK q : q = pair
  OBVIOUS
<1>u. PICK u : u = side
  OBVIOUS
<1>t. PICK t : t = TokenKept
  OBVIOUS
<1>4. StoreToken(t) /\ (~retry[u] => t = TokenOf(q, u))
  BY <1>1, <1>q, <1>u, <1>t DEF TokenKept
<1>5. ASSUME retry[side]
      PROVE  Explained(q, u)'
  <2>1. PICK r \in rpcs : /\ r.block = number /\ r.ok /\ r.side = side
                          /\ \A p : Ahead(p, side) => r.ord < p.ord
    BY <1>1, <1>5 DEF LoopInv, RetryExplained
  <2>2. r.ord < pair.ord
    BY <1>1, <1>3, <2>1 DEF Ahead
  <2>3. r \in rpcs' /\ r.block = q.block /\ r.ok /\ r.ord < q.ord /\ r.side = u
    BY <1>1, <1>3, <1>q, <1>u, <2>1, <2>2
  <2> QED
    BY <2>3 DEF Explained
<1>6. ASSUME ~retry[side]
      PROVE  Explained(q, u)'
  <2>1. HasToken(t)' /\ t = TokenOf(q, u)
    BY <1>1, <1>4, <1>6, <1>u, TokenIsStored
  <2>2. HasToken(TokenOf(q, u))'
    BY <2>1 DEF HasToken, TokenOf
  <2> QED
    BY <2>2 DEF Explained
<1>7. Explained(q, u)'
  BY <1>5, <1>6
<1>8. \A s \in Sides : retry'[s] =>
        \E r \in rpcs' : /\ r.block = number /\ r.ok /\ r.side = s
                         /\ \A p : Ahead(p, s) => r.ord < p.ord
  BY <1>1 DEF LoopInv, RetryExplained
<1>9. rpcs \subseteq rpcs' /\ retry' \in [Sides -> BOOLEAN] /\ q = pair /\ u = side
  BY <1>1, <1>q, <1>u DEF LoopInv
<1> QED
  BY <1>1, <1>4, <1>7, <1>8, <1>9, TokenAdvances

LEMMA CalledAdvances ==
  ASSUME LoopInv, TokenCalled
  PROVE  LoopInv'
<1>q. PICK q : q = pair
  OBVIOUS
<1>u. PICK u : u = side
  OBVIOUS
<1>t. PICK t : t = TokenOf(q, u)
  OBVIOUS
<1> DEFINE c == [block |-> number, ord |-> pair.ord, side |-> side, ok |-> TRUE]
<1>1. /\ AtToken /\ StoreToken(t) /\ side \in Sides /\ stage = "store_pcs_tokens"
      /\ retry' = [retry EXCEPT ![side] = TRUE] /\ rpcs' = rpcs \cup {c}
  BY <1>q, <1>u, <1>t DEF TokenCalled, CallRpc, AtToken, At, LoopInv
<1>2. c.block = number /\ c.ord = pair.ord /\ c.side = side /\ c.ok
  OBVIOUS
<1> HIDE DEF c
<1>3. HasToken(t)'
  BY <1>1, TokenIsStored
<1>4. Explained(q, u)'
  <2>1. HasToken(TokenOf(q, u))'
    BY <1>3, <1>t DEF HasToken, TokenOf
  <2> QED
    BY <2>1 DEF Explained
<1>5. ASSUME NEW s \in Sides, retry'[s]
      PROVE  \E r \in rpcs' : /\ r.block = number /\ r.ok /\ r.side = s
                              /\ \/ \A p : Ahead(p, s) => r.ord < p.ord
                                 \/ s = side /\ r.ord = pair.ord
  <2>1. CASE s = side
    BY <1>1, <1>2, <2>1
  <2>2. CASE s # side
    <3>1. retry[s]
      BY <1>1, <1>5, <2>2 DEF LoopInv
    <3> QED
      BY <1>1, <3>1 DEF LoopInv, RetryExplained
  <2> QED
    BY <2>1, <2>2
<1>6. rpcs \subseteq rpcs' /\ retry' \in [Sides -> BOOLEAN] /\ q = pair /\ u = side
  BY <1>1, <1>q, <1>u DEF LoopInv
<1> QED
  BY <1>1, <1>4, <1>5, <1>6, TokenAdvances

LEMMA FailsAdvances ==
  ASSUME LoopInv, CallFails
  PROVE  LoopInv'
<1>q. PICK q : q = pair
  OBVIOUS
<1> DEFINE c == [block |-> number, ord |-> pair.ord, side |-> side, ok |-> FALSE]
<1>1. /\ todoPairs # <<>> /\ side \in Sides /\ stage = "store_pcs_tokens"
      /\ stage' = stage /\ rpcs' = rpcs \cup {c} /\ side' = 0 /\ todoPairs' = Tail(todoPairs)
      /\ UNCHANGED <<pairStore, tokenStore, retry, number>>
  BY DEF CallFails, CallRpc, NextPair, AtToken, At, Then, LoopInv
<1>2. c.block = number /\ c.ord = pair.ord /\ c.side = side /\ ~c.ok
  OBVIOUS
<1> HIDE DEF c
<1>3. /\ InOrder(todoPairs') /\ ToSet(todoPairs') \subseteq ToSet(todoPairs)
      /\ pair \in ToSet(todoPairs)
  BY <1>1, PairDone DEF LoopInv, pair
<1>4. ASSUME NEW p, NEW s \in Sides, Ahead(p, s)
      PROVE  Ahead(p, s)' \/ (p = pair /\ side <= s)
  BY <1>1, <1>4, PairDone DEF Ahead, LoopInv, pair
<1>5. ASSUME NEW p, NEW s \in Sides, Ahead(p, s)'
      PROVE  Ahead(p, s)
  BY <1>1, <1>5, PairDone DEF Ahead, LoopInv, pair
<1>6. pair.block = number
  BY <1>3 DEF LoopInv
<1>7. ASSUME NEW s \in Sides, side <= s
      PROVE  Explained(q, s)'
  <2>1. c \in rpcs' /\ c.block = q.block /\ ~c.ok /\ c.ord = q.ord /\ c.side <= s
    BY <1>1, <1>2, <1>6, <1>7, <1>q
  <2> QED
    BY <2>1 DEF Explained
<1>8. ASSUME NEW p \in Pairs', NEW s \in Sides
      PROVE  Explained(p, s)' \/ Ahead(p, s)'
  <2>1. Explained(p, s) => Explained(p, s)'
    BY <1>1, ExplainedStays
  <2>2. Explained(p, s) \/ Ahead(p, s)
    BY <1>1 DEF LoopInv, Pairs
  <2>3. p = pair /\ side <= s => Explained(p, s)'
    BY <1>7, <1>q
  <2> QED
    BY <1>4, <2>1, <2>2, <2>3
<1>9. RetryExplained'
  BY <1>1, <1>5 DEF LoopInv, RetryExplained
<1>10. \A p \in ToSet(todoPairs') : p.block = number' /\ p.ord \in Nat
  BY <1>1, <1>3 DEF LoopInv
<1>11. /\ InOrder(todoPairs)' /\ ToSet(todoPairs)' = ToSet(todoPairs')
       /\ side' \in Sides /\ IsStore(tokenStore')
  BY <1>1, <1>3 DEF Sides, LoopInv
<1> QED
  BY <1>1, <1>8, <1>9, <1>10, <1>11 DEF LoopInv

LEMMA LoopKept == PairsKnown /\ LoopInv /\ [Next]_vars => LoopInv'
<1> SUFFICES ASSUME PairsKnown, LoopInv, [Next]_vars
             PROVE  LoopInv'
  OBVIOUS
<1>1. CASE MapPairs
  <2>1. /\ stage = "map_pairs" /\ stage' = "store_pairs"
        /\ UNCHANGED <<pairStore, tokenStore, rpcs, retry, side, todoPairs>>
    BY <1>1 DEF MapPairs, At, Then
  <2> QED
    BY <2>1, OutsideTheLoop DEF LoopInv
<1>2. CASE StorePairs
  BY <1>2, LoopStarts
<1>3. CASE TokenFound
  BY <1>3, FoundAdvances
<1>4. CASE TokenCalled
  BY <1>4, CalledAdvances
<1>5. CASE CallFails
  BY <1>5, FailsAdvances
<1>6. CASE CallPanics
  <2>1. /\ rpcs \subseteq rpcs'
        /\ UNCHANGED <<pairStore, tokenStore, retry, side, todoPairs, stage, number>>
    BY <1>6 DEF CallPanics, CallRpc, Panic
  <2> QED
    BY <2>1, NothingAdvances
<1>7. CASE TokensStored
  <2>1. /\ todoPairs = <<>> /\ stage' = "map_reserves"
        /\ UNCHANGED <<pairStore, tokenStore, rpcs, retry, side, todoPairs>>
    BY <1>7 DEF TokensStored, Then, tokenVars
  <2> QED
    BY <2>1, OutsideTheLoop
<1>8. CASE (ProduceBlock \/ PricesNext \/ EventsNext \/ VolumesNext \/ DbNext)
           /\ UNCHANGED tokenVars
  <2>1. UNCHANGED <<pairStore, tokenStore, rpcs, retry, side, todoPairs>>
    BY <1>8 DEF tokenVars
  <2>2. stage # "store_pcs_tokens" /\ stage' # "store_pcs_tokens"
    BY <1>8, PricesHand, EventsHand, VolumesHand, DbHands
       DEF Hands, PriceHandlers, EventHandlers, VolumeHandlers, DbHandlers, ProduceBlock
  <2> QED
    BY <2>1, <2>2, OutsideTheLoop DEF LoopInv
<1>9. CASE UNCHANGED <<chainVars, tokenVars>>
  <2>1. /\ rpcs \subseteq rpcs'
        /\ UNCHANGED <<pairStore, tokenStore, retry, side, todoPairs, stage, number>>
    BY <1>9 DEF chainVars, tokenVars
  <2> QED
    BY <2>1, NothingAdvances
<1> QED
  BY <1>1, <1>2, <1>3, <1>4, <1>5, <1>6, <1>7, <1>8, <1>9, ComponentSteps DEF TokensNext

-----------------------------------------------------------------------------
(* Every token that is missing after store_pcs_tokens (lib.rs:787-851) was *)
(* lost in the block of its pair, in one of two ways: a call failed for    *)
(* the pair, or the flag of a call for an earlier pair was never reset.    *)
THEOREM MissingTokens == Spec => []MissingTokensExplained
<1>1. Init => ChainInv /\ PairsKnown /\ LoopInv
  BY ChainStart, PairsKnownStart, LoopStart
<1>2. ChainInv /\ PairsKnown /\ LoopInv /\ [Next]_vars => (ChainInv /\ PairsKnown /\ LoopInv)'
  BY ChainKept, PairsKnownKept, LoopKept
<1>3. LoopInv => MissingTokensExplained
  BY DEF LoopInv, MissingTokensExplained, Explained, Ahead
<1> QED
  BY <1>1, <1>2, <1>3, PTL DEF Spec

-----------------------------------------------------------------------------
(* Days and hours.                                                         *)
DayOf(h) == h \div HoursPerDay
DaysOf(hours) == {DayOf(h) : h \in hours}

LEMMA DayIs ==
  ASSUME NEW h \in Nat
  PROVE  DayOf(h) \in Nat /\ HoursPerDay * DayOf(h) <= h /\ h < HoursPerDay * DayOf(h) + HoursPerDay
<1>1. HoursPerDay \in Nat /\ HoursPerDay > 0
  BY ClockAssumption
<1>2. DayOf(h) \in Int
  BY <1>1 DEF DayOf
<1>3. h % HoursPerDay \in 0 .. HoursPerDay - 1
  BY <1>1
<1>4. h = HoursPerDay * DayOf(h) + (h % HoursPerDay)
  BY <1>1 DEF DayOf
<1>5. DayOf(h) >= 0
  BY <1>1, <1>2, <1>3, <1>4
<1> QED
  BY <1>1, <1>2, <1>3, <1>4, <1>5

LEMMA DaysInOrder ==
  ASSUME NEW g \in Nat, NEW h \in Nat, g <= h
  PROVE  DayOf(g) <= DayOf(h)
<1>1. HoursPerDay \in Nat /\ HoursPerDay > 0
  BY ClockAssumption
<1> DEFINE d == DayOf(g)
           e == DayOf(h)
<1>2. d \in Nat /\ e \in Nat /\ HoursPerDay * d <= g /\ h < HoursPerDay * e + HoursPerDay
  BY DayIs
<1> HIDE DEF d, e
<1>3. SUFFICES ASSUME e + 1 <= d PROVE FALSE
  BY <1>2 DEF d, e
<1>4. HoursPerDay * (e + 1) <= HoursPerDay * d
  BY <1>1, <1>2, <1>3
<1>5. HoursPerDay * (e + 1) = HoursPerDay * e + HoursPerDay
  BY <1>1, <1>2
<1> QED
  BY <1>1, <1>2, <1>4, <1>5

-----------------------------------------------------------------------------
(* The store of reserves: which keys are in it, and of which periods.      *)
ReserveKinds == {"price", "reserve", "pair_day", "pair_hour"}
ReserveKeyed(k) == k[1] \in ReserveKinds /\ \E a, t, v : k = << k[1], a, t, v >>

(* What is kept of a period goes when the next one has a block: a key of   *)
(* the day before stays only until store_reserves has run.                 *)
OfPeriod(k) ==
  /\ k[1] = "pair_day" =>
       /\ k[2] \in Int
       /\ k[2] + 1 \in DaysOf(blockHours) => stage = "store_reserves" /\ k[2] + 1 = day
  /\ k[1] = "pair_hour" =>
       /\ k[2] \in Int
       /\ k[2] + 1 \in blockHours => stage = "store_reserves" /\ k[2] + 1 = hour

ReservesInv ==
  /\ IsList(reserves)
  /\ IsStore(reserveStore)
  /\ \A k \in Keys(reserveStore) : ReserveKeyed(k)
  /\ blockHours \subseteq 0 .. hour
  /\ \A k \in DOMAIN reserveStore.kv : OfPeriod(k)

LEMMA ReservesStart == Init => ReservesInv
<1> SUFFICES ASSUME Init PROVE ReservesInv
  OBVIOUS
<1>1. reserves = <<>> /\ reserveStore = EmptyStore /\ blockHours = {}
  BY DEF Init, PricesInit
<1>2. IsStore(reserveStore) /\ Keys(reserveStore) = {} /\ DOMAIN reserveStore.kv = {}
  BY <1>1, EmptyStoreIsStore DEF Keys
<1> QED
  BY <1>1, <1>2, EmptyIsList DEF ReservesInv

(* A token of the pair and what kind of value: the other parts of a key.   *)
ReserveWrite(w) ==
  /\ ReserveKeyed(w[2])
  /\ w[2][1] = "pair_day" => w[2][2] = day
  /\ w[2][1] = "pair_hour" => w[2][2] = hour

LEMMA ReserveWritesAre ==
  ASSUME NEW r
  PROVE  /\ IsList(ReserveWrites(r))
         /\ \A w \in ToSet(ReserveWrites(r)) : ReserveWrite(w)
<1> DEFINE s == ReserveWrites(r)
<1>1. s = [i \in 1 .. 8 |-> s[i]]
  BY DEF ReserveWrites
<1>2. \A i \in 1 .. 8 : ReserveWrite(s[i])
  BY DEF ReserveWrites, ReserveWrite, ReserveKeyed, ReserveKinds
<1> HIDE DEF s
<1>3. IsList(s) /\ DOMAIN s = 1 .. 8
  BY <1>1, FunctionIsList
<1> QED
  BY <1>2, <1>3 DEF ToSet, s

(* Syncs and KnownReserves are parts of lists.                             *)
LEMMA SyncsIsList ==
  ASSUME trxs \in Blocks
  PROVE  IsList(Syncs)
<1> DEFINE kept == [j \in DOMAIN BlockLogs |->
                      IF KnownPair(BlockLogs[j].address) /\ BlockLogs[j].sig = "Sync"
                      THEN << BlockLogs[j] >> ELSE <<>>]
<1>1. Syncs = FlattenSeq(kept)
  BY DEF Syncs, Where, Each
<1>2. Selection(BlockLogs, kept)
  BY DEF Selection
<1> HIDE DEF kept
<1> QED
  BY <1>1, <1>2, BlockLogsIsList, SelectionIsList

LEMMA KnownReservesIsList ==
  ASSUME IsList(reserves)
  PROVE  IsList(KnownReserves)
<1> DEFINE kept == [j \in DOMAIN reserves |->
                      IF KnownPair(reserves[j].pair) THEN << reserves[j] >> ELSE <<>>]
<1>1. KnownReserves = FlattenSeq(kept)
  BY DEF KnownReserves, Where, Each
<1>2. Selection(reserves, kept)
  BY DEF Selection
<1> HIDE DEF kept
<1> QED
  BY <1>1, <1>2, SelectionIsList

LEMMA AllReserveWrites ==
  ASSUME IsList(reserves)
  PROVE  LET writes == Each(KnownReserves, ReserveWrites) IN
         /\ IsList(writes)
         /\ \A w \in ToSet(writes) : ReserveWrite(w)
<1> DEFINE parts == [i \in DOMAIN KnownReserves |-> ReserveWrites(KnownReserves[i])]
           writes == Each(KnownReserves, ReserveWrites)
<1>1. writes = FlattenSeq(parts)
  BY DEF Each
<1>2. IsList(parts) /\ DOMAIN parts = DOMAIN KnownReserves
  BY KnownReservesIsList, ImageIsList
<1>3. \A i \in DOMAIN parts : IsList(parts[i]) /\ \A w \in ToSet(parts[i]) : ReserveWrite(w)
  BY <1>2, ReserveWritesAre
<1> HIDE DEF parts, writes
<1>4. IsList(writes) /\ \A w \in ToSet(writes) : \E i \in DOMAIN parts : w \in ToSet(parts[i])
  BY <1>1, <1>2, <1>3, FlattenOfLists
<1>5. \A w \in ToSet(writes) : ReserveWrite(w)
  BY <1>3, <1>4
<1> QED
  BY <1>4, <1>5 DEF writes

LEMMA NothingNewer ==
  ASSUME hour \in Nat, blockHours \subseteq 0 .. hour
  PROVE  /\ day \in Nat /\ day = DayOf(hour)
         /\ day + 1 \notin DaysOf(blockHours) /\ hour + 1 \notin blockHours
<1>1. day = DayOf(hour) /\ day \in Nat
  BY DayIs DEF day, DayOf
<1>2. ASSUME NEW h \in blockHours
      PROVE  DayOf(h) # day + 1 /\ h # hour + 1
  <2>1. h \in Nat /\ h <= hour
    OBVIOUS
  <2>2. DayOf(h) <= day /\ DayOf(h) \in Nat
    BY <1>1, <2>1, DaysInOrder, DayIs
  <2> QED
    BY <1>1, <2>1, <2>2
<1> QED
  BY <1>1, <1>2 DEF DaysOf

LEMMA ReservesAreStored ==
  ASSUME hour \in Nat, ReservesInv, StoreReserves
  PROVE  ReservesInv'
<1> DEFINE writes == Each(KnownReserves, ReserveWrites)
           old == NextBlock(reserveStore)
           less == DeletePrefixes(old, ReservePrefixes)
           n == Len(writes)
<1>1. /\ stage = "store_reserves" /\ reserveStore' = PutAll(less, writes)
      /\ UNCHANGED <<reserves, blockHours, hour>>
  BY DEF StoreReserves, At, Then
<1>2. IsList(writes) /\ \A w \in ToSet(writes) : ReserveWrite(w)
  BY AllReserveWrites DEF ReservesInv
<1>3. IsStore(old) /\ old.kv = reserveStore.kv /\ Keys(old) \subseteq Keys(reserveStore)
  BY NextBlockIsStore DEF ReservesInv
<1>4. /\ DOMAIN ReservePrefixes = 1 .. 2
      /\ ReservePrefixes[1] = << "pair_day", day - 1 >>
      /\ ReservePrefixes[2] = << "pair_hour", hour - 1 >>
  BY DEF ReservePrefixes
<1> HIDE DEF writes, old
<1>5. /\ IsStore(less)
      /\ \A k : k \in DOMAIN less.kv <=>
                  k \in DOMAIN old.kv /\ \A i \in 1 .. 2 : ~HasPrefix(k, ReservePrefixes[i])
      /\ Keys(less) \subseteq Keys(old)
  BY <1>3, <1>4, DeletePrefixesIsStore
<1>6. n \in Nat /\ DOMAIN writes = 1 .. n
  BY <1>2, ListHasLength DEF HasLength
<1> HIDE DEF n, less
<1>7. /\ IsStore(reserveStore')
      /\ DOMAIN reserveStore'.kv = DOMAIN less.kv \cup Written(writes)
      /\ Keys(reserveStore') = Keys(less) \cup Written(writes)
  BY <1>1, <1>5, <1>6, PutAllIsStore
<1>8. ASSUME NEW k \in Written(writes)
      PROVE  \E w \in ToSet(writes) : w[2] = k /\ ReserveWrite(w)
  BY <1>2 DEF Written, ToSet
<1>9. day \in Nat /\ day + 1 \notin DaysOf(blockHours) /\ hour + 1 \notin blockHours
  BY NothingNewer DEF ReservesInv
<1>10. ASSUME NEW k \in Keys(reserveStore')
       PROVE  ReserveKeyed(k)
  BY <1>3, <1>5, <1>7, <1>8 DEF ReserveWrite, ReservesInv
<1>11. ASSUME NEW k \in DOMAIN reserveStore'.kv
       PROVE  /\ k[1] = "pair_day" => k[2] \in Int /\ k[2] + 1 \notin DaysOf(blockHours)
              /\ k[1] = "pair_hour" => k[2] \in Int /\ k[2] + 1 \notin blockHours
  <2>1. CASE k \in Written(writes)
    <3>1. PICK w \in ToSet(writes) : w[2] = k /\ ReserveWrite(w)
      BY <1>8, <2>1
    <3> QED
      BY <1>9, <3>1 DEF ReserveWrite
  <2>2. CASE k \in DOMAIN less.kv
    <3>1. /\ OfPeriod(k) /\ ~HasPrefix(k, ReservePrefixes[1])
          /\ ~HasPrefix(k, ReservePrefixes[2])
      BY <1>3, <1>5, <2>2 DEF ReservesInv
    <3>2. /\ k[1] = "pair_day" => k[2] # day - 1
          /\ k[1] = "pair_hour" => k[2] # hour - 1
      BY <1>4, <3>1 DEF HasPrefix
    <3> QED
      BY <1>9, <3>1, <3>2 DEF OfPeriod
  <2> QED
    BY <1>7, <2>1, <2>2
<1>12. ASSUME NEW k \in DOMAIN reserveStore'.kv
       PROVE  OfPeriod(k)'
  BY <1>1, <1>11 DEF OfPeriod, DaysOf, DayOf
<1> QED
  BY <1>1, <1>7, <1>10, <1>12 DEF ReservesInv

(* No other handler touches the store.                                     *)
LEMMA ReservesStay ==
  ASSUME ReservesInv, UNCHANGED <<reserveStore, blockHours>>, IsList(reserves'),
         hour \in Nat, hour' \in Nat, hour <= hour',
         stage # "store_reserves" \/ UNCHANGED <<stage, hour>>
  PROVE  ReservesInv'
<1>1. ASSUME NEW k \in DOMAIN reserveStore.kv
      PROVE  OfPeriod(k)'
  <2>1. OfPeriod(k)
    BY DEF ReservesInv
  <2> QED
    BY <2>1 DEF OfPeriod, DaysOf, DayOf, day
<1>2. blockHours' \subseteq 0 .. hour'
  BY DEF ReservesInv
<1> QED
  BY <1>1, <1>2 DEF ReservesInv, Keys

LEMMA ReservesKept == ChainInv /\ ReservesInv /\ [Next]_vars => ReservesInv'
<1> SUFFICES ASSUME ChainInv, ReservesInv, [Next]_vars
             PROVE  ReservesInv'
  OBVIOUS
<1>1. hour \in Nat /\ IsList(reserves)
  BY DEF ChainInv, ReservesInv
<1>2. CASE ProduceBlock /\ UNCHANGED priceVars
  <2>1. hour' \in Nat /\ hour <= hour' /\ stage = "idle"
    BY <1>1, <1>2, ClockAssumption DEF ProduceBlock
  <2> QED
    BY <1>1, <1>2, <2>1, ReservesStay DEF priceVars
<1>3. CASE MapReserves
  <2>1. /\ stage = "map_reserves" /\ stage' = "store_reserves"
        /\ reserves' = [i \in DOMAIN Syncs |-> Reserve(Syncs[i])]
        /\ blockHours' = blockHours \cup {hour}
        /\ UNCHANGED <<hour, reserveStore>>
    BY <1>3 DEF MapReserves, At, Then
  <2>2. IsList(reserves')
    BY <2>1, SyncsIsList, ImageIsList DEF ChainInv
  <2>3. DaysOf(blockHours') = DaysOf(blockHours) \cup {day} /\ day' = day
    BY <2>1 DEF DaysOf, DayOf, day
  <2>4. ASSUME NEW k \in DOMAIN reserveStore.kv
        PROVE  OfPeriod(k)'
    <3>1. OfPeriod(k)
      BY DEF ReservesInv
    <3>2. DaysOf(blockHours)' = DaysOf(blockHours) \cup {day}
      BY <2>3 DEF DaysOf, DayOf
    <3> QED
      BY <2>1, <2>3, <3>1, <3>2 DEF OfPeriod
  <2>5. blockHours' \subseteq 0 .. hour'
    BY <1>1, <2>1 DEF ReservesInv
  <2> QED
    BY <2>1, <2>2, <2>4, <2>5 DEF ReservesInv, Keys
<1>4. CASE StoreReserves
  BY <1>1, <1>4, ReservesAreStored
<1>5. CASE StorePrices
  <2>1. stage = "store_prices" /\ UNCHANGED <<hour, reserves, reserveStore, blockHours>>
    BY <1>5 DEF StorePrices, At, Then
  <2> QED
    BY <1>1, <2>1, ReservesStay
<1>6. CASE MapReservesPanics \/ StorePricesPanics
  <2>1. UNCHANGED <<stage, hour, reserves, reserveStore, blockHours>>
    BY <1>6 DEF MapReservesPanics, StorePricesPanics, Panic, priceVars
  <2> QED
    BY <1>1, <2>1, ReservesStay
<1>7. CASE (TokensNext \/ EventsNext \/ VolumesNext \/ DbNext) /\ UNCHANGED priceVars
  <2>1. UNCHANGED <<reserves, reserveStore, blockHours>>
    BY <1>7 DEF priceVars
  <2>2. stage # "store_reserves" /\ UNCHANGED hour
    BY <1>7, TokensHand, EventsHand, VolumesHand, DbHands
       DEF Hands, TokenHandlers, EventHandlers, VolumeHandlers, DbHandlers
  <2> QED
    BY <1>1, <2>1, <2>2, ReservesStay
<1>8. CASE UNCHANGED <<chainVars, priceVars>>
  BY <1>1, <1>8, ReservesStay DEF chainVars, priceVars
<1> QED
  BY <1>2, <1>3, <1>4, <1>5, <1>6, <1>7, <1>8, ComponentSteps DEF PricesNext

-----------------------------------------------------------------------------
(* A pair that is known stays known, and the same.                         *)
PairStands(a) == KnownPair(a) => KnownPair(a)' /\ PairAt(a)' = PairAt(a)

LEMMA PairsStand == PairsKnown /\ [Next]_vars => \A a : PairStands(a)
<1> SUFFICES ASSUME PairsKnown, [Next]_vars, NEW a, KnownPair(a)
             PROVE  KnownPair(a)' /\ PairAt(a)' = PairAt(a)
  BY DEF PairStands
<1>1. CASE StorePairs
  <2>1. stage = "store_pairs"
    BY <1>1 DEF StorePairs, At, Then
  <2>2. /\ Pairs' = Pairs \cup ToSet(pairs)
        /\ \A b : KnownPair(b)' => PairAt(b)'.address = b
        /\ \A k \in DOMAIN pairStore'.kv : \E p \in Pairs' : KeyOf(k, p)
    BY <1>1, <2>1, PairsStored
  <2>3. PairAt(a) \in Pairs' /\ PairAt(a).address = a
    BY <2>2, PairsAre DEF PairsKnown
  <2>4. PICK k \in DOMAIN pairStore'.kv : k[1] = "pair" /\ pairStore'.kv[k] = PairAt(a)
    BY <2>3 DEF Pairs
  <2>5. PICK p \in Pairs' : KeyOf(k, p)
    BY <2>2
  <2>6. k = PairKey(p.address)
    BY <2>4, <2>5, KeysDiffer DEF KeyOf
  <2>7. KnownPair(p.address)' /\ PairAt(p.address)' = PairAt(a)
    BY <2>4, <2>6 DEF KnownPair, Has, PairAt
  <2>8. p.address = a
    BY <2>2, <2>3, <2>7
  <2>9. k = PairKey(a)
    BY <2>6, <2>8
  <2> QED
    BY <2>4, <2>9 DEF KnownPair, Has, PairAt
<1>2. CASE UNCHANGED pairStore
  BY <1>2 DEF KnownPair, Has, PairAt
<1>3. CASE MapPairs \/ TokenFound \/ TokenCalled \/ CallFails \/ CallPanics \/ TokensStored
  <2>1. UNCHANGED pairStore
    BY <1>3 DEF MapPairs, TokenFound, TokenCalled, CallFails, CallPanics, TokensStored,
                StoreToken, AtToken, At, Then, Panic, CallRpc, tokenVars
  <2> QED
    BY <1>2, <2>1
<1>4. CASE UNCHANGED tokenVars
  BY <1>2, <1>4 DEF tokenVars
<1> QED
  BY <1>1, <1>3, <1>4, ComponentSteps DEF TokensNext

-----------------------------------------------------------------------------
(* The Sync logs of a block, in the order of their ordinals.               *)
BlockLogSet == UNION {LogsOf(trxs[k]) : k \in DOMAIN trxs}

LEMMA BlockLogsInOrder ==
  ASSUME trxs \in Blocks
  PROVE  /\ ToSet(BlockLogs) \subseteq BlockLogSet
         /\ Ordered(Earlier(BlockLogSet), BlockLogs)
<1> DEFINE parts == [i \in DOMAIN trxs |-> Logs(trxs[i])]
           R == Earlier(BlockLogSet)
<1>1. IsList(parts) /\ DOMAIN parts = DOMAIN trxs
  BY BlockIsList, ImageIsList
<1>2. ASSUME NEW k \in DOMAIN parts
      PROVE  IsList(parts[k]) /\ ToSet(parts[k]) \subseteq LogsOf(trxs[k]) /\ Ordered(R, parts[k])
  <2>1. parts[k] = Logs(trxs[k])
    BY <1>1
  <2> HIDE DEF parts
  <2>2. /\ IsList(parts[k]) /\ ToSet(parts[k]) \subseteq LogsOf(trxs[k])
        /\ Ordered(Earlier(LogsOf(trxs[k])), parts[k])
    BY <1>1, <2>1, LogsInOrder
  <2>3. Earlier(LogsOf(trxs[k])) \subseteq R
    BY <1>1 DEF Earlier, BlockLogSet
  <2> QED
    BY <2>2, <2>3 DEF Ordered
<1>3. ASSUME NEW i \in DOMAIN parts, NEW j \in DOMAIN parts, i < j,
             NEW l \in ToSet(parts[i]), NEW m \in ToSet(parts[j])
      PROVE  << l, m >> \in R
  <2>1. l \in LogsOf(trxs[i]) /\ m \in LogsOf(trxs[j]) /\ i \in DOMAIN trxs /\ j \in DOMAIN trxs
    BY <1>1, <1>2
  <2>2. l.ord < m.ord
    BY <1>3, <2>1, BlocksAssumption
  <2> QED
    BY <2>1, <2>2 DEF Earlier, BlockLogSet
<1>4. BlockLogs = FlattenSeq(parts)
  BY DEF BlockLogs, Each
<1> HIDE DEF parts, R
<1>5. Ordered(R, BlockLogs)
  BY <1>1, <1>2, <1>3, <1>4, FlattenOrdered
<1>6. \A l \in ToSet(BlockLogs) : \E i \in DOMAIN parts : l \in ToSet(parts[i])
  BY <1>1, <1>2, <1>4, FlattenOfLists
<1>7. ToSet(BlockLogs) \subseteq BlockLogSet
  BY <1>1, <1>2, <1>6 DEF BlockLogSet
<1> QED
  BY <1>5, <1>7 DEF R

IsSync(l) ==
  /\ l.ord \in Nat
  /\ KnownPair(l.address)
  /\ l.amounts \in Seq(Nat) /\ Len(l.amounts) = 2

LEMMA SyncsInOrder ==
  ASSUME trxs \in Blocks
  PROVE  /\ HasLength(Syncs, Len(Syncs))
         /\ \A i \in DOMAIN Syncs : IsSync(Syncs[i])
         /\ \A i, j \in DOMAIN Syncs : i < j => Syncs[i].ord < Syncs[j].ord
<1> DEFINE kept == [j \in DOMAIN BlockLogs |->
                      IF KnownPair(BlockLogs[j].address) /\ BlockLogs[j].sig = "Sync"
                      THEN << BlockLogs[j] >> ELSE <<>>]
<1>1. Syncs = FlattenSeq(kept)
  BY DEF Syncs, Where, Each
<1>2. Selection(BlockLogs, kept)
  BY DEF Selection
<1>3. \A j \in DOMAIN BlockLogs :
        kept[j] # <<>> => KnownPair(BlockLogs[j].address) /\ BlockLogs[j].sig = "Sync"
  OBVIOUS
<1> HIDE DEF kept
<1>4. /\ \A l \in ToSet(Syncs) : \E j \in DOMAIN BlockLogs : l = BlockLogs[j] /\ kept[j] # <<>>
      /\ Ordered(Earlier(BlockLogSet), Syncs)
  BY <1>1, <1>2, BlockLogsIsList, BlockLogsInOrder, SelectionIsList
<1>5. HasLength(Syncs, Len(Syncs))
  BY SyncsIsList, ListHasLength
<1>6. ASSUME NEW i \in DOMAIN Syncs
      PROVE  IsSync(Syncs[i])
  <2>1. Syncs[i] \in ToSet(Syncs)
    BY DEF ToSet
  <2>2. PICK j \in DOMAIN BlockLogs : Syncs[i] = BlockLogs[j] /\ kept[j] # <<>>
    BY <1>4, <2>1
  <2>3. KnownPair(Syncs[i].address) /\ Syncs[i].sig = "Sync" /\ Syncs[i] \in BlockLogSet
    BY <1>3, <2>2, BlockLogsInOrder DEF ToSet
  <2>4. PICK k \in DOMAIN trxs : Syncs[i] \in LogsOf(trxs[k])
    BY <2>3 DEF BlockLogSet
  <2> QED
    BY <2>3, <2>4, BlocksAssumption DEF IsSync
<1>7. \A i, j \in DOMAIN Syncs : i < j => Syncs[i].ord < Syncs[j].ord
  BY <1>4 DEF Ordered, Earlier
<1> QED
  BY <1>5, <1>6, <1>7

(* Of the Sync logs of a pair the latest is the last one.                  *)
LEMMA LatestIs ==
  ASSUME trxs \in Blocks, NEW a, SyncsOf(a) # {}
  PROVE  /\ Latest(SyncsOf(a)) \in SyncsOf(a)
         /\ \A l \in SyncsOf(a) : l.ord <= Latest(SyncsOf(a)).ord
<1> DEFINE n == Len(Syncs)
           own == {i \in 1 .. n : Syncs[i].address = a}
<1>1. /\ n \in Nat /\ DOMAIN Syncs = 1 .. n
      /\ \A i \in 1 .. n : Syncs[i].ord \in Nat
      /\ \A i, j \in 1 .. n : i < j => Syncs[i].ord < Syncs[j].ord
  BY SyncsInOrder DEF HasLength, IsSync
<1> HIDE DEF n
<1>2. SyncsOf(a) = {Syncs[i] : i \in own}
  BY <1>1 DEF SyncsOf, ToSet
<1>3. PICK i \in own : \A j \in own : j <= i
  BY <1>1, <1>2, GreatestExists
<1>4. Syncs[i] \in SyncsOf(a)
  BY <1>2
<1>5. ASSUME NEW l \in SyncsOf(a)
      PROVE  l.ord <= Syncs[i].ord
  <2>1. PICK j \in own : l = Syncs[j]
    BY <1>2
  <2>2. j = i \/ j < i
    BY <1>1, <1>3
  <2> QED
    BY <1>1, <2>1, <2>2
<1> HIDE DEF own
<1> QED
  BY <1>4, <1>5 DEF Latest

-----------------------------------------------------------------------------
(* The reserves of a block: one for each of its Sync logs, in order.       *)
ReserveIs(r) ==
  /\ r.ord \in Nat
  /\ KnownPair(r.pair)
  /\ Positive(r.reserve0) /\ Positive(r.reserve1)
  /\ r.price0 = Over(r.reserve0, r.reserve1) /\ r.price1 = Over(r.reserve1, r.reserve0)

BlockReserves(rs) ==
  /\ HasLength(rs, Len(rs))
  /\ \A i \in DOMAIN rs : ReserveIs(rs[i])
  /\ \A i, j \in DOMAIN rs : i < j => rs[i].ord < rs[j].ord

(* What the store has of a pair, and what it will have of it.              *)
HoldsLastSync(a) ==
  LET p == PairAt(a) IN
  /\ GetLast(reserveStore, <<"reserve", a, p.token0, "reserve0">>)
       = ToDecimal(lastSync[a][1], p.token0)
  /\ GetLast(reserveStore, <<"reserve", a, p.token1, "reserve1">>)
       = ToDecimal(lastSync[a][2], p.token1)
  /\ Times(GetLast(reserveStore, <<"price", a, p.token0, "token0">>),
           GetLast(reserveStore, <<"price", a, p.token1, "token1">>)) = One

LastReserve(r) ==
  /\ r \in ToSet(reserves)
  /\ \A q \in ToSet(reserves) : q.pair = r.pair /\ q # r => q.ord < r.ord

WillHoldLastSync(a) ==
  \E r : /\ LastReserve(r) /\ r.pair = a
         /\ r.reserve0 = ToDecimal(lastSync[a][1], PairAt(a).token0)
         /\ r.reserve1 = ToDecimal(lastSync[a][2], PairAt(a).token1)

SyncInv ==
  /\ \A a \in DOMAIN lastSync : KnownPair(a)
  /\ stage \in {"store_reserves", "store_prices"} => BlockReserves(reserves)
  /\ stage # "store_reserves" => \A a \in DOMAIN lastSync : HoldsLastSync(a)
  /\ stage = "store_reserves" =>
       \A a \in DOMAIN lastSync :
         \/ HoldsLastSync(a) /\ \A r \in ToSet(reserves) : r.pair # a
         \/ WillHoldLastSync(a)

LEMMA SyncStart == Init => SyncInv
<1> SUFFICES ASSUME Init PROVE SyncInv
  OBVIOUS
<1>1. lastSync = <<>> /\ stage = "idle"
  BY DEF Init, PricesInit, ChainInit
<1>2. DOMAIN lastSync = {}
  BY <1>1, EmptyIsList
<1> QED
  BY <1>1, <1>2 DEF SyncInv

LEMMA ReserveOfSync ==
  ASSUME PairsKnown, NEW l, IsSync(l), ~SyncPanics(l)
  PROVE  /\ ReserveIs(Reserve(l))
         /\ Reserve(l).ord = l.ord /\ Reserve(l).pair = l.address
         /\ Reserve(l).reserve0 = ToDecimal(l.amounts[1], PairAt(l.address).token0)
         /\ Reserve(l).reserve1 = ToDecimal(l.amounts[2], PairAt(l.address).token1)
<1> DEFINE p == PairAt(l.address)
           r0 == ToDecimal(l.amounts[1], p.token0)
           r1 == ToDecimal(l.amounts[2], p.token1)
<1>1. l.ord \in Nat /\ KnownPair(l.address) /\ DOMAIN l.amounts = 1 .. 2
      /\ l.amounts[1] \in Nat /\ l.amounts[2] \in Nat
  BY DEF IsSync
<1>2. 0 \notin ToSet(l.amounts)
  BY DEF SyncPanics
<1>3. l.amounts[1] # 0 /\ l.amounts[2] # 0
  BY <1>1, <1>2 DEF ToSet
<1>4. p.token0 \in DOMAIN DecimalsOf /\ p.token1 \in DOMAIN DecimalsOf
  BY <1>1, PairsAre DEF PairsKnown, TwoTokens
<1>5. Positive(r0) /\ Positive(r1)
  <2>1. /\ Units[DecimalsOf[p.token0]] \in Nat \ {0}
        /\ Units[DecimalsOf[p.token1]] \in Nat \ {0}
    BY <1>4, PricesAssumption
  <2> QED
    BY <1>1, <1>3, <2>1, FractionPositive DEF ToDecimal
<1>6. /\ Reserve(l).ord = l.ord /\ Reserve(l).pair = l.address
      /\ Reserve(l).reserve0 = r0 /\ Reserve(l).reserve1 = r1
      /\ Reserve(l).price0 = Over(r0, r1) /\ Reserve(l).price1 = Over(r1, r0)
  BY DEF Reserve, GetTokenPrice
<1> HIDE DEF p, r0, r1
<1> QED
  BY <1>1, <1>5, <1>6 DEF ReserveIs, p, r0, r1

LEMMA ReservesMapped ==
  ASSUME ChainInv, PairsKnown, SyncInv, MapReserves, UNCHANGED <<tokenVars>>
  PROVE  SyncInv'
<1>1. /\ stage = "map_reserves" /\ stage' = "store_reserves"
      /\ \A l \in ToSet(Syncs) : ~SyncPanics(l)
      /\ reserves' = [i \in DOMAIN Syncs |-> Reserve(Syncs[i])]
      /\ lastSync' = [a \in DOMAIN lastSync \cup {l.address : l \in ToSet(Syncs)} |->
                        IF SyncsOf(a) = {} THEN lastSync[a] ELSE Latest(SyncsOf(a)).amounts]
      /\ reserveStore' = reserveStore /\ pairStore' = pairStore
  BY DEF MapReserves, At, Then, tokenVars
<1>2. trxs \in Blocks
  BY <1>1 DEF ChainInv
<1>3. /\ HasLength(Syncs, Len(Syncs))
      /\ \A i \in DOMAIN Syncs : IsSync(Syncs[i])
      /\ \A i, j \in DOMAIN Syncs : i < j => Syncs[i].ord < Syncs[j].ord
  BY <1>2, SyncsInOrder
<1>4. ASSUME NEW i \in DOMAIN Syncs
      PROVE  /\ Syncs[i] \in ToSet(Syncs) /\ reserves'[i] = Reserve(Syncs[i])
             /\ ReserveIs(reserves'[i])
             /\ reserves'[i].ord = Syncs[i].ord /\ reserves'[i].pair = Syncs[i].address
  <2>1. Syncs[i] \in ToSet(Syncs) /\ reserves'[i] = Reserve(Syncs[i])
    BY <1>1 DEF ToSet
  <2> QED
    BY <1>1, <1>3, <2>1, ReserveOfSync
<1>5. DOMAIN reserves' = DOMAIN Syncs /\ HasLength(reserves', Len(reserves'))
  <2>1. IsList(reserves') /\ DOMAIN reserves' = DOMAIN Syncs
    BY <1>1, <1>2, SyncsIsList, ImageIsList
  <2> QED
    BY <2>1, ListHasLength
<1>6. \A a : (KnownPair(a)' <=> KnownPair(a)) /\ PairAt(a)' = PairAt(a)
  BY <1>1 DEF KnownPair, PairAt, Has
<1>7. BlockReserves(reserves)'
  <2>1. \A i \in DOMAIN reserves' : ReserveIs(reserves[i])'
    BY <1>4, <1>5, <1>6 DEF ReserveIs
  <2>2. \A i, j \in DOMAIN reserves' : i < j => reserves'[i].ord < reserves'[j].ord
    BY <1>3, <1>4, <1>5
  <2> QED
    BY <1>5, <2>1, <2>2 DEF BlockReserves
<1>8. ASSUME NEW a \in DOMAIN lastSync'
      PROVE  KnownPair(a)
  <2>1. CASE a \in DOMAIN lastSync
    BY <2>1 DEF SyncInv
  <2>2. CASE a \in {l.address : l \in ToSet(Syncs)}
    BY <1>3, <2>2 DEF ToSet, IsSync
  <2> QED
    BY <1>1, <2>1, <2>2
<1>9. ASSUME NEW a \in DOMAIN lastSync', SyncsOf(a) = {}
      PROVE  HoldsLastSync(a)' /\ \A r \in ToSet(reserves') : r.pair # a
  <2>1. a \in DOMAIN lastSync /\ lastSync'[a] = lastSync[a]
    BY <1>1, <1>9 DEF SyncsOf
  <2>2. HoldsLastSync(a)
    BY <1>1, <2>1 DEF SyncInv
  <2>3. HoldsLastSync(a)'
    BY <1>1, <1>6, <2>1, <2>2 DEF HoldsLastSync
  <2>4. \A i \in DOMAIN Syncs : Syncs[i].address # a
    BY <1>4, <1>9 DEF SyncsOf
  <2> QED
    BY <1>4, <1>5, <2>3, <2>4 DEF ToSet
<1>10. ASSUME NEW a \in DOMAIN lastSync', SyncsOf(a) # {}
       PROVE  WillHoldLastSync(a)'
  <2>1. PICK l : l = Latest(SyncsOf(a))
    OBVIOUS
  <2>2. l \in SyncsOf(a) /\ \A m \in SyncsOf(a) : m.ord <= l.ord
    BY <1>2, <1>10, <2>1, LatestIs
  <2>3. lastSync'[a] = l.amounts
    BY <1>1, <1>10, <2>1
  <2>4. PICK i \in DOMAIN Syncs : l = Syncs[i] /\ l.address = a
    BY <2>2 DEF SyncsOf, ToSet
  <2>5. PICK r : r = reserves'[i]
    OBVIOUS
  <2>6. r \in ToSet(reserves') /\ r.pair = a /\ r.ord = l.ord
    BY <1>4, <1>5, <2>4, <2>5 DEF ToSet
  <2>7. ASSUME NEW q \in ToSet(reserves'), q.pair = a, q # r
        PROVE  q.ord < r.ord
    <3>1. PICK j \in DOMAIN Syncs : q = reserves'[j]
      BY <1>5 DEF ToSet
    <3>2. Syncs[j] \in SyncsOf(a) /\ q.ord = Syncs[j].ord
      BY <1>4, <2>7, <3>1 DEF SyncsOf
    <3>3. q.ord <= r.ord /\ i # j
      BY <2>2, <2>5, <2>6, <2>7, <3>1, <3>2
    <3>4. i \in Int /\ j \in Int /\ Syncs[i].ord \in Nat /\ Syncs[j].ord \in Nat
      BY <1>3 DEF HasLength, IsSync
    <3>5. Syncs[i].ord # Syncs[j].ord
      BY <1>3, <3>3, <3>4
    <3> QED
      BY <2>4, <2>6, <3>2, <3>3, <3>4, <3>5
  <2>8. /\ r.reserve0 = ToDecimal(lastSync'[a][1], PairAt(a).token0)
        /\ r.reserve1 = ToDecimal(lastSync'[a][2], PairAt(a).token1)
    BY <1>1, <1>3, <1>4, <2>3, <2>4, <2>5, ReserveOfSync
  <2>9. LastReserve(r)'
    BY <2>6, <2>7 DEF LastReserve
  <2> QED
    BY <1>6, <2>6, <2>8, <2>9 DEF WillHoldLastSync
<1> QED
  BY <1>1, <1>6, <1>7, <1>8, <1>9, <1>10 DEF SyncInv

-----------------------------------------------------------------------------
(* What a reserve writes, and that no other pair writes it.                *)
LEMMA WritesOfReserve ==
  ASSUME PairsKnown, NEW r, KnownPair(r.pair)
  PROVE  LET p == PairAt(r.pair)
             s == ReserveWrites(r)
         IN /\ HasLength(s, 8) /\ \A i \in 1 .. 8 : s[i][1] = r.ord
            /\ s[1] = << r.ord, <<"price", r.pair, p.token0, "token0">>, r.price0 >>
            /\ s[2] = << r.ord, <<"price", r.pair, p.token1, "token1">>, r.price1 >>
            /\ s[3] = << r.ord, <<"reserve", r.pair, p.token0, "reserve0">>, r.reserve0 >>
            /\ s[6] = << r.ord, <<"reserve", r.pair, p.token1, "reserve1">>, r.reserve1 >>
            /\ \A i \in {4, 5, 7, 8} : s[i][2][1] \in {"pair_day", "pair_hour"}
<1> DEFINE p == PairAt(r.pair)
           s == ReserveWrites(r)
<1>1. p.address = r.pair
  BY DEF PairsKnown
<1>2. s = [i \in 1 .. 8 |-> s[i]]
  BY DEF ReserveWrites
<1>3. /\ s[1] = << r.ord, <<"price", p.address, p.token0, "token0">>, r.price0 >>
      /\ s[2] = << r.ord, <<"price", p.address, p.token1, "token1">>, r.price1 >>
      /\ s[3] = << r.ord, <<"reserve", r.pair, p.token0, "reserve0">>, r.reserve0 >>
      /\ s[6] = << r.ord, <<"reserve", r.pair, p.token1, "reserve1">>, r.reserve1 >>
  BY DEF ReserveWrites
<1>4. /\ \A i \in 1 .. 8 : s[i][1] = r.ord
      /\ \A i \in {4, 5, 7, 8} : s[i][2][1] \in {"pair_day", "pair_hour"}
  BY DEF ReserveWrites
<1> HIDE DEF s
<1>5. HasLength(s, 8)
  BY <1>2, FunctionIsList, ListHasLength
<1> QED
  BY <1>1, <1>3, <1>4, <1>5 DEF s

LEMMA KeysOfReserves ==
  ASSUME PairsKnown, NEW r, KnownPair(r.pair), NEW q, KnownPair(q.pair),
         NEW i \in {1, 2, 3, 6}, NEW j \in 1 .. 8,
         ReserveWrites(q)[j][2] = ReserveWrites(r)[i][2]
  PROVE  j = i /\ q.pair = r.pair
<1>1. j \in {1, 2, 3, 6} \/ j \in {4, 5, 7, 8}
  OBVIOUS
<1>2. ReserveWrites(r)[i][2][1] \in {"price", "reserve"}
  BY WritesOfReserve
<1>3. j \in {1, 2, 3, 6}
  BY <1>1, <1>2, WritesOfReserve
<1>4. /\ ReserveWrites(r)[1][2] = <<"price", r.pair, PairAt(r.pair).token0, "token0">>
      /\ ReserveWrites(r)[2][2] = <<"price", r.pair, PairAt(r.pair).token1, "token1">>
      /\ ReserveWrites(r)[3][2] = <<"reserve", r.pair, PairAt(r.pair).token0, "reserve0">>
      /\ ReserveWrites(r)[6][2] = <<"reserve", r.pair, PairAt(r.pair).token1, "reserve1">>
  BY WritesOfReserve
<1>5. /\ ReserveWrites(q)[1][2] = <<"price", q.pair, PairAt(q.pair).token0, "token0">>
      /\ ReserveWrites(q)[2][2] = <<"price", q.pair, PairAt(q.pair).token1, "token1">>
      /\ ReserveWrites(q)[3][2] = <<"reserve", q.pair, PairAt(q.pair).token0, "reserve0">>
      /\ ReserveWrites(q)[6][2] = <<"reserve", q.pair, PairAt(q.pair).token1, "reserve1">>
  BY WritesOfReserve
<1> QED
  BY <1>3, <1>4, <1>5

LEMMA AllReservesKnown ==
  ASSUME BlockReserves(reserves)
  PROVE  /\ IsList(KnownReserves)
         /\ ToSet(KnownReserves) = ToSet(reserves)
         /\ \A i, j \in DOMAIN KnownReserves :
              i < j => KnownReserves[i].ord < KnownReserves[j].ord
<1> DEFINE kept == [j \in DOMAIN reserves |->
                      IF KnownPair(reserves[j].pair) THEN << reserves[j] >> ELSE <<>>]
           S == ToSet(reserves)
           R == {x \in S \X S : x[1].ord < x[2].ord}
<1>1. KnownReserves = FlattenSeq(kept)
  BY DEF KnownReserves, Where, Each
<1>2. Selection(reserves, kept)
  BY DEF Selection
<1>3. IsList(reserves)
  BY FunctionIsList DEF BlockReserves, HasLength
<1>4. IsList(kept) /\ DOMAIN kept = DOMAIN reserves
  BY <1>3, ImageIsList
<1>5. \A j \in DOMAIN reserves : kept[j] = << reserves[j] >>
  BY DEF BlockReserves, ReserveIs
<1> HIDE DEF kept
<1>6. \A j \in DOMAIN kept : IsList(kept[j]) /\ ToSet(kept[j]) = {reserves[j]}
  BY <1>4, <1>5, SingletonIsList
<1>7. \A j \in DOMAIN kept : ToSet(kept[j]) \subseteq ToSet(KnownReserves)
  BY <1>1, <1>4, <1>6, FlattenOfLists
<1>8. Ordered(R, reserves)
  BY DEF Ordered, BlockReserves, ToSet
<1> HIDE DEF R
<1>9. /\ IsList(KnownReserves) /\ Ordered(R, KnownReserves)
      /\ \A x \in ToSet(KnownReserves) : \E j \in DOMAIN reserves : x = reserves[j]
  BY <1>1, <1>2, <1>3, <1>8, SelectionIsList
<1>10. ToSet(KnownReserves) = ToSet(reserves)
  <2>1. ToSet(KnownReserves) \subseteq ToSet(reserves)
    BY <1>9 DEF ToSet
  <2>2. ASSUME NEW x \in ToSet(reserves) PROVE x \in ToSet(KnownReserves)
    <3>1. PICK j \in DOMAIN reserves : x = reserves[j]
      BY DEF ToSet
    <3> QED
      BY <1>4, <1>6, <1>7, <3>1
  <2> QED
    BY <2>1, <2>2
<1>11. \A i, j \in DOMAIN KnownReserves : i < j => KnownReserves[i].ord < KnownReserves[j].ord
  BY <1>9 DEF Ordered, R
<1> QED
  BY <1>9, <1>10, <1>11

LEMMA WritesOfReserves ==
  ASSUME PairsKnown, BlockReserves(reserves)
  PROVE  LET writes == Each(KnownReserves, ReserveWrites) IN
         /\ IsList(writes) /\ InOrdinals(writes)
         /\ \A r \in ToSet(reserves) : \A i \in 1 .. 8 : ReserveWrites(r)[i] \in ToSet(writes)
         /\ \A w \in ToSet(writes) :
              \E r \in ToSet(reserves) : \E i \in 1 .. 8 : w = ReserveWrites(r)[i]
<1> DEFINE parts == [i \in DOMAIN KnownReserves |-> ReserveWrites(KnownReserves[i])]
           writes == Each(KnownReserves, ReserveWrites)
           W == UNION {ToSet(parts[i]) : i \in DOMAIN parts}
           R == {x \in W \X W : x[1][1] <= x[2][1]}
<1>1. writes = FlattenSeq(parts)
  BY DEF Each
<1>2. IsList(parts) /\ DOMAIN parts = DOMAIN KnownReserves
  BY AllReservesKnown, ImageIsList
<1>3. ASSUME NEW k \in DOMAIN parts
      PROVE  /\ parts[k] = ReserveWrites(KnownReserves[k])
             /\ KnownReserves[k] \in ToSet(reserves) /\ ReserveIs(KnownReserves[k])
             /\ IsList(parts[k]) /\ DOMAIN parts[k] = 1 .. 8
             /\ \A i \in 1 .. 8 : parts[k][i][1] = KnownReserves[k].ord
             /\ KnownReserves[k].ord \in Nat
  <2>1. parts[k] = ReserveWrites(KnownReserves[k])
    BY <1>2
  <2> HIDE DEF parts
  <2>2. KnownReserves[k] \in ToSet(reserves)
    BY <1>2, AllReservesKnown DEF ToSet
  <2>3. ReserveIs(KnownReserves[k])
    BY <2>2 DEF ToSet, BlockReserves
  <2>4. /\ HasLength(parts[k], 8)
        /\ \A i \in 1 .. 8 : parts[k][i][1] = KnownReserves[k].ord
    BY <2>1, <2>3, WritesOfReserve DEF ReserveIs
  <2>5. IsList(parts[k]) /\ DOMAIN parts[k] = 1 .. 8
    BY <2>4, FunctionIsList DEF HasLength
  <2> QED
    BY <2>1, <2>2, <2>3, <2>4, <2>5 DEF ReserveIs
<1> HIDE DEF parts, writes
<1>4. ASSUME NEW k \in DOMAIN parts, NEW w \in ToSet(parts[k])
      PROVE  w[1] = KnownReserves[k].ord /\ w \in W
  BY <1>3 DEF ToSet
<1>5. ASSUME NEW k \in DOMAIN parts
      PROVE  Ordered(R, parts[k])
  <2> SUFFICES ASSUME NEW i \in 1 .. 8, NEW j \in 1 .. 8, i < j
               PROVE  << parts[k][i], parts[k][j] >> \in R
    BY <1>3 DEF Ordered
  <2>1. parts[k][i] \in W /\ parts[k][j] \in W
    BY <1>3 DEF ToSet
  <2>2. parts[k][i][1] <= parts[k][j][1]
    BY <1>3
  <2> QED
    BY <2>1, <2>2
<1>6. ASSUME NEW i \in DOMAIN parts, NEW j \in DOMAIN parts, i < j,
             NEW v \in ToSet(parts[i]), NEW w \in ToSet(parts[j])
      PROVE  << v, w >> \in R
  <2>1. KnownReserves[i].ord < KnownReserves[j].ord
    BY <1>2, <1>6, AllReservesKnown
  <2>2. v[1] <= w[1]
    BY <1>3, <1>4, <2>1
  <2> QED
    BY <1>4, <2>2
<1>7. \A k \in DOMAIN parts : IsList(parts[k]) /\ Ordered(R, parts[k])
  BY <1>3, <1>5
<1> HIDE DEF W, R
<1>8. Ordered(R, writes)
  BY <1>1, <1>2, <1>6, <1>7, FlattenOrdered
<1>9. /\ IsList(writes)
      /\ \A w \in ToSet(writes) : \E k \in DOMAIN parts : w \in ToSet(parts[k])
      /\ \A k \in DOMAIN parts : ToSet(parts[k]) \subseteq ToSet(writes)
  BY <1>1, <1>2, <1>7, FlattenOfLists
<1>10. InOrdinals(writes)
  <2>1. ASSUME NEW i \in DOMAIN writes PROVE writes[i][1] \in Nat
    <3>1. writes[i] \in ToSet(writes)
      BY DEF ToSet
    <3>2. PICK k \in DOMAIN parts : writes[i] \in ToSet(parts[k])
      BY <1>9, <3>1
    <3> QED
      BY <1>3, <1>4, <3>2
  <2>2. \A i, j \in DOMAIN writes : i < j => writes[i][1] <= writes[j][1]
    BY <1>8 DEF Ordered, R
  <2> QED
    BY <2>1, <2>2 DEF InOrdinals
<1>11. ASSUME NEW r \in ToSet(reserves), NEW i \in 1 .. 8
       PROVE  ReserveWrites(r)[i] \in ToSet(writes)
  <2>1. PICK k \in DOMAIN parts : r = KnownReserves[k]
    BY <1>2, AllReservesKnown DEF ToSet
  <2>2. ReserveWrites(r)[i] \in ToSet(parts[k])
    BY <1>3, <2>1 DEF ToSet
  <2> QED
    BY <1>9, <2>2
<1>12. ASSUME NEW w \in ToSet(writes)
       PROVE  \E r \in ToSet(reserves) : \E i \in 1 .. 8 : w = ReserveWrites(r)[i]
  <2>1. PICK k \in DOMAIN parts : w \in ToSet(parts[k])
    BY <1>9
  <2>2. PICK i \in 1 .. 8 : w = parts[k][i]
    BY <1>3, <2>1 DEF ToSet
  <2> QED
    BY <1>3, <2>2
<1> QED
  BY <1>9, <1>10, <1>11, <1>12 DEF writes

(* A pair without a Sync in the block keeps what it has in the store; of   *)
(* one with Syncs the store gets what the last of them said.               *)
LEMMA ReservesSynced ==
  ASSUME PairsKnown, ReservesInv, SyncInv, StoreReserves, UNCHANGED tokenVars
  PROVE  SyncInv'
<1> DEFINE writes == Each(KnownReserves, ReserveWrites)
           old == NextBlock(reserveStore)
           less == DeletePrefixes(old, ReservePrefixes)
<1>1. /\ stage = "store_reserves" /\ stage' # "store_reserves"
      /\ reserveStore' = PutAll(less, writes)
      /\ UNCHANGED <<reserves, lastSync, pairStore>>
  BY DEF StoreReserves, At, Then, tokenVars
<1>2. BlockReserves(reserves) /\ \A a \in DOMAIN lastSync : KnownPair(a)
  BY <1>1 DEF SyncInv
<1>3. IsStore(old) /\ old.kv = reserveStore.kv
  BY NextBlockIsStore DEF ReservesInv
<1>4. /\ DOMAIN ReservePrefixes = 1 .. 2
      /\ \A i \in 1 .. 2 : ReservePrefixes[i][1] \in {"pair_day", "pair_hour"}
  BY DEF ReservePrefixes
<1>5. /\ IsList(writes) /\ InOrdinals(writes)
      /\ \A r \in ToSet(reserves) : \A i \in 1 .. 8 : ReserveWrites(r)[i] \in ToSet(writes)
      /\ \A w \in ToSet(writes) :
           \E r \in ToSet(reserves) : \E i \in 1 .. 8 : w = ReserveWrites(r)[i]
  BY <1>2, WritesOfReserves
<1> HIDE DEF writes, old
<1>6. IsStore(less)
  BY <1>3, <1>4, DeletePrefixesIsStore
<1>7. ASSUME NEW k, k[1] \in {"price", "reserve"}
      PROVE  GetLast(less, k) = GetLast(reserveStore, k)
  <2>1. \A i \in 1 .. 2 : ReservePrefixes[i][1] # k[1]
    BY <1>4, <1>7
  <2>2. GetLast(less, k) = GetLast(old, k)
    <3>1. IsStore(old) /\ DOMAIN ReservePrefixes = 1 .. 2 /\ 2 \in Nat
      BY <1>3, <1>4
    <3> HIDE DEF old
    <3>2. GetLast(DeletePrefixes(old, ReservePrefixes), k) = GetLast(old, k)
      BY ONLY <2>1, <3>1, DeletePrefixesKeepsOthers
    <3> QED
      BY <3>2
  <2> QED
    BY <1>3, <2>2 DEF GetLast, Has
<1> HIDE DEF less
<1>8. \A r \in ToSet(reserves) : ReserveIs(r) /\ KnownPair(r.pair)
  BY <1>2 DEF BlockReserves, ToSet, ReserveIs
<1>9. \A a : (KnownPair(a)' <=> KnownPair(a)) /\ PairAt(a)' = PairAt(a)
  BY <1>1 DEF KnownPair, PairAt, Has
(* The last reserve of a pair is what the store gets.                      *)
<1>10. ASSUME NEW r, LastReserve(r), NEW i \in {1, 2, 3, 6}
       PROVE  GetLast(reserveStore', ReserveWrites(r)[i][2]) = ReserveWrites(r)[i][3]
  <2>1. r \in ToSet(reserves) /\ KnownPair(r.pair) /\ r.ord \in Nat
    BY <1>8, <1>10 DEF LastReserve, ReserveIs
  <2>2. PICK w : w = ReserveWrites(r)[i]
    OBVIOUS
  <2>3. w \in ToSet(writes) /\ w[1] = r.ord
    BY <1>5, <2>1, <2>2, WritesOfReserve
  <2>4. ASSUME NEW v \in ToSet(writes), v[2] = w[2], v # w
        PROVE  v[1] < w[1]
    <3>1. PICK q \in ToSet(reserves), j \in 1 .. 8 : v = ReserveWrites(q)[j]
      BY <1>5
    <3>2. j = i /\ q.pair = r.pair
      BY <1>8, <2>1, <2>2, <2>4, <3>1, KeysOfReserves
    <3>3. q # r
      BY <2>2, <2>4, <3>1, <3>2
    <3>4. v[1] = q.ord
      BY <1>8, <3>1, WritesOfReserve
    <3> QED
      BY <1>10, <2>3, <3>2, <3>3, <3>4 DEF LastReserve
  <2>5. GetLast(PutAll(less, writes), w[2]) = w[3]
    BY <1>5, <1>6, <2>3, <2>4, PutAllKeepsLatest
  <2> QED
    BY <1>1, <2>2, <2>5
<1>11. ASSUME NEW a \in DOMAIN lastSync, WillHoldLastSync(a)
       PROVE  HoldsLastSync(a)'
  <2>1. PICK r : /\ LastReserve(r) /\ r.pair = a
                 /\ r.reserve0 = ToDecimal(lastSync[a][1], PairAt(a).token0)
                 /\ r.reserve1 = ToDecimal(lastSync[a][2], PairAt(a).token1)
    BY <1>11 DEF WillHoldLastSync
  <2>2. ReserveIs(r) /\ KnownPair(r.pair)
    BY <1>8, <2>1 DEF LastReserve
  <2>3. PICK p : p = PairAt(a)
    OBVIOUS
  <2>4. /\ GetLast(reserveStore', <<"price", a, p.token0, "token0">>) = r.price0
        /\ GetLast(reserveStore', <<"price", a, p.token1, "token1">>) = r.price1
        /\ GetLast(reserveStore', <<"reserve", a, p.token0, "reserve0">>) = r.reserve0
        /\ GetLast(reserveStore', <<"reserve", a, p.token1, "reserve1">>) = r.reserve1
    <3>1. /\ ReserveWrites(r)[1] = << r.ord, <<"price", a, p.token0, "token0">>, r.price0 >>
          /\ ReserveWrites(r)[2] = << r.ord, <<"price", a, p.token1, "token1">>, r.price1 >>
          /\ ReserveWrites(r)[3] = << r.ord, <<"reserve", a, p.token0, "reserve0">>, r.reserve0 >>
          /\ ReserveWrites(r)[6] = << r.ord, <<"reserve", a, p.token1, "reserve1">>, r.reserve1 >>
      BY <2>1, <2>2, <2>3, WritesOfReserve
    <3>2. \A i \in {1, 2, 3, 6} :
            GetLast(reserveStore', ReserveWrites(r)[i][2]) = ReserveWrites(r)[i][3]
      BY <1>10, <2>1
    <3> QED
      BY <3>1, <3>2
  <2>5. Times(r.price0, r.price1) = One
    BY <2>2, OverInverse DEF ReserveIs
  <2> QED
    BY <1>1, <1>9, <2>1, <2>3, <2>4, <2>5 DEF HoldsLastSync
<1>12. ASSUME NEW a \in DOMAIN lastSync, HoldsLastSync(a), \A r \in ToSet(reserves) : r.pair # a
       PROVE  HoldsLastSync(a)'
  <2>1. PICK p : p = PairAt(a)
    OBVIOUS
  <2>2. ASSUME NEW k, k[1] \in {"price", "reserve"}, k[2] = a
        PROVE  GetLast(reserveStore', k) = GetLast(reserveStore, k)
    <3>1. ASSUME NEW v \in ToSet(writes)
          PROVE  v[2] # k
      <4>1. PICK q \in ToSet(reserves), j \in 1 .. 8 : v = ReserveWrites(q)[j]
        BY <1>5
      <4>2. j \in {1, 2, 3, 6} \/ j \in {4, 5, 7, 8}
        OBVIOUS
      <4>3. v[2][1] \in {"pair_day", "pair_hour"} \/ v[2][2] = q.pair
        BY <1>8, <4>1, <4>2, WritesOfReserve
      <4> QED
        BY <1>12, <2>2, <4>3
    <3>2. GetLast(PutAll(less, writes), k) = GetLast(less, k)
      BY <1>5, <1>6, <3>1, PutAllKeepsOthers
    <3> QED
      BY <1>1, <1>7, <2>2, <3>2
  <2>3. /\ \A t, s : GetLast(reserveStore', <<"price", a, t, s>>)
                       = GetLast(reserveStore, <<"price", a, t, s>>)
        /\ \A t, s : GetLast(reserveStore', <<"reserve", a, t, s>>)
                       = GetLast(reserveStore, <<"reserve", a, t, s>>)
    BY <2>2
  <2> QED
    BY <1>1, <1>9, <1>12, <2>3 DEF HoldsLastSync
<1>13. \A a \in DOMAIN lastSync' : HoldsLastSync(a)'
  BY <1>1, <1>11, <1>12 DEF SyncInv
<1>14. BlockReserves(reserves)'
  BY <1>1, <1>2, <1>9 DEF BlockReserves, ReserveIs
<1> QED
  BY <1>1, <1>2, <1>9, <1>13, <1>14 DEF SyncInv

LEMMA SyncsStay ==
  ASSUME SyncInv, \A a : PairStands(a), UNCHANGED <<reserveStore, lastSync, reserves>>,
         stage # "store_reserves" \/ stage' = "store_reserves",
         stage' \in {"store_reserves", "store_prices"} => stage' = stage
  PROVE  SyncInv'
<1>1. ASSUME NEW a \in DOMAIN lastSync
      PROVE  KnownPair(a)' /\ PairAt(a)' = PairAt(a)
  BY DEF SyncInv, PairStands
<1>2. ASSUME NEW a \in DOMAIN lastSync
      PROVE  /\ HoldsLastSync(a) => HoldsLastSync(a)'
             /\ WillHoldLastSync(a) => WillHoldLastSync(a)'
  BY <1>1 DEF HoldsLastSync, WillHoldLastSync, LastReserve
<1>3. BlockReserves(reserves) => BlockReserves(reserves)'
  BY DEF BlockReserves, ReserveIs, PairStands
<1> QED
  BY <1>1, <1>2, <1>3 DEF SyncInv

LEMMA SyncKept == ChainInv /\ PairsKnown /\ ReservesInv /\ SyncInv /\ [Next]_vars => SyncInv'
<1> SUFFICES ASSUME ChainInv, PairsKnown, ReservesInv, SyncInv, [Next]_vars
             PROVE  SyncInv'
  OBVIOUS
<1>1. \A a : PairStands(a)
  BY PairsStand
<1>2. CASE ProduceBlock /\ UNCHANGED priceVars
  <2>1. UNCHANGED <<reserveStore, lastSync, reserves>> /\ stage = "idle" /\ stage' = "map_pairs"
    BY <1>2 DEF ProduceBlock, priceVars
  <2> QED
    BY <1>1, <2>1, SyncsStay
<1>3. CASE MapReserves /\ UNCHANGED tokenVars
  BY <1>3, ReservesMapped
<1>4. CASE StoreReserves /\ UNCHANGED tokenVars
  BY <1>4, ReservesSynced
<1>5. CASE StorePrices
  <2>1. /\ UNCHANGED <<reserveStore, lastSync, reserves>>
        /\ stage = "store_prices" /\ stage' = "idle"
    BY <1>5 DEF StorePrices, At, Then
  <2> QED
    BY <1>1, <2>1, SyncsStay
<1>6. CASE MapReservesPanics \/ StorePricesPanics
  <2>1. UNCHANGED <<stage, reserveStore, lastSync, reserves>>
    BY <1>6 DEF MapReservesPanics, StorePricesPanics, Panic, priceVars
  <2> QED
    BY <1>1, <2>1, SyncsStay
<1>7. CASE (TokensNext \/ EventsNext \/ VolumesNext \/ DbNext) /\ UNCHANGED priceVars
  <2>1. UNCHANGED <<reserveStore, lastSync, reserves>>
    BY <1>7 DEF priceVars
  <2>2. stage \notin PriceHandlers /\ stage' \notin {"store_reserves", "store_prices"}
    BY <1>7, TokensHand, EventsHand, VolumesHand, DbHands
       DEF Hands, TokenHandlers, PriceHandlers, EventHandlers, VolumeHandlers, DbHandlers
  <2> QED
    BY <1>1, <2>1, <2>2, SyncsStay DEF PriceHandlers
<1>8. CASE UNCHANGED <<chainVars, priceVars>>
  BY <1>1, <1>8, SyncsStay DEF chainVars, priceVars
<1> QED
  BY <1>2, <1>3, <1>4, <1>5, <1>6, <1>7, <1>8, ComponentSteps DEF PricesNext

-----------------------------------------------------------------------------
(* The store of prices: utils.rs reads keys of three parts in the store of *)
(* reserves, where every key has four.                                     *)
LEMMA ThreePartsUnread ==
  ASSUME ReservesInv, NEW ord, NEW x, NEW y, NEW z
  PROVE  /\ GetAt(reserveStore, ord, << x, y, z >>) = Absent
         /\ GetLast(reserveStore, << x, y, z >>) = Absent
<1>1. ASSUME NEW k, ReserveKeyed(k)
      PROVE  k # << x, y, z >>
  <2>1. PICK a, t, v : k = << k[1], a, t, v >>
    BY <1>1 DEF ReserveKeyed
  <2>2. Len(k) = 4 /\ Len(<< x, y, z >>) = 3
    BY <2>1
  <2> QED
    BY <2>2
<1>2. << x, y, z >> \notin Keys(reserveStore)
  BY <1>1 DEF ReservesInv
<1> QED
  BY <1>2, NothingRead

LEMMA DollarIsWorthNothing ==
  ASSUME ReservesInv, NEW ord
  PROVE  ComputeUsdPrice(ord) = Zero
<1>1. /\ PriceAt(ord, ReserveKey(BusdWbnb, WBNB)) = Zero
      /\ PriceAt(ord, ReserveKey(UsdtWbnb, WBNB)) = Zero
  BY ThreePartsUnread DEF PriceAt, AsDecimal, ReserveKey
<1>2. Plus(Zero, Zero) = Fraction(0, 1)
  BY DEF Plus, Zero
<1>3. Plus(Zero, Zero) = Zero
  BY <1>2, FractionOfZero
<1> QED
  BY <1>1, <1>3 DEF ComputeUsdPrice

LEMMA NoMajorUsable ==
  ASSUME ReservesInv, NEW ord, NEW t, NEW major
  PROVE  ~MajorUsable(ord, t, major)
<1>1. GetAt(reserveStore, ord, <<"price", t, major>>) = Absent
  BY ThreePartsUnread
<1> QED
  BY <1>1 DEF MajorUsable

LEMMA OnlyBnbInBnb ==
  ASSUME ReservesInv, NEW ord, NEW t, ~BnbPricePanics(ord, t)
  PROVE  FindBnbPricePerToken(ord, t) = IF t = WBNB THEN One ELSE Absent
<1>1. CASE t = WBNB
  BY <1>1 DEF FindBnbPricePerToken
<1>2. CASE t # WBNB
  <2>1. DirectBnbPrice(t) = Zero
    BY ThreePartsUnread DEF DirectBnbPrice, AsDecimal
  <2>2. Deciding(ord, t) \in SUBSET Nat
    BY PricesAssumption DEF Deciding
  <2>3. ASSUME Deciding(ord, t) # {}
        PROVE  FALSE
    <3>1. Min(Deciding(ord, t)) \in Deciding(ord, t)
      BY <2>2, <2>3, MinIsIn
    <3>2. MajorPanics(ord, t, Whitelist[Min(Deciding(ord, t))])
      BY <3>1, NoMajorUsable DEF Deciding
    <3> QED
      BY <1>2, <2>1, <2>3, <3>2 DEF BnbPricePanics
  <2> QED
    BY <1>2, <2>1, <2>3 DEF FindBnbPricePerToken
<1> QED
  BY <1>1, <1>2

LEMMA TimesZero ==
  ASSUME NEW x, x = Zero \/ Positive(x)
  PROVE  Times(Zero, x) = Zero /\ Times(x, Zero) = Zero
<1>1. x[1] \in Int /\ x[2] \in Nat \ {0}
  BY DEF Zero, Positive
<1>2. Times(Zero, x) = Fraction(0, x[2]) /\ Times(x, Zero) = Fraction(0, x[2])
  BY <1>1 DEF Times, Zero
<1> QED
  BY <1>1, <1>2, FractionOfZero

LEMMA InBnbIs ==
  ASSUME ReservesInv, NEW r, NEW t, NEW amount, Positive(amount), ~BnbPricePanics(r.ord, t)
  PROVE  /\ InBnb(r, t, amount) = Zero \/ Positive(InBnb(r, t, amount))
         /\ t # WBNB => InBnb(r, t, amount) = Zero
<1>1. Positive(Times(amount, One))
  <2>1. Times(amount, One) = Fraction(amount[1] * 1, amount[2] * 1)
    BY DEF Times, One
  <2>2. amount[1] * 1 \in Nat \ {0} /\ amount[2] * 1 \in Nat \ {0}
    BY DEF Positive
  <2> QED
    BY <2>1, <2>2, FractionPositive
<1> QED
  BY <1>1, OnlyBnbInBnb DEF InBnb

(* What the store may have, and what is written to it.                     *)
PriceEntry(k, v) ==
  \/ k = <<"dprice", "usd", "bnb">> /\ v = Zero
  \/ k = <<"dprice", WBNB, "bnb">> /\ v = One
  \/ k[1] = "dreserve" /\ k[3] = WBNB /\ k[4] = "bnb"

PriceList(s) == IsList(s) /\ \A w \in ToSet(s) : PriceEntry(w[2], w[3])

LEMMA DerivedWritesAre ==
  ASSUME ReservesInv, NEW r, NEW p, NEW t, NEW amount, ~BnbPricePanics(r.ord, t)
  PROVE  PriceList(DerivedWrites(r, p, t, amount))
<1> DEFINE s == << << r.ord, <<"dprice", t, "bnb">>, One >>,
                   << r.ord, <<"dreserve", r.pair, t, "bnb">>, InBnb(r, t, amount) >> >>
           written == DerivedWrites(r, p, t, amount)
<1>1. ComputeUsdPrice(r.ord) = Zero
  BY DollarIsWorthNothing
<1>2. FindBnbPricePerToken(r.ord, t) = IF t = WBNB THEN One ELSE Absent
  BY OnlyBnbInBnb
<1>3. s = [i \in 1 .. 2 |-> s[i]]
  OBVIOUS
<1>4. t = WBNB => \A i \in 1 .. 2 : PriceEntry(s[i][2], s[i][3])
  BY DEF PriceEntry
<1>5. written = <<>> \/ (t = WBNB /\ written = s \o <<>>)
  BY <1>1, <1>2 DEF DerivedWrites
<1> HIDE DEF s, written
<1>6. IsList(s) /\ DOMAIN s = 1 .. 2
  BY <1>3, FunctionIsList
<1>7. t = WBNB => PriceList(s)
  BY <1>4, <1>6 DEF PriceList, ToSet
<1>8. IsList(s \o <<>>) /\ ToSet(s \o <<>>) = ToSet(s)
  BY <1>6, EmptyIsList, ConcatOfLists
<1> QED
  BY <1>5, <1>7, <1>8, EmptyIsList DEF PriceList, written

LEMMA PriceWritesAre ==
  ASSUME PairsKnown, ReservesInv, NEW r, ReserveIs(r), ~PricesPanic(r)
  PROVE  PriceList(PriceWrites(r))
<1> DEFINE p == PairAt(r.pair)
           in0 == InBnb(r, p.token0, r.reserve0)
           in1 == InBnb(r, p.token1, r.reserve1)
           usd == IF r.pair \in {UsdtWbnb, BusdWbnb}
                  THEN << << r.ord, <<"dprice", "usd", "bnb">>, ComputeUsdPrice(r.ord) >> >>
                  ELSE <<>>
           sum == IF Times(in0, in1) # Zero
                  THEN << << r.ord, <<"dreserves", r.pair, "bnb">>, Times(in0, in1) >> >>
                  ELSE <<>>
           derived0 == DerivedWrites(r, p, p.token0, r.reserve0)
           derived1 == DerivedWrites(r, p, p.token1, r.reserve1)
<1>1. p.token0 # p.token1
  BY PairsAre DEF PairsKnown, TwoTokens, ReserveIs
<1>2. ~BnbPricePanics(r.ord, p.token0) /\ ~BnbPricePanics(r.ord, p.token1)
  BY DEF PricesPanic, Sides, TokenOf
<1>3. Positive(r.reserve0) /\ Positive(r.reserve1)
  BY DEF ReserveIs
<1>4. /\ in0 = Zero \/ Positive(in0)
      /\ in1 = Zero \/ Positive(in1)
      /\ in0 = Zero \/ in1 = Zero
  BY <1>1, <1>2, <1>3, InBnbIs
<1>5. PriceWrites(r) = usd \o derived0 \o derived1 \o sum
  BY DEF PriceWrites
<1>6. PriceList(<<>>)
  BY EmptyIsList DEF PriceList
<1>7. PriceList(usd)
  <2>1. ComputeUsdPrice(r.ord) = Zero
    BY DollarIsWorthNothing
  <2>2. PICK w : w = << r.ord, <<"dprice", "usd", "bnb">>, Zero >>
    OBVIOUS
  <2>3. PriceEntry(w[2], w[3])
    BY <2>2 DEF PriceEntry
  <2>4. PriceList(<< w >>)
    BY <2>3, SingletonIsList DEF PriceList
  <2> QED
    BY <1>6, <2>1, <2>2, <2>4
<1> HIDE DEF in0, in1
<1>8. PriceList(sum)
  BY <1>4, <1>6, TimesZero
<1>9. PriceList(derived0) /\ PriceList(derived1)
  BY <1>2, DerivedWritesAre
<1> HIDE DEF p, usd, sum, derived0, derived1
<1>10. ASSUME NEW s, NEW t, PriceList(s), PriceList(t)
       PROVE  PriceList(s \o t)
  BY <1>10, ConcatOfLists DEF PriceList
<1> QED
  BY <1>5, <1>7, <1>8, <1>9, <1>10

PricesInv ==
  /\ IsStore(priceStore)
  /\ \A k \in DOMAIN priceStore.kv : PriceEntry(k, priceStore.kv[k])

LEMMA PricesStart == Init => PricesInv
<1> SUFFICES ASSUME Init PROVE PricesInv
  OBVIOUS
<1>1. priceStore = EmptyStore
  BY DEF Init, PricesInit
<1>2. IsStore(priceStore) /\ DOMAIN priceStore.kv = {}
  BY <1>1, EmptyStoreIsStore DEF Keys
<1> QED
  BY <1>2 DEF PricesInv

LEMMA PricesStored ==
  ASSUME PairsKnown, ReservesInv, SyncInv, PricesInv, StorePrices
  PROVE  PricesInv'
<1> DEFINE prefixes == ReservePrefixes \o << <<"token_day", day - 1>> >>
           parts == [i \in DOMAIN KnownReserves |-> PriceWrites(KnownReserves[i])]
           writes == FlattenSeq(parts)
           old == NextBlock(priceStore)
           less == DeletePrefixes(old, prefixes)
           n == Len(writes)
<1>1. /\ stage = "store_prices" /\ \A r \in ToSet(KnownReserves) : ~PricesPanic(r)
      /\ priceStore' = PutAll(less, writes)
  BY DEF StorePrices, At, Then, Each
<1>2. BlockReserves(reserves)
  BY <1>1 DEF SyncInv
<1>3. IsList(parts) /\ DOMAIN parts = DOMAIN KnownReserves
  BY <1>2, AllReservesKnown, ImageIsList
<1>4. ASSUME NEW k \in DOMAIN parts
      PROVE  PriceList(parts[k])
  <2>1. parts[k] = PriceWrites(KnownReserves[k])
    BY <1>3
  <2>2. KnownReserves[k] \in ToSet(KnownReserves)
    BY <1>3 DEF ToSet
  <2>3. ReserveIs(KnownReserves[k]) /\ ~PricesPanic(KnownReserves[k])
    BY <1>1, <1>2, <2>2, AllReservesKnown DEF ToSet, BlockReserves
  <2> QED
    BY <2>1, <2>3, PriceWritesAre
<1> HIDE DEF parts
<1>5. IsList(writes) /\ \A w \in ToSet(writes) : PriceEntry(w[2], w[3])
  BY <1>3, <1>4, FlattenOfLists DEF PriceList
<1>6. IsStore(old) /\ old.kv = priceStore.kv
  BY NextBlockIsStore DEF PricesInv
<1>7. DOMAIN prefixes = 1 .. 3 /\ 3 \in Nat
  BY DEF ReservePrefixes
<1> HIDE DEF prefixes, writes, old
<1>8. /\ IsStore(less)
      /\ \A k \in DOMAIN less.kv : k \in DOMAIN old.kv /\ less.kv[k] = old.kv[k]
  BY <1>6, <1>7, DeletePrefixesIsStore
<1>9. n \in Nat /\ DOMAIN writes = 1 .. n
  BY <1>5, ListHasLength DEF HasLength
<1> HIDE DEF n, less
<1>10. /\ IsStore(priceStore')
       /\ DOMAIN priceStore'.kv = DOMAIN less.kv \cup Written(writes)
       /\ \A k \in DOMAIN less.kv \ Written(writes) : priceStore'.kv[k] = less.kv[k]
       /\ \A k \in Written(writes) :
            \E i \in 1 .. n : writes[i][2] = k /\ priceStore'.kv[k] = writes[i][3]
  BY <1>1, <1>8, <1>9, PutAllIsStore
<1>11. ASSUME NEW k \in DOMAIN priceStore'.kv
       PROVE  PriceEntry(k, priceStore'.kv[k])
  <2>1. CASE k \in Written(writes)
    <3>1. PICK i \in 1 .. n : writes[i][2] = k /\ priceStore'.kv[k] = writes[i][3]
      BY <1>10, <2>1
    <3>2. writes[i] \in ToSet(writes)
      BY <1>9 DEF ToSet
    <3> QED
      BY <1>5, <3>1, <3>2
  <2>2. CASE k \notin Written(writes)
    BY <1>6, <1>8, <1>10, <2>2 DEF PricesInv
  <2> QED
    BY <2>1, <2>2
<1> QED
  BY <1>10, <1>11 DEF PricesInv

LEMMA PricesKept == PairsKnown /\ ReservesInv /\ SyncInv /\ PricesInv /\ [Next]_vars => PricesInv'
<1> SUFFICES ASSUME PairsKnown, ReservesInv, SyncInv, PricesInv, [Next]_vars
             PROVE  PricesInv'
  OBVIOUS
<1>1. CASE StorePrices
  BY <1>1, PricesStored
<1>2. CASE UNCHANGED priceStore
  BY <1>2 DEF PricesInv
<1>3. CASE MapReserves \/ MapReservesPanics \/ StoreReserves \/ StorePricesPanics
  <2>1. UNCHANGED priceStore
    BY <1>3 DEF MapReserves, MapReservesPanics, StoreReserves, StorePricesPanics, At, Then,
                Panic, priceVars
  <2> QED
    BY <1>2, <2>1
<1>4. CASE UNCHANGED priceVars
  BY <1>2, <1>4 DEF priceVars
<1> QED
  BY <1>1, <1>3, <1>4, ComponentSteps DEF PricesNext

-----------------------------------------------------------------------------
(* The events of a block.                                                  *)
AfterEvents == VolumeHandlers \cup DbHandlers

EventNow(e) ==
  /\ e.kind \in Kinds
  /\ e.id[1][1] = number
  /\ e.id[2] \in Nat /\ e.id[2] < counts[e.kind]
  /\ e.day = day /\ e.hour = hour
  /\ request = "db_out" => e.kind # "Swap"

EventLogged(e) ==
  /\ e.kind \in Kinds
  /\ e.id[1][1] \in Nat /\ e.id[1][1] <= number
  /\ stage \in Handlers \ AfterEvents => e.id[1][1] < number
  /\ e.hour \in Nat /\ e.hour <= hour /\ e.day = DayOf(e.hour)
  /\ request = "db_out" => e.kind # "Swap"

(* No two events of a list have the same primary key in the same table.    *)
IdsDiffer(es) ==
  \A i, j \in DOMAIN es : es[i].kind = es[j].kind /\ es[i].id = es[j].id => i = j

EventsInv ==
  /\ counts \in [Kinds -> Nat]
  /\ IsList(callsLeft)
  /\ callsLeft # <<>> => stage = "read_calls"
  /\ \A c \in ToSet(callsLeft) : c.trx[1] = number
  /\ IsList(events)
  /\ stage \in {"read_calls"} \cup AfterEvents =>
       (\A e \in ToSet(events) : EventNow(e)) /\ IdsDiffer(events)
  /\ IsList(eventLog)
  /\ \A e \in ToSet(eventLog) : EventLogged(e)
  /\ IdsDiffer(eventLog)

LEMMA EventsStart == Init => EventsInv
<1> SUFFICES ASSUME Init PROVE EventsInv
  OBVIOUS
<1>1. /\ callsLeft = <<>> /\ counts = [k \in Kinds |-> 0] /\ events = <<>> /\ eventLog = <<>>
      /\ stage = "idle"
  BY DEF Init, EventsInit, ChainInit
<1>2. stage \notin {"read_calls"} \cup AfterEvents
  BY <1>1 DEF AfterEvents, VolumeHandlers, DbHandlers
<1>3. IdsDiffer(eventLog)
  BY <1>1, EmptyIsList DEF IdsDiffer
<1> QED
  BY <1>1, <1>2, <1>3, EmptyIsList DEF EventsInv

(* A block has lists of calls.                                             *)
LEMMA CallsAreListed ==
  ASSUME trxs \in Blocks, StartEvents
  PROVE  IsList(callsLeft') /\ \A c \in ToSet(callsLeft') : c.trx[1] = number
<1> DEFINE read(i) == [j \in DOMAIN trxs[i].calls |->
                         [trx |-> <<number, i>>, from |-> trxs[i].from, call |-> trxs[i].calls[j]]]
           parts == [i \in DOMAIN trxs |-> read(i)]
<1>1. callsLeft' = FlattenSeq(parts)
  BY DEF StartEvents
<1>2. IsList(parts) /\ DOMAIN parts = DOMAIN trxs
  BY BlockIsList, ImageIsList
<1>3. ASSUME NEW i \in DOMAIN trxs
      PROVE  IsList(read(i)) /\ \A c \in ToSet(read(i)) : c.trx[1] = number
  <2>1. IsList(trxs[i].calls)
    BY BlocksAssumption DEF IsList
  <2>2. IsList(read(i)) /\ DOMAIN read(i) = DOMAIN trxs[i].calls
    BY <2>1, ImageIsList
  <2>3. \A j \in DOMAIN trxs[i].calls : read(i)[j].trx[1] = number
    OBVIOUS
  <2> HIDE DEF read
  <2> QED
    BY <2>2, <2>3 DEF ToSet
<1>4. \A i \in DOMAIN parts : IsList(parts[i]) /\ \A c \in ToSet(parts[i]) : c.trx[1] = number
  BY <1>2, <1>3
<1> HIDE DEF parts
<1> QED
  BY <1>1, <1>2, <1>4, FlattenOfLists

(* With the store of reserves in place of the store of prices every read   *)
(* of a price fails, and a swap unwraps one.                               *)
LEMMA NoPriceAsWired ==
  ASSUME ReservesInv, request = "db_out", NEW ord, NEW p
  PROVE  DerivedMissing(ord, p)
<1> DEFINE key == DerivedKey(TokenOf(p, 0), "bnb")
<1>1. PricesStore = reserveStore
  BY DEF PricesStore
<1>2. key[1] = "dprice"
  BY DEF DerivedKey
<1>3. key \notin Keys(reserveStore)
  BY <1>2 DEF ReservesInv, ReserveKeyed, ReserveKinds
<1> HIDE DEF key
<1>4. /\ key \notin DOMAIN reserveStore.kv
      /\ \A i \in DOMAIN reserveStore.deltas : reserveStore.deltas[i].key # key
  BY <1>3 DEF Keys
<1>5. GetAt(reserveStore, ord, key) = Absent
  BY <1>4 DEF GetAt, GetLast, Has
<1>6. DerivedAt(ord, TokenOf(p, 0), "bnb") = Absent
  BY <1>1, <1>5 DEF DerivedAt, key
<1>7. 0 \in Sides /\ "bnb" \in {"bnb", "usd"}
  BY DEF Sides
<1> QED
  BY <1>6, <1>7 DEF DerivedMissing

LEMMA EventKinds ==
  ASSUME NEW logs, EventOf(logs) # "none"
  PROVE  EventOf(logs) \in Kinds
<1> DEFINE last == logs[Len(logs)].sig
           ok == \/ Len(logs) \in {3, 4} /\ last \in {"Mint", "Burn"}
                 \/ Len(logs) = 2 /\ last = "Swap"
<1>1. EventOf(logs) = IF ok THEN last ELSE "none"
  BY DEF EventOf
<1>2. ok => last \in Kinds
  BY DEF Kinds
<1> HIDE DEF ok, last
<1> QED
  BY <1>1, <1>2

NewEvent(kind, c, p) == IF kind = "Swap" THEN ProcessSwap(c, p) ELSE ProcessLiquidity(kind, c, p)

LEMMA EventIs ==
  ASSUME NEW kind \in Kinds, NEW c, NEW p
  PROVE  LET e == NewEvent(kind, c, p) IN
         /\ e.kind = kind /\ e.id = << c.trx, counts[kind] >>
         /\ e.day = day /\ e.hour = hour
<1>1. CASE kind = "Swap"
  BY <1>1 DEF NewEvent, ProcessSwap, EventId
<1>2. CASE kind # "Swap"
  BY <1>2 DEF NewEvent, ProcessLiquidity, EventId
<1> QED
  BY <1>1, <1>2

LEMMA EventsStay ==
  ASSUME EventsInv, UNCHANGED <<counts, events, eventLog, request, number, hour>>,
         IsList(callsLeft'), ToSet(callsLeft') \subseteq ToSet(callsLeft),
         callsLeft' # <<>> => stage' = "read_calls",
         stage' \in {"read_calls"} \cup AfterEvents => stage \in {"read_calls"} \cup AfterEvents,
         stage' \in Handlers \ AfterEvents => stage \in Handlers \ AfterEvents
  PROVE  EventsInv'
<1>1. \A e : EventNow(e) => EventNow(e)'
  BY DEF EventNow, day
<1>2. \A e : EventLogged(e) => EventLogged(e)'
  BY DEF EventLogged, DayOf
<1>3. (IdsDiffer(events) <=> IdsDiffer(events)') /\ (IdsDiffer(eventLog) <=> IdsDiffer(eventLog)')
  BY DEF IdsDiffer
<1>4. \A c \in ToSet(callsLeft') : c.trx[1] = number'
  BY DEF EventsInv
<1>5. stage' \in {"read_calls"} \cup AfterEvents =>
        (\A e \in ToSet(events') : EventNow(e)') /\ IdsDiffer(events)'
  BY <1>1, <1>3 DEF EventsInv
<1>6. IsList(eventLog') /\ (\A e \in ToSet(eventLog') : EventLogged(e)') /\ IdsDiffer(eventLog)'
  BY <1>2, <1>3 DEF EventsInv
<1> QED
  BY <1>4, <1>5, <1>6 DEF EventsInv

LEMMA BlockKeepsEvents ==
  ASSUME ChainInv, EventsInv, ProduceBlock, UNCHANGED eventVars
  PROVE  EventsInv'
<1>1. /\ stage = "idle" /\ stage' = "map_pairs" /\ request' = request /\ number' = number + 1
      /\ number \in Nat /\ hour \in Nat /\ hour' \in Nat /\ hour <= hour'
      /\ UNCHANGED <<callsLeft, counts, events, eventLog>>
  BY ClockAssumption DEF ProduceBlock, eventVars, ChainInv
<1>2. ASSUME NEW e \in ToSet(eventLog)
      PROVE  EventLogged(e)'
  <2>1. EventLogged(e)
    BY DEF EventsInv
  <2> QED
    BY <1>1, <2>1 DEF EventLogged, DayOf
<1>3. callsLeft = <<>> /\ ToSet(callsLeft') = {}
  BY <1>1, EmptyIsList DEF EventsInv
<1>4. stage' \notin {"read_calls"} \cup AfterEvents
  BY <1>1 DEF AfterEvents, VolumeHandlers, DbHandlers
<1>5. IdsDiffer(eventLog)'
  BY <1>1 DEF EventsInv, IdsDiffer
<1> QED
  BY <1>1, <1>2, <1>3, <1>4, <1>5 DEF EventsInv

LEMMA EventsStarted ==
  ASSUME ChainInv, EventsInv, StartEvents
  PROVE  EventsInv'
<1>1. /\ stage = "map_burn_swaps_events" /\ stage' = "read_calls"
      /\ counts' = [k \in Kinds |-> 0] /\ events' = <<>>
      /\ UNCHANGED <<eventLog, request, number, hour>>
  BY DEF StartEvents, At, Then
<1>2. IsList(callsLeft') /\ \A c \in ToSet(callsLeft') : c.trx[1] = number
  BY <1>1, CallsAreListed DEF ChainInv
<1>3. stage \in Handlers \ AfterEvents
  BY <1>1 DEF Handlers, AfterEvents, VolumeHandlers, DbHandlers
<1>4. ASSUME NEW e \in ToSet(eventLog)
      PROVE  EventLogged(e)'
  <2>1. EventLogged(e)
    BY DEF EventsInv
  <2> QED
    BY <1>1, <1>3, <2>1 DEF EventLogged, DayOf
<1>5. IdsDiffer(eventLog)'
  BY <1>1 DEF EventsInv, IdsDiffer
<1>6. IdsDiffer(events)' /\ ToSet(events') = {} /\ IsList(events')
  BY <1>1, EmptyIsList DEF IdsDiffer
<1> QED
  BY <1>1, <1>2, <1>4, <1>5, <1>6 DEF EventsInv

LEMMA EventAdded ==
  ASSUME ReservesInv, EventsInv, CallToEvent
  PROVE  EventsInv'
<1>q. PICK c : c = called
  OBVIOUS
<1>p. PICK p : p = PairAt(called.call.address)
  OBVIOUS
<1>k. PICK kind : kind = EventOf(called.call.logs)
  OBVIOUS
<1>e. PICK e : e = NewEvent(kind, c, p)
  OBVIOUS
<1>1. /\ stage = "read_calls" /\ stage' = "read_calls" /\ callsLeft # <<>>
      /\ kind # "none" /\ ~EventPanics(c.call) /\ callsLeft' = Tail(callsLeft)
      /\ UNCHANGED <<eventLog, request, number, hour>>
  BY <1>q, <1>k DEF CallToEvent, AtCall, At, Then, NextCall
<1>2. kind \in Kinds
  BY <1>1, <1>k, EventKinds
<1>3. events' = Append(events, e) /\ counts' = [counts EXCEPT ![kind] = @ + 1]
  BY <1>q, <1>p, <1>k, <1>e DEF CallToEvent, AddEvent, NewEvent
<1>4. c \in ToSet(callsLeft) /\ IsList(callsLeft') /\ ToSet(callsLeft') \subseteq ToSet(callsLeft)
  BY <1>1, <1>q, TailOfList DEF EventsInv, called
<1>5. /\ e.kind = kind /\ e.id = << c.trx, counts[kind] >> /\ e.day = day /\ e.hour = hour
      /\ c.trx[1] = number
  BY <1>2, <1>4, <1>e, EventIs DEF EventsInv
<1>6. counts[kind] \in Nat /\ counts'[kind] = counts[kind] + 1 /\ counts' \in [Kinds -> Nat]
      /\ \A x \in Kinds : counts[x] \in Nat /\ counts[x] <= counts'[x]
  BY <1>2, <1>3 DEF EventsInv
<1>7. request = "db_out" => kind # "Swap"
  <2> SUFFICES ASSUME request = "db_out", kind = "Swap"
               PROVE  FALSE
    OBVIOUS
  <2>1. SwapPanics(c.call.logs, p)
    BY NoPriceAsWired DEF SwapPanics
  <2>2. EventPanics(c.call)
    BY <1>1, <1>q, <1>p, <1>k, <2>1 DEF EventPanics
  <2> QED
    BY <1>1, <2>2
<1>8. EventNow(e)'
  <2>1. e.kind \in Kinds /\ e.id[1][1] = number' /\ e.id[2] = counts[kind]
    BY <1>1, <1>2, <1>5
  <2>2. e.day = day' /\ e.hour = hour'
    BY <1>1, <1>5 DEF day
  <2> QED
    BY <1>1, <1>5, <1>6, <1>7, <2>1, <2>2 DEF EventNow
<1>9. ASSUME NEW x \in ToSet(events)
      PROVE  EventNow(x) /\ EventNow(x)'
  <2>1. EventNow(x)
    BY <1>1 DEF EventsInv
  <2>2. day' = day
    BY <1>1 DEF day
  <2>3. x.id[2] < counts'[x.kind]
    BY <1>6, <2>1 DEF EventNow
  <2> QED
    BY <1>1, <2>1, <2>2, <2>3 DEF EventNow
<1>10. /\ IsList(events') /\ DOMAIN events' = 1 .. Len(events) + 1
       /\ \A i \in 1 .. Len(events) : events'[i] = events[i]
       /\ events'[Len(events) + 1] = e
       /\ ToSet(events') = ToSet(events) \cup {e}
       /\ Len(events) \in Nat /\ DOMAIN events = 1 .. Len(events)
  BY <1>3, AppendToList, ListHasLength DEF HasLength, EventsInv
<1>11. ASSUME NEW i \in DOMAIN events, events[i].kind = e.kind
       PROVE  events[i].id # e.id
  <2>1. EventNow(events[i])
    BY <1>9 DEF ToSet
  <2> QED
    BY <1>5, <1>6, <1>11, <2>1 DEF EventNow
<1>12. IdsDiffer(events)'
  <2>1. \A i \in DOMAIN events' : i \in DOMAIN events \/ i = Len(events) + 1
    BY <1>10
  <2>2. IdsDiffer(events)
    BY <1>1 DEF EventsInv
  <2> SUFFICES ASSUME NEW i \in DOMAIN events', NEW j \in DOMAIN events',
                      events'[i].kind = events'[j].kind, events'[i].id = events'[j].id
               PROVE  i = j
    BY DEF IdsDiffer
  <2>3. CASE i \in DOMAIN events /\ j \in DOMAIN events
    BY <1>10, <2>2, <2>3 DEF IdsDiffer
  <2>4. CASE i = Len(events) + 1 /\ j \in DOMAIN events
    BY <1>10, <1>11, <2>4
  <2>5. CASE i \in DOMAIN events /\ j = Len(events) + 1
    BY <1>10, <1>11, <2>5
  <2> QED
    BY <2>1, <2>3, <2>4, <2>5
<1>13. \A x \in ToSet(events') : EventNow(x)'
  BY <1>8, <1>9, <1>10
<1>14. (\A x \in ToSet(eventLog') : EventLogged(x)') /\ IdsDiffer(eventLog)'
  BY <1>1 DEF EventsInv, EventLogged, IdsDiffer, DayOf
<1>15. \A x \in ToSet(callsLeft') : x.trx[1] = number'
  BY <1>1, <1>4 DEF EventsInv
<1> QED
  BY <1>1, <1>4, <1>6, <1>10, <1>12, <1>13, <1>14, <1>15 DEF EventsInv

LEMMA EventsLogged ==
  ASSUME ChainInv, EventsInv, EventsMapped
  PROVE  EventsInv'
<1>1. /\ stage = "read_calls" /\ stage' = "store_totals" /\ callsLeft = <<>>
      /\ eventLog' = eventLog \o events
      /\ UNCHANGED <<callsLeft, counts, events, request, number, hour>>
  BY DEF EventsMapped, At, Then
<1>2. number \in Nat /\ hour \in Nat
  BY DEF ChainInv
<1>3. stage \in Handlers \ AfterEvents /\ stage' \in AfterEvents
  BY <1>1 DEF Handlers, AfterEvents, VolumeHandlers, DbHandlers
<1>4. ASSUME NEW e \in ToSet(events)
      PROVE  EventNow(e) /\ EventNow(e)' /\ EventLogged(e)'
  <2>1. EventNow(e)
    BY <1>1 DEF EventsInv
  <2>2. day' = day /\ day = DayOf(hour)
    BY <1>1 DEF day, DayOf
  <2>3. EventNow(e)'
    BY <1>1, <2>1, <2>2 DEF EventNow
  <2>4. EventLogged(e)'
    BY <1>1, <1>2, <1>3, <2>1, <2>2 DEF EventNow, EventLogged, DayOf
  <2> QED
    BY <2>1, <2>3, <2>4
<1>5. ASSUME NEW e \in ToSet(eventLog)
      PROVE  EventLogged(e)' /\ e.id[1][1] # number
  <2>1. EventLogged(e)
    BY DEF EventsInv
  <2> QED
    BY <1>1, <1>2, <1>3, <2>1 DEF EventLogged, DayOf
<1> DEFINE m == Len(eventLog)
           n == Len(events)
<1>6. /\ IsList(eventLog') /\ DOMAIN eventLog' = 1 .. m + n
      /\ \A i \in 1 .. m : eventLog'[i] = eventLog[i]
      /\ \A i \in 1 .. n : eventLog'[m + i] = events[i]
      /\ ToSet(eventLog') = ToSet(eventLog) \cup ToSet(events)
  BY <1>1, ConcatOfLists DEF EventsInv
<1>7. m \in Nat /\ n \in Nat /\ DOMAIN eventLog = 1 .. m /\ DOMAIN events = 1 .. n
  BY ListHasLength DEF HasLength, EventsInv
<1> HIDE DEF m, n
<1>8. \A i \in 1 .. m + n : i \in 1 .. m \/ (i - m \in 1 .. n /\ i = m + (i - m))
  BY <1>7
<1>9. ASSUME NEW i \in 1 .. m, NEW j \in 1 .. n
      PROVE  eventLog[i].id # events[j].id
  <2>1. eventLog[i] \in ToSet(eventLog) /\ events[j] \in ToSet(events)
    BY <1>7 DEF ToSet
  <2>2. eventLog[i].id[1][1] # number /\ events[j].id[1][1] = number
    BY <1>4, <1>5, <2>1 DEF EventNow
  <2> QED
    BY <2>2
<1>10. IdsDiffer(events) /\ IdsDiffer(eventLog)
  BY <1>1 DEF EventsInv
<1>11. IdsDiffer(eventLog)'
  <2> SUFFICES ASSUME NEW i \in 1 .. m + n, NEW j \in 1 .. m + n,
                      eventLog'[i].kind = eventLog'[j].kind, eventLog'[i].id = eventLog'[j].id
               PROVE  i = j
    BY <1>6 DEF IdsDiffer
  <2>1. CASE i \in 1 .. m /\ j \in 1 .. m
    BY <1>6, <1>7, <1>10, <2>1 DEF IdsDiffer
  <2>2. CASE i \in 1 .. m /\ j - m \in 1 .. n /\ j = m + (j - m)
    BY <1>6, <1>9, <2>2
  <2>3. CASE j \in 1 .. m /\ i - m \in 1 .. n /\ i = m + (i - m)
    BY <1>6, <1>9, <2>3
  <2>4. CASE i - m \in 1 .. n /\ i = m + (i - m) /\ j - m \in 1 .. n /\ j = m + (j - m)
    <3>1. eventLog'[i] = events[i - m] /\ eventLog'[j] = events[j - m]
      BY <1>6, <2>4
    <3>2. i - m = j - m
      BY <1>7, <1>10, <2>4, <3>1 DEF IdsDiffer
    <3> QED
      BY <1>7, <3>2
  <2> QED
    BY <1>8, <2>1, <2>2, <2>3, <2>4
<1>12. IdsDiffer(events)'
  BY <1>1, <1>10 DEF IdsDiffer
<1>13. \A e \in ToSet(eventLog') : EventLogged(e)'
  BY <1>4, <1>5, <1>6
<1>14. \A e \in ToSet(events') : EventNow(e)'
  BY <1>1, <1>4
<1> QED
  BY <1>1, <1>6, <1>11, <1>12, <1>13, <1>14 DEF EventsInv

LEMMA EventsKept == ChainInv /\ ReservesInv /\ EventsInv /\ [Next]_vars => EventsInv'
<1> SUFFICES ASSUME ChainInv, ReservesInv, EventsInv, [Next]_vars
             PROVE  EventsInv'
  OBVIOUS
<1>1. CASE ProduceBlock /\ UNCHANGED eventVars
  BY <1>1, BlockKeepsEvents
<1>2. CASE StartEvents
  BY <1>2, EventsStarted
<1>3. CASE SkipCall
  <2>1. /\ stage = "read_calls" /\ stage' = "read_calls" /\ callsLeft # <<>>
        /\ callsLeft' = Tail(callsLeft)
        /\ UNCHANGED <<counts, events, eventLog, request, number, hour>>
    BY <1>3 DEF SkipCall, AtCall, At, Then, NextCall
  <2>2. IsList(callsLeft') /\ ToSet(callsLeft') \subseteq ToSet(callsLeft)
    BY <2>1, TailOfList DEF EventsInv
  <2> QED
    BY <2>1, <2>2, EventsStay
<1>4. CASE CallToEvent
  BY <1>4, EventAdded
<1>5. CASE EventsPanic
  <2>1. UNCHANGED <<callsLeft, counts, events, eventLog, request, number, hour, stage>>
    BY <1>5 DEF EventsPanic, Panic, eventVars
  <2> QED
    BY <2>1, EventsStay DEF EventsInv
<1>6. CASE EventsMapped
  BY <1>6, EventsLogged
<1>7. CASE (TokensNext \/ PricesNext \/ VolumesNext \/ DbNext) /\ UNCHANGED eventVars
  <2>1. UNCHANGED <<callsLeft, counts, events, eventLog>>
    BY <1>7 DEF eventVars
  <2>2. /\ UNCHANGED <<request, number, hour>>
        /\ stage # "read_calls"
        /\ stage' \in {"read_calls"} \cup AfterEvents => stage \in {"read_calls"} \cup AfterEvents
        /\ stage' \in Handlers \ AfterEvents => stage \in Handlers \ AfterEvents
    BY <1>7, TokensHand, PricesHand, VolumesHand, DbHands
       DEF Hands, TokenHandlers, PriceHandlers, VolumeHandlers, DbHandlers, AfterEvents, Handlers
  <2>3. callsLeft' = <<>> /\ IsList(callsLeft')
    BY <2>1, <2>2 DEF EventsInv
  <2> QED
    BY <2>1, <2>2, <2>3, EventsStay
<1>8. CASE UNCHANGED <<chainVars, eventVars>>
  BY <1>8, EventsStay DEF chainVars, eventVars, EventsInv
<1> QED
  BY <1>1, <1>2, <1>3, <1>4, <1>5, <1>6, <1>7, <1>8, ComponentSteps DEF EventsNext

-----------------------------------------------------------------------------
(* No two events ever share the primary key of a row, however many calls   *)
(* of however many transactions and blocks made them (lib.rs:368-370).     *)
THEOREM EventRowsAreNew == Spec => []EventIdsUnique
<1>1. Init => ChainInv /\ ReservesInv /\ EventsInv
  BY ChainStart, ReservesStart, EventsStart
<1>2. ChainInv /\ ReservesInv /\ EventsInv /\ [Next]_vars => (ChainInv /\ ReservesInv /\ EventsInv)'
  BY ChainKept, ReservesKept, EventsKept
<1>3. EventsInv => EventIdsUnique
  BY DEF EventsInv, IdsDiffer, EventIdsUnique
<1> QED
  BY <1>1, <1>2, <1>3, PTL DEF Spec

(* Wired as in substreams.yaml, no block with a swap gets past             *)
(* map_burn_swaps_events: the store it reads never has a key that          *)
(* get_derived_price (event.rs:336-341) unwraps.                           *)
THEOREM SwapsPanicAsWired == Spec => []NoSwapAsWired
<1>1. Init => ChainInv /\ ReservesInv /\ EventsInv
  BY ChainStart, ReservesStart, EventsStart
<1>2. ChainInv /\ ReservesInv /\ EventsInv /\ [Next]_vars => (ChainInv /\ ReservesInv /\ EventsInv)'
  BY ChainKept, ReservesKept, EventsKept
<1>3. EventsInv => NoSwapAsWired
  BY DEF EventsInv, EventLogged, NoSwapAsWired
<1> QED
  BY <1>1, <1>2, <1>3, PTL DEF Spec

-----------------------------------------------------------------------------
(* The store of volumes: what is kept of a period goes when the next one   *)
(* has a block with events.                                                *)
DayKinds == {"pair_day", "token_day", "global_day"}
ByHour(k) == k[1] = "pair_hour" /\ Last(k) = "usd"

EventDays == {e.day : e \in ToSet(eventLog)}
EventHours == {e.hour : e \in ToSet(eventLog)}

(* The events of this block are logged, the volumes not yet begun.         *)
Pending == stage \in {"store_totals", "count_events", "store_volumes"} /\ events # <<>>

VolumeOf(k) ==
  /\ k[1] \in DayKinds =>
       k[2] \in Int /\ (k[2] + 1 \in EventDays => Pending /\ k[2] + 1 = day)
  /\ ByHour(k) =>
       k[2] \in Int /\ (k[2] + 1 \in EventHours => Pending /\ k[2] + 1 = hour)

VolumesInv ==
  /\ IsStore(volumeStore)
  /\ IsList(todoEvents) /\ ToSet(todoEvents) \subseteq ToSet(events)
  /\ todoEvents # <<>> => stage \in {"count_events", "add_volumes"}
  /\ \A k \in DOMAIN volumeStore.kv : VolumeOf(k)

LEMMA VolumesStart == Init => VolumesInv
<1> SUFFICES ASSUME Init PROVE VolumesInv
  OBVIOUS
<1>1. volumeStore = EmptyStore /\ todoEvents = <<>>
  BY DEF Init, VolumesInit
<1>2. IsStore(volumeStore) /\ DOMAIN volumeStore.kv = {}
  BY <1>1, EmptyStoreIsStore DEF Keys
<1> QED
  BY <1>1, <1>2, EmptyIsList DEF VolumesInv

VolumeKey(k) ==
  /\ k[1] \in DayKinds => k[2] = day
  /\ ByHour(k) => k[2] = hour

VolumeList(s) == IsList(s) /\ \A w \in ToSet(s) : VolumeKey(w[2])

LEMMA ConcatVolumes ==
  ASSUME NEW s, VolumeList(s), NEW t, VolumeList(t)
  PROVE  VolumeList(s \o t)
BY ConcatOfLists DEF VolumeList

LEMMA WritesAre ==
  ASSUME NEW ord, NEW value, NEW keys, IsList(keys), \A i \in DOMAIN keys : VolumeKey(keys[i])
  PROVE  VolumeList(Writes(ord, keys, value))
<1> DEFINE s == Writes(ord, keys, value)
<1>1. s = [i \in DOMAIN keys |-> << ord, keys[i], value >>]
  BY DEF Writes
<1>2. IsList(s) /\ DOMAIN s = DOMAIN keys
  BY <1>1, ImageIsList
<1>3. \A i \in DOMAIN keys : s[i][2] = keys[i]
  BY <1>1
<1> HIDE DEF s
<1> QED
  BY <1>2, <1>3 DEF VolumeList, ToSet, s

LEMMA UsdKeysAre ==
  ASSUME NEW e
  PROVE  /\ IsList(UsdVolumeKeys(e))
         /\ \A i \in DOMAIN UsdVolumeKeys(e) : VolumeKey(UsdVolumeKeys(e)[i])
<1> DEFINE s == UsdVolumeKeys(e)
<1>1. s = [i \in 1 .. 7 |-> s[i]]
  BY DEF UsdVolumeKeys
<1>2. \A i \in 1 .. 7 : VolumeKey(s[i])
  BY DEF UsdVolumeKeys, VolumeKey, ByHour, DayKinds
<1> HIDE DEF s
<1>3. IsList(s) /\ DOMAIN s = 1 .. 7
  BY <1>1, FunctionIsList
<1> QED
  BY <1>2, <1>3 DEF s

LEMMA TokenKeysAre ==
  ASSUME NEW e, NEW t \in {"token0", "token1"}
  PROVE  /\ IsList(TokenVolumeKeys(e, t))
         /\ \A i \in DOMAIN TokenVolumeKeys(e, t) : VolumeKey(TokenVolumeKeys(e, t)[i])
<1> DEFINE s == TokenVolumeKeys(e, t)
<1>1. s = [i \in 1 .. 3 |-> s[i]]
  BY DEF TokenVolumeKeys
<1>2. Last(<< "pair_hour", day, e.pair, t >>) = t
  BY DEF Last
<1>3. s[1] = << "pair", e.pair, t >> /\ s[2] = << "pair_day", day, e.pair, t >>
      /\ s[3] = << "pair_hour", day, e.pair, t >>
  BY DEF TokenVolumeKeys
<1>4. \A i \in 1 .. 3 : i = 1 \/ i = 2 \/ i = 3
  OBVIOUS
<1> HIDE DEF s
<1>5. \A i \in 1 .. 3 : VolumeKey(s[i])
  BY <1>2, <1>3, <1>4 DEF VolumeKey, ByHour, DayKinds
<1>6. IsList(s) /\ DOMAIN s = 1 .. 3
  BY <1>1, FunctionIsList
<1> QED
  BY <1>5, <1>6 DEF s

LEMMA LiquidityWritesAre ==
  ASSUME NEW e, NEW amount, NEW liquidity
  PROVE  VolumeList(LiquidityWrites(e, amount, liquidity))
<1> DEFINE one == << << e.ord, << "global", "liquidity_usd" >>, amount >> >>
           keys == << << "token", e.to, "liquidity" >>, << "pair", e.pair, "total_supply" >> >>
<1>1. VolumeList(one)
  <2>1. IsList(one) /\ ToSet(one) = {<< e.ord, << "global", "liquidity_usd" >>, amount >>}
    BY SingletonIsList
  <2>2. VolumeKey(<< "global", "liquidity_usd" >>)
    BY DEF VolumeKey, ByHour, DayKinds
  <2> QED
    BY <2>1, <2>2 DEF VolumeList
<1>2. IsList(keys) /\ \A i \in DOMAIN keys : VolumeKey(keys[i])
  <2>1. keys = [i \in 1 .. 2 |-> keys[i]]
    OBVIOUS
  <2>2. \A i \in 1 .. 2 : VolumeKey(keys[i])
    BY DEF VolumeKey, ByHour, DayKinds
  <2> HIDE DEF keys
  <2>3. IsList(keys) /\ DOMAIN keys = 1 .. 2
    BY <2>1, FunctionIsList
  <2> QED
    BY <2>2, <2>3
<1>3. VolumeList(Writes(e.ord, keys, liquidity))
  <2> HIDE DEF keys
  <2> QED
    BY <1>2, WritesAre
<1>4. LiquidityWrites(e, amount, liquidity) = one \o Writes(e.ord, keys, liquidity)
  BY DEF LiquidityWrites
<1> HIDE DEF one, keys
<1> QED
  BY <1>1, <1>3, <1>4, ConcatVolumes

LEMMA SwapWritesAre ==
  ASSUME NEW e
  PROVE  VolumeList(SwapWrites(e))
<1> DEFINE bnb == << << "global", "bnb" >>, << "global_day", day, "bnb" >> >>
           w1 == Writes(e.ord, UsdVolumeKeys(e), e.amountUsd)
           w2 == Writes(e.ord, bnb, e.amountBnb)
           w3 == Writes(e.ord, TokenVolumeKeys(e, "token0"), Plus(e.out0, e.in0))
           w4 == Writes(e.ord, TokenVolumeKeys(e, "token1"), Plus(e.out1, e.in1))
           w5 == << <<e.ord, <<"token", e.token0, "trade">>, e.tradeVolume0>>,
                    <<e.ord, <<"token", e.token1, "trade">>, e.tradeVolume1>>,
                    <<e.ord, <<"token", e.token0, "trade_usd">>, e.amountUsd>>,
                    <<e.ord, <<"token", e.token1, "trade_usd">>, e.amountUsd>> >>
<1>1. VolumeList(w1)
  BY UsdKeysAre, WritesAre
<1>2. VolumeList(w2)
  <2>1. bnb = [i \in 1 .. 2 |-> bnb[i]]
    OBVIOUS
  <2>2. \A i \in 1 .. 2 : VolumeKey(bnb[i])
    BY DEF VolumeKey, ByHour, DayKinds
  <2> HIDE DEF bnb
  <2>3. IsList(bnb) /\ DOMAIN bnb = 1 .. 2
    BY <2>1, FunctionIsList
  <2> QED
    BY <2>2, <2>3, WritesAre
<1>3. VolumeList(w3)
  BY TokenKeysAre, WritesAre
<1>4. VolumeList(w4)
  BY TokenKeysAre, WritesAre
<1>5. VolumeList(w5)
  <2>1. w5 = [i \in 1 .. 4 |-> w5[i]]
    OBVIOUS
  <2>2. \A i \in 1 .. 4 : VolumeKey(w5[i][2])
    BY DEF VolumeKey, ByHour, DayKinds
  <2> HIDE DEF w5
  <2>3. IsList(w5) /\ DOMAIN w5 = 1 .. 4
    BY <2>1, FunctionIsList
  <2> QED
    BY <2>2, <2>3 DEF VolumeList, ToSet
<1>6. SwapWrites(e) = w1 \o w2 \o w3 \o w4 \o w5
  BY DEF SwapWrites
<1> HIDE DEF w1, w2, w3, w4, w5
<1> QED
  BY <1>1, <1>2, <1>3, <1>4, <1>5, <1>6, ConcatVolumes

LEMMA VolumeWritesAre ==
  ASSUME NEW e, e.kind \in Kinds
  PROVE  VolumeList(VolumeWrites(e))
<1>1. VolumeList(<<>>)
  BY EmptyIsList DEF VolumeList
<1>2. e.kind = "Mint" \/ e.kind = "Burn" \/ e.kind = "Swap"
  BY DEF Kinds
<1>3. VolumeWrites(e) = IF e.amountUsd = Zero THEN <<>>
                        ELSE IF e.kind = "Mint" THEN MintWrites(e)
                        ELSE IF e.kind = "Burn" THEN BurnWrites(e) ELSE SwapWrites(e)
  BY <1>2 DEF VolumeWrites
<1>4. VolumeList(MintWrites(e)) /\ VolumeList(BurnWrites(e))
  BY LiquidityWritesAre DEF MintWrites, BurnWrites
<1> QED
  BY <1>1, <1>3, <1>4, SwapWritesAre

LEMMA NoEventNewer ==
  ASSUME ChainInv, EventsInv
  PROVE  /\ day \in Nat /\ hour \in Nat
         /\ day + 1 \notin EventDays /\ hour + 1 \notin EventHours
<1>1. hour \in Nat /\ day = DayOf(hour) /\ day \in Nat
  BY DayIs DEF ChainInv, day, DayOf
<1>2. ASSUME NEW e \in ToSet(eventLog)
      PROVE  e.day # day + 1 /\ e.hour # hour + 1
  <2>1. e.hour \in Nat /\ e.hour <= hour /\ e.day = DayOf(e.hour)
    BY DEF EventsInv, EventLogged
  <2>2. e.day <= day /\ e.day \in Nat
    BY <1>1, <2>1, DaysInOrder, DayIs
  <2> QED
    BY <1>1, <2>1, <2>2
<1> QED
  BY <1>1, <1>2 DEF EventDays, EventHours

LEMMA VolumesStay ==
  ASSUME VolumesInv, UNCHANGED <<volumeStore, eventLog>>, Pending => Pending' /\ UNCHANGED hour,
         IsList(todoEvents'), ToSet(todoEvents') \subseteq ToSet(events'),
         todoEvents' # <<>> => stage' \in {"count_events", "add_volumes"}
  PROVE  VolumesInv'
<1>1. EventDays' = EventDays /\ EventHours' = EventHours
  BY DEF EventDays, EventHours
<1>2. Pending => Pending' /\ day' = day /\ hour' = hour
  BY DEF day
<1>3. ASSUME NEW k \in DOMAIN volumeStore.kv
      PROVE  VolumeOf(k)'
  <2>1. VolumeOf(k)
    BY DEF VolumesInv
  <2>2. ByHour(k)' <=> ByHour(k)
    BY DEF ByHour
  <2> QED
    BY <1>1, <1>2, <2>1, <2>2 DEF VolumeOf
<1> QED
  BY <1>3 DEF VolumesInv

LEMMA EventsPend ==
  ASSUME EventsInv, VolumesInv, EventsMapped, UNCHANGED volumeVars
  PROVE  VolumesInv'
<1>1. /\ stage = "read_calls" /\ stage' = "store_totals" /\ eventLog' = eventLog \o events
      /\ UNCHANGED <<events, hour, volumeStore, todoEvents>>
  BY DEF EventsMapped, At, Then, volumeVars
<1>2. /\ ToSet(eventLog') = ToSet(eventLog) \cup ToSet(events)
      /\ \A e \in ToSet(events) : e.day = day /\ e.hour = hour
  BY <1>1, ConcatOfLists DEF EventsInv, EventNow
<1>3. ToSet(events) # {} => Pending'
  BY <1>1, EmptyIsList DEF Pending
<1>4. ~Pending /\ day' = day
  BY <1>1 DEF Pending, day
<1>5. /\ EventDays' = EventDays \cup {e.day : e \in ToSet(events)}
      /\ EventHours' = EventHours \cup {e.hour : e \in ToSet(events)}
  BY <1>2 DEF EventDays, EventHours
<1>6. ASSUME NEW k \in DOMAIN volumeStore.kv
      PROVE  VolumeOf(k)'
  <2>1. VolumeOf(k) /\ (ByHour(k)' <=> ByHour(k))
    BY DEF VolumesInv, ByHour
  <2>2. k[2] + 1 \in EventDays' => k[2] + 1 \in EventDays \/ (Pending' /\ k[2] + 1 = day')
    BY <1>2, <1>3, <1>4, <1>5
  <2>3. k[2] + 1 \in EventHours' => k[2] + 1 \in EventHours \/ (Pending' /\ k[2] + 1 = hour')
    BY <1>1, <1>2, <1>3, <1>5
  <2> QED
    BY <1>4, <2>1, <2>2, <2>3 DEF VolumeOf
<1> QED
  BY <1>1, <1>6, EmptyIsList DEF VolumesInv

LEMMA VolumesStarted ==
  ASSUME ChainInv, EventsInv, VolumesInv, StartVolumes, UNCHANGED eventVars
  PROVE  VolumesInv'
<1> DEFINE old == NextBlock(volumeStore)
           less == DeletePrefixes(old, VolumePrefixes)
<1>1. /\ stage = "store_volumes" /\ stage' = "add_volumes" /\ todoEvents' = events
      /\ volumeStore' = IF events = <<>> THEN old ELSE less
      /\ UNCHANGED <<events, eventLog, hour>>
  BY DEF StartVolumes, At, Then, eventVars
<1>2. IsStore(old) /\ old.kv = volumeStore.kv
  BY NextBlockIsStore DEF VolumesInv
<1>3. /\ DOMAIN VolumePrefixes = 1 .. 4
      /\ VolumePrefixes[1] = << "pair_day", day - 1 >>
      /\ VolumePrefixes[2] = << "token_day", day - 1 >>
      /\ VolumePrefixes[3] = << "pair_hour", hour - 1 >>
      /\ VolumePrefixes[4] = << "global_day", day - 1 >>
  BY DEF VolumePrefixes
<1>4. day \in Nat /\ hour \in Nat /\ day' = day
  BY <1>1, NoEventNewer DEF day
<1> HIDE DEF old
<1>5. /\ IsStore(less)
      /\ \A k : k \in DOMAIN less.kv <=>
                  k \in DOMAIN old.kv /\ \A i \in 1 .. 4 : ~HasPrefix(k, VolumePrefixes[i])
  <2>1. DOMAIN VolumePrefixes = 1 .. 4 /\ 4 \in Nat
    BY <1>3
  <2> QED
    BY <1>2, <2>1, DeletePrefixesIsStore
<1> HIDE DEF less
<1>6. IsStore(volumeStore') /\ DOMAIN volumeStore'.kv \subseteq DOMAIN volumeStore.kv
  BY <1>1, <1>2, <1>5
<1>7. ASSUME NEW k \in DOMAIN volumeStore'.kv
      PROVE  VolumeOf(k)'
  <2>1. VolumeOf(k)
    BY <1>6 DEF VolumesInv
  <2>2. CASE events = <<>>
    BY <1>1, <1>4, <2>1, <2>2 DEF VolumeOf, Pending, EventDays, EventHours, ByHour
  <2>3. CASE events # <<>>
    <3>1. \A i \in 1 .. 4 : ~HasPrefix(k, VolumePrefixes[i])
      BY <1>1, <1>5, <2>3
    <3>2. k[1] \in DayKinds => k[2] # day - 1
      BY <1>3, <3>1 DEF HasPrefix, DayKinds
    <3>3. k[1] = "pair_hour" => k[2] # hour - 1
      BY <1>3, <3>1 DEF HasPrefix
    <3> QED
      BY <1>1, <1>4, <2>1, <3>2, <3>3 DEF VolumeOf, EventDays, EventHours, ByHour
  <2> QED
    BY <2>2, <2>3
<1>8. IsList(todoEvents') /\ ToSet(todoEvents') \subseteq ToSet(events')
  BY <1>1 DEF EventsInv
<1> QED
  BY <1>1, <1>6, <1>7, <1>8 DEF VolumesInv

LEMMA VolumeAdded ==
  ASSUME ChainInv, EventsInv, VolumesInv, AddVolume, UNCHANGED eventVars
  PROVE  VolumesInv'
<1>e. PICK e : e = event
  OBVIOUS
<1>w. PICK writes : writes = VolumeWrites(e)
  OBVIOUS
<1>1. /\ stage = "add_volumes" /\ stage' = "add_volumes"
      /\ todoEvents # <<>> /\ todoEvents' = Tail(todoEvents)
      /\ volumeStore' = AddAll(volumeStore, writes, "bigfloat")
      /\ UNCHANGED <<events, eventLog, hour>>
  BY <1>e, <1>w DEF AddVolume, At, Then, eventVars
<1>2. /\ e \in ToSet(events) /\ IsList(todoEvents')
      /\ ToSet(todoEvents') \subseteq ToSet(events')
  BY <1>1, <1>e, TailOfList DEF VolumesInv, event
<1>3. stage \in AfterEvents
  BY <1>1 DEF AfterEvents, VolumeHandlers
<1>4. VolumeList(writes)
  <2>1. e.kind \in Kinds
    BY <1>2, <1>3 DEF EventsInv, EventNow
  <2> QED
    BY <1>w, <2>1, VolumeWritesAre
<1>5. Len(writes) \in Nat /\ DOMAIN writes = 1 .. Len(writes)
  BY <1>4, ListHasLength DEF HasLength, VolumeList
<1>6. /\ IsStore(volumeStore')
      /\ DOMAIN volumeStore'.kv = DOMAIN volumeStore.kv \cup Written(writes)
  BY <1>1, <1>5, AddAllIsStore DEF VolumesInv
<1>7. \A k \in Written(writes) : VolumeKey(k)
  BY <1>4 DEF Written, VolumeList, ToSet
<1>8. day \in Nat /\ hour \in Nat /\ day + 1 \notin EventDays /\ hour + 1 \notin EventHours
  BY NoEventNewer
<1>9. EventDays' = EventDays /\ EventHours' = EventHours /\ ~Pending
  BY <1>1 DEF EventDays, EventHours, Pending
<1>10. ASSUME NEW k \in DOMAIN volumeStore'.kv
       PROVE  VolumeOf(k)'
  <2>1. /\ k[1] \in DayKinds => k[2] \in Int /\ k[2] + 1 \notin EventDays
        /\ ByHour(k) => k[2] \in Int /\ k[2] + 1 \notin EventHours
    <3>1. CASE k \in Written(writes)
      BY <1>7, <1>8, <3>1 DEF VolumeKey
    <3>2. CASE k \in DOMAIN volumeStore.kv
      BY <1>9, <3>2 DEF VolumesInv, VolumeOf
    <3> QED
      BY <1>6, <3>1, <3>2
  <2>2. ByHour(k)' <=> ByHour(k)
    BY DEF ByHour
  <2> QED
    BY <1>9, <2>1, <2>2 DEF VolumeOf
<1> QED
  BY <1>1, <1>2, <1>6, <1>10 DEF VolumesInv

-----------------------------------------------------------------------------
(* The store of totals: every write adds one to a counter.                 *)
Count(store, key) == IF Has(store, key) THEN store.kv[key] ELSE 0
IsCounter(store) == IsStore(store) /\ \A key : Count(store, key) \in Nat

Mark(k, key) == IF k = key THEN 1 ELSE 0

LEMMA OneCounted ==
  ASSUME NEW store, IsCounter(store), NEW w, w[3] = 1
  PROVE  /\ IsCounter(Step("int64", store, w))
         /\ \A k : Count(Step("int64", store, w), k) = Count(store, k) + Mark(k, w[2])
<1> DEFINE value == Added(store, "int64", w[2], w[3])
           new == Put(store, w[1], w[2], value)
<1>1. Step("int64", store, w) = new
  BY DEF Step
<1>2. value = Count(store, w[2]) + 1
  BY DEF Added, AddValues, Count, IsCounter
<1>3. /\ IsStore(new) /\ DOMAIN new.kv = DOMAIN store.kv \cup {w[2]}
      /\ new.kv[w[2]] = value
      /\ \A k \in DOMAIN store.kv \ {w[2]} : new.kv[k] = store.kv[k]
  <2> HIDE DEF value
  <2> QED
    BY PutIsStore DEF IsCounter
<1> HIDE DEF value, new
<1>4. ASSUME NEW k
      PROVE  Count(new, k) = Count(store, k) + Mark(k, w[2]) /\ Count(new, k) \in Nat
  <2>1. Count(store, k) \in Nat
    BY DEF IsCounter
  <2>2. CASE k = w[2]
    <3>1. Count(new, k) = value
      BY <1>3, <2>2 DEF Count, Has
    <3> QED
      BY <1>2, <2>1, <2>2, <3>1 DEF Mark
  <2>3. CASE k # w[2]
    <3>1. Count(new, k) = Count(store, k)
      BY <1>3, <2>3 DEF Count, Has
    <3> QED
      BY <2>1, <2>3, <3>1 DEF Mark
  <2> QED
    BY <2>2, <2>3
<1> QED
  BY <1>1, <1>3, <1>4 DEF IsCounter

PairCount == << "global", "pair_count" >>
PairMarks(ps) == [i \in DOMAIN ps |-> << ps[i].ord, PairCount, 1 >>]

LEMMA PairsCounted ==
  ASSUME NEW store, IsCounter(store), NEW ps, IsList(ps)
  PROVE  LET new == AddAll(store, PairMarks(ps), "int64") IN
         /\ IsCounter(new)
         /\ \A k : Count(new, k) = Count(store, k) + (IF k = PairCount THEN Len(ps) ELSE 0)
<1> DEFINE writes == PairMarks(ps)
           n == Len(ps)
           new == AddAll(store, writes, "int64")
<1>1. n \in Nat /\ DOMAIN ps = 1 .. n
  BY ListHasLength DEF HasLength
<1>2. DOMAIN writes = 1 .. n /\ \A i \in 1 .. n : writes[i][2] = PairCount /\ writes[i][3] = 1
  BY <1>1 DEF PairMarks
<1> HIDE DEF n, writes
<1>3. PICK h : OneByOne("int64", store, writes, n, h) /\ new = h[n]
  <2>1. n \in Nat /\ DOMAIN writes = 1 .. n /\ "int64" \notin {"set", "delete", "sum", "count"}
    BY <1>1, <1>2
  <2> QED
    BY <2>1, AddAllSteps
<1> HIDE DEF new
<1> DEFINE Good(m) ==
             /\ IsCounter(h[m])
             /\ \A k : Count(h[m], k) = Count(store, k) + (IF k = PairCount THEN m ELSE 0)
           T == {m \in Nat : m <= n => Good(m)}
<1>4. 0 \in T
  <2>1. h[0] = store
    BY <1>3 DEF OneByOne
  <2>2. \A k : Count(store, k) = Count(store, k) + (IF k = PairCount THEN 0 ELSE 0)
    BY DEF IsCounter
  <2>3. Good(0)
    BY <2>1, <2>2
  <2> HIDE DEF Good
  <2> QED
    BY <2>3
<1>5. ASSUME NEW m \in T
      PROVE  m + 1 \in T
  <2>1. m \in Nat
    OBVIOUS
  <2>2. SUFFICES ASSUME m + 1 <= n
                 PROVE  Good(m + 1)
    BY <2>1
  <2>3. Good(m)
    BY <1>1, <2>1, <2>2
  <2>4. m + 1 \in 1 .. n /\ (m + 1) - 1 = m
    BY <1>1, <2>1, <2>2
  <2>5. h[m + 1] = Step("int64", h[m], writes[m + 1])
    BY <1>3, <2>4 DEF OneByOne
  <2>6. /\ IsCounter(h[m + 1])
        /\ \A k : Count(h[m + 1], k) = Count(h[m], k) + Mark(k, PairCount)
    BY <1>2, <2>3, <2>4, <2>5, OneCounted
  <2>7. ASSUME NEW k
        PROVE  Count(h[m + 1], k) = Count(store, k) + (IF k = PairCount THEN m + 1 ELSE 0)
    <3>1. Count(store, k) \in Nat
      BY DEF IsCounter
    <3>2. Count(h[m + 1], k) = Count(h[m], k) + Mark(k, PairCount)
      BY <2>6
    <3>3. Count(h[m], k) = Count(store, k) + (IF k = PairCount THEN m ELSE 0)
      BY <2>3
    <3> QED
      BY <2>1, <3>1, <3>2, <3>3 DEF Mark
  <2> QED
    BY <2>6, <2>7
<1> HIDE DEF T, Good
<1>6. n \in T
  BY <1>1, <1>4, <1>5, Induction
<1>7. Good(n)
  BY <1>1, <1>6 DEF T
<1> QED
  BY <1>3, <1>7 DEF Good, n, new, writes

(* The counters an event adds one to; a token may be both of a key's.      *)
EventKeys(e) ==
  << << "token", e.token0, "transaction_count" >>,
     << "token", e.token1, "transaction_count" >>,
     << "pair", e.pair, "transaction_count" >>,
     << "global_day", e.day, "transaction_count" >>,
     << "global", "transaction_count" >>,
     << "pair", e.pair, KindCount(e.kind) >> >>

LEMMA SixCounted ==
  ASSUME NEW store, IsCounter(store), NEW ord, NEW keys, DOMAIN keys = 1 .. 6
  PROVE  LET new == AddAll(store, Writes(ord, keys, 1), "int64") IN
         /\ IsCounter(new)
         /\ \A k : Count(new, k) =
              Count(store, k) + Mark(k, keys[1]) + Mark(k, keys[2]) + Mark(k, keys[3])
                              + Mark(k, keys[4]) + Mark(k, keys[5]) + Mark(k, keys[6])
<1> DEFINE writes == Writes(ord, keys, 1)
           new == AddAll(store, writes, "int64")
<1>1. DOMAIN writes = 1 .. 6 /\ \A i \in 1 .. 6 : writes[i][2] = keys[i] /\ writes[i][3] = 1
  BY DEF Writes
<1> HIDE DEF writes
<1>2. PICK h : OneByOne("int64", store, writes, 6, h) /\ new = h[6]
  <2>1. 6 \in Nat /\ DOMAIN writes = 1 .. 6 /\ "int64" \notin {"set", "delete", "sum", "count"}
    BY <1>1
  <2> QED
    BY <2>1, AddAllSteps
<1> HIDE DEF new
<1>3. h[0] = store
  BY <1>2 DEF OneByOne
<1>4. ASSUME NEW i \in 1 .. 6, IsCounter(h[i - 1])
      PROVE  /\ IsCounter(h[i])
             /\ \A k : Count(h[i], k) = Count(h[i - 1], k) + Mark(k, keys[i])
  <2>1. h[i] = Step("int64", h[i - 1], writes[i])
    BY <1>2 DEF OneByOne
  <2>2. writes[i][2] = keys[i] /\ writes[i][3] = 1
    BY <1>1
  <2>3. /\ IsCounter(h[i])
        /\ \A k : Count(h[i], k) = Count(h[i - 1], k) + Mark(k, writes[i][2])
    BY <1>4, <2>1, <2>2, OneCounted
  <2> QED
    BY <2>2, <2>3
<1>5. /\ 1 - 1 = 0 /\ 2 - 1 = 1 /\ 3 - 1 = 2 /\ 4 - 1 = 3 /\ 5 - 1 = 4 /\ 6 - 1 = 5
      /\ {1, 2, 3, 4, 5, 6} \subseteq 1 .. 6
  OBVIOUS
<1>6. IsCounter(h[1]) /\ \A k : Count(h[1], k) = Count(store, k) + Mark(k, keys[1])
  BY <1>3, <1>4, <1>5
<1>7. IsCounter(h[2]) /\ \A k : Count(h[2], k) = Count(h[1], k) + Mark(k, keys[2])
  BY <1>4, <1>5, <1>6
<1>8. IsCounter(h[3]) /\ \A k : Count(h[3], k) = Count(h[2], k) + Mark(k, keys[3])
  BY <1>4, <1>5, <1>7
<1>9. IsCounter(h[4]) /\ \A k : Count(h[4], k) = Count(h[3], k) + Mark(k, keys[4])
  BY <1>4, <1>5, <1>8
<1>10. IsCounter(h[5]) /\ \A k : Count(h[5], k) = Count(h[4], k) + Mark(k, keys[5])
  BY <1>4, <1>5, <1>9
<1>11. IsCounter(h[6]) /\ \A k : Count(h[6], k) = Count(h[5], k) + Mark(k, keys[6])
  BY <1>4, <1>5, <1>10
<1>12. ASSUME NEW k
       PROVE  Count(new, k) =
                Count(store, k) + Mark(k, keys[1]) + Mark(k, keys[2]) + Mark(k, keys[3])
                                + Mark(k, keys[4]) + Mark(k, keys[5]) + Mark(k, keys[6])
  BY <1>2, <1>6, <1>7, <1>8, <1>9, <1>10, <1>11
<1> QED
  BY <1>2, <1>11, <1>12 DEF new, writes

(* How many pairs the handlers know, and how many of them are counted.     *)
PairsWait == stage \in {"store_pcs_tokens", "store_totals"} \cup PriceHandlers \cup EventHandlers
PairsToCount == IF PairsWait THEN Len(pairs) ELSE 0

PairCountInv ==
  /\ stage = "store_prices" => request = "store_prices"
  /\ request = "store_prices" => stage \notin EventHandlers \cup VolumeHandlers \cup DbHandlers
  /\ IsCounter(totalsStore)
  /\ IsFiniteSet(Pairs)
  /\ request # "store_prices" =>
       Count(totalsStore, PairCount) + PairsToCount = Cardinality(Pairs)

(* A list without repetitions has as many elements as places.              *)
LEMMA DistinctList ==
  ASSUME NEW s, IsList(s), \A i, j \in DOMAIN s : s[i] = s[j] => i = j
  PROVE  IsFiniteSet(ToSet(s)) /\ Cardinality(ToSet(s)) = Len(s)
<1> DEFINE n == Len(s)
           S == ToSet(s)
<1>1. n \in Nat /\ DOMAIN s = 1 .. n /\ s = [i \in 1 .. n |-> s[i]]
  BY ListHasLength DEF HasLength
<1>2. (\A i \in 1 .. n : s[i] \in S) /\ \A x \in S : \E i \in 1 .. n : s[i] = x
  BY <1>1 DEF ToSet
<1> HIDE DEF n, S
<1>3. s \in [1 .. n -> S]
  BY <1>1, <1>2
<1>4. s \in Injection(1 .. n, S) /\ s \in Surjection(1 .. n, S)
  BY <1>1, <1>2, <1>3 DEF Injection, IsInjective, Surjection
<1>5. IsFiniteSet(1 .. n) /\ Cardinality(1 .. n) = n
  <2>1. 1 \in Int /\ n \in Int /\ (IF 1 > n THEN 0 ELSE n - 1 + 1) = n
    BY <1>1
  <2> QED
    BY <2>1, FS_Interval
<1> QED
  BY <1>4, <1>5, FS_Surjection DEF n, S

LEMMA PairsGrow ==
  ASSUME PairsKnown, stage = "store_pairs", StorePairs, IsFiniteSet(Pairs)
  PROVE  /\ IsFiniteSet(Pairs')
         /\ Len(pairs) \in Nat /\ Cardinality(Pairs) \in Nat
         /\ Cardinality(Pairs') = Cardinality(Pairs) + Len(pairs)
<1>1. BlockPairs(pairs)
  BY DEF PairsKnown
<1>2. IsList(pairs)
  BY <1>1 DEF BlockPairs
<1>3. Len(pairs) \in Nat /\ DOMAIN pairs = 1 .. Len(pairs)
  BY <1>2, ListHasLength DEF HasLength
<1>4. ASSUME NEW i \in DOMAIN pairs, NEW j \in DOMAIN pairs, pairs[i] = pairs[j]
      PROVE  i = j
  <2>1. ~(i < j) /\ ~(j < i)
    BY <1>1, <1>4 DEF BlockPairs, CreatedBefore
  <2>2. i \in Int /\ j \in Int
    BY <1>3
  <2> QED
    BY <2>1, <2>2
<1>5. IsFiniteSet(ToSet(pairs)) /\ Cardinality(ToSet(pairs)) = Len(pairs)
  BY <1>2, <1>4, DistinctList
<1>6. Pairs \cap ToSet(pairs) = {}
  <2> SUFFICES ASSUME NEW p \in Pairs, p \in ToSet(pairs) PROVE FALSE
    OBVIOUS
  <2>1. KnownPair(p.address)
    BY PairsAre
  <2>2. p.address \in CreatedBy(trxs)
    BY <1>1 DEF BlockPairs, ToSet
  <2> QED
    BY <2>1, <2>2 DEF PairsKnown
<1>7. Pairs' = Pairs \cup ToSet(pairs)
  BY PairsStored
<1>8. Cardinality(Pairs) \in Nat
  BY FS_CardinalityType
<1>9. Cardinality({}) = 0
  BY FS_EmptySet
<1>10. /\ IsFiniteSet(Pairs \cup ToSet(pairs))
       /\ Cardinality(Pairs \cup ToSet(pairs)) =
            Cardinality(Pairs) + Cardinality(ToSet(pairs)) - Cardinality(Pairs \cap ToSet(pairs))
  BY ONLY IsFiniteSet(Pairs), <1>5, FS_Union
<1>11. Cardinality(Pairs') = Cardinality(Pairs) + Len(pairs) - 0
  BY <1>5, <1>6, <1>7, <1>9, <1>10, Zenon
<1>12. IsFiniteSet(Pairs')
  BY <1>7, <1>10, Zenon
<1> QED
  BY <1>3, <1>8, <1>11, <1>12

LEMMA PairCountStart == Init => PairCountInv
<1> SUFFICES ASSUME Init PROVE PairCountInv
  OBVIOUS
<1>1. pairStore = EmptyStore /\ totalsStore = EmptyStore /\ stage = "idle"
  BY DEF Init, TokensInit, VolumesInit, ChainInit
<1>2. IsStore(EmptyStore) /\ DOMAIN EmptyStore.kv = {}
  BY EmptyStoreIsStore DEF Keys
<1>3. Pairs = {}
  BY <1>1, <1>2 DEF Pairs
<1>4. IsCounter(totalsStore) /\ Count(totalsStore, PairCount) = 0
  BY <1>1, <1>2 DEF IsCounter, Count, Has
<1>5. ~PairsWait
  BY <1>1 DEF PairsWait, PriceHandlers, EventHandlers
<1>6. IsFiniteSet({}) /\ Cardinality({}) = 0
  BY FS_EmptySet
<1> QED
  BY <1>1, <1>3, <1>4, <1>5, <1>6
     DEF PairCountInv, PairsToCount, EventHandlers, VolumeHandlers, DbHandlers

LEMMA SamePairCount ==
  ASSUME PairCountInv, UNCHANGED <<pairStore, request>>, IsCounter(totalsStore'),
         Count(totalsStore', PairCount) + PairsToCount' =
           Count(totalsStore, PairCount) + PairsToCount,
         stage' = "store_prices" => request = "store_prices",
         request = "store_prices" => stage' \notin EventHandlers \cup VolumeHandlers \cup DbHandlers
  PROVE  PairCountInv'
<1>1. Pairs' = Pairs
  BY DEF Pairs
<1> QED
  BY <1>1 DEF PairCountInv, Count

LEMMA PairCountKept == ChainInv /\ PairsKnown /\ PairCountInv /\ [Next]_vars => PairCountInv'
<1> SUFFICES ASSUME ChainInv, PairsKnown, PairCountInv, [Next]_vars
             PROVE  PairCountInv'
  OBVIOUS
<1> DEFINE Later == EventHandlers \cup VolumeHandlers \cup DbHandlers
<1>1. CASE ProduceBlock /\ UNCHANGED <<tokenVars, volumeVars>>
  <2>1. /\ stage = "idle" /\ stage' = "map_pairs"
        /\ UNCHANGED <<request, pairStore, totalsStore>>
    BY <1>1 DEF ProduceBlock, tokenVars, volumeVars
  <2>2. PairsToCount = 0 /\ PairsToCount' = 0 /\ stage' \notin Later
    BY <2>1 DEF PairsToCount, PairsWait, PriceHandlers, EventHandlers, VolumeHandlers, DbHandlers
  <2> QED
    BY <2>1, <2>2, SamePairCount DEF PairCountInv, IsCounter, Count
<1>2. CASE MapPairs /\ UNCHANGED volumeVars
  <2>1. /\ stage = "map_pairs" /\ stage' = "store_pairs"
        /\ UNCHANGED <<request, pairStore, totalsStore>>
    BY <1>2 DEF MapPairs, At, Then, volumeVars
  <2>2. PairsToCount = 0 /\ PairsToCount' = 0 /\ stage' \notin Later
    BY <2>1 DEF PairsToCount, PairsWait, PriceHandlers, EventHandlers, VolumeHandlers, DbHandlers
  <2> QED
    BY <2>1, <2>2, SamePairCount DEF PairCountInv, IsCounter, Count
<1>3. CASE StorePairs /\ UNCHANGED volumeVars
  <2>1. /\ stage = "store_pairs" /\ stage' = "store_pcs_tokens"
        /\ UNCHANGED <<request, pairs, totalsStore>>
    BY <1>3 DEF StorePairs, At, Then, volumeVars
  <2>2. PairsToCount = 0 /\ PairsToCount' = Len(pairs) /\ stage' \notin Later
    BY <2>1 DEF PairsToCount, PairsWait, PriceHandlers, EventHandlers, VolumeHandlers, DbHandlers
  <2>3. /\ IsFiniteSet(Pairs')
        /\ Len(pairs) \in Nat
        /\ Cardinality(Pairs') = Cardinality(Pairs) + Len(pairs)
    BY <1>3, <2>1, PairsGrow DEF PairCountInv
  <2>4. Count(totalsStore, PairCount) \in Nat
    BY DEF PairCountInv, IsCounter
  <2>5. request # "store_prices" =>
          Count(totalsStore', PairCount) + PairsToCount' = Cardinality(Pairs')
    BY <2>1, <2>2, <2>3, <2>4 DEF PairCountInv
  <2>6. IsCounter(totalsStore')
    BY <2>1 DEF PairCountInv
  <2> QED
    BY <2>1, <2>2, <2>3, <2>5, <2>6 DEF PairCountInv, Count
<1>4. CASE (TokenFound \/ TokenCalled \/ CallFails \/ CallPanics \/ TokensStored)
           /\ UNCHANGED volumeVars
  <2>1. /\ SamePairs /\ UNCHANGED <<request, totalsStore>>
        /\ stage = "store_pcs_tokens" /\ stage' \in {"store_pcs_tokens", "map_reserves"}
    BY <1>4 DEF TokenFound, TokenCalled, CallFails, CallPanics, TokensStored, StoreToken,
                AtToken, At, Then, Panic, SamePairs, tokenVars, volumeVars
  <2>2. PairsToCount = Len(pairs) /\ PairsToCount' = Len(pairs) /\ stage' \notin Later
    BY <2>1 DEF SamePairs, PairsToCount, PairsWait, PriceHandlers, EventHandlers,
                VolumeHandlers, DbHandlers
  <2> QED
    BY <2>1, <2>2, SamePairCount DEF SamePairs, PairCountInv, IsCounter, Count
<1>5. CASE PricesNext /\ UNCHANGED <<tokenVars, volumeVars>>
  <2>1. UNCHANGED <<request, pairs, pairStore, totalsStore>>
    BY <1>5, PricesHand DEF Hands, tokenVars, volumeVars
  <2>2. /\ stage' = "store_prices" => request = "store_prices"
        /\ request = "store_prices" => stage' \notin Later
        /\ request # "store_prices" => stage \in PriceHandlers
        /\ request # "store_prices" => stage' \in PriceHandlers \cup EventHandlers
    BY <1>5 DEF PricesNext, MapReserves, MapReservesPanics, StoreReserves, StorePrices,
                StorePricesPanics, At, Then, Panic, PriceHandlers, EventHandlers,
                VolumeHandlers, DbHandlers, PairCountInv
  <2>3. request # "store_prices" => PairsToCount = Len(pairs) /\ PairsToCount' = Len(pairs)
    BY <2>1, <2>2 DEF PairsToCount, PairsWait
  <2>4. Pairs' = Pairs
    BY <2>1 DEF Pairs
  <2> QED
    BY <2>1, <2>2, <2>3, <2>4 DEF PairCountInv
<1>6. CASE EventsNext /\ UNCHANGED <<tokenVars, volumeVars>>
  <2>1. /\ UNCHANGED <<request, pairs, pairStore, totalsStore>>
        /\ stage \in EventHandlers /\ stage' \in EventHandlers \cup {"store_totals"}
    BY <1>6, EventsHand DEF Hands, tokenVars, volumeVars, EventHandlers
  <2>2. request # "store_prices"
    BY <2>1 DEF PairCountInv
  <2>3. PairsToCount = Len(pairs) /\ PairsToCount' = Len(pairs)
    BY <2>1 DEF PairsToCount, PairsWait
  <2>4. stage' # "store_prices"
    BY <2>1 DEF EventHandlers
  <2> QED
    BY <2>1, <2>2, <2>3, <2>4, SamePairCount DEF PairCountInv
<1>7. CASE StartTotals /\ UNCHANGED tokenVars
  <2>1. /\ stage = "store_totals" /\ stage' = "count_events"
        /\ UNCHANGED <<request, pairs, pairStore>>
        /\ \/ totalsStore' = NextBlock(totalsStore) /\ pairs = <<>>
           \/ totalsStore' = AddAll(NextBlock(totalsStore), PairMarks(pairs), "int64")
    BY <1>7 DEF StartTotals, NothingToCount, PairMarks, PairCount, At, Then, tokenVars
  <2>2. IsList(pairs)
    BY <2>1 DEF PairsKnown, BlockPairs
  <2>3. Len(pairs) \in Nat /\ Count(totalsStore, PairCount) \in Nat
    BY <2>2, ListHasLength DEF HasLength, PairCountInv, IsCounter
  <2>4. request # "store_prices" /\ stage' \in VolumeHandlers
    BY <2>1 DEF PairCountInv, VolumeHandlers
  <2>5. /\ IsCounter(NextBlock(totalsStore))
        /\ Count(NextBlock(totalsStore), PairCount) = Count(totalsStore, PairCount)
    BY NextBlockIsStore DEF PairCountInv, IsCounter, Count, Has
  <2>6. /\ IsCounter(totalsStore')
        /\ Count(totalsStore', PairCount) = Count(totalsStore, PairCount) + Len(pairs)
    BY <2>1, <2>2, <2>3, <2>5, PairsCounted, EmptyIsList
  <2>7. PairsToCount = Len(pairs) /\ PairsToCount' = 0 /\ stage' # "store_prices"
    BY <2>1 DEF PairsToCount, PairsWait, PriceHandlers, EventHandlers
  <2>8. Count(totalsStore', PairCount) + PairsToCount' =
          Count(totalsStore, PairCount) + PairsToCount
    BY <2>3, <2>6, <2>7
  <2> QED
    BY <2>1, <2>4, <2>6, <2>7, <2>8, SamePairCount
<1>8. CASE CountEvent /\ UNCHANGED tokenVars
  <2> DEFINE keys == Append(TotalKeys(event), << "pair", event.pair, KindCount(event.kind) >>)
  <2>1. /\ stage = "count_events" /\ stage' = "count_events"
        /\ UNCHANGED <<request, pairs, pairStore>>
        /\ totalsStore' = AddAll(totalsStore, Writes(event.ord, keys, 1), "int64")
    BY <1>8 DEF CountEvent, At, Then, tokenVars
  <2>2. DOMAIN keys = 1 .. 6 /\ \A i \in 1 .. 6 : keys[i] # PairCount
    BY DEF TotalKeys, PairCount
  <2> HIDE DEF keys
  <2>3. \A i \in 1 .. 6 : Mark(PairCount, keys[i]) = 0
    BY <2>2 DEF Mark
  <2>4. Count(totalsStore, PairCount) \in Nat
    BY DEF PairCountInv, IsCounter
  <2>5. /\ IsCounter(totalsStore')
        /\ \A k : Count(totalsStore', k) =
             Count(totalsStore, k) + Mark(k, keys[1]) + Mark(k, keys[2]) + Mark(k, keys[3])
                                   + Mark(k, keys[4]) + Mark(k, keys[5]) + Mark(k, keys[6])
    BY <2>1, <2>2, SixCounted DEF PairCountInv
  <2>6. Count(totalsStore', PairCount) = Count(totalsStore, PairCount)
    BY <2>3, <2>4, <2>5
  <2>7. PairsToCount = 0 /\ PairsToCount' = 0 /\ stage' \in VolumeHandlers
        /\ stage' # "store_prices" /\ request # "store_prices"
    BY <2>1 DEF PairsToCount, PairsWait, PriceHandlers, EventHandlers, VolumeHandlers, PairCountInv
  <2> QED
    BY <2>1, <2>5, <2>6, <2>7, SamePairCount
<1>9. CASE (EventsCounted \/ StartVolumes \/ AddVolume \/ VolumesAdded \/ DbNext)
           /\ UNCHANGED <<tokenVars, totalsStore>>
  <2>1. /\ UNCHANGED <<request, pairs, pairStore, totalsStore>>
        /\ stage \in {"count_events", "store_volumes", "add_volumes", "db_out", "squash"}
        /\ stage' \in {"store_volumes", "add_volumes", "db_out", "squash", "idle"}
    BY <1>9, DbHands DEF EventsCounted, StartVolumes, AddVolume, VolumesAdded, At, Then, Hands,
                         DbHandlers, tokenVars, volumeVars
  <2>2. request # "store_prices" /\ stage' # "store_prices"
    BY <2>1 DEF PairCountInv, VolumeHandlers, DbHandlers
  <2>3. PairsToCount = 0 /\ PairsToCount' = 0
    BY <2>1 DEF PairsToCount, PairsWait, PriceHandlers, EventHandlers
  <2> QED
    BY <2>1, <2>2, <2>3, SamePairCount DEF PairCountInv
<1>10. CASE UNCHANGED <<chainVars, tokenVars, volumeVars>>
  <2>1. UNCHANGED <<request, stage, pairs, pairStore, totalsStore>>
    BY <1>10 DEF chainVars, tokenVars, volumeVars
  <2>2. PairsToCount' = PairsToCount
    BY <2>1 DEF PairsToCount, PairsWait
  <2> QED
    BY <2>1, <2>2, SamePairCount DEF PairCountInv
<1>11. /\ StartVolumes \/ AddVolume => UNCHANGED totalsStore
       /\ EventsCounted \/ VolumesAdded \/ UNCHANGED volumeVars => UNCHANGED totalsStore
  BY DEF StartVolumes, AddVolume, EventsCounted, VolumesAdded, volumeVars
<1> QED
  BY <1>1, <1>2, <1>3, <1>4, <1>5, <1>6, <1>7, <1>8, <1>9, <1>10, <1>11, ComponentSteps
     DEF TokensNext, VolumesNext

(* The events of the log that are counted: all but those that wait.        *)
Waiting ==
  CASE stage = "store_totals" -> events
    [] stage = "count_events" -> todoEvents
    [] OTHER -> <<>>
Reached == Len(eventLog) - Len(Waiting)

Places(key, j, n) == {i \in 1 .. n : EventKeys(eventLog[i])[j] = key}
NumberOf(key, j, n) == Cardinality(Places(key, j, n))

Tally(key, n) ==
  NumberOf(key, 1, n) + NumberOf(key, 2, n) + NumberOf(key, 3, n)
  + NumberOf(key, 4, n) + NumberOf(key, 5, n) + NumberOf(key, 6, n)

EventCountInv ==
  /\ Reached \in Nat
  /\ \A i \in 1 .. Len(Waiting) : eventLog[Reached + i] = Waiting[i]
  /\ \A key : key # PairCount => Count(totalsStore, key) = Tally(key, Reached)

LEMMA PlacesGrow ==
  ASSUME NEW n \in Nat, NEW key, NEW j
  PROVE  /\ NumberOf(key, j, n) \in Nat
         /\ NumberOf(key, j, n + 1) =
              NumberOf(key, j, n) + Mark(key, EventKeys(eventLog[n + 1])[j])
<1>1. IsFiniteSet(Places(key, j, n)) /\ n + 1 \notin Places(key, j, n)
  <2>1. IsFiniteSet(1 .. n) /\ Places(key, j, n) \in SUBSET (1 .. n)
    BY FS_Interval DEF Places
  <2>2. n + 1 \notin 1 .. n
    OBVIOUS
  <2> QED
    BY <2>1, <2>2, FS_Subset
<1>2. NumberOf(key, j, n) \in Nat
  BY <1>1, FS_CardinalityType DEF NumberOf
<1>3. \A i : i \in 1 .. n + 1 <=> i \in 1 .. n \/ i = n + 1
  OBVIOUS
<1>4. CASE EventKeys(eventLog[n + 1])[j] = key
  <2>1. Places(key, j, n + 1) = Places(key, j, n) \cup {n + 1}
    BY <1>3, <1>4 DEF Places
  <2> QED
    BY <1>1, <1>2, <1>4, <2>1, FS_AddElement DEF NumberOf, Mark
<1>5. CASE EventKeys(eventLog[n + 1])[j] # key
  <2>1. Places(key, j, n + 1) = Places(key, j, n)
    BY <1>3, <1>5 DEF Places
  <2> QED
    BY <1>2, <1>5, <2>1 DEF NumberOf, Mark
<1> QED
  BY <1>4, <1>5

LEMMA EventCountStart == Init => EventCountInv
<1> SUFFICES ASSUME Init PROVE EventCountInv
  OBVIOUS
<1>1. eventLog = <<>> /\ totalsStore = EmptyStore /\ stage = "idle"
  BY DEF Init, EventsInit, VolumesInit, ChainInit
<1>2. Waiting = <<>> /\ Len(eventLog) = 0 /\ Len(Waiting) = 0
  BY <1>1, EmptyIsList DEF Waiting
<1>3. Reached = 0
  <2>1. Reached = 0 - 0
    BY <1>2, Zenon DEF Reached
  <2> QED
    BY <2>1
<1>4. IsStore(EmptyStore) /\ DOMAIN EmptyStore.kv = {}
  BY EmptyStoreIsStore DEF Keys
<1>5. \A key : Count(totalsStore, key) = 0
  BY <1>1, <1>4 DEF Count, Has
<1>6. \A key, j : NumberOf(key, j, Reached) = 0
  <2>1. \A key, j : Places(key, j, 0) = {}
    BY DEF Places
  <2> QED
    BY <1>3, <2>1, FS_EmptySet DEF NumberOf
<1>8. \A key : Tally(key, Reached) = 0
  BY <1>6 DEF Tally
<1>7. 1 .. Len(Waiting) = {}
  BY <1>2
<1> QED
  BY <1>3, <1>5, <1>7, <1>8 DEF EventCountInv

(* What is counted stays counted, and what waits still waits.              *)
LEMMA SameEventCount ==
  ASSUME EventCountInv, Waiting' = Waiting, eventLog' = eventLog,
         \A key : key # PairCount => Count(totalsStore', key) = Count(totalsStore, key)
  PROVE  EventCountInv'
<1>1. Reached' = Reached
  BY DEF Reached
<1>2. ASSUME NEW key, NEW j
      PROVE  NumberOf(key, j, Reached)' = NumberOf(key, j, Reached)
  BY <1>1 DEF NumberOf, Places, EventKeys, KindCount
<1>3. \A i \in 1 .. Len(Waiting') : eventLog'[Reached' + i] = Waiting'[i]
  BY <1>1 DEF EventCountInv
<1>4. ASSUME NEW key, key # PairCount
      PROVE  Count(totalsStore', key) = Tally(key, Reached)'
  <2>1. Count(totalsStore', key) = Count(totalsStore, key)
    BY <1>4
  <2> QED
    BY <1>2, <1>4, <2>1 DEF EventCountInv, Tally
<1> QED
  BY <1>1, <1>3, <1>4 DEF EventCountInv, Count

LEMMA EventsWait ==
  ASSUME EventsInv, EventCountInv, EventsMapped, UNCHANGED totalsStore
  PROVE  EventCountInv'
<1>1. /\ stage = "read_calls" /\ stage' = "store_totals"
      /\ eventLog' = eventLog \o events /\ UNCHANGED events
  BY DEF EventsMapped, At, Then
<1>2. Waiting = <<>> /\ Waiting' = events /\ Len(<<>>) = 0
  BY <1>1, EmptyIsList DEF Waiting
<1>3. IsList(eventLog) /\ IsList(events)
  BY DEF EventsInv
<1>4. Len(eventLog) \in Nat /\ Len(events) \in Nat
  BY <1>3, ListHasLength DEF HasLength
<1>5. /\ Len(eventLog') = Len(eventLog) + Len(events)
      /\ \A i \in 1 .. Len(eventLog) : eventLog'[i] = eventLog[i]
      /\ \A i \in 1 .. Len(events) : eventLog'[Len(eventLog) + i] = events[i]
  BY <1>1, <1>3, ConcatOfLists
<1>6. Reached = Len(eventLog)
  BY <1>2, <1>4 DEF Reached
<1>7. Reached' = Len(eventLog)
  BY <1>2, <1>4, <1>5 DEF Reached
<1>8. ASSUME NEW key, NEW j
      PROVE  NumberOf(key, j, Reached)' = NumberOf(key, j, Reached)
  <2>1. Places(key, j, Reached)' = Places(key, j, Reached)
    BY <1>5, <1>6, <1>7 DEF Places, EventKeys, KindCount
  <2> QED
    BY <2>1 DEF NumberOf
<1>9. ASSUME NEW key, key # PairCount
      PROVE  Count(totalsStore', key) = Tally(key, Reached)'
  BY <1>8, <1>9 DEF EventCountInv, Tally
<1> QED
  BY <1>2, <1>4, <1>5, <1>7, <1>9 DEF EventCountInv, Count

LEMMA EventCounted ==
  ASSUME EventsInv, VolumesInv, PairCountInv, EventCountInv, CountEvent, UNCHANGED eventVars
  PROVE  EventCountInv'
<1>e. PICK e : e = event
  OBVIOUS
<1>k. PICK keys : keys = Append(TotalKeys(e), << "pair", e.pair, KindCount(e.kind) >>)
  OBVIOUS
<1>1. /\ stage = "count_events" /\ stage' = "count_events"
      /\ todoEvents # <<>> /\ todoEvents' = Tail(todoEvents)
      /\ totalsStore' = AddAll(totalsStore, Writes(e.ord, keys, 1), "int64")
      /\ UNCHANGED <<events, eventLog, hour>>
  BY <1>e, <1>k DEF CountEvent, At, Then, eventVars
<1>2. Waiting = todoEvents /\ Waiting' = Tail(todoEvents)
  BY <1>1 DEF Waiting
<1>3. /\ Len(todoEvents) - 1 \in Nat /\ Len(Tail(todoEvents)) = Len(todoEvents) - 1
      /\ e = todoEvents[1] /\ e \in ToSet(todoEvents)
      /\ \A i \in 1 .. Len(todoEvents) - 1 : Tail(todoEvents)[i] = todoEvents[i + 1]
  <2>1. IsList(todoEvents)
    BY DEF VolumesInv
  <2> QED
    BY <1>1, <1>e, <2>1, TailOfList DEF event
<1>4. Len(eventLog) \in Nat /\ Len(todoEvents) \in Nat
  BY ListHasLength DEF HasLength, EventsInv, VolumesInv
<1>5. Reached \in Nat /\ Reached' = Reached + 1
  BY <1>1, <1>2, <1>3, <1>4 DEF Reached, EventCountInv
<1>6. eventLog[Reached + 1] = e
  <2>1. 1 \in 1 .. Len(Waiting)
    BY <1>2, <1>3, <1>4
  <2>2. eventLog[Reached + 1] = Waiting[1]
    BY <2>1 DEF EventCountInv
  <2> QED
    BY <1>2, <1>3, <2>2
<1>7. \A j \in 1 .. 6 : keys[j] = EventKeys(e)[j]
  <2>1. stage \in {"read_calls"} \cup AfterEvents /\ e \in ToSet(events)
    BY <1>1, <1>3 DEF VolumesInv, AfterEvents, VolumeHandlers
  <2>2. e.day = day
    BY <2>1 DEF EventsInv, EventNow
  <2>3. EventKeys(e)[4] = << "global_day", day, "transaction_count" >>
    BY <2>2 DEF EventKeys
  <2>4. \A j \in 1 .. 6 : j = 1 \/ j = 2 \/ j = 3 \/ j = 4 \/ j = 5 \/ j = 6
    OBVIOUS
  <2>5. /\ keys[1] = << "token", e.token0, "transaction_count" >>
        /\ keys[2] = << "token", e.token1, "transaction_count" >>
        /\ keys[3] = << "pair", e.pair, "transaction_count" >>
        /\ keys[4] = << "global_day", day, "transaction_count" >>
        /\ keys[5] = << "global", "transaction_count" >>
        /\ keys[6] = << "pair", e.pair, KindCount(e.kind) >>
    BY <1>k DEF TotalKeys
  <2>6. /\ keys[1] = EventKeys(e)[1] /\ keys[2] = EventKeys(e)[2] /\ keys[3] = EventKeys(e)[3]
        /\ keys[5] = EventKeys(e)[5] /\ keys[6] = EventKeys(e)[6]
    BY <2>5 DEF EventKeys
  <2> QED
    BY <2>3, <2>4, <2>5, <2>6
<1>8. DOMAIN keys = 1 .. 6
  BY <1>k DEF TotalKeys
<1>9. \A k : Count(totalsStore', k) =
        Count(totalsStore, k) + Mark(k, keys[1]) + Mark(k, keys[2]) + Mark(k, keys[3])
                              + Mark(k, keys[4]) + Mark(k, keys[5]) + Mark(k, keys[6])
  BY <1>1, <1>8, SixCounted DEF PairCountInv
<1>10. ASSUME NEW key, NEW j \in 1 .. 6
       PROVE  /\ NumberOf(key, j, Reached) \in Nat
              /\ NumberOf(key, j, Reached)' = NumberOf(key, j, Reached) + Mark(key, keys[j])
  <2>1. NumberOf(key, j, Reached)' = NumberOf(key, j, Reached + 1)
    BY <1>1, <1>5 DEF NumberOf, Places, EventKeys, KindCount
  <2> QED
    BY <1>5, <1>6, <1>7, <2>1, PlacesGrow
<1>11. ASSUME NEW key, key # PairCount
       PROVE  Count(totalsStore', key) = Tally(key, Reached)'
  <2>1. Count(totalsStore, key) =
          NumberOf(key, 1, Reached) + NumberOf(key, 2, Reached) + NumberOf(key, 3, Reached)
          + NumberOf(key, 4, Reached) + NumberOf(key, 5, Reached) + NumberOf(key, 6, Reached)
    BY <1>11 DEF EventCountInv, Tally
  <2>2. \A k : Mark(key, k) \in Nat
    BY DEF Mark
  <2>3. Count(totalsStore', key) =
          Count(totalsStore, key) + Mark(key, keys[1]) + Mark(key, keys[2]) + Mark(key, keys[3])
                                  + Mark(key, keys[4]) + Mark(key, keys[5]) + Mark(key, keys[6])
    BY <1>9
  <2> QED
    BY <1>10, <2>1, <2>2, <2>3 DEF Tally
<1>12. ASSUME NEW i \in 1 .. Len(Waiting')
       PROVE  eventLog'[Reached' + i] = Waiting'[i]
  <2>1. i \in 1 .. Len(todoEvents) - 1 /\ i + 1 \in 1 .. Len(Waiting)
    BY <1>2, <1>3, <1>4
  <2>2. eventLog[Reached + (i + 1)] = todoEvents[i + 1]
    BY <1>2, <2>1 DEF EventCountInv
  <2>3. Reached' + i = Reached + (i + 1)
    BY <1>5, <2>1
  <2> QED
    BY <1>1, <1>2, <1>3, <2>1, <2>2, <2>3
<1> QED
  BY <1>5, <1>11, <1>12 DEF EventCountInv, Count

LEMMA EventCountKept ==
  PairsKnown /\ EventsInv /\ VolumesInv /\ PairCountInv /\ EventCountInv /\ [Next]_vars
    => EventCountInv'
<1> SUFFICES ASSUME PairsKnown, EventsInv, VolumesInv, PairCountInv, EventCountInv, [Next]_vars
             PROVE  EventCountInv'
  OBVIOUS
<1>1. CASE (ProduceBlock \/ TokensNext \/ PricesNext \/ DbNext)
           /\ UNCHANGED <<eventVars, volumeVars>>
  <2>1. UNCHANGED <<totalsStore, eventLog>>
    BY <1>1 DEF eventVars, volumeVars
  <2>2. {stage, stage'} \cap {"store_totals", "count_events"} = {}
    BY <1>1, TokensHand, PricesHand, DbHands
       DEF Hands, TokenHandlers, PriceHandlers, DbHandlers, ProduceBlock
  <2>3. Waiting = <<>> /\ Waiting' = <<>>
    BY <2>2 DEF Waiting
  <2> QED
    BY <2>1, <2>3, SameEventCount
<1>2. CASE EventsMapped /\ UNCHANGED volumeVars
  BY <1>2, EventsWait DEF volumeVars
<1>3. CASE (StartEvents \/ SkipCall \/ CallToEvent \/ EventsPanic) /\ UNCHANGED volumeVars
  <2>1. /\ UNCHANGED <<totalsStore, eventLog>>
        /\ stage \in EventHandlers /\ stage' \in EventHandlers
    BY <1>3 DEF StartEvents, SkipCall, CallToEvent, EventsPanic, AtCall, At, Then, Panic,
                eventVars, volumeVars, EventHandlers
  <2>2. Waiting = <<>> /\ Waiting' = <<>>
    BY <2>1 DEF Waiting, EventHandlers
  <2> QED
    BY <2>1, <2>2, SameEventCount
<1>4. CASE StartTotals /\ UNCHANGED eventVars
  <2>1. /\ stage = "store_totals" /\ stage' = "count_events"
        /\ UNCHANGED <<eventLog, events>>
        /\ todoEvents' = events
        /\ \/ totalsStore' = NextBlock(totalsStore)
           \/ totalsStore' = AddAll(NextBlock(totalsStore), PairMarks(pairs), "int64")
    BY <1>4 DEF StartTotals, NothingToCount, PairMarks, PairCount, At, Then, eventVars
  <2>2. Waiting = events /\ Waiting' = events
    BY <2>1 DEF Waiting
  <2>3. /\ IsCounter(NextBlock(totalsStore))
        /\ \A key : Count(NextBlock(totalsStore), key) = Count(totalsStore, key)
    BY NextBlockIsStore DEF PairCountInv, IsCounter, Count, Has
  <2>4. ASSUME NEW key, key # PairCount
        PROVE  Count(totalsStore', key) = Count(totalsStore, key)
    <3>1. Count(totalsStore, key) \in Nat
      BY DEF PairCountInv, IsCounter
    <3>2. IsList(pairs)
      BY <2>1 DEF PairsKnown, BlockPairs
    <3>3. \A k : Count(AddAll(NextBlock(totalsStore), PairMarks(pairs), "int64"), k) =
                   Count(NextBlock(totalsStore), k) + (IF k = PairCount THEN Len(pairs) ELSE 0)
      BY <2>3, <3>2, PairsCounted
    <3> QED
      BY <2>1, <2>3, <2>4, <3>1, <3>3
  <2> QED
    BY <2>1, <2>2, <2>4, SameEventCount
<1>5. CASE CountEvent /\ UNCHANGED eventVars
  BY <1>5, EventCounted
<1>6. CASE (EventsCounted \/ StartVolumes \/ AddVolume \/ VolumesAdded) /\ UNCHANGED eventVars
  <2>1. /\ UNCHANGED <<totalsStore, eventLog>>
        /\ \/ stage = "count_events" /\ todoEvents = <<>>
           \/ stage \in {"store_volumes", "add_volumes"}
        /\ stage' \in {"store_volumes", "add_volumes", "db_out"}
    BY <1>6 DEF EventsCounted, StartVolumes, AddVolume, VolumesAdded, At, Then, eventVars,
                volumeVars
  <2>2. Waiting = <<>> /\ Waiting' = <<>>
    BY <2>1 DEF Waiting
  <2> QED
    BY <2>1, <2>2, SameEventCount
<1>7. CASE UNCHANGED <<chainVars, eventVars, volumeVars>>
  <2>1. UNCHANGED <<totalsStore, eventLog, events, todoEvents, stage>>
    BY <1>7 DEF chainVars, eventVars, volumeVars
  <2> QED
    BY <2>1, SameEventCount DEF Waiting
<1> QED
  BY <1>1, <1>2, <1>3, <1>4, <1>5, <1>6, <1>7, ComponentSteps DEF EventsNext, VolumesNext

-----------------------------------------------------------------------------
(* At db_out nothing waits, and each tally is the number of a kind.        *)
LEMMA KindsCounted ==
  ASSUME NEW k \in Kinds, NEW l \in Kinds
  PROVE  /\ KindCount(k) # "transaction_count"
         /\ KindCount(k) = KindCount(l) => k = l
BY DEF KindCount, Kinds

LEMMA CountsAtDbOut ==
  ASSUME EventsInv, PairCountInv, EventCountInv, stage = "db_out"
  PROVE  /\ Count(totalsStore, PairCount) = Cardinality(Pairs)
         /\ Len(eventLog) \in Nat /\ DOMAIN eventLog = 1 .. Len(eventLog)
         /\ \A key : key # PairCount => Count(totalsStore, key) = Tally(key, Len(eventLog))
<1>1. PairsToCount = 0 /\ request # "store_prices"
  BY DEF PairsToCount, PairsWait, PriceHandlers, EventHandlers, PairCountInv, DbHandlers
<1>2. Count(totalsStore, PairCount) = Cardinality(Pairs)
  BY <1>1 DEF PairCountInv, IsCounter
<1>3. Len(eventLog) \in Nat /\ DOMAIN eventLog = 1 .. Len(eventLog)
  BY ListHasLength DEF HasLength, EventsInv
<1>4. Waiting = <<>>
  BY DEF Waiting
<1>5. Len(Waiting) = 0
  BY <1>4, EmptyIsList
<1>6. Reached = Len(eventLog)
  BY <1>3, <1>5 DEF Reached
<1> QED
  BY <1>2, <1>3, <1>6 DEF EventCountInv

LEMMA VolumesKept == ChainInv /\ EventsInv /\ VolumesInv /\ [Next]_vars => VolumesInv'
<1> SUFFICES ASSUME ChainInv, EventsInv, VolumesInv, [Next]_vars
             PROVE  VolumesInv'
  OBVIOUS
<1> USE EmptyIsList
<1>1. CASE (ProduceBlock \/ TokensNext \/ PricesNext \/ DbNext)
           /\ UNCHANGED <<eventVars, volumeVars>>
  <2>1. UNCHANGED <<volumeStore, todoEvents, events, eventLog>>
    BY <1>1 DEF eventVars, volumeVars
  <2>2. stage \notin {"store_totals", "count_events", "store_volumes", "add_volumes"}
    BY <1>1, TokensHand, PricesHand, DbHands
       DEF Hands, TokenHandlers, PriceHandlers, DbHandlers, ProduceBlock
  <2>3. ~Pending /\ todoEvents = <<>>
    BY <2>2 DEF Pending, VolumesInv
  <2> QED
    BY <2>1, <2>3, VolumesStay
<1>2. CASE EventsMapped /\ UNCHANGED volumeVars
  BY <1>2, EventsPend
<1>3. CASE (StartEvents \/ SkipCall \/ CallToEvent \/ EventsPanic) /\ UNCHANGED volumeVars
  <2>1. UNCHANGED <<volumeStore, todoEvents, eventLog>> /\ stage \in EventHandlers
    BY <1>3 DEF StartEvents, SkipCall, CallToEvent, EventsPanic, AtCall, At, eventVars,
                volumeVars, EventHandlers
  <2>2. ~Pending /\ todoEvents = <<>>
    BY <2>1 DEF Pending, VolumesInv, EventHandlers
  <2> QED
    BY <2>1, <2>2, VolumesStay
<1>4. CASE StartTotals /\ UNCHANGED eventVars
  <2>1. /\ stage = "store_totals" /\ stage' = "count_events"
        /\ UNCHANGED <<volumeStore, hour, events, eventLog>>
        /\ todoEvents' = <<>> \/ todoEvents' = events
    BY <1>4 DEF StartTotals, At, Then, eventVars
  <2>2. IsList(todoEvents') /\ ToSet(todoEvents') \subseteq ToSet(events')
    BY <2>1 DEF EventsInv
  <2> QED
    BY <2>1, <2>2, VolumesStay DEF Pending
<1>5. CASE CountEvent /\ UNCHANGED eventVars
  <2>1. /\ stage = "count_events" /\ stage' = "count_events"
        /\ todoEvents # <<>> /\ todoEvents' = Tail(todoEvents)
        /\ UNCHANGED <<volumeStore, hour, events, eventLog>>
    BY <1>5 DEF CountEvent, At, Then, eventVars
  <2>2. IsList(todoEvents') /\ ToSet(todoEvents') \subseteq ToSet(events')
    BY <2>1, TailOfList DEF VolumesInv
  <2> QED
    BY <2>1, <2>2, VolumesStay DEF Pending
<1>6. CASE (EventsCounted \/ VolumesAdded) /\ UNCHANGED eventVars
  <2>1. /\ \/ stage = "count_events" /\ stage' = "store_volumes"
           \/ stage = "add_volumes" /\ stage' = "db_out"
        /\ todoEvents = <<>>
        /\ UNCHANGED <<volumeStore, hour, events, eventLog, todoEvents>>
    BY <1>6 DEF EventsCounted, VolumesAdded, At, Then, eventVars, volumeVars
  <2> QED
    BY <2>1, VolumesStay DEF Pending
<1>7. CASE StartVolumes /\ UNCHANGED eventVars
  BY <1>7, VolumesStarted
<1>8. CASE AddVolume /\ UNCHANGED eventVars
  BY <1>8, VolumeAdded
<1>9. CASE UNCHANGED <<chainVars, eventVars, volumeVars>>
  BY <1>9, VolumesStay DEF chainVars, eventVars, volumeVars, Pending, VolumesInv
<1> QED
  BY <1>1, <1>2, <1>3, <1>4, <1>5, <1>6, <1>7, <1>8, <1>9, ComponentSteps
     DEF EventsNext, VolumesNext

(* What a read of the store of prices returns is a decimal or nothing.     *)
LEMMA DerivedIs ==
  ASSUME ReservesInv, NEW ord, NEW t, NEW unit
  PROVE  HasParts(AsDecimal(DerivedAt(ord, t, unit)))
<1> DEFINE key == DerivedKey(t, unit)
<1>1. HasParts(Zero)
  BY DEF HasParts, Zero
<1>2. CASE request = "db_out"
  <2>1. PricesStore = reserveStore
    BY <1>2 DEF PricesStore
  <2>2. key[1] = "dprice"
    BY DEF DerivedKey
  <2>3. key \notin Keys(reserveStore)
    BY <2>2 DEF ReservesInv, ReserveKeyed, ReserveKinds
  <2> HIDE DEF key
  <2>4. /\ key \notin DOMAIN reserveStore.kv
        /\ \A i \in DOMAIN reserveStore.deltas : reserveStore.deltas[i].key # key
    BY <2>3 DEF Keys
  <2>5. GetAt(reserveStore, ord, key) = Absent
    BY <2>4 DEF GetAt, GetLast, Has
  <2>6. DerivedAt(ord, t, unit) = Absent
    BY <2>1, <2>5 DEF DerivedAt, key
  <2> QED
    BY <1>1, <2>6 DEF AsDecimal
<1>3. CASE request # "db_out"
  <2>f. PICK feed : feed = FedPrices
    OBVIOUS
  <2>s. PICK store : store = [kv |-> feed, deltas |-> <<>>]
    OBVIOUS
  <2>1. PricesStore = store /\ store.kv = feed /\ DOMAIN store.deltas = {}
    BY <1>3, <2>f, <2>s DEF PricesStore
  <2> HIDE DEF key
  <2>2. GetAt(store, ord, key) = IF key \in DOMAIN feed THEN feed[key] ELSE Absent
    BY <2>1 DEF GetAt, GetLast, Has
  <2>3. DerivedAt(ord, t, unit) = IF key \in DOMAIN feed THEN feed[key] ELSE Absent
    BY <2>1, <2>2 DEF DerivedAt, key
  <2>4. \A k \in DOMAIN feed : HasParts(feed[k])
    <3>1. CASE number \in DOMAIN Feed
      BY <2>f, <3>1, EventsAssumption DEF FedPrices, HasParts
    <3>2. CASE number \notin DOMAIN Feed
      BY <2>f, <3>2 DEF FedPrices
    <3> QED
      BY <3>1, <3>2
  <2> QED
    BY <1>1, <2>3, <2>4 DEF AsDecimal
<1> QED
  BY <1>2, <1>3

LEMMA ConvertedIs ==
  ASSUME ReservesInv, NEW ord, NEW x, NEW y, NEW p, Decimal(x), Decimal(y)
  PROVE  Decimal(ConvertPrices(ord, x, y, p))
<1>1. PICK a, b, c : /\ a = AsDecimal(DerivedAt(ord, p.token0, "bnb"))
                     /\ b = AsDecimal(DerivedAt(ord, p.token1, "bnb"))
                     /\ c = AsDecimal(DerivedAt(ord, "usd", "bnb"))
  OBVIOUS
<1>2. HasParts(a) /\ HasParts(b) /\ HasParts(c)
  BY <1>1, DerivedIs
<1>3. Decimal(Times(a, x)) /\ Decimal(Times(b, y))
  BY <1>2, DecimalHasParts, TimesIsDecimal
<1>4. Decimal(Plus(Times(a, x), Times(b, y)))
  BY <1>3, PlusIsDecimal
<1>5. Decimal(Times(Plus(Times(a, x), Times(b, y)), c))
  BY <1>2, <1>4, DecimalHasParts, TimesIsDecimal
<1> QED
  BY <1>1, <1>5 DEF ConvertPrices

(* The average of at most two decimals is one.                             *)
OneAtMost(s) == s = <<>> \/ \E x : Decimal(x) /\ s = << x >>

LEMMA AverageIs ==
  ASSUME NEW s, NEW t, OneAtMost(s), OneAtMost(t)
  PROVE  Decimal(AverageFloats(s \o t))
<1>u. PICK u : u = s \o t
  OBVIOUS
<1>1. ASSUME NEW v, OneAtMost(v)
      PROVE  IsList(v) /\ Len(v) \in Nat /\ DOMAIN v = 1 .. Len(v) /\ \A x \in ToSet(v) : Decimal(x)
  <2>1. CASE v = <<>>
    BY <2>1, EmptyIsList
  <2>2. CASE v # <<>>
    <3>1. PICK x : Decimal(x) /\ v = << x >>
      BY <1>1, <2>2 DEF OneAtMost
    <3>2. IsList(v) /\ ToSet(v) = {x}
      BY <3>1, SingletonIsList
    <3> QED
      BY <3>1, <3>2, ListHasLength DEF HasLength
  <2> QED
    BY <2>1, <2>2
<1>2. IsList(u) /\ \A x \in ToSet(u) : Decimal(x)
  BY <1>1, <1>u, ConcatOfLists
<1>3. Len(u) \in Nat /\ DOMAIN u = 1 .. Len(u)
  BY <1>2, ListHasLength DEF HasLength
<1>4. CASE u = <<>>
  BY <1>4, <1>u, ZeroIsDecimal DEF AverageFloats
<1>5. CASE u # <<>>
  <2>1. Len(u) \in Nat \ {0}
    <3>1. u = [i \in 1 .. Len(u) |-> u[i]]
      BY <1>2, ListHasLength DEF HasLength
    <3>2. SUFFICES ASSUME Len(u) = 0 PROVE FALSE
      BY <1>3
    <3>3. u \in Seq(ToSet(u))
      BY <1>2 DEF IsList
    <3> QED
      BY <1>5, <3>2, <3>3
  <2>2. \A i \in 1 .. Len(u) : IsNumber("bigfloat", u[i])
    BY <1>2, <1>3 DEF ToSet, IsNumber
  <2>3. IsNumber("bigfloat", Total("bigfloat", u))
    BY <1>3, <2>2, TotalIsNumber
  <2>4. Total("bigfloat", u) = FoldLeft(Plus, Zero, u)
    BY DEF Total
  <2>5. Decimal(Over(Total("bigfloat", u), Fraction(Len(u), 1)))
    BY <2>1, <2>3, OverIsDecimal DEF IsNumber
  <2> QED
    BY <1>5, <1>u, <2>4, <2>5 DEF AverageFloats
<1> QED
  BY <1>4, <1>5

-----------------------------------------------------------------------------
(* The numbers of an event are decimals.                                   *)
Readable(call) ==
  /\ IsList(call.logs)
  /\ \A l \in ToSet(call.logs) : \A j \in 1 .. AmountsIn(l.sig) : l.amounts[j] \in Nat

DecimalEvent(e) ==
  /\ Decimal(e.amountUsd)
  /\ e.kind = "Swap" => Decimal(e.in0) /\ Decimal(e.out0)
  /\ e.kind # "Swap" => Decimal(e.liquidity)

LEMMA AmountIsDecimal ==
  ASSUME NEW n \in Nat, NEW t \in DOMAIN DecimalsOf
  PROVE  Decimal(ToDecimal(n, t))
BY PricesAssumption DEF ToDecimal, Decimal

LEMMA LiquidityIsDecimal ==
  ASSUME ReservesInv, NEW kind \in {"Mint", "Burn"}, NEW c, NEW p, TwoTokens(p),
         Readable(c.call), ~PatternPanics(c.call.logs), EventOf(c.call.logs) = kind
  PROVE  DecimalEvent(ProcessLiquidity(kind, c, p))
<1>l. PICK logs : logs = c.call.logs
  OBVIOUS
<1>n. PICK n : n = Len(logs)
  OBVIOUS
<1>1. n \in {3, 4} /\ logs[n].sig = kind
  BY <1>l, <1>n DEF EventOf
<1>2. logs[n - 2].sig = "Transfer"
  <2>1. EventOf(logs) \in {"Mint", "Burn"}
    BY <1>l
  <2>2. Transfer2(logs).sig = "Transfer"
    BY <1>l, <2>1 DEF PatternPanics
  <2> QED
    BY <1>n, <2>2 DEF Transfer2
<1>3. IsList(logs) /\ \A l \in ToSet(logs) : \A j \in 1 .. AmountsIn(l.sig) : l.amounts[j] \in Nat
  BY <1>l DEF Readable
<1>4. logs[n] \in ToSet(logs) /\ logs[n - 2] \in ToSet(logs)
  <2>1. DOMAIN logs = 1 .. n
    BY <1>3, <1>n, ListHasLength DEF HasLength
  <2>2. n \in DOMAIN logs /\ n - 2 \in DOMAIN logs
    BY <1>1, <2>1
  <2> QED
    BY <2>2 DEF ToSet
<1>m. PICK log, transfer : log = logs[n] /\ transfer = logs[n - 2]
  OBVIOUS
<1>5. log.amounts[1] \in Nat /\ log.amounts[2] \in Nat /\ transfer.amounts[1] \in Nat
  <2>1. AmountsIn(log.sig) = 2 /\ AmountsIn(transfer.sig) = 1
    BY <1>1, <1>2, <1>m DEF AmountsIn, Kinds
  <2> QED
    BY <1>3, <1>4, <1>m, <2>1
<1>6. Payload(log).amount0 = log.amounts[1] /\ Payload(log).amount1 = log.amounts[2]
  <2>1. CASE kind = "Mint"
    BY <1>1, <1>m, <2>1 DEF Payload
  <2>2. CASE kind = "Burn"
    BY <1>1, <1>m, <2>2 DEF Payload
  <2> QED
    BY <2>1, <2>2
<1>7. Payload(transfer).value = transfer.amounts[1]
  BY <1>2, <1>m DEF Payload
<1>a. PICK a, b : a = ToDecimal(log.amounts[1], p.token0) /\ b = ToDecimal(log.amounts[2], p.token1)
  OBVIOUS
<1>8. Decimal(a) /\ Decimal(b)
  BY <1>5, <1>a, AmountIsDecimal DEF TwoTokens
<1>9. Decimal(ConvertPrices(log.ord, a, b, p))
  BY <1>8, ConvertedIs
<1>10. Decimal(Fraction(transfer.amounts[1], Units[18]))
  BY <1>5, EventsAssumption DEF Decimal
<1>e. PICK e : e = ProcessLiquidity(kind, c, p)
  OBVIOUS
<1>11. /\ e.kind = kind /\ e.amountUsd = ConvertPrices(log.ord, a, b, p)
       /\ e.liquidity = Fraction(transfer.amounts[1], Units[18])
  BY <1>l, <1>n, <1>m, <1>6, <1>7, <1>a, <1>e DEF ProcessLiquidity, Transfer2
<1> QED
  BY <1>9, <1>10, <1>11, <1>e DEF DecimalEvent

LEMMA SwapIsDecimal ==
  ASSUME ReservesInv, NEW c, NEW p, TwoTokens(p),
         Readable(c.call), EventOf(c.call.logs) = "Swap", ~SwapPanics(c.call.logs, p)
  PROVE  DecimalEvent(ProcessSwap(c, p))
<1>l. PICK logs : logs = c.call.logs
  OBVIOUS
<1>m. PICK log : log = logs[2]
  OBVIOUS
<1>1. Len(logs) = 2 /\ log.sig = "Swap"
  BY <1>l, <1>m DEF EventOf
<1>3. IsList(logs) /\ \A l \in ToSet(logs) : \A j \in 1 .. AmountsIn(l.sig) : l.amounts[j] \in Nat
  BY <1>l DEF Readable
<1>4. log \in ToSet(logs)
  <2>1. DOMAIN logs = 1 .. 2
    BY <1>1, <1>3, ListHasLength DEF HasLength
  <2> QED
    BY <1>m, <2>1 DEF ToSet
<1>5. \A j \in 1 .. 4 : log.amounts[j] \in Nat
  <2>1. AmountsIn(log.sig) = 4
    BY <1>1 DEF AmountsIn
  <2> QED
    BY <1>3, <1>4, <2>1
<1>6. /\ Payload(log).amount0In = log.amounts[1] /\ Payload(log).amount1In = log.amounts[2]
      /\ Payload(log).amount0Out = log.amounts[3] /\ Payload(log).amount1Out = log.amounts[4]
  BY <1>1 DEF Payload
<1>a. PICK in0, in1, out0, out1 : /\ in0 = ToDecimal(log.amounts[1], p.token0)
                                  /\ in1 = ToDecimal(log.amounts[2], p.token1)
                                  /\ out0 = ToDecimal(log.amounts[3], p.token0)
                                  /\ out1 = ToDecimal(log.amounts[4], p.token1)
  OBVIOUS
<1>8. Decimal(in0) /\ Decimal(in1) /\ Decimal(out0) /\ Decimal(out1)
  BY <1>5, <1>a, AmountIsDecimal DEF TwoTokens
<1>9. Decimal(Plus(out0, in0)) /\ Decimal(Plus(out1, in1))
  BY <1>8, PlusIsDecimal
<1>10. ASSUME NEW x, Decimal(x), NEW s \in Sides
       PROVE  OneAtMost(GetDerivedPrice(log.ord, "usd", x, TokenOf(p, s)))
  <2>1. DerivedAt(log.ord, TokenOf(p, s), "usd") # Absent
    BY <1>l, <1>m DEF SwapPanics, DerivedMissing
  <2>v. PICK v : v = DerivedAt(log.ord, TokenOf(p, s), "usd")
    OBVIOUS
  <2>2. HasParts(v)
    BY <2>1, <2>v, DerivedIs DEF AsDecimal
  <2>3. Decimal(Times(x, v))
    BY <1>10, <2>2, DecimalHasParts, TimesIsDecimal
  <2> QED
    BY <2>v, <2>3 DEF GetDerivedPrice, OneAtMost
<1>s. PICK s, t : /\ s = GetDerivedPrice(log.ord, "usd", Plus(out0, in0), p.token0)
                  /\ t = GetDerivedPrice(log.ord, "usd", Plus(out1, in1), p.token1)
  OBVIOUS
<1>11. OneAtMost(s) /\ OneAtMost(t)
  <2>1. 0 \in Sides /\ 1 \in Sides /\ TokenOf(p, 0) = p.token0 /\ TokenOf(p, 1) = p.token1
    BY DEF Sides, TokenOf
  <2>2. OneAtMost(GetDerivedPrice(log.ord, "usd", Plus(out0, in0), TokenOf(p, 0)))
    BY <1>9, <1>10, <2>1
  <2>3. OneAtMost(GetDerivedPrice(log.ord, "usd", Plus(out1, in1), TokenOf(p, 1)))
    BY <1>9, <1>10, <2>1
  <2> QED
    BY <1>s, <2>1, <2>2, <2>3
<1>12. Decimal(AverageFloats(s \o t))
  BY <1>11, AverageIs
<1>e. PICK e : e = ProcessSwap(c, p)
  OBVIOUS
<1>13. /\ e.kind = "Swap" /\ e.in0 = in0 /\ e.out0 = out0
       /\ e.amountUsd = AverageFloats(s \o t)
  BY <1>l, <1>m, <1>6, <1>a, <1>s, <1>e DEF ProcessSwap
<1> QED
  BY <1>8, <1>12, <1>13, <1>e DEF DecimalEvent

NumbersInv ==
  /\ \A c \in ToSet(callsLeft) : Readable(c.call)
  /\ stage \in {"read_calls"} \cup AfterEvents => \A e \in ToSet(events) : DecimalEvent(e)
  /\ \A e \in ToSet(eventLog) : DecimalEvent(e)

LEMMA NumbersStart == Init => NumbersInv
<1> SUFFICES ASSUME Init PROVE NumbersInv
  OBVIOUS
<1>1. callsLeft = <<>> /\ eventLog = <<>> /\ stage = "idle"
  BY DEF Init, EventsInit, ChainInit
<1>2. stage \notin {"read_calls"} \cup AfterEvents
  BY <1>1 DEF AfterEvents, VolumeHandlers, DbHandlers
<1> QED
  BY <1>1, <1>2, EmptyIsList DEF NumbersInv

LEMMA CallsAreReadable ==
  ASSUME trxs \in Blocks, StartEvents
  PROVE  \A c \in ToSet(callsLeft') : Readable(c.call)
<1> DEFINE read(i) == [j \in DOMAIN trxs[i].calls |->
                         [trx |-> <<number, i>>, from |-> trxs[i].from, call |-> trxs[i].calls[j]]]
           parts == [i \in DOMAIN trxs |-> read(i)]
<1>1. callsLeft' = FlattenSeq(parts)
  BY DEF StartEvents
<1>2. IsList(parts) /\ DOMAIN parts = DOMAIN trxs
  BY BlockIsList, ImageIsList
<1>3. ASSUME NEW i \in DOMAIN trxs
      PROVE  IsList(read(i)) /\ \A c \in ToSet(read(i)) : Readable(c.call)
  <2>1. IsList(trxs[i].calls)
    BY BlocksAssumption DEF IsList
  <2>2. IsList(read(i)) /\ DOMAIN read(i) = DOMAIN trxs[i].calls
    BY <2>1, ImageIsList
  <2>3. \A c \in ToSet(trxs[i].calls) : Readable(c)
    BY EventsAssumption DEF Readable, IsList
  <2>4. \A j \in DOMAIN trxs[i].calls : Readable(read(i)[j].call)
    <3>1. ASSUME NEW j \in DOMAIN trxs[i].calls
          PROVE  trxs[i].calls[j] \in ToSet(trxs[i].calls) /\ read(i)[j].call = trxs[i].calls[j]
      BY DEF ToSet
    <3> HIDE DEF read
    <3> QED
      BY <2>3, <3>1
  <2> HIDE DEF read
  <2> QED
    BY <2>2, <2>4 DEF ToSet
<1>4. \A i \in DOMAIN parts : IsList(parts[i]) /\ \A c \in ToSet(parts[i]) : Readable(c.call)
  BY <1>2, <1>3
<1> HIDE DEF parts
<1> QED
  BY <1>1, <1>2, <1>4, FlattenOfLists

LEMMA NumbersStay ==
  ASSUME NumbersInv, UNCHANGED <<events, eventLog>>, ToSet(callsLeft') \subseteq ToSet(callsLeft),
         stage' \in {"read_calls"} \cup AfterEvents => stage \in {"read_calls"} \cup AfterEvents
  PROVE  NumbersInv'
BY DEF NumbersInv

LEMMA NumbersAdded ==
  ASSUME PairsKnown, ReservesInv, EventsInv, NumbersInv, CallToEvent
  PROVE  NumbersInv'
<1>q. PICK c : c = called
  OBVIOUS
<1>p. PICK p : p = PairAt(called.call.address)
  OBVIOUS
<1>k. PICK kind : kind = EventOf(called.call.logs)
  OBVIOUS
<1>e. PICK e : e = NewEvent(kind, c, p)
  OBVIOUS
<1>1. /\ stage = "read_calls" /\ stage' = "read_calls" /\ callsLeft # <<>>
      /\ kind # "none" /\ ~EventPanics(c.call) /\ callsLeft' = Tail(callsLeft)
      /\ Considered(c.call)
      /\ UNCHANGED eventLog
  BY <1>q, <1>k DEF CallToEvent, AtCall, At, Then, NextCall
<1>2. kind \in Kinds /\ kind = EventOf(c.call.logs)
  BY <1>1, <1>q, <1>k, EventKinds
<1>3. events' = Append(events, e)
  BY <1>q, <1>p, <1>k, <1>e DEF CallToEvent, AddEvent, NewEvent
<1>4. c \in ToSet(callsLeft) /\ ToSet(callsLeft') \subseteq ToSet(callsLeft)
  BY <1>1, <1>q, TailOfList DEF EventsInv, called
<1>5. Readable(c.call)
  BY <1>4 DEF NumbersInv
<1>6. TwoTokens(p)
  <2>1. KnownPair(c.call.address) /\ p = PairAt(c.call.address)
    BY <1>1, <1>p, <1>q DEF Considered
  <2> QED
    BY <2>1, PairsAre DEF PairsKnown
<1>7. ~PatternPanics(c.call.logs) /\ (kind = "Swap" => ~SwapPanics(c.call.logs, p))
  BY <1>1, <1>2, <1>p, <1>q DEF EventPanics
<1>8. DecimalEvent(e)
  <2>1. CASE kind = "Swap"
    <3>1. e = ProcessSwap(c, p)
      BY <1>e, <2>1 DEF NewEvent
    <3> QED
      BY <1>2, <1>5, <1>6, <1>7, <2>1, <3>1, SwapIsDecimal
  <2>2. CASE kind \in {"Mint", "Burn"}
    <3>1. e = ProcessLiquidity(kind, c, p)
      BY <1>e, <2>2 DEF NewEvent
    <3> QED
      BY <1>2, <1>5, <1>6, <1>7, <2>2, <3>1, LiquidityIsDecimal
  <2> QED
    BY <1>2, <2>1, <2>2 DEF Kinds
<1>9. ToSet(events') = ToSet(events) \cup {e}
  BY <1>3, AppendToList DEF EventsInv
<1> QED
  BY <1>1, <1>4, <1>8, <1>9 DEF NumbersInv

LEMMA NumbersKept ==
  ChainInv /\ PairsKnown /\ ReservesInv /\ EventsInv /\ NumbersInv /\ [Next]_vars => NumbersInv'
<1> SUFFICES ASSUME ChainInv, PairsKnown, ReservesInv, EventsInv, NumbersInv, [Next]_vars
             PROVE  NumbersInv'
  OBVIOUS
<1>1. CASE ProduceBlock /\ UNCHANGED eventVars
  <2>1. UNCHANGED <<callsLeft, events, eventLog>>
        /\ stage' \notin {"read_calls"} \cup AfterEvents
    BY <1>1 DEF ProduceBlock, eventVars, AfterEvents, VolumeHandlers, DbHandlers
  <2> QED
    BY <2>1, NumbersStay
<1>2. CASE StartEvents
  <2>1. stage = "map_burn_swaps_events" /\ events' = <<>> /\ UNCHANGED eventLog
    BY <1>2 DEF StartEvents, At
  <2>2. \A c \in ToSet(callsLeft') : Readable(c.call)
    BY <1>2, <2>1, CallsAreReadable DEF ChainInv
  <2> QED
    BY <2>1, <2>2, EmptyIsList DEF NumbersInv
<1>3. CASE SkipCall
  <2>1. /\ stage = "read_calls" /\ callsLeft # <<>>
        /\ callsLeft' = Tail(callsLeft)
        /\ UNCHANGED <<events, eventLog>>
    BY <1>3 DEF SkipCall, AtCall, At, NextCall
  <2>2. ToSet(callsLeft') \subseteq ToSet(callsLeft)
    BY <2>1, TailOfList DEF EventsInv
  <2> QED
    BY <2>1, <2>2, NumbersStay
<1>4. CASE CallToEvent
  BY <1>4, NumbersAdded
<1>5. CASE EventsPanic
  <2>1. UNCHANGED <<callsLeft, events, eventLog, stage>>
    BY <1>5 DEF EventsPanic, Panic, eventVars
  <2> QED
    BY <2>1, NumbersStay
<1>6. CASE EventsMapped
  <2>1. stage = "read_calls" /\ eventLog' = eventLog \o events /\ UNCHANGED <<callsLeft, events>>
    BY <1>6 DEF EventsMapped, At
  <2>2. ToSet(eventLog') = ToSet(eventLog) \cup ToSet(events)
    BY <2>1, ConcatOfLists DEF EventsInv
  <2>3. \A e \in ToSet(events) : DecimalEvent(e)
    BY <2>1 DEF NumbersInv
  <2> QED
    BY <2>1, <2>2, <2>3 DEF NumbersInv
<1>7. CASE (TokensNext \/ PricesNext \/ VolumesNext \/ DbNext) /\ UNCHANGED eventVars
  <2>1. UNCHANGED <<callsLeft, events, eventLog>>
    BY <1>7 DEF eventVars
  <2>2. stage' \in {"read_calls"} \cup AfterEvents => stage \in {"read_calls"} \cup AfterEvents
    BY <1>7, TokensHand, PricesHand, VolumesHand, DbHands
       DEF Hands, TokenHandlers, PriceHandlers, VolumeHandlers, DbHandlers, AfterEvents
  <2> QED
    BY <2>1, <2>2, NumbersStay
<1>8. CASE UNCHANGED <<chainVars, eventVars>>
  BY <1>8, NumbersStay DEF chainVars, eventVars
<1> QED
  BY <1>1, <1>2, <1>3, <1>4, <1>5, <1>6, <1>7, <1>8, ComponentSteps DEF EventsNext

-----------------------------------------------------------------------------
(* The accounts whose sums are followed: the key of each, and what an      *)
(* event adds to it.                                                       *)
Accounts == 1 .. 9

VolumeKeyOf(j, a, x) ==
  CASE j = 1 -> <<"global", "usd">>
    [] j = 2 -> <<"global_day", x, "usd">>
    [] j = 3 -> <<"pair", a, "usd">>
    [] j = 4 -> <<"pair_hour", x, a, "usd">>
    [] j = 5 -> <<"pair", a, "token0">>
    [] j = 6 -> <<"pair_day", x, a, "token0">>
    [] j = 7 -> <<"pair_hour", x, a, "token0">>
    [] j = 8 -> <<"pair", a, "total_supply">>
    [] j = 9 -> <<"global", "liquidity_usd">>

Concerned(j, a, x, e) ==
  /\ (e.kind = "Swap") = (j \in 1 .. 7)
  /\ j \in 3 .. 8 => e.pair = a
  /\ j \in {2, 6, 7} => e.day = x
  /\ j = 4 => e.hour = x

Signed(kind, x) == IF kind = "Burn" THEN Minus(x) ELSE x

ShareOf(j, e) ==
  CASE j \in 1 .. 4 -> e.amountUsd
    [] j \in 5 .. 7 -> Plus(e.out0, e.in0)
    [] j = 8 -> Signed(e.kind, e.liquidity)
    [] j = 9 -> Signed(e.kind, e.amountUsd)

Share(j, a, x, e) ==
  IF e.amountUsd # Zero /\ Concerned(j, a, x, e) THEN ShareOf(j, e) ELSE Zero

(* A list of keys that are all written alike.                              *)
Filed(keys, key) ==
  \E i \in DOMAIN keys : keys[i] = key /\ \A m \in DOMAIN keys : m # i => keys[m] # key
Unfiled(keys, key) == \A i \in DOMAIN keys : keys[i] # key

Books(writes, key, value) == Booked("bigfloat", writes, key, value)

LEMMA WritesBook ==
  ASSUME NEW ord, NEW keys, IsList(keys), NEW value, NEW key
  PROVE  /\ Unfiled(keys, key) => Books(Writes(ord, keys, value), key, Zero)
         /\ Filed(keys, key) /\ Decimal(value) => Books(Writes(ord, keys, value), key, value)
<1>w. PICK w : w = Writes(ord, keys, value)
  OBVIOUS
<1>1. IsList(w) /\ DOMAIN w = DOMAIN keys
  BY <1>w, ImageIsList DEF Writes
<1>2. \A i \in DOMAIN keys : w[i][2] = keys[i] /\ w[i][3] = value
  BY <1>w DEF Writes
<1>3. ASSUME Unfiled(keys, key)
      PROVE  Books(w, key, Zero)
  <2>1. \A i \in DOMAIN w : w[i][2] # key
    BY <1>1, <1>2, <1>3 DEF Unfiled
  <2> QED
    BY <1>1, <2>1, NoneBooked DEF Books, Nothing
<1>4. ASSUME Filed(keys, key), Decimal(value)
      PROVE  Books(w, key, value)
  <2>1. PICK i \in DOMAIN w : w[i][2] = key /\ \A m \in DOMAIN w : m # i => w[m][2] # key
    BY <1>1, <1>2, <1>4 DEF Filed
  <2>2. w[i][3] = value
    BY <1>1, <1>2
  <2>3. Booked("bigfloat", w, key, w[i][3])
    BY <1>1, <1>4, <2>1, <2>2, OneBooked DEF IsNumber
  <2> QED
    BY <2>2, <2>3 DEF Books
<1> QED
  BY <1>3, <1>4, <1>w

LEMMA BooksConcat ==
  ASSUME NEW s, NEW t, NEW key, NEW x, Books(s, key, x)
  PROVE  /\ Books(t, key, Zero) => Books(s \o t, key, x)
         /\ \A y : Books(t, key, y) /\ x = Zero => Books(s \o t, key, y)
<1>1. Decimal(x)
  BY BookedIsNumber DEF Books, IsNumber
<1>2. ASSUME NEW y, Books(t, key, y)
      PROVE  Books(s \o t, key, Plus(x, y)) /\ Decimal(y)
  <2>1. Decimal(y)
    BY <1>2, BookedIsNumber DEF Books, IsNumber
  <2> QED
    BY <1>2, <2>1, BookedConcat DEF Books, AddValues
<1>3. Plus(x, Zero) = x
  BY <1>1, ZeroIsDecimal, PlusIsDecimal
<1>4. \A y : Decimal(y) => Plus(Zero, y) = y
  BY PlusIsDecimal
<1> QED
  BY <1>2, <1>3, <1>4

LEMMA AccountKeys ==
  ASSUME NEW a, NEW x
  PROVE  /\ VolumeKeyOf(1, a, x) = <<"global", "usd">>
         /\ VolumeKeyOf(2, a, x) = <<"global_day", x, "usd">>
         /\ VolumeKeyOf(3, a, x) = <<"pair", a, "usd">>
         /\ VolumeKeyOf(4, a, x) = <<"pair_hour", x, a, "usd">>
         /\ VolumeKeyOf(5, a, x) = <<"pair", a, "token0">>
         /\ VolumeKeyOf(6, a, x) = <<"pair_day", x, a, "token0">>
         /\ VolumeKeyOf(7, a, x) = <<"pair_hour", x, a, "token0">>
         /\ VolumeKeyOf(8, a, x) = <<"pair", a, "total_supply">>
         /\ VolumeKeyOf(9, a, x) = <<"global", "liquidity_usd">>
BY DEF VolumeKeyOf

LEMMA AccountsAre ==
  \A j \in Accounts :
    j = 1 \/ j = 2 \/ j = 3 \/ j = 4 \/ j = 5 \/ j = 6 \/ j = 7 \/ j = 8 \/ j = 9
BY DEF Accounts

(* Where the key of an account is among those a swap writes.               *)
LEMMA UsdPlaces ==
  ASSUME NEW e, e.kind = "Swap", e.day = day, e.hour = hour, NEW j \in Accounts, NEW a, NEW x
  PROVE  /\ j \in 1 .. 4 /\ Concerned(j, a, x, e) => Filed(UsdVolumeKeys(e), VolumeKeyOf(j, a, x))
         /\ ~(j \in 1 .. 4 /\ Concerned(j, a, x, e))
              => Unfiled(UsdVolumeKeys(e), VolumeKeyOf(j, a, x))
<1>k. PICK keys : keys = UsdVolumeKeys(e)
  OBVIOUS
<1>1. /\ keys[1] = <<"pair", e.pair, "usd">>
      /\ keys[2] = <<"pair_day", day, e.pair, "usd">>
      /\ keys[3] = <<"pair_hour", hour, e.pair, "usd">>
      /\ keys[4] = <<"token_day", day, e.token0, "usd">>
      /\ keys[5] = <<"token_day", day, e.token1, "usd">>
      /\ keys[6] = <<"global", "usd">>
      /\ keys[7] = <<"global_day", day, "usd">>
      /\ DOMAIN keys = 1 .. 7
  BY <1>k DEF UsdVolumeKeys
<1>2. \A i \in 1 .. 7 : i = 1 \/ i = 2 \/ i = 3 \/ i = 4 \/ i = 5 \/ i = 6 \/ i = 7
  OBVIOUS
<1>3. CASE j = 1
  <2>1. VolumeKeyOf(1, a, x) = <<"global", "usd">> /\ 6 \in 1 .. 7
    BY AccountKeys
  <2>2. Filed(keys, VolumeKeyOf(j, a, x))
    BY <1>1, <1>2, <1>3, <2>1 DEF Filed
  <2>3. Concerned(j, a, x, e) /\ j \in 1 .. 4
    BY <1>3 DEF Concerned
  <2> QED
    BY <1>k, <2>2, <2>3
<1>4. CASE j = 2
  <2>1. VolumeKeyOf(2, a, x) = <<"global_day", x, "usd">> /\ 7 \in 1 .. 7
    BY AccountKeys
  <2>2. x = day => Filed(keys, VolumeKeyOf(j, a, x))
    BY <1>1, <1>2, <1>4, <2>1 DEF Filed
  <2>3. x # day => Unfiled(keys, VolumeKeyOf(j, a, x))
    BY <1>1, <1>2, <1>4, <2>1 DEF Unfiled
  <2>4. Concerned(j, a, x, e) <=> x = day
    BY <1>4 DEF Concerned
  <2> QED
    BY <1>k, <1>4, <2>2, <2>3, <2>4
<1>5. CASE j = 3
  <2>1. VolumeKeyOf(3, a, x) = <<"pair", a, "usd">> /\ 1 \in 1 .. 7
    BY AccountKeys
  <2>2. a = e.pair => Filed(keys, VolumeKeyOf(j, a, x))
    BY <1>1, <1>2, <1>5, <2>1 DEF Filed
  <2>3. a # e.pair => Unfiled(keys, VolumeKeyOf(j, a, x))
    BY <1>1, <1>2, <1>5, <2>1 DEF Unfiled
  <2>4. Concerned(j, a, x, e) <=> a = e.pair
    BY <1>5 DEF Concerned
  <2> QED
    BY <1>k, <1>5, <2>2, <2>3, <2>4
<1>6. CASE j = 4
  <2>1. VolumeKeyOf(4, a, x) = <<"pair_hour", x, a, "usd">> /\ 3 \in 1 .. 7
    BY AccountKeys
  <2>2. a = e.pair /\ x = hour => Filed(keys, VolumeKeyOf(j, a, x))
    BY <1>1, <1>2, <1>6, <2>1 DEF Filed
  <2>3. ~(a = e.pair /\ x = hour) => Unfiled(keys, VolumeKeyOf(j, a, x))
    BY <1>1, <1>2, <1>6, <2>1 DEF Unfiled
  <2>4. Concerned(j, a, x, e) <=> a = e.pair /\ x = hour
    BY <1>6 DEF Concerned
  <2> QED
    BY <1>k, <1>6, <2>2, <2>3, <2>4
<1>7. CASE j \notin 1 .. 4
  <2>1. /\ VolumeKeyOf(5, a, x) = <<"pair", a, "token0">>
        /\ VolumeKeyOf(6, a, x) = <<"pair_day", x, a, "token0">>
        /\ VolumeKeyOf(7, a, x) = <<"pair_hour", x, a, "token0">>
        /\ VolumeKeyOf(8, a, x) = <<"pair", a, "total_supply">>
        /\ VolumeKeyOf(9, a, x) = <<"global", "liquidity_usd">>
    BY AccountKeys
  <2>5. CASE j = 5
    BY <1>1, <1>2, <1>k, <2>1, <2>5 DEF Unfiled
  <2>6. CASE j = 6
    BY <1>1, <1>2, <1>k, <2>1, <2>6 DEF Unfiled
  <2>7. CASE j = 7
    BY <1>1, <1>2, <1>k, <2>1, <2>7 DEF Unfiled
  <2>8. CASE j = 8
    BY <1>1, <1>2, <1>k, <2>1, <2>8 DEF Unfiled
  <2>9. CASE j = 9
    BY <1>1, <1>2, <1>k, <2>1, <2>9 DEF Unfiled
  <2> QED
    BY <1>7, <2>5, <2>6, <2>7, <2>8, <2>9, AccountsAre
<1> QED
  BY <1>3, <1>4, <1>5, <1>6, <1>7, AccountsAre

LEMMA TokenPlaces ==
  ASSUME NEW e, e.kind = "Swap", e.day = day, NEW t \in {"token0", "token1"},
         NEW j \in Accounts, NEW a, NEW x
  PROVE  LET here == t = "token0" /\ j \in 5 .. 7 /\ Concerned(j, a, x, e)
         IN /\ here => Filed(TokenVolumeKeys(e, t), VolumeKeyOf(j, a, x))
            /\ ~here => Unfiled(TokenVolumeKeys(e, t), VolumeKeyOf(j, a, x))
<1>k. PICK keys : keys = TokenVolumeKeys(e, t)
  OBVIOUS
<1>1. /\ keys[1] = <<"pair", e.pair, t>>
      /\ keys[2] = <<"pair_day", day, e.pair, t>>
      /\ keys[3] = <<"pair_hour", day, e.pair, t>>
      /\ DOMAIN keys = 1 .. 3
  BY <1>k DEF TokenVolumeKeys
<1>2. \A i \in 1 .. 3 : i = 1 \/ i = 2 \/ i = 3
  OBVIOUS
<1>3. CASE t = "token0" /\ j = 5
  <2>1. VolumeKeyOf(5, a, x) = <<"pair", a, "token0">> /\ 1 \in 1 .. 3
    BY AccountKeys
  <2>2. a = e.pair => Filed(keys, VolumeKeyOf(j, a, x))
    BY <1>1, <1>2, <1>3, <2>1 DEF Filed
  <2>3. a # e.pair => Unfiled(keys, VolumeKeyOf(j, a, x))
    BY <1>1, <1>2, <1>3, <2>1 DEF Unfiled
  <2>4. Concerned(j, a, x, e) <=> a = e.pair
    BY <1>3 DEF Concerned
  <2> QED
    BY <1>k, <1>3, <2>2, <2>3, <2>4
<1>4. CASE t = "token0" /\ j = 6
  <2>1. VolumeKeyOf(6, a, x) = <<"pair_day", x, a, "token0">> /\ 2 \in 1 .. 3
    BY AccountKeys
  <2>2. a = e.pair /\ x = day => Filed(keys, VolumeKeyOf(j, a, x))
    BY <1>1, <1>2, <1>4, <2>1 DEF Filed
  <2>3. ~(a = e.pair /\ x = day) => Unfiled(keys, VolumeKeyOf(j, a, x))
    BY <1>1, <1>2, <1>4, <2>1 DEF Unfiled
  <2>4. Concerned(j, a, x, e) <=> a = e.pair /\ x = day
    BY <1>4 DEF Concerned
  <2> QED
    BY <1>k, <1>4, <2>2, <2>3, <2>4
<1>5. CASE t = "token0" /\ j = 7
  <2>1. VolumeKeyOf(7, a, x) = <<"pair_hour", x, a, "token0">> /\ 3 \in 1 .. 3
    BY AccountKeys
  <2>2. a = e.pair /\ x = day => Filed(keys, VolumeKeyOf(j, a, x))
    BY <1>1, <1>2, <1>5, <2>1 DEF Filed
  <2>3. ~(a = e.pair /\ x = day) => Unfiled(keys, VolumeKeyOf(j, a, x))
    BY <1>1, <1>2, <1>5, <2>1 DEF Unfiled
  <2>4. Concerned(j, a, x, e) <=> a = e.pair /\ x = day
    BY <1>5 DEF Concerned
  <2> QED
    BY <1>k, <1>5, <2>2, <2>3, <2>4
<1>6. CASE t = "token1" \/ j \notin 5 .. 7
  <2>1. /\ VolumeKeyOf(1, a, x) = <<"global", "usd">>
        /\ VolumeKeyOf(2, a, x) = <<"global_day", x, "usd">>
        /\ VolumeKeyOf(3, a, x) = <<"pair", a, "usd">>
        /\ VolumeKeyOf(4, a, x) = <<"pair_hour", x, a, "usd">>
    BY AccountKeys
  <2>2. /\ VolumeKeyOf(5, a, x) = <<"pair", a, "token0">>
        /\ VolumeKeyOf(6, a, x) = <<"pair_day", x, a, "token0">>
        /\ VolumeKeyOf(7, a, x) = <<"pair_hour", x, a, "token0">>
        /\ VolumeKeyOf(8, a, x) = <<"pair", a, "total_supply">>
        /\ VolumeKeyOf(9, a, x) = <<"global", "liquidity_usd">>
    BY AccountKeys
  <2>3. Unfiled(keys, VolumeKeyOf(1, a, x)) /\ Unfiled(keys, VolumeKeyOf(2, a, x))
    BY <1>1, <1>2, <2>1 DEF Unfiled
  <2>4. Unfiled(keys, VolumeKeyOf(3, a, x)) /\ Unfiled(keys, VolumeKeyOf(4, a, x))
    BY <1>1, <1>2, <2>1 DEF Unfiled
  <2>5. Unfiled(keys, VolumeKeyOf(8, a, x)) /\ Unfiled(keys, VolumeKeyOf(9, a, x))
    BY <1>1, <1>2, <2>2 DEF Unfiled
  <2>6. ASSUME t = "token1"
        PROVE  /\ Unfiled(keys, VolumeKeyOf(5, a, x)) /\ Unfiled(keys, VolumeKeyOf(6, a, x))
               /\ Unfiled(keys, VolumeKeyOf(7, a, x))
    BY <1>1, <1>2, <2>2, <2>6 DEF Unfiled
  <2>7. Unfiled(keys, VolumeKeyOf(j, a, x))
    BY <1>6, <2>3, <2>4, <2>5, <2>6, AccountsAre
  <2> QED
    BY <1>6, <1>k, <2>7
<1> QED
  BY <1>3, <1>4, <1>5, <1>6, AccountsAre

LEMMA SwapBooks ==
  ASSUME NEW e, e.kind = "Swap", e.day = day, e.hour = hour, DecimalEvent(e), e.amountUsd # Zero,
         NEW j \in Accounts, NEW a, NEW x
  PROVE  Books(SwapWrites(e), VolumeKeyOf(j, a, x), Share(j, a, x, e))
<1> DEFINE bnb == << << "global", "bnb" >>, << "global_day", day, "bnb" >> >>
           w1 == Writes(e.ord, UsdVolumeKeys(e), e.amountUsd)
           w2 == Writes(e.ord, bnb, e.amountBnb)
           w3 == Writes(e.ord, TokenVolumeKeys(e, "token0"), Plus(e.out0, e.in0))
           w4 == Writes(e.ord, TokenVolumeKeys(e, "token1"), Plus(e.out1, e.in1))
           w5 == << <<e.ord, <<"token", e.token0, "trade">>, e.tradeVolume0>>,
                    <<e.ord, <<"token", e.token1, "trade">>, e.tradeVolume1>>,
                    <<e.ord, <<"token", e.token0, "trade_usd">>, e.amountUsd>>,
                    <<e.ord, <<"token", e.token1, "trade_usd">>, e.amountUsd>> >>
           key == VolumeKeyOf(j, a, x)
           inUsd == j \in 1 .. 4 /\ Concerned(j, a, x, e)
           inToken == j \in 5 .. 7 /\ Concerned(j, a, x, e)
<1>0. Decimal(e.amountUsd) /\ Decimal(Plus(e.out0, e.in0))
  BY PlusIsDecimal DEF DecimalEvent
<1>k. /\ key[1] \in {"global", "global_day", "pair", "pair_day", "pair_hour"}
      /\ key # << "global", "bnb" >> /\ \A y : key # << "global_day", y, "bnb" >>
  <2>1. /\ VolumeKeyOf(1, a, x) = <<"global", "usd">>
        /\ VolumeKeyOf(2, a, x) = <<"global_day", x, "usd">>
        /\ VolumeKeyOf(3, a, x) = <<"pair", a, "usd">>
        /\ VolumeKeyOf(4, a, x) = <<"pair_hour", x, a, "usd">>
    BY AccountKeys
  <2>2. /\ VolumeKeyOf(5, a, x) = <<"pair", a, "token0">>
        /\ VolumeKeyOf(6, a, x) = <<"pair_day", x, a, "token0">>
        /\ VolumeKeyOf(7, a, x) = <<"pair_hour", x, a, "token0">>
        /\ VolumeKeyOf(8, a, x) = <<"pair", a, "total_supply">>
        /\ VolumeKeyOf(9, a, x) = <<"global", "liquidity_usd">>
    BY AccountKeys
  <2>3. j \in 1 .. 4 => key # << "global", "bnb" >> /\ \A y : key # << "global_day", y, "bnb" >>
    BY <2>1, AccountsAre
  <2>4. j \notin 1 .. 4 => key # << "global", "bnb" >> /\ \A y : key # << "global_day", y, "bnb" >>
    BY <2>2, AccountsAre
  <2>5. key[1] \in {"global", "global_day", "pair", "pair_day", "pair_hour"}
    BY <2>1, <2>2, AccountsAre
  <2> QED
    BY <2>3, <2>4, <2>5
<1> HIDE DEF key
<1>1. (inUsd => Books(w1, key, e.amountUsd)) /\ (~inUsd => Books(w1, key, Zero))
  BY <1>0, UsdPlaces, UsdKeysAre, WritesBook DEF key
<1>2. Books(w2, key, Zero)
  <2>1. bnb = [i \in 1 .. 2 |-> bnb[i]]
    OBVIOUS
  <2>2. \A i \in 1 .. 2 : bnb[i] # key
    BY <1>k
  <2> HIDE DEF bnb
  <2>3. IsList(bnb) /\ DOMAIN bnb = 1 .. 2
    BY <2>1, FunctionIsList
  <2> QED
    BY <2>2, <2>3, WritesBook DEF Unfiled
<1>3. /\ inToken => Books(w3, key, Plus(e.out0, e.in0))
      /\ ~inToken => Books(w3, key, Zero)
  BY <1>0, TokenPlaces, TokenKeysAre, WritesBook DEF key
<1>4. Books(w4, key, Zero)
  BY TokenPlaces, TokenKeysAre, WritesBook DEF key
<1>5. Books(w5, key, Zero)
  <2>1. w5 = [i \in 1 .. 4 |-> w5[i]]
    OBVIOUS
  <2>2. \A i \in 1 .. 4 : w5[i][2] # key
    BY <1>k
  <2> HIDE DEF w5
  <2>3. IsList(w5) /\ DOMAIN w5 = 1 .. 4
    BY <2>1, FunctionIsList
  <2> QED
    BY <2>2, <2>3, NoneBooked DEF Books, Nothing
<1>6. SwapWrites(e) = w1 \o w2 \o w3 \o w4 \o w5
  BY DEF SwapWrites
<1> HIDE DEF w1, w2, w3, w4, w5
<1>7. CASE inUsd
  <2>1. Books(w1, key, e.amountUsd) /\ Books(w3, key, Zero)
    BY <1>1, <1>3, <1>7
  <2>2. Books(w1 \o w2, key, e.amountUsd)
    BY <1>2, <2>1, BooksConcat
  <2>3. Books(w1 \o w2 \o w3, key, e.amountUsd)
    BY <2>1, <2>2, BooksConcat
  <2>4. Books(w1 \o w2 \o w3 \o w4, key, e.amountUsd)
    BY <1>4, <2>3, BooksConcat
  <2>5. Books(w1 \o w2 \o w3 \o w4 \o w5, key, e.amountUsd)
    BY <1>5, <2>4, BooksConcat
  <2>6. Share(j, a, x, e) = e.amountUsd
    BY <1>7 DEF Share, ShareOf
  <2> QED
    BY <1>6, <2>5, <2>6 DEF key
<1>8. CASE ~inUsd
  <2>1. Books(w1, key, Zero)
    BY <1>1, <1>8
  <2>2. Books(w1 \o w2, key, Zero)
    BY <1>2, <2>1, BooksConcat
  <2>3. PICK y : /\ Books(w3, key, y)
                 /\ y = IF inToken THEN Plus(e.out0, e.in0) ELSE Zero
    BY <1>3
  <2>4. Books(w1 \o w2 \o w3, key, y)
    BY <2>2, <2>3, BooksConcat
  <2>5. Books(w1 \o w2 \o w3 \o w4, key, y)
    BY <1>4, <2>4, BooksConcat
  <2>6. Books(w1 \o w2 \o w3 \o w4 \o w5, key, y)
    BY <1>5, <2>5, BooksConcat
  <2>7. Share(j, a, x, e) = y
    <3>1. CASE inToken
      <4>1. j \notin 1 .. 4 /\ j \in 5 .. 7
        BY <3>1
      <4>2. ShareOf(j, e) = Plus(e.out0, e.in0)
        BY <4>1 DEF ShareOf
      <4> QED
        BY <2>3, <3>1, <4>2 DEF Share
    <3>2. CASE ~inToken
      <4>1. Concerned(j, a, x, e) => j \in 1 .. 7
        BY DEF Concerned
      <4>2. ~Concerned(j, a, x, e)
        BY <1>8, <3>2, <4>1
      <4> QED
        BY <2>3, <3>2, <4>2 DEF Share
    <3> QED
      BY <3>1, <3>2
  <2> QED
    BY <1>6, <2>6, <2>7 DEF key
<1> QED
  BY <1>7, <1>8

(* A mint or a burn.                                                       *)
LEMMA LiquidityBooks ==
  ASSUME NEW e, NEW dollars, NEW liquidity, Decimal(dollars), Decimal(liquidity),
         NEW j \in Accounts, NEW a, NEW x
  PROVE  Books(LiquidityWrites(e, dollars, liquidity), VolumeKeyOf(j, a, x),
               IF j = 9 THEN dollars ELSE IF j = 8 /\ e.pair = a THEN liquidity ELSE Zero)
<1> DEFINE one == << << e.ord, << "global", "liquidity_usd" >>, dollars >> >>
           keys == << << "token", e.to, "liquidity" >>, << "pair", e.pair, "total_supply" >> >>
           two == Writes(e.ord, keys, liquidity)
           key == VolumeKeyOf(j, a, x)
<1>1. /\ j # 9 => key # << "global", "liquidity_usd" >>
      /\ j = 9 => key = << "global", "liquidity_usd" >>
      /\ \A y : key # << "token", y, "liquidity" >>
      /\ j = 8 => key = << "pair", a, "total_supply" >>
      /\ j # 8 => key # << "pair", e.pair, "total_supply" >>
  <2>1. /\ VolumeKeyOf(1, a, x) = <<"global", "usd">>
        /\ VolumeKeyOf(2, a, x) = <<"global_day", x, "usd">>
        /\ VolumeKeyOf(3, a, x) = <<"pair", a, "usd">>
        /\ VolumeKeyOf(4, a, x) = <<"pair_hour", x, a, "usd">>
    BY AccountKeys
  <2>2. /\ VolumeKeyOf(5, a, x) = <<"pair", a, "token0">>
        /\ VolumeKeyOf(6, a, x) = <<"pair_day", x, a, "token0">>
        /\ VolumeKeyOf(7, a, x) = <<"pair_hour", x, a, "token0">>
        /\ VolumeKeyOf(8, a, x) = <<"pair", a, "total_supply">>
        /\ VolumeKeyOf(9, a, x) = <<"global", "liquidity_usd">>
    BY AccountKeys
  <2>3. CASE j \in 1 .. 4
    BY <2>1, <2>3, AccountsAre
  <2>4. CASE j \notin 1 .. 4
    BY <2>2, <2>4, AccountsAre
  <2> QED
    BY <2>3, <2>4
<1> HIDE DEF key
<1>2. (j = 9 => Books(one, key, dollars)) /\ (j # 9 => Books(one, key, Zero))
  <2>1. IsList(one) /\ DOMAIN one = 1 .. 1
    <3>1. one = [i \in 1 .. 1 |-> one[i]]
      OBVIOUS
    <3> HIDE DEF one
    <3> QED
      BY <3>1, FunctionIsList
  <2>2. one[1][2] = << "global", "liquidity_usd" >> /\ one[1][3] = dollars
    OBVIOUS
  <2>3. 1 \in 1 .. 1 /\ \A i \in 1 .. 1 : i = 1
    OBVIOUS
  <2> HIDE DEF one
  <2>4. ASSUME j = 9
        PROVE  Books(one, key, dollars)
    <3>1. Booked("bigfloat", one, key, one[1][3])
      BY <1>1, <2>1, <2>2, <2>3, <2>4, OneBooked DEF IsNumber
    <3> QED
      BY <2>2, <3>1 DEF Books
  <2>5. ASSUME j # 9
        PROVE  Books(one, key, Zero)
    BY <1>1, <2>1, <2>2, <2>3, <2>5, NoneBooked DEF Books, Nothing
  <2> QED
    BY <2>4, <2>5
<1>3. /\ j = 8 /\ e.pair = a => Books(two, key, liquidity)
      /\ ~(j = 8 /\ e.pair = a) => Books(two, key, Zero)
  <2>1. keys = [i \in 1 .. 2 |-> keys[i]]
    OBVIOUS
  <2>2. /\ keys[1] = << "token", e.to, "liquidity" >>
        /\ keys[2] = << "pair", e.pair, "total_supply" >>
    OBVIOUS
  <2>3. 2 \in 1 .. 2 /\ \A i \in 1 .. 2 : i = 1 \/ i = 2
    OBVIOUS
  <2> HIDE DEF keys
  <2>4. IsList(keys) /\ DOMAIN keys = 1 .. 2
    BY <2>1, FunctionIsList
  <2>5. ASSUME j = 8, e.pair = a
        PROVE  Filed(keys, key)
    BY <1>1, <2>2, <2>3, <2>4, <2>5 DEF Filed
  <2>6. ASSUME ~(j = 8 /\ e.pair = a)
        PROVE  Unfiled(keys, key)
    BY <1>1, <2>2, <2>3, <2>4, <2>6 DEF Unfiled
  <2> QED
    BY <2>4, <2>5, <2>6, WritesBook
<1>4. LiquidityWrites(e, dollars, liquidity) = one \o two
  BY DEF LiquidityWrites
<1> HIDE DEF one, two
<1>5. CASE j = 9
  <2>1. Books(one \o two, key, dollars)
    BY <1>2, <1>3, <1>5, BooksConcat
  <2> QED
    BY <1>4, <1>5, <2>1 DEF key
<1>6. CASE j # 9
  <2>1. PICK y : /\ Books(two, key, y)
                 /\ y = IF j = 8 /\ e.pair = a THEN liquidity ELSE Zero
    BY <1>3
  <2>2. Books(one \o two, key, y)
    BY <1>2, <1>6, <2>1, BooksConcat
  <2> QED
    BY <1>4, <1>6, <2>1, <2>2 DEF key
<1> QED
  BY <1>5, <1>6

LEMMA VolumeBooks ==
  ASSUME NEW e, e.kind \in Kinds, e.day = day, e.hour = hour, DecimalEvent(e),
         NEW j \in Accounts, NEW a, NEW x
  PROVE  Books(VolumeWrites(e), VolumeKeyOf(j, a, x), Share(j, a, x, e))
<1>1. e.kind = "Mint" \/ e.kind = "Burn" \/ e.kind = "Swap"
  BY DEF Kinds
<1>2. VolumeWrites(e) = IF e.amountUsd = Zero THEN <<>>
                        ELSE IF e.kind = "Mint" THEN MintWrites(e)
                        ELSE IF e.kind = "Burn" THEN BurnWrites(e) ELSE SwapWrites(e)
  BY <1>1 DEF VolumeWrites
<1>3. CASE e.amountUsd = Zero
  <2>1. VolumeWrites(e) = <<>> /\ Share(j, a, x, e) = Zero
    BY <1>2, <1>3 DEF Share
  <2>2. Booked("bigfloat", <<>>, VolumeKeyOf(j, a, x), Nothing("bigfloat"))
    BY EmptyIsList, NoneBooked
  <2> QED
    BY <2>1, <2>2 DEF Books, Nothing
<1>4. CASE e.amountUsd # Zero /\ e.kind = "Swap"
  BY <1>2, <1>4, SwapBooks
<1>5. CASE e.amountUsd # Zero /\ e.kind # "Swap"
  <2>1. PICK u, l : u = Signed(e.kind, e.amountUsd) /\ l = Signed(e.kind, e.liquidity)
    OBVIOUS
  <2>2. VolumeWrites(e) = LiquidityWrites(e, u, l)
    BY <1>1, <1>2, <1>5, <2>1 DEF MintWrites, BurnWrites, BurnedLiquidity, Signed
  <2>3. Decimal(u) /\ Decimal(l)
    BY <1>5, <2>1, MinusIsDecimal DEF DecimalEvent, Signed
  <2>4. Books(VolumeWrites(e), VolumeKeyOf(j, a, x),
              IF j = 9 THEN u ELSE IF j = 8 /\ e.pair = a THEN l ELSE Zero)
    BY <2>2, <2>3, LiquidityBooks
  <2>5. Share(j, a, x, e) = IF j = 9 THEN u ELSE IF j = 8 /\ e.pair = a THEN l ELSE Zero
    <3>1. CASE j = 9
      <4>1. Concerned(j, a, x, e)
        BY <1>5, <3>1 DEF Concerned
      <4>2. j \notin 1 .. 4 /\ j \notin 5 .. 7 /\ j # 8
        BY <3>1
      <4>3. ShareOf(j, e) = u
        BY <2>1, <3>1, <4>2 DEF ShareOf
      <4> QED
        BY <1>5, <3>1, <4>1, <4>3 DEF Share
    <3>2. CASE j = 8
      <4>1. Concerned(j, a, x, e) <=> e.pair = a
        BY <1>5, <3>2 DEF Concerned
      <4>2. j \notin 1 .. 4 /\ j \notin 5 .. 7
        BY <3>2
      <4>3. ShareOf(j, e) = l
        BY <2>1, <3>2, <4>2 DEF ShareOf
      <4> QED
        BY <1>5, <3>2, <4>1, <4>3 DEF Share
    <3>3. CASE j # 9 /\ j # 8
      <4>1. j \in 1 .. 7
        BY <3>3 DEF Accounts
      <4>2. ~Concerned(j, a, x, e)
        BY <1>5, <4>1 DEF Concerned
      <4> QED
        BY <3>3, <4>2 DEF Share
    <3> QED
      BY <3>1, <3>2, <3>3
  <2> QED
    BY <2>4, <2>5
<1> QED
  BY <1>3, <1>4, <1>5

-----------------------------------------------------------------------------
(* An account of a store holds the total of what the first n events add.   *)
Shares(log, n, j, a, x) == [i \in 1 .. n |-> Share(j, a, x, log[i])]
SumsTo(store, log, n, j, a, x) ==
  HeldValue("bigfloat", store, VolumeKeyOf(j, a, x)) = Total("bigfloat", Shares(log, n, j, a, x))

DecimalEvents(log, n) == \A i \in 1 .. n : DecimalEvent(log[i]) /\ log[i].kind \in Kinds

LEMMA ShareIsDecimal ==
  ASSUME NEW e, DecimalEvent(e), e.kind \in Kinds, NEW j \in Accounts, NEW a, NEW x
  PROVE  Decimal(Share(j, a, x, e))
<1>1. CASE e.amountUsd # Zero /\ Concerned(j, a, x, e)
  <2>1. CASE j \in 1 .. 4
    <3>1. ShareOf(j, e) = e.amountUsd
      BY <2>1 DEF ShareOf
    <3> QED
      BY <1>1, <3>1 DEF Share, DecimalEvent
  <2>2. CASE j \in 5 .. 7
    <3>1. j \notin 1 .. 4
      BY <2>2
    <3>2. ShareOf(j, e) = Plus(e.out0, e.in0)
      BY <2>2, <3>1 DEF ShareOf
    <3>3. e.kind = "Swap"
      BY <1>1, <2>2 DEF Concerned
    <3> QED
      BY <1>1, <3>2, <3>3, PlusIsDecimal DEF Share, DecimalEvent
  <2>3. CASE j = 8 \/ j = 9
    <3>1. j \notin 1 .. 4 /\ j \notin 5 .. 7 /\ j \notin 1 .. 7
      BY <2>3
    <3>2. e.kind # "Swap"
      BY <1>1, <3>1 DEF Concerned
    <3>3. Decimal(e.amountUsd) /\ Decimal(e.liquidity)
      BY <3>2 DEF DecimalEvent
    <3>4. Decimal(Signed(e.kind, e.amountUsd)) /\ Decimal(Signed(e.kind, e.liquidity))
      BY <3>3, MinusIsDecimal DEF Signed
    <3>5. CASE j = 8
      BY <1>1, <3>1, <3>4, <3>5 DEF Share, ShareOf
    <3>6. CASE j = 9
      <4>1. j # 8
        BY <3>6
      <4>2. ShareOf(j, e) = Signed(e.kind, e.amountUsd)
        BY <3>1, <3>6, <4>1 DEF ShareOf
      <4> QED
        BY <1>1, <3>4, <4>2 DEF Share
    <3> QED
      BY <2>3, <3>5, <3>6
  <2> QED
    BY <2>1, <2>2, <2>3, AccountsAre
<1>2. CASE ~(e.amountUsd # Zero /\ Concerned(j, a, x, e))
  BY <1>2, ZeroIsDecimal DEF Share
<1> QED
  BY <1>1, <1>2

LEMMA SumsOfSame ==
  ASSUME NEW store, NEW new, new.kv = store.kv, NEW n \in Nat, NEW log, NEW longer,
         Alike(log, longer, n), NEW j, NEW a, NEW x, SumsTo(store, log, n, j, a, x)
  PROVE  SumsTo(new, longer, n, j, a, x)
<1>1. Shares(log, n, j, a, x) = Shares(longer, n, j, a, x)
  BY DEF Shares, Alike
<1>2. HeldValue("bigfloat", new, VolumeKeyOf(j, a, x))
        = HeldValue("bigfloat", store, VolumeKeyOf(j, a, x))
  BY DEF HeldValue, Has
<1> QED
  BY <1>1, <1>2 DEF SumsTo

LEMMA SumsGrow ==
  ASSUME NEW store, NEW log, NEW n \in Nat, NEW j \in Accounts, NEW a, NEW x,
         SumsTo(store, log, n, j, a, x), DecimalEvents(log, n), NEW writes,
         Books(writes, VolumeKeyOf(j, a, x), Share(j, a, x, log[n + 1]))
  PROVE  SumsTo(AddAll(store, writes, "bigfloat"), log, n + 1, j, a, x)
<1>k. PICK key : key = VolumeKeyOf(j, a, x)
  OBVIOUS
<1>s. PICK s, u : s = Shares(log, n, j, a, x) /\ u = Shares(log, n + 1, j, a, x)
  OBVIOUS
<1>p. PICK p : p = Parts("bigfloat", writes, key)
  OBVIOUS
<1>1. /\ IsList(writes) /\ CountsUp("bigfloat", writes, key)
      /\ Total("bigfloat", p) = Share(j, a, x, log[n + 1])
  BY <1>k, <1>p DEF Books, Booked
<1>2. PICK k \in Nat : DOMAIN writes = 1 .. k
  BY <1>1, ListHasLength DEF HasLength
<1>3. /\ DOMAIN s = 1 .. n /\ DOMAIN u = 1 .. n + 1
      /\ \A i \in 1 .. n : s[i] = Share(j, a, x, log[i])
      /\ \A i \in 1 .. n + 1 : u[i] = Share(j, a, x, log[i])
  BY <1>s DEF Shares
<1>4. Alike(s, u, n)
  BY <1>3 DEF Alike
<1>5. Total("bigfloat", u) = AddValues("bigfloat", Total("bigfloat", s), u[n + 1])
  BY <1>3, <1>4, TotalGrows
<1>6. u[n + 1] = Total("bigfloat", p)
  <2>1. n + 1 \in 1 .. n + 1
    OBVIOUS
  <2> QED
    BY <1>1, <1>3, <2>1
<1>7. HeldValue("bigfloat", store, key) = Total("bigfloat", s)
  BY <1>k, <1>s DEF SumsTo
<1>8. IsNumber("bigfloat", HeldValue("bigfloat", store, key))
  <2>1. \A i \in 1 .. n : IsNumber("bigfloat", s[i])
    BY <1>3, ShareIsDecimal DEF DecimalEvents, IsNumber
  <2> QED
    BY <1>3, <1>7, <2>1, TotalIsNumber
<1>9. HeldValue("bigfloat", AddAll(store, writes, "bigfloat"), key)
        = AddValues("bigfloat", HeldValue("bigfloat", store, key), Total("bigfloat", p))
  <2>1. Adds("bigfloat")
    BY DEF Adds
  <2> QED
    BY <1>1, <1>2, <1>8, <1>p, <2>1, AddedToKey
<1> QED
  BY <1>5, <1>6, <1>7, <1>9, <1>k, <1>s DEF SumsTo

(* Deletion leaves an account it does not name, and an empty one.          *)
LEMMA SumsOfRest ==
  ASSUME NEW store, IsStore(store), NEW n \in Nat, NEW prefixes, DOMAIN prefixes = 1 .. n,
         NEW log, NEW m \in Nat, NEW j, NEW a, NEW x, SumsTo(store, log, m, j, a, x),
         \/ \A i \in 1 .. n : ~HasPrefix(VolumeKeyOf(j, a, x), prefixes[i])
         \/ \A i \in 1 .. m : Share(j, a, x, log[i]) = Zero
  PROVE  SumsTo(DeletePrefixes(store, prefixes), log, m, j, a, x)
<1>k. PICK key : key = VolumeKeyOf(j, a, x)
  OBVIOUS
<1>s. PICK s : s = Shares(log, m, j, a, x)
  OBVIOUS
<1>n. PICK new : new = DeletePrefixes(store, prefixes)
  OBVIOUS
<1>1. /\ \A k : k \in DOMAIN new.kv <=>
                  k \in DOMAIN store.kv /\ \A i \in 1 .. n : ~HasPrefix(k, prefixes[i])
      /\ \A k \in DOMAIN new.kv : new.kv[k] = store.kv[k]
  BY <1>n, DeletePrefixesIsStore
<1>2. HeldValue("bigfloat", store, key) = Total("bigfloat", s)
  BY <1>k, <1>s DEF SumsTo
<1>3. HeldValue("bigfloat", new, key) = Total("bigfloat", s)
  <2>1. CASE \A i \in 1 .. n : ~HasPrefix(key, prefixes[i])
    BY <1>1, <1>2, <2>1 DEF HeldValue, Has
  <2>2. CASE \A i \in 1 .. m : Share(j, a, x, log[i]) = Zero
    <3>1. DOMAIN s = 1 .. m /\ \A i \in 1 .. m : s[i] = Nothing("bigfloat")
      BY <1>s, <2>2 DEF Shares, Nothing
    <3>2. Total("bigfloat", s) = Nothing("bigfloat")
      BY <3>1, TotalOfNothings
    <3> QED
      BY <1>1, <1>2, <3>2 DEF HeldValue, Has
  <2> QED
    BY <1>k, <2>1, <2>2
<1> QED
  BY <1>3, <1>k, <1>n, <1>s DEF SumsTo

-----------------------------------------------------------------------------
(* The events of the log that are added: all but those that wait.          *)
Unadded ==
  CASE stage \in {"store_totals", "count_events", "store_volumes"} -> events
    [] stage = "add_volumes" -> todoEvents
    [] OTHER -> <<>>
Summed == Len(eventLog) - Len(Unadded)

(* What is filed under a period is kept up while the period lasts.         *)
Lasts(j, x) ==
  /\ j \in {2, 6, 7} => x \in Nat /\ x >= day
  /\ j = 4 => x \in Nat /\ x >= hour

VolumeSumInv ==
  /\ hour > 2
  /\ Summed \in Nat
  /\ \A i \in 1 .. Len(Unadded) : eventLog[Summed + i] = Unadded[i]
  /\ \A j \in Accounts : \A a, x : Lasts(j, x) => SumsTo(volumeStore, eventLog, Summed, j, a, x)

LEMMA VolumeSumStart == Init => VolumeSumInv
<1> SUFFICES ASSUME Init PROVE VolumeSumInv
  OBVIOUS
<1>1. eventLog = <<>> /\ volumeStore = EmptyStore /\ stage = "idle" /\ hour > 2
  BY ClockAssumption DEF Init, EventsInit, VolumesInit, ChainInit
<1>2. Unadded = <<>> /\ Len(eventLog) = 0 /\ Len(Unadded) = 0
  BY <1>1, EmptyIsList DEF Unadded
<1>3. Summed = 0
  <2>1. Summed = 0 - 0
    BY <1>2, Zenon DEF Summed
  <2> QED
    BY <2>1
<1>4. DOMAIN EmptyStore.kv = {}
  BY EmptyStoreIsStore DEF Keys
<1>5. ASSUME NEW j \in Accounts, NEW a, NEW x
      PROVE  SumsTo(volumeStore, eventLog, 0, j, a, x)
  <2>1. HeldValue("bigfloat", volumeStore, VolumeKeyOf(j, a, x)) = Zero
    BY <1>1, <1>4 DEF HeldValue, Has, Nothing
  <2>2. PICK s : s = Shares(eventLog, 0, j, a, x)
    OBVIOUS
  <2>3. DOMAIN s = {}
    BY <2>2 DEF Shares
  <2>4. Total("bigfloat", s) = Zero
    BY <2>3, TotalOfNone DEF Nothing
  <2> QED
    BY <2>1, <2>2, <2>4 DEF SumsTo
<1>6. 1 .. Len(Unadded) = {}
  BY <1>2
<1> QED
  BY <1>1, <1>3, <1>5, <1>6 DEF VolumeSumInv

(* A period that lasts has lasted.                                         *)
LEMMA PeriodsLast ==
  ASSUME hour \in Nat, hour' \in Nat, hour <= hour'
  PROVE  \A j, x : Lasts(j, x)' => Lasts(j, x)
<1>1. day = DayOf(hour) /\ day' = DayOf(hour')
  BY DEF day, DayOf
<1>2. day \in Nat /\ day' \in Nat /\ day <= day'
  <2>1. PICK g, h \in Nat : g = hour /\ h = hour' /\ g <= h
    OBVIOUS
  <2>2. DayOf(g) \in Nat /\ DayOf(h) \in Nat /\ DayOf(g) <= DayOf(h)
    BY <2>1, DayIs, DaysInOrder
  <2> QED
    BY <1>1, <2>1, <2>2 DEF DayOf
<1>3. ASSUME NEW j, NEW x, Lasts(j, x)'
      PROVE  Lasts(j, x)
  <2>1. j \in {2, 6, 7} => x \in Nat /\ x >= day'
    BY <1>3 DEF Lasts
  <2>2. j = 4 => x \in Nat /\ x >= hour'
    BY <1>3 DEF Lasts
  <2> QED
    BY <1>2, <2>1, <2>2 DEF Lasts
<1> QED
  BY <1>3

LEMMA SameVolumeSums ==
  ASSUME VolumeSumInv, hour \in Nat, hour' \in Nat, hour <= hour',
         UNCHANGED <<volumeStore, eventLog>>, Unadded' = Unadded
  PROVE  VolumeSumInv'
<1>1. Summed' = Summed
  BY DEF Summed
<1>2. Summed' \in Nat /\ hour' > 2
  BY <1>1 DEF VolumeSumInv
<1>3. \A i \in 1 .. Len(Unadded') : eventLog'[Summed' + i] = Unadded'[i]
  BY <1>1 DEF VolumeSumInv
<1>4. ASSUME NEW j \in Accounts, NEW a, NEW x, Lasts(j, x)'
      PROVE  SumsTo(volumeStore', eventLog', Summed', j, a, x)
  <2>1. Lasts(j, x)
    BY <1>4, PeriodsLast
  <2>2. SumsTo(volumeStore, eventLog, Summed, j, a, x)
    BY <2>1 DEF VolumeSumInv
  <2> QED
    BY <1>1, <2>2
<1> QED
  BY <1>2, <1>3, <1>4 DEF VolumeSumInv

LEMMA EventsUnadded ==
  ASSUME ChainInv, EventsInv, VolumeSumInv, EventsMapped, UNCHANGED volumeStore
  PROVE  VolumeSumInv'
<1>1. /\ stage = "read_calls" /\ stage' = "store_totals"
      /\ eventLog' = eventLog \o events /\ UNCHANGED <<events, hour>>
  BY DEF EventsMapped, At, Then
<1>2. Unadded = <<>> /\ Unadded' = events /\ Len(<<>>) = 0
  BY <1>1, EmptyIsList DEF Unadded
<1>3. IsList(eventLog) /\ IsList(events)
  BY DEF EventsInv
<1>4. Len(eventLog) \in Nat /\ Len(events) \in Nat
  BY <1>3, ListHasLength DEF HasLength
<1>5. /\ Len(eventLog') = Len(eventLog) + Len(events)
      /\ \A i \in 1 .. Len(eventLog) : eventLog'[i] = eventLog[i]
      /\ \A i \in 1 .. Len(events) : eventLog'[Len(eventLog) + i] = events[i]
  BY <1>1, <1>3, ConcatOfLists
<1>6. Summed = Len(eventLog)
  BY <1>2, <1>4 DEF Summed
<1>7. Summed' = Len(eventLog)
  BY <1>2, <1>4, <1>5 DEF Summed
<1>n. PICK n \in Nat : n = Summed
  BY <1>4, <1>6
<1>8. PICK log, longer, store : log = eventLog /\ longer = eventLog' /\ store = volumeStore
  OBVIOUS
<1>9. Alike(log, longer, n)
  BY <1>5, <1>6, <1>8, <1>n DEF Alike
<1>10. ASSUME NEW j \in Accounts, NEW a, NEW x, Lasts(j, x)'
       PROVE  SumsTo(volumeStore', eventLog', Summed', j, a, x)
  <2>1. hour \in Nat /\ hour' \in Nat /\ hour <= hour'
    BY <1>1 DEF ChainInv
  <2>2. Lasts(j, x)
    BY <1>10, <2>1, PeriodsLast
  <2>3. SumsTo(store, log, n, j, a, x)
    BY <1>8, <1>n, <2>2 DEF VolumeSumInv
  <2>4. SumsTo(store, longer, n, j, a, x)
    BY <1>9, <2>3, SumsOfSame
  <2> QED
    BY <1>6, <1>7, <1>8, <1>n, <2>4
<1>11. hour' > 2 /\ Summed' \in Nat
  BY <1>1, <1>4, <1>7 DEF VolumeSumInv
<1> QED
  BY <1>2, <1>5, <1>7, <1>10, <1>11 DEF VolumeSumInv

(* The day is not the hour before, so what store_volumes deletes by the    *)
(* hour is nothing that is filed under the day.                            *)
LEMMA HourBeforeIsLater ==
  ASSUME NEW h \in Nat, h > 2
  PROVE  DayOf(h) < h - 1
<1>1. HoursPerDay \in Nat /\ HoursPerDay >= 2
  BY ClockAssumption
<1> DEFINE d == DayOf(h)
<1>2. d \in Nat /\ HoursPerDay * d <= h
  BY DayIs
<1> HIDE DEF d
<1>3. 2 * d <= HoursPerDay * d
  BY <1>1, <1>2
<1>4. PICK m \in Nat : m = HoursPerDay * d /\ m <= h /\ 2 * d <= m
  BY <1>1, <1>2, <1>3
<1>5. d < h - 1
  BY <1>2, <1>4
<1> QED
  BY <1>5 DEF d

LEMMA PrefixesOfVolumes ==
  ASSUME NEW p, p = VolumePrefixes, NEW j \in Accounts, NEW a, NEW x, Lasts(j, x),
         hour \in Nat, day \in Nat
  PROVE  \/ \A i \in 1 .. 4 : ~HasPrefix(VolumeKeyOf(j, a, x), p[i])
         \/ j = 7 /\ x = hour - 1
<1>1. /\ p[1] = << "pair_day", day - 1 >> /\ p[2] = << "token_day", day - 1 >>
      /\ p[3] = << "pair_hour", hour - 1 >> /\ p[4] = << "global_day", day - 1 >>
  BY DEF VolumePrefixes
<1>k. PICK k : k = VolumeKeyOf(j, a, x)
  OBVIOUS
<1>2. SUFFICES ASSUME ~(j = 7 /\ x = hour - 1)
               PROVE  /\ ~HasPrefix(k, p[1]) /\ ~HasPrefix(k, p[2])
                      /\ ~HasPrefix(k, p[3]) /\ ~HasPrefix(k, p[4])
  <2>1. \A i \in 1 .. 4 : i = 1 \/ i = 2 \/ i = 3 \/ i = 4
    OBVIOUS
  <2> QED
    BY <1>k, <2>1
<1>3. CASE j \in {1, 3, 5, 8, 9}
  <2>1. k[1] = "global" \/ k[1] = "pair"
    BY <1>3, <1>k, AccountKeys
  <2> QED
    BY <1>1, <2>1 DEF HasPrefix
<1>4. CASE j = 2
  <2>1. k[1] = "global_day" /\ k[2] = x
    BY <1>4, <1>k, AccountKeys
  <2>2. x \in Nat /\ x # day - 1
    BY <1>4 DEF Lasts
  <2> QED
    BY <1>1, <2>1, <2>2 DEF HasPrefix
<1>5. CASE j = 4
  <2>1. k[1] = "pair_hour" /\ k[2] = x
    BY <1>5, <1>k, AccountKeys
  <2>2. x \in Nat /\ x # hour - 1
    BY <1>5 DEF Lasts
  <2> QED
    BY <1>1, <2>1, <2>2 DEF HasPrefix
<1>6. CASE j = 6
  <2>1. k[1] = "pair_day" /\ k[2] = x
    BY <1>6, <1>k, AccountKeys
  <2>2. x \in Nat /\ x # day - 1
    BY <1>6 DEF Lasts
  <2> QED
    BY <1>1, <2>1, <2>2 DEF HasPrefix
<1>7. CASE j = 7
  <2>1. k[1] = "pair_hour" /\ k[2] = x
    BY <1>7, <1>k, AccountKeys
  <2> QED
    BY <1>1, <1>2, <1>7, <2>1 DEF HasPrefix
<1> QED
  BY <1>3, <1>4, <1>5, <1>6, <1>7, AccountsAre

(* No event is of a day that is not there yet.                             *)
LEMMA NothingOfLater ==
  ASSUME NEW log, NEW m \in Nat, NEW d \in Nat,
         \A i \in 1 .. m : log[i].day \in Nat /\ log[i].day <= d,
         NEW x \in Nat, x > d, NEW a
  PROVE  \A i \in 1 .. m : Share(7, a, x, log[i]) = Zero
<1>1. ASSUME NEW i \in 1 .. m
      PROVE  ~Concerned(7, a, x, log[i])
  <2>1. log[i].day # x
    OBVIOUS
  <2> QED
    BY <2>1 DEF Concerned
<1> QED
  BY <1>1 DEF Share

LEMMA DaysOfLog ==
  ASSUME ChainInv, EventsInv
  PROVE  /\ day \in Nat
         /\ \A e \in ToSet(eventLog) : e.kind \in Kinds /\ e.day \in Nat /\ e.day <= day
<1>1. hour \in Nat /\ day = DayOf(hour) /\ day \in Nat
  BY DayIs DEF ChainInv, day, DayOf
<1>2. ASSUME NEW e \in ToSet(eventLog)
      PROVE  e.kind \in Kinds /\ e.day \in Nat /\ e.day <= day
  <2>1. e.kind \in Kinds /\ e.hour \in Nat /\ e.hour <= hour /\ e.day = DayOf(e.hour)
    BY DEF EventsInv, EventLogged
  <2> QED
    BY <1>1, <2>1, DaysInOrder, DayIs
<1> QED
  BY <1>1, <1>2

LEMMA SummedInLog ==
  ASSUME EventsInv, VolumesInv, VolumeSumInv
  PROVE  \A i \in 1 .. Summed : eventLog[i] \in ToSet(eventLog)
<1>1. IsList(Unadded)
  BY EmptyIsList DEF Unadded, EventsInv, VolumesInv
<1>2. Len(Unadded) \in Nat /\ Len(eventLog) \in Nat /\ DOMAIN eventLog = 1 .. Len(eventLog)
  BY <1>1, ListHasLength DEF HasLength, EventsInv
<1>3. Summed \in Nat /\ Summed <= Len(eventLog)
  BY <1>2 DEF Summed, VolumeSumInv
<1> QED
  BY <1>2, <1>3 DEF ToSet

LEMMA SumsStarted ==
  ASSUME ChainInv, EventsInv, VolumesInv, VolumeSumInv, StartVolumes, UNCHANGED eventVars
  PROVE  VolumeSumInv'
<1>1. /\ stage = "store_volumes" /\ stage' = "add_volumes" /\ todoEvents' = events
      /\ UNCHANGED <<events, eventLog, hour>>
  BY DEF StartVolumes, At, Then, eventVars
<1>2. Unadded = events /\ Unadded' = events
  BY <1>1 DEF Unadded
<1>3. Summed' = Summed /\ Summed \in Nat /\ hour > 2
  BY <1>1, <1>2 DEF Summed, VolumeSumInv
<1>p. PICK p : p = VolumePrefixes
  OBVIOUS
<1>m. PICK m \in Nat : m = Summed
  BY <1>3
<1>l. PICK log : log = eventLog
  OBVIOUS
<1>s. PICK store, old : store = volumeStore /\ old = NextBlock(store)
  OBVIOUS
<1>n. PICK n \in Nat : n = 4 /\ DOMAIN p = 1 .. n
  BY <1>p DEF VolumePrefixes
<1>4. IsStore(old) /\ old.kv = store.kv
  BY <1>s, NextBlockIsStore DEF VolumesInv
<1>5. volumeStore' = old \/ volumeStore' = DeletePrefixes(old, p)
  BY <1>p, <1>s DEF StartVolumes
<1>6. ASSUME NEW j \in Accounts, NEW a, NEW x, Lasts(j, x)'
      PROVE  SumsTo(volumeStore', eventLog', Summed', j, a, x)
  <2>1. Lasts(j, x)
    BY <1>1, <1>6 DEF Lasts, day
  <2>2. SumsTo(store, log, m, j, a, x)
    BY <1>m, <1>l, <1>s, <2>1 DEF VolumeSumInv
  <2>3. SumsTo(old, log, m, j, a, x)
    <3>1. Alike(log, log, m)
      BY DEF Alike
    <3> QED
      BY <1>4, <2>2, <3>1, SumsOfSame
  <2>4. \/ \A i \in 1 .. n : ~HasPrefix(VolumeKeyOf(j, a, x), p[i])
        \/ j = 7 /\ x = hour - 1
    BY <1>n, <1>p, <2>1, PrefixesOfVolumes, DaysOfLog DEF ChainInv
  <2>5. j = 7 /\ x = hour - 1 => \A i \in 1 .. m : Share(j, a, x, log[i]) = Zero
    <3> SUFFICES ASSUME j = 7, x = hour - 1
                 PROVE  \A i \in 1 .. m : Share(7, a, x, log[i]) = Zero
      OBVIOUS
    <3>d. PICK d \in Nat : d = day
      BY DaysOfLog
    <3>1. x \in Nat /\ x > d
      <4>1. hour \in Nat /\ d = DayOf(hour)
        BY <3>d DEF ChainInv, day, DayOf
      <4> QED
        BY <1>3, <4>1, HourBeforeIsLater
    <3>2. \A i \in 1 .. m : log[i].day \in Nat /\ log[i].day <= d
      BY <1>m, <1>l, <3>d, SummedInLog, DaysOfLog
    <3> QED
      BY <3>1, <3>2, NothingOfLater
  <2>6. SumsTo(DeletePrefixes(old, p), log, m, j, a, x)
    BY <1>4, <1>n, <2>3, <2>4, <2>5, SumsOfRest
  <2>7. SumsTo(volumeStore', log, m, j, a, x)
    BY <1>5, <2>3, <2>6
  <2> QED
    BY <1>1, <1>3, <1>l, <1>m, <2>7
<1>7. \A i \in 1 .. Len(Unadded') : eventLog'[Summed' + i] = Unadded'[i]
  BY <1>1, <1>2, <1>3 DEF VolumeSumInv
<1> QED
  BY <1>1, <1>3, <1>6, <1>7 DEF VolumeSumInv

LEMMA SumsAdded ==
  ASSUME ChainInv, EventsInv, NumbersInv, VolumesInv, VolumeSumInv, AddVolume, UNCHANGED eventVars
  PROVE  VolumeSumInv'
<1>e. PICK e : e = event
  OBVIOUS
<1>w. PICK writes : writes = VolumeWrites(e)
  OBVIOUS
<1>1. /\ stage = "add_volumes" /\ stage' = "add_volumes"
      /\ todoEvents # <<>> /\ todoEvents' = Tail(todoEvents)
      /\ volumeStore' = AddAll(volumeStore, writes, "bigfloat")
      /\ UNCHANGED <<events, eventLog, hour>>
  BY <1>e, <1>w DEF AddVolume, At, Then, eventVars
<1>2. Unadded = todoEvents /\ Unadded' = Tail(todoEvents)
  BY <1>1 DEF Unadded
<1>3. /\ Len(todoEvents) - 1 \in Nat /\ Len(Tail(todoEvents)) = Len(todoEvents) - 1
      /\ e = todoEvents[1] /\ e \in ToSet(todoEvents)
      /\ \A i \in 1 .. Len(todoEvents) - 1 : Tail(todoEvents)[i] = todoEvents[i + 1]
  <2>1. IsList(todoEvents)
    BY DEF VolumesInv
  <2> QED
    BY <1>1, <1>e, <2>1, TailOfList DEF event
<1>4. Len(eventLog) \in Nat /\ Len(todoEvents) \in Nat
  BY ListHasLength DEF HasLength, EventsInv, VolumesInv
<1>5. Summed \in Nat /\ Summed' = Summed + 1
  BY <1>1, <1>2, <1>3, <1>4 DEF Summed, VolumeSumInv
<1>n. PICK n \in Nat : n = Summed
  BY <1>5
<1>l. PICK log, store : log = eventLog /\ store = volumeStore
  OBVIOUS
<1>6. log[n + 1] = e
  <2>1. 1 \in 1 .. Len(Unadded)
    BY <1>2, <1>3, <1>4
  <2>2. eventLog[Summed + 1] = Unadded[1]
    BY <2>1 DEF VolumeSumInv
  <2> QED
    BY <1>2, <1>3, <1>l, <1>n, <2>2
<1>7. e.kind \in Kinds /\ e.day = day /\ e.hour = hour /\ DecimalEvent(e)
  <2>1. stage \in {"read_calls"} \cup AfterEvents /\ e \in ToSet(events)
    BY <1>1, <1>3 DEF VolumesInv, AfterEvents, VolumeHandlers
  <2> QED
    BY <2>1 DEF EventsInv, EventNow, NumbersInv
<1>8. DecimalEvents(log, n)
  BY <1>l, <1>n, SummedInLog, DaysOfLog DEF DecimalEvents, NumbersInv
<1>9. ASSUME NEW j \in Accounts, NEW a, NEW x, Lasts(j, x)'
      PROVE  SumsTo(volumeStore', eventLog', Summed', j, a, x)
  <2>1. Lasts(j, x)
    BY <1>1, <1>9 DEF Lasts, day
  <2>2. SumsTo(store, log, n, j, a, x)
    BY <1>l, <1>n, <2>1 DEF VolumeSumInv
  <2>3. Books(writes, VolumeKeyOf(j, a, x), Share(j, a, x, log[n + 1]))
    BY <1>6, <1>7, <1>w, VolumeBooks
  <2>4. SumsTo(AddAll(store, writes, "bigfloat"), log, n + 1, j, a, x)
    BY <1>8, <2>2, <2>3, SumsGrow
  <2> QED
    BY <1>1, <1>5, <1>l, <1>n, <2>4
<1>10. ASSUME NEW i \in 1 .. Len(Unadded')
       PROVE  eventLog'[Summed' + i] = Unadded'[i]
  <2>1. i \in 1 .. Len(todoEvents) - 1 /\ i + 1 \in 1 .. Len(Unadded)
    BY <1>2, <1>3, <1>4
  <2>2. eventLog[Summed + (i + 1)] = todoEvents[i + 1]
    BY <1>2, <2>1 DEF VolumeSumInv
  <2>3. Summed' + i = Summed + (i + 1)
    BY <1>5, <2>1
  <2> QED
    BY <1>1, <1>2, <1>3, <2>1, <2>2, <2>3
<1>11. hour' > 2 /\ Summed' \in Nat
  BY <1>1, <1>5 DEF VolumeSumInv
<1> QED
  BY <1>9, <1>10, <1>11 DEF VolumeSumInv

LEMMA VolumeSumKept ==
  ChainInv /\ EventsInv /\ NumbersInv /\ VolumesInv /\ VolumeSumInv /\ [Next]_vars
    => VolumeSumInv'
<1> SUFFICES ASSUME ChainInv, EventsInv, NumbersInv, VolumesInv, VolumeSumInv, [Next]_vars
             PROVE  VolumeSumInv'
  OBVIOUS
<1>0. hour \in Nat
  BY DEF ChainInv
<1>1. CASE (ProduceBlock \/ TokensNext \/ PricesNext \/ DbNext)
           /\ UNCHANGED <<eventVars, volumeVars>>
  <2>1. UNCHANGED <<volumeStore, eventLog>>
    BY <1>1 DEF eventVars, volumeVars
  <2>2. {stage, stage'} \cap {"store_totals", "count_events", "store_volumes", "add_volumes"} = {}
    BY <1>1, TokensHand, PricesHand, DbHands
       DEF Hands, TokenHandlers, PriceHandlers, DbHandlers, ProduceBlock
  <2>3. Unadded = <<>> /\ Unadded' = <<>>
    BY <2>2 DEF Unadded
  <2>4. hour' \in Nat /\ hour <= hour'
    <3>1. CASE ProduceBlock
      <4>1. PICK gap \in Nat : hour' = hour + gap
        BY <3>1, ClockAssumption DEF ProduceBlock
      <4> QED
        BY <1>0, <4>1
    <3>2. CASE TokensNext \/ PricesNext \/ DbNext
      <4>1. hour' = hour
        BY <3>2, TokensHand, PricesHand, DbHands DEF Hands
      <4> QED
        BY <1>0, <4>1
    <3> QED
      BY <1>1, <3>1, <3>2
  <2> QED
    BY <1>0, <2>1, <2>3, <2>4, SameVolumeSums
<1>2. CASE EventsMapped /\ UNCHANGED volumeVars
  BY <1>2, EventsUnadded DEF volumeVars
<1>3. CASE (StartEvents \/ SkipCall \/ CallToEvent \/ EventsPanic) /\ UNCHANGED volumeVars
  <2>1. /\ UNCHANGED <<volumeStore, eventLog, hour>>
        /\ stage \in EventHandlers /\ stage' \in EventHandlers
    BY <1>3 DEF StartEvents, SkipCall, CallToEvent, EventsPanic, AtCall, At, Then, Panic,
                eventVars, volumeVars, EventHandlers
  <2>2. Unadded = <<>> /\ Unadded' = <<>>
    BY <2>1 DEF Unadded, EventHandlers
  <2> QED
    BY <1>0, <2>1, <2>2, SameVolumeSums
<1>4. CASE (StartTotals \/ CountEvent \/ EventsCounted) /\ UNCHANGED eventVars
  <2>1. /\ UNCHANGED <<volumeStore, eventLog, events, hour>>
        /\ stage \in {"store_totals", "count_events"}
        /\ stage' \in {"count_events", "store_volumes"}
    BY <1>4 DEF StartTotals, CountEvent, EventsCounted, At, Then, eventVars, volumeVars
  <2>2. Unadded = events /\ Unadded' = events
    BY <2>1 DEF Unadded
  <2> QED
    BY <1>0, <2>1, <2>2, SameVolumeSums
<1>5. CASE StartVolumes /\ UNCHANGED eventVars
  BY <1>5, SumsStarted
<1>6. CASE AddVolume /\ UNCHANGED eventVars
  BY <1>6, SumsAdded
<1>7. CASE VolumesAdded /\ UNCHANGED eventVars
  <2>1. /\ UNCHANGED <<volumeStore, eventLog, hour>> /\ todoEvents = <<>>
        /\ stage = "add_volumes" /\ stage' = "db_out"
    BY <1>7 DEF VolumesAdded, At, Then, eventVars, volumeVars
  <2>2. Unadded = <<>> /\ Unadded' = <<>>
    BY <2>1 DEF Unadded
  <2> QED
    BY <1>0, <2>1, <2>2, SameVolumeSums
<1>8. CASE UNCHANGED <<chainVars, eventVars, volumeVars>>
  <2>1. UNCHANGED <<volumeStore, eventLog, events, todoEvents, stage, hour>>
    BY <1>8 DEF chainVars, eventVars, volumeVars
  <2>2. Unadded' = Unadded
    BY <2>1 DEF Unadded
  <2> QED
    BY <1>0, <2>1, <2>2, SameVolumeSums
<1> QED
  BY <1>1, <1>2, <1>3, <1>4, <1>5, <1>6, <1>7, <1>8, ComponentSteps DEF EventsNext, VolumesNext

-----------------------------------------------------------------------------
(* At db_out nothing waits, and each total is a sum over the log.          *)
LEMMA SumIsTotal == ASSUME NEW s PROVE SumOf(s) = Total("bigfloat", s)
BY DEF SumOf, Total

LEMMA VolumesAtDbOut ==
  ASSUME EventsInv, VolumeSumInv, stage = "db_out", NEW j \in Accounts, NEW a, NEW x, Lasts(j, x),
         NEW s, DOMAIN s = DOMAIN eventLog,
         \A i \in DOMAIN eventLog : s[i] = Share(j, a, x, eventLog[i])
  PROVE  Volume(VolumeKeyOf(j, a, x)) = SumOf(s)
<1>1. Len(eventLog) \in Nat /\ DOMAIN eventLog = 1 .. Len(eventLog)
  BY ListHasLength DEF HasLength, EventsInv
<1>2. Unadded = <<>>
  BY DEF Unadded
<1>3. Summed = Len(eventLog)
  <2>1. Len(Unadded) = 0
    BY <1>2, EmptyIsList
  <2> QED
    BY <1>1, <2>1 DEF Summed
<1>n. PICK n \in Nat : n = Len(eventLog)
  BY <1>1
<1>t. PICK t : t = Shares(eventLog, n, j, a, x)
  OBVIOUS
<1>4. DOMAIN t = 1 .. n /\ DOMAIN s = 1 .. n /\ Alike(s, t, n)
  BY <1>1, <1>n, <1>t DEF Shares, Alike
<1>5. Total("bigfloat", s) = Total("bigfloat", t)
  BY <1>4, TotalAlike
<1>6. HeldValue("bigfloat", volumeStore, VolumeKeyOf(j, a, x)) = Total("bigfloat", t)
  BY <1>3, <1>n, <1>t DEF VolumeSumInv, SumsTo
<1> QED
  BY <1>5, <1>6, SumIsTotal DEF Volume, HeldValue, Nothing

LEMMA SharesOfSwap ==
  ASSUME NEW e, DecimalEvent(e), NEW a, NEW x
  PROVE  LET priced == e.kind = "Swap" /\ e.amountUsd # Zero IN
         /\ Share(1, a, x, e) = IF priced /\ TRUE THEN e.amountUsd ELSE Zero
         /\ Share(2, a, x, e) = IF priced /\ e.day = x THEN e.amountUsd ELSE Zero
         /\ Share(3, a, x, e) = IF priced /\ e.pair = a THEN e.amountUsd ELSE Zero
         /\ Share(4, a, x, e) = IF priced /\ e.pair = a /\ e.hour = x THEN e.amountUsd ELSE Zero
         /\ Share(5, a, x, e) = IF priced /\ e.pair = a THEN Plus(e.in0, e.out0) ELSE Zero
         /\ Share(6, a, x, e) =
              IF priced /\ e.pair = a /\ e.day = x THEN Plus(e.in0, e.out0) ELSE Zero
         /\ Share(7, a, x, e) =
              IF priced /\ e.pair = a /\ e.day = x THEN Plus(e.in0, e.out0) ELSE Zero
<1>1. ASSUME NEW j \in 1 .. 4
      PROVE  ShareOf(j, e) = e.amountUsd
  BY DEF ShareOf
<1>2. ASSUME NEW j \in 5 .. 7, e.kind = "Swap"
      PROVE  ShareOf(j, e) = Plus(e.in0, e.out0)
  <2>1. j \notin 1 .. 4
    OBVIOUS
  <2>2. ShareOf(j, e) = Plus(e.out0, e.in0)
    BY <2>1 DEF ShareOf
  <2> QED
    BY <1>2, <2>2, PlusIsDecimal DEF DecimalEvent
<1>3. /\ Concerned(1, a, x, e) <=> e.kind = "Swap"
      /\ Concerned(2, a, x, e) <=> e.kind = "Swap" /\ e.day = x
      /\ Concerned(3, a, x, e) <=> e.kind = "Swap" /\ e.pair = a
      /\ Concerned(4, a, x, e) <=> e.kind = "Swap" /\ e.pair = a /\ e.hour = x
      /\ Concerned(5, a, x, e) <=> e.kind = "Swap" /\ e.pair = a
      /\ Concerned(6, a, x, e) <=> e.kind = "Swap" /\ e.pair = a /\ e.day = x
      /\ Concerned(7, a, x, e) <=> e.kind = "Swap" /\ e.pair = a /\ e.day = x
  BY DEF Concerned
<1>4. /\ 1 \in 1 .. 4 /\ 2 \in 1 .. 4 /\ 3 \in 1 .. 4 /\ 4 \in 1 .. 4
      /\ 5 \in 5 .. 7 /\ 6 \in 5 .. 7 /\ 7 \in 5 .. 7
  OBVIOUS
<1> QED
  BY <1>1, <1>2, <1>3, <1>4 DEF Share

LEMMA SharesOfLiquidity ==
  ASSUME NEW e, DecimalEvent(e), e.kind \in Kinds, NEW a, NEW x
  PROVE  LET moved(kind) ==
               IF e.kind = kind /\ e.pair = a /\ e.amountUsd # Zero THEN e.liquidity ELSE Zero
             dollars(kind) == IF e.kind = kind THEN e.amountUsd ELSE Zero
         IN /\ Share(8, a, x, e) = Plus(moved("Mint"), Minus(moved("Burn")))
            /\ Share(9, a, x, e) = Plus(dollars("Mint"), Minus(dollars("Burn")))
            /\ Decimal(moved("Mint")) /\ Decimal(moved("Burn"))
            /\ Decimal(dollars("Mint")) /\ Decimal(dollars("Burn"))
<1>0. Decimal(Zero) /\ Minus(Zero) = Zero /\ Plus(Zero, Zero) = Zero
  BY ZeroIsDecimal, PlusIsDecimal, MinusIsDecimal
<1>1. \A v : Decimal(v) => Plus(v, Zero) = v /\ Plus(Zero, Minus(v)) = Minus(v)
  <2> SUFFICES ASSUME NEW v, Decimal(v)
               PROVE  Plus(v, Zero) = v /\ Plus(Zero, Minus(v)) = Minus(v)
    OBVIOUS
  <2>1. Decimal(Minus(v))
    BY MinusIsDecimal
  <2> QED
    BY <1>0, <2>1, PlusIsDecimal
<1>2. ShareOf(8, e) = Signed(e.kind, e.liquidity)
  <2>1. 8 \notin 1 .. 4 /\ 8 \notin 5 .. 7
    OBVIOUS
  <2> QED
    BY <2>1 DEF ShareOf
<1>3. ShareOf(9, e) = Signed(e.kind, e.amountUsd)
  <2>1. 9 \notin 1 .. 4 /\ 9 \notin 5 .. 7 /\ 9 # 8
    OBVIOUS
  <2> QED
    BY <2>1 DEF ShareOf
<1>4. /\ Concerned(8, a, x, e) <=> e.kind # "Swap" /\ e.pair = a
      /\ Concerned(9, a, x, e) <=> e.kind # "Swap"
  <2>1. /\ 8 \notin 1 .. 7 /\ 8 \in 3 .. 8 /\ 8 \notin {2, 6, 7} /\ 8 # 4
        /\ 9 \notin 1 .. 7 /\ 9 \notin 3 .. 8 /\ 9 \notin {2, 6, 7} /\ 9 # 4
    OBVIOUS
  <2> QED
    BY <2>1 DEF Concerned
<1>5. Decimal(e.amountUsd) /\ (e.kind # "Swap" => Decimal(e.liquidity))
  BY DEF DecimalEvent
<1>6. CASE e.kind = "Swap"
  BY <1>0, <1>4, <1>6 DEF Share
<1>7. CASE e.kind = "Mint"
  <2>1. Share(8, a, x, e) = IF e.pair = a /\ e.amountUsd # Zero THEN e.liquidity ELSE Zero
    BY <1>2, <1>4, <1>7 DEF Share, Signed
  <2>2. Share(9, a, x, e) = IF e.amountUsd # Zero THEN e.amountUsd ELSE Zero
    BY <1>3, <1>4, <1>7 DEF Share, Signed
  <2> QED
    BY <1>0, <1>1, <1>5, <1>7, <2>1, <2>2
<1>8. CASE e.kind = "Burn"
  <2>1. Share(8, a, x, e) = IF e.pair = a /\ e.amountUsd # Zero THEN Minus(e.liquidity) ELSE Zero
    BY <1>2, <1>4, <1>8 DEF Share, Signed
  <2>2. Share(9, a, x, e) = IF e.amountUsd # Zero THEN Minus(e.amountUsd) ELSE Zero
    BY <1>3, <1>4, <1>8 DEF Share, Signed
  <2> QED
    BY <1>0, <1>1, <1>5, <1>8, <2>1, <2>2
<1> QED
  BY <1>6, <1>7, <1>8 DEF Kinds

(* What came in less what went out.                                        *)
LEMMA NetTotal ==
  ASSUME NEW n \in Nat, NEW s, NEW t, DOMAIN s = 1 .. n, DOMAIN t = 1 .. n,
         Numbers("bigfloat", s, n), Numbers("bigfloat", t, n)
  PROVE  SumOf([i \in 1 .. n |-> Plus(s[i], Minus(t[i]))]) = Plus(SumOf(s), Minus(SumOf(t)))
<1>m. PICK m : m = [i \in 1 .. n |-> Minus(t[i])]
  OBVIOUS
<1>u. PICK u : u = [i \in 1 .. n |-> Plus(s[i], Minus(t[i]))]
  OBVIOUS
<1>1. DOMAIN m = 1 .. n /\ \A i \in 1 .. n : m[i] = Minus(t[i])
  BY <1>m
<1>2. DOMAIN u = 1 .. n /\ \A i \in 1 .. n : u[i] = AddValues("bigfloat", s[i], m[i])
  BY <1>1, <1>u DEF AddValues
<1>3. Numbers("bigfloat", m, n)
  BY <1>1, MinusIsDecimal DEF Numbers, IsNumber
<1>4. Total("bigfloat", u) = AddValues("bigfloat", Total("bigfloat", s), Total("bigfloat", m))
  BY <1>1, <1>2, <1>3, TotalOfSums
<1>5. Total("bigfloat", m) = Minus(Total("bigfloat", t))
  BY <1>1, TotalOfNegated
<1> QED
  BY <1>4, <1>5, <1>u, SumIsTotal DEF AddValues

LEMMA LogAtDbOut ==
  ASSUME ChainInv, EventsInv, NumbersInv
  PROVE  /\ \A i \in DOMAIN eventLog : DecimalEvent(eventLog[i]) /\ eventLog[i].kind \in Kinds
         /\ \E n \in Nat : DOMAIN eventLog = 1 .. n
         /\ day \in Nat /\ hour \in Nat
<1>1. \A i \in DOMAIN eventLog : eventLog[i] \in ToSet(eventLog)
  BY DEF ToSet
<1>2. \E n \in Nat : DOMAIN eventLog = 1 .. n
  BY ListHasLength DEF HasLength, EventsInv
<1> QED
  BY <1>1, <1>2, DaysOfLog DEF NumbersInv, ChainInv

LEMMA VolumesSum ==
  ChainInv /\ EventsInv /\ NumbersInv /\ VolumeSumInv => VolumesAddUp
<1> SUFFICES ASSUME ChainInv, EventsInv, NumbersInv, VolumeSumInv, stage = "db_out"
             PROVE  VolumesAddUp
  BY DEF VolumesAddUp
<1>e. /\ \A i \in DOMAIN eventLog : DecimalEvent(eventLog[i])
      /\ day \in Nat /\ hour \in Nat
  BY LogAtDbOut
<1>l. Lasts(2, day) /\ Lasts(4, hour) /\ Lasts(6, day) /\ Lasts(7, day)
  BY <1>e DEF Lasts
<1>a. \A j \in 1 .. 9 : j \in Accounts
  BY DEF Accounts
<1>1. Volume(<< "global", "usd" >>) =
        SumOf([i \in DOMAIN eventLog |->
                 IF (eventLog[i].kind = "Swap" /\ eventLog[i].amountUsd # Zero) /\ TRUE
                 THEN eventLog[i].amountUsd ELSE Zero])
  <2>s. PICK s : s = [i \in DOMAIN eventLog |->
                        IF (eventLog[i].kind = "Swap" /\ eventLog[i].amountUsd # Zero) /\ TRUE
                        THEN eventLog[i].amountUsd ELSE Zero]
    OBVIOUS
  <2>1. /\ DOMAIN s = DOMAIN eventLog
        /\ \A i \in DOMAIN eventLog : s[i] = Share(1, "any", 0, eventLog[i])
    BY <1>e, <2>s, SharesOfSwap
  <2>2. Lasts(1, 0)
    BY DEF Lasts
  <2>k. VolumeKeyOf(1, "any", 0) = << "global", "usd" >>
    BY AccountKeys
  <2>3. Volume(VolumeKeyOf(1, "any", 0)) = SumOf(s)
    BY <1>a, <2>1, <2>2, VolumesAtDbOut
  <2> QED
    BY <2>3, <2>k, <2>s
<1>2. Volume(<< "global_day", day, "usd" >>) =
        SumOf([i \in DOMAIN eventLog |->
                 IF (eventLog[i].kind = "Swap" /\ eventLog[i].amountUsd # Zero)
                    /\ eventLog[i].day = day
                 THEN eventLog[i].amountUsd ELSE Zero])
  <2>s. PICK s : s = [i \in DOMAIN eventLog |->
                        IF (eventLog[i].kind = "Swap" /\ eventLog[i].amountUsd # Zero)
                           /\ eventLog[i].day = day
                        THEN eventLog[i].amountUsd ELSE Zero]
    OBVIOUS
  <2>1. /\ DOMAIN s = DOMAIN eventLog
        /\ \A i \in DOMAIN eventLog : s[i] = Share(2, "any", day, eventLog[i])
    BY <1>e, <2>s, SharesOfSwap
  <2>k. VolumeKeyOf(2, "any", day) = << "global_day", day, "usd" >>
    BY AccountKeys
  <2>3. Volume(VolumeKeyOf(2, "any", day)) = SumOf(s)
    BY <1>a, <1>l, <2>1, VolumesAtDbOut
  <2> QED
    BY <2>3, <2>k, <2>s
<1>3. ASSUME NEW a
      PROVE  Volume(<< "pair", a, "usd" >>) =
               SumOf([i \in DOMAIN eventLog |->
                        IF (eventLog[i].kind = "Swap" /\ eventLog[i].amountUsd # Zero)
                           /\ eventLog[i].pair = a
                        THEN eventLog[i].amountUsd ELSE Zero])
  <2>s. PICK s : s = [i \in DOMAIN eventLog |->
                        IF (eventLog[i].kind = "Swap" /\ eventLog[i].amountUsd # Zero)
                           /\ eventLog[i].pair = a
                        THEN eventLog[i].amountUsd ELSE Zero]
    OBVIOUS
  <2>1. /\ DOMAIN s = DOMAIN eventLog
        /\ \A i \in DOMAIN eventLog : s[i] = Share(3, a, 0, eventLog[i])
    BY <1>e, <2>s, SharesOfSwap
  <2>2. Lasts(3, 0)
    BY DEF Lasts
  <2>k. VolumeKeyOf(3, a, 0) = << "pair", a, "usd" >>
    BY AccountKeys
  <2>3. Volume(VolumeKeyOf(3, a, 0)) = SumOf(s)
    BY <1>a, <2>1, <2>2, VolumesAtDbOut
  <2> QED
    BY <2>3, <2>k, <2>s
<1>4. ASSUME NEW a
      PROVE  Volume(<< "pair_hour", hour, a, "usd" >>) =
               SumOf([i \in DOMAIN eventLog |->
                        IF (eventLog[i].kind = "Swap" /\ eventLog[i].amountUsd # Zero)
                           /\ (eventLog[i].pair = a /\ eventLog[i].hour = hour)
                        THEN eventLog[i].amountUsd ELSE Zero])
  <2>s. PICK s : s = [i \in DOMAIN eventLog |->
                        IF (eventLog[i].kind = "Swap" /\ eventLog[i].amountUsd # Zero)
                           /\ (eventLog[i].pair = a /\ eventLog[i].hour = hour)
                        THEN eventLog[i].amountUsd ELSE Zero]
    OBVIOUS
  <2>1. /\ DOMAIN s = DOMAIN eventLog
        /\ \A i \in DOMAIN eventLog : s[i] = Share(4, a, hour, eventLog[i])
    BY <1>e, <2>s, SharesOfSwap
  <2>k. VolumeKeyOf(4, a, hour) = << "pair_hour", hour, a, "usd" >>
    BY AccountKeys
  <2>3. Volume(VolumeKeyOf(4, a, hour)) = SumOf(s)
    BY <1>a, <1>l, <2>1, VolumesAtDbOut
  <2> QED
    BY <2>3, <2>k, <2>s
<1>5. ASSUME NEW a
      PROVE  Volume(<< "pair", a, "token0" >>) =
               SumOf([i \in DOMAIN eventLog |->
                        IF (eventLog[i].kind = "Swap" /\ eventLog[i].amountUsd # Zero)
                           /\ eventLog[i].pair = a
                        THEN Plus(eventLog[i].in0, eventLog[i].out0) ELSE Zero])
  <2>s. PICK s : s = [i \in DOMAIN eventLog |->
                        IF (eventLog[i].kind = "Swap" /\ eventLog[i].amountUsd # Zero)
                           /\ eventLog[i].pair = a
                        THEN Plus(eventLog[i].in0, eventLog[i].out0) ELSE Zero]
    OBVIOUS
  <2>1. /\ DOMAIN s = DOMAIN eventLog
        /\ \A i \in DOMAIN eventLog : s[i] = Share(5, a, 0, eventLog[i])
    BY <1>e, <2>s, SharesOfSwap
  <2>2. Lasts(5, 0)
    BY DEF Lasts
  <2>k. VolumeKeyOf(5, a, 0) = << "pair", a, "token0" >>
    BY AccountKeys
  <2>3. Volume(VolumeKeyOf(5, a, 0)) = SumOf(s)
    BY <1>a, <2>1, <2>2, VolumesAtDbOut
  <2> QED
    BY <2>3, <2>k, <2>s
<1>6. ASSUME NEW a
      PROVE  /\ Volume(<< "pair_day", day, a, "token0" >>) =
                  SumOf([i \in DOMAIN eventLog |->
                           IF (eventLog[i].kind = "Swap" /\ eventLog[i].amountUsd # Zero)
                              /\ (eventLog[i].pair = a /\ eventLog[i].day = day)
                           THEN Plus(eventLog[i].in0, eventLog[i].out0) ELSE Zero])
             /\ Volume(<< "pair_hour", day, a, "token0" >>) =
                  Volume(<< "pair_day", day, a, "token0" >>)
  <2>s. PICK s : s = [i \in DOMAIN eventLog |->
                        IF (eventLog[i].kind = "Swap" /\ eventLog[i].amountUsd # Zero)
                           /\ (eventLog[i].pair = a /\ eventLog[i].day = day)
                        THEN Plus(eventLog[i].in0, eventLog[i].out0) ELSE Zero]
    OBVIOUS
  <2>1. /\ DOMAIN s = DOMAIN eventLog
        /\ \A i \in DOMAIN eventLog : s[i] = Share(6, a, day, eventLog[i])
        /\ \A i \in DOMAIN eventLog : s[i] = Share(7, a, day, eventLog[i])
    BY <1>e, <2>s, SharesOfSwap
  <2>3. Volume(VolumeKeyOf(6, a, day)) = SumOf(s)
    BY <1>a, <1>l, <2>1, VolumesAtDbOut
  <2>4. Volume(VolumeKeyOf(7, a, day)) = SumOf(s)
    BY <1>a, <1>l, <2>1, VolumesAtDbOut
  <2> QED
    BY <2>3, <2>4, <2>s, AccountKeys
<1> QED
  BY <1>1, <1>2, <1>3, <1>4, <1>5, <1>6, Zenon DEF VolumesAddUp, SumOver

LEMMA SupplySums ==
  ChainInv /\ EventsInv /\ NumbersInv /\ VolumeSumInv => SupplyCountsPricedOnly
<1> SUFFICES ASSUME ChainInv, EventsInv, NumbersInv, VolumeSumInv, stage = "db_out"
             PROVE  SupplyCountsPricedOnly
  BY DEF SupplyCountsPricedOnly
<1>e. \A i \in DOMAIN eventLog : DecimalEvent(eventLog[i]) /\ eventLog[i].kind \in Kinds
  BY LogAtDbOut
<1>n. PICK n \in Nat : DOMAIN eventLog = 1 .. n
  BY LogAtDbOut
<1>a. 8 \in Accounts /\ 9 \in Accounts /\ Lasts(8, 0) /\ Lasts(9, 0)
  BY DEF Accounts, Lasts
<1> DEFINE moved(kind, a) ==
             [i \in DOMAIN eventLog |->
                IF eventLog[i].kind = kind /\ eventLog[i].pair = a /\ eventLog[i].amountUsd # Zero
                THEN eventLog[i].liquidity ELSE Zero]
           dollars(kind) ==
             [i \in DOMAIN eventLog |->
                IF eventLog[i].kind = kind THEN eventLog[i].amountUsd ELSE Zero]
           net(s, t) == [i \in 1 .. n |-> Plus(s[i], Minus(t[i]))]
<1>1. ASSUME NEW a
      PROVE  Volume(<< "pair", a, "total_supply" >>) =
               Plus(SumOf(moved("Mint", a)), Minus(SumOf(moved("Burn", a))))
  <2>s. PICK s, t : s = moved("Mint", a) /\ t = moved("Burn", a)
    OBVIOUS
  <2>1. DOMAIN s = 1 .. n /\ DOMAIN t = 1 .. n
    BY <1>n, <2>s
  <2>2. \A i \in 1 .. n : Share(8, a, 0, eventLog[i]) = Plus(s[i], Minus(t[i]))
    BY <1>e, <1>n, <2>s, SharesOfLiquidity
  <2>3. Numbers("bigfloat", s, n) /\ Numbers("bigfloat", t, n)
    BY <1>e, <1>n, <2>s, SharesOfLiquidity DEF Numbers, IsNumber
  <2>4. SumOf(net(s, t)) = Plus(SumOf(s), Minus(SumOf(t)))
    BY <2>1, <2>3, NetTotal
  <2>u. PICK u : u = net(s, t)
    OBVIOUS
  <2>5. DOMAIN u = DOMAIN eventLog /\ \A i \in DOMAIN eventLog : u[i] = Share(8, a, 0, eventLog[i])
    BY <1>n, <2>2, <2>u
  <2>k. VolumeKeyOf(8, a, 0) = << "pair", a, "total_supply" >>
    BY AccountKeys
  <2>6. Volume(VolumeKeyOf(8, a, 0)) = SumOf(u)
    BY <1>a, <2>5, VolumesAtDbOut
  <2> HIDE DEF moved, net
  <2> QED
    BY <2>4, <2>6, <2>k, <2>s, <2>u
<1>2. Volume(<< "global", "liquidity_usd" >>) =
        Plus(SumOf(dollars("Mint")), Minus(SumOf(dollars("Burn"))))
  <2>s. PICK s, t : s = dollars("Mint") /\ t = dollars("Burn")
    OBVIOUS
  <2>1. DOMAIN s = 1 .. n /\ DOMAIN t = 1 .. n
    BY <1>n, <2>s
  <2>2. \A i \in 1 .. n : Share(9, "any", 0, eventLog[i]) = Plus(s[i], Minus(t[i]))
    BY <1>e, <1>n, <2>s, SharesOfLiquidity
  <2>3. Numbers("bigfloat", s, n) /\ Numbers("bigfloat", t, n)
    BY <1>e, <1>n, <2>s, SharesOfLiquidity DEF Numbers, IsNumber
  <2>4. SumOf(net(s, t)) = Plus(SumOf(s), Minus(SumOf(t)))
    BY <2>1, <2>3, NetTotal
  <2>u. PICK u : u = net(s, t)
    OBVIOUS
  <2>5. /\ DOMAIN u = DOMAIN eventLog
        /\ \A i \in DOMAIN eventLog : u[i] = Share(9, "any", 0, eventLog[i])
    BY <1>n, <2>2, <2>u
  <2>k. VolumeKeyOf(9, "any", 0) = << "global", "liquidity_usd" >>
    BY AccountKeys
  <2>6. Volume(VolumeKeyOf(9, "any", 0)) = SumOf(u)
    BY <1>a, <2>5, VolumesAtDbOut
  <2> HIDE DEF dollars, net
  <2> QED
    BY <2>4, <2>6, <2>k, <2>s, <2>u
<1> QED
  BY <1>1, <1>2, Zenon DEF SupplyCountsPricedOnly, SumOver

-----------------------------------------------------------------------------
Inv ==
  /\ ChainInv
  /\ PairsKnown
  /\ LoopInv
  /\ ReservesInv
  /\ SyncInv
  /\ PricesInv
  /\ EventsInv
  /\ VolumesInv
  /\ PairCountInv
  /\ EventCountInv
  /\ NumbersInv
  /\ VolumeSumInv
  /\ untrue \in BOOLEAN /\ accepted \in BOOLEAN

THEOREM Invariance == Spec => []Inv
<1>1. Init => Inv
  <2>1. Init => untrue \in BOOLEAN /\ accepted \in BOOLEAN
    BY DEF Init, DbInit
  <2> QED
    BY <2>1, ChainStart, PairsKnownStart, LoopStart, ReservesStart, SyncStart, PricesStart,
       EventsStart, VolumesStart, PairCountStart, EventCountStart, NumbersStart,
       VolumeSumStart DEF Inv
<1>2. Inv /\ [Next]_vars => Inv'
  <2> SUFFICES ASSUME Inv, [Next]_vars PROVE Inv'
    OBVIOUS
  <2>1. ChainInv' /\ PairsKnown' /\ LoopInv'
    BY ChainKept, PairsKnownKept, LoopKept DEF Inv
  <2>2. ReservesInv' /\ SyncInv' /\ PricesInv' /\ EventsInv' /\ VolumesInv'
    BY ReservesKept, SyncKept, PricesKept, EventsKept, VolumesKept DEF Inv
  <2>4. PairCountInv' /\ EventCountInv'
    BY PairCountKept, EventCountKept DEF Inv
  <2>5. NumbersInv' /\ VolumeSumInv'
    BY NumbersKept, VolumeSumKept DEF Inv
  <2>3. untrue' \in BOOLEAN /\ accepted' \in BOOLEAN
    <3>1. CASE DbNext
      BY <3>1 DEF DbNext, DbOut, DbOutPanic, SquashBlock, SquashAccepts, dbVars, Inv
    <3>2. CASE UNCHANGED dbVars
      BY <3>2 DEF dbVars, Inv
    <3> QED
      BY <3>1, <3>2, ComponentSteps
  <2> QED
    BY <2>1, <2>2, <2>3, <2>4, <2>5 DEF Inv
<1> QED
  BY <1>1, <1>2, PTL DEF Spec

(* The stores, the loops and the handlers have the types of their code; a  *)
(* loop is empty unless its handler runs.                                  *)
THEOREM TypeCorrect == Spec => []TypeOK
<1>1. Inv => TypeOK
  <2> SUFFICES ASSUME Inv PROVE TypeOK
    OBVIOUS
  <2>1. DOMAIN pairStore.kv \subseteq
          {PairKey(p.address) : p \in Pairs} \cup {TokensKey(p.token0, p.token1) : p \in Pairs}
    BY DEF Inv, PairsKnown, KeyOf
  <2>2. todoPairs # <<>> => stage = "store_pcs_tokens"
    BY DEF Inv, LoopInv
  <2>3. callsLeft # <<>> => stage = "read_calls"
    BY DEF Inv, EventsInv
  <2>4. todoEvents # <<>> => stage \in {"count_events", "add_volumes"}
    BY DEF Inv, VolumesInv
  <2>5. side \in Sides /\ retry \in [Sides -> BOOLEAN] /\ counts \in [Kinds -> Nat]
    BY DEF Inv, LoopInv, EventsInv
  <2> QED
    BY <2>1, <2>2, <2>3, <2>4, <2>5 DEF Inv, ChainInv, TypeOK
<1> QED
  BY <1>1, Invariance, PTL

(* What a block of a period leaves in the stores of reserves and volumes   *)
(* is gone once the next period has a block - for the volumes one with     *)
(* events - except the hourly volumes of the tokens (lib.rs:134-135,       *)
(* 636-639).                                                               *)
THEOREM PeriodsArePruned == Spec => []OldPeriodsGone
<1>1. Inv => OldPeriodsGone
  <2> SUFFICES ASSUME Inv, stage = "db_out" PROVE OldPeriodsGone
    BY DEF OldPeriodsGone
  <2>1. ~Pending
    BY DEF Pending
  <2>2. ASSUME NEW k \in DOMAIN reserveStore.kv
        PROVE  /\ k[1] = "pair_day" => k[2] + 1 \notin DaysOf(blockHours)
               /\ k[1] = "pair_hour" => k[2] + 1 \notin blockHours
    BY DEF Inv, ReservesInv, OfPeriod
  <2>3. ASSUME NEW k \in DOMAIN volumeStore.kv
        PROVE  /\ k[1] \in DayKinds => k[2] + 1 \notin EventDays
               /\ ByHour(k) => k[2] + 1 \notin EventHours
    BY <2>1 DEF Inv, VolumesInv, VolumeOf
  <2>4. DaysOf(blockHours) = {h \div HoursPerDay : h \in blockHours}
    BY DEF DaysOf, DayOf
  <2>5. /\ EventDays = {IF "day" = "day" THEN e.day ELSE e.hour : e \in ToSet(eventLog)}
        /\ EventHours = {IF "hour" = "day" THEN e.day ELSE e.hour : e \in ToSet(eventLog)}
    BY DEF EventDays, EventHours
  <2> DEFINE eventful(unit) == {IF unit = "day" THEN e.day ELSE e.hour : e \in ToSet(eventLog)}
             visited(unit) == IF unit = "day" THEN {h \div HoursPerDay : h \in blockHours}
                              ELSE blockHours
             unitOf(k) == IF k[1] = "pair_hour" THEN "hour" ELSE "day"
  <2>6. visited("day") = DaysOf(blockHours) /\ visited("hour") = blockHours
        /\ eventful("day") = EventDays /\ eventful("hour") = EventHours
    BY <2>4, <2>5
  <2> HIDE DEF eventful, visited
  <2>7. ASSUME NEW k \in DOMAIN reserveStore.kv, k[1] \in {"pair_day", "pair_hour"}
        PROVE  k[2] + 1 \notin visited(unitOf(k))
    <3>1. CASE k[1] = "pair_day"
      BY <2>2, <2>6, <3>1
    <3>2. CASE k[1] = "pair_hour"
      BY <2>2, <2>6, <3>2
    <3> QED
      BY <2>7, <3>1, <3>2
  <2>8. ASSUME NEW k \in DOMAIN volumeStore.kv,
               k[1] \in {"pair_day", "pair_hour", "token_day", "global_day"}
        PROVE  \/ k[2] + 1 \notin eventful(unitOf(k))
               \/ k[1] = "pair_hour" /\ Last(k) # "usd"
    <3>1. CASE k[1] \in DayKinds
      BY <2>3, <2>6, <3>1 DEF DayKinds
    <3>2. CASE k[1] = "pair_hour"
      BY <2>3, <2>6, <3>2 DEF ByHour
    <3> QED
      BY <2>8, <3>1, <3>2 DEF DayKinds
  <2> QED
    BY <2>7, <2>8 DEF OldPeriodsGone, visited, eventful
<1> QED
  BY <1>1, Invariance, PTL

(* The reserves store has what the last Sync of a pair said (lib.rs:129-   *)
(* 182), whatever the transactions and blocks in between, and the two      *)
(* prices are inverse to each other.                                       *)
THEOREM LastSyncIsStored == Spec => []ReservesAreLastSync
<1>1. Inv => ReservesAreLastSync
  BY DEF Inv, SyncInv, HoldsLastSync, ReservesAreLastSync
<1> QED
  BY <1>1, Invariance, PTL

(* store_prices (lib.rs:185-319) prices WBNB only, at one BNB, and writes  *)
(* nothing in dollars, whichever pairs are synced: utils.rs reads keys of  *)
(* three parts where store_reserves writes keys of four.                   *)
THEOREM OnlyBnbIsPriced == Spec => []OnlyBnbPriced
<1>1. Inv => OnlyBnbPriced
  BY DEF Inv, PricesInv, PriceEntry, OnlyBnbPriced
<1> QED
  BY <1>1, Invariance, PTL

(* At db_out the totals are the numbers of events, of each kind, pair,     *)
(* token and day, since the first block (lib.rs:561-618), and of the pairs *)
(* the handlers know.                                                      *)
THEOREM TotalsAreCounted == Spec => []TotalsCount
<1>1. Inv => TotalsCount
  <2> SUFFICES ASSUME Inv, stage = "db_out" PROVE TotalsCount
    BY DEF TotalsCount
  <2> DEFINE n == Len(eventLog)
             Matching(key, j) == {i \in 1 .. n : EventKeys(eventLog[i])[j] = key}
  <2>1. EventsInv /\ PairCountInv /\ EventCountInv
    BY DEF Inv
  <2>2. /\ Count(totalsStore, PairCount) = Cardinality(Pairs)
        /\ n \in Nat /\ DOMAIN eventLog = 1 .. n
    BY <2>1, CountsAtDbOut
  <2>3. \A key : key # PairCount => Count(totalsStore, key) = Tally(key, n)
    BY <2>1, CountsAtDbOut
  <2>4. \A key : Counted(key) = Count(totalsStore, key)
    BY DEF Counted, Count
  <2>5. \A key, j : NumberOf(key, j, n) = Cardinality(Matching(key, j))
    BY DEF NumberOf, Places
  <2>6. \A key, j : NumberOf(key, j, n) \in Nat
    BY <2>2, PlacesGrow
  <2>7. Cardinality({}) = 0 /\ Cardinality(1 .. n) = n
    <3>1. 1 \in Int /\ n \in Int /\ (IF 1 > n THEN 0 ELSE n - 1 + 1) = n
      BY <2>2
    <3> HIDE DEF n
    <3> QED
      BY <3>1, FS_Interval, FS_EmptySet
  <2>8. \A i \in 1 .. n : eventLog[i] \in ToSet(eventLog) /\ eventLog[i].kind \in Kinds
    BY <2>1, <2>2 DEF ToSet, EventsInv, EventLogged
  <2>9. \A key, j : Matching(key, j) = {} => NumberOf(key, j, n) = 0
    BY <2>5, <2>7
  <2> HIDE DEF n
  <2>10. Counted(<< "global", "transaction_count" >>) = n
    <3> DEFINE key == << "global", "transaction_count" >>
    <3>1. /\ Matching(key, 1) = {} /\ Matching(key, 2) = {} /\ Matching(key, 3) = {}
          /\ Matching(key, 4) = {} /\ Matching(key, 5) = 1 .. n /\ Matching(key, 6) = {}
      BY DEF EventKeys
    <3>2. key # PairCount
      BY DEF PairCount
    <3> HIDE DEF key, Matching
    <3>3. /\ NumberOf(key, 1, n) = 0 /\ NumberOf(key, 2, n) = 0 /\ NumberOf(key, 3, n) = 0
          /\ NumberOf(key, 4, n) = 0 /\ NumberOf(key, 6, n) = 0
      BY <2>9, <3>1
    <3>4. NumberOf(key, 5, n) = n
      BY <2>5, <2>7, <3>1, Zenon
    <3>5. Tally(key, n) = n
      BY <2>2, <3>4, <3>3 DEF Tally
    <3> QED
      BY <2>3, <2>4, <3>2, <3>5 DEF key
  <2>11. ASSUME NEW d
         PROVE  Counted(<< "global_day", d, "transaction_count" >>) =
                  Cardinality({i \in 1 .. n : eventLog[i].day = d})
    <3> DEFINE key == << "global_day", d, "transaction_count" >>
    <3>1. /\ Matching(key, 1) = {} /\ Matching(key, 2) = {} /\ Matching(key, 3) = {}
          /\ Matching(key, 4) = {i \in 1 .. n : eventLog[i].day = d}
          /\ Matching(key, 5) = {} /\ Matching(key, 6) = {}
      BY DEF EventKeys
    <3>2. key # PairCount
      BY DEF PairCount
    <3> HIDE DEF key, Matching
    <3>3. /\ NumberOf(key, 1, n) = 0 /\ NumberOf(key, 2, n) = 0 /\ NumberOf(key, 3, n) = 0
          /\ NumberOf(key, 5, n) = 0 /\ NumberOf(key, 6, n) = 0
      BY <2>9, <3>1
    <3>4. Tally(key, n) = NumberOf(key, 4, n)
      BY <2>6, <3>3 DEF Tally
    <3>5. Counted(key) = NumberOf(key, 4, n)
      BY <2>3, <2>4, <3>2, <3>4
    <3>6. NumberOf(key, 4, n) = Cardinality({i \in 1 .. n : eventLog[i].day = d})
      BY <2>5, <3>1, Zenon
    <3> QED
      BY <3>5, <3>6 DEF key
  <2>12. ASSUME NEW a, NEW k \in Kinds
         PROVE  Counted(<< "pair", a, KindCount(k) >>) =
                  Cardinality({i \in 1 .. n : eventLog[i].pair = a /\ eventLog[i].kind = k})
    <3> DEFINE key == << "pair", a, KindCount(k) >>
    <3>1. /\ Matching(key, 1) = {} /\ Matching(key, 2) = {}
          /\ Matching(key, 4) = {} /\ Matching(key, 5) = {}
      BY DEF EventKeys
    <3>2. Matching(key, 3) = {}
      BY KindsCounted DEF EventKeys
    <3>3. Matching(key, 6) = {i \in 1 .. n : eventLog[i].pair = a /\ eventLog[i].kind = k}
      <4>1. ASSUME NEW i \in 1 .. n
            PROVE  EventKeys(eventLog[i])[6] = key <=> eventLog[i].pair = a /\ eventLog[i].kind = k
        <5>1. KindCount(eventLog[i].kind) = KindCount(k) <=> eventLog[i].kind = k
          BY <2>8, KindsCounted
        <5> QED
          BY <5>1 DEF EventKeys
      <4> HIDE DEF key
      <4> QED
        BY <4>1
    <3>4. key # PairCount
      BY DEF PairCount
    <3> HIDE DEF key, Matching
    <3>5. /\ NumberOf(key, 1, n) = 0 /\ NumberOf(key, 2, n) = 0 /\ NumberOf(key, 3, n) = 0
          /\ NumberOf(key, 4, n) = 0 /\ NumberOf(key, 5, n) = 0
      BY <2>9, <3>1, <3>2
    <3>6. Tally(key, n) = NumberOf(key, 6, n)
      BY <2>6, <3>5 DEF Tally
    <3> QED
      BY <2>3, <2>4, <2>5, <3>3, <3>4, <3>6 DEF key
  <2>13. ASSUME NEW t
         PROVE  Counted(<< "token", t, "transaction_count" >>) =
                  Cardinality({i \in 1 .. n : eventLog[i].token0 = t}) +
                  Cardinality({i \in 1 .. n : eventLog[i].token1 = t})
    <3> DEFINE key == << "token", t, "transaction_count" >>
    <3>1. /\ Matching(key, 1) = {i \in 1 .. n : eventLog[i].token0 = t}
          /\ Matching(key, 2) = {i \in 1 .. n : eventLog[i].token1 = t}
          /\ Matching(key, 3) = {} /\ Matching(key, 4) = {}
          /\ Matching(key, 5) = {} /\ Matching(key, 6) = {}
      BY DEF EventKeys
    <3>2. key # PairCount
      BY DEF PairCount
    <3> HIDE DEF key, Matching
    <3>3. /\ NumberOf(key, 3, n) = 0 /\ NumberOf(key, 4, n) = 0 /\ NumberOf(key, 5, n) = 0
          /\ NumberOf(key, 6, n) = 0
      BY <2>9, <3>1
    <3>4. Tally(key, n) = NumberOf(key, 1, n) + NumberOf(key, 2, n)
      BY <2>6, <3>3 DEF Tally
    <3>5. Counted(key) = NumberOf(key, 1, n) + NumberOf(key, 2, n)
      BY <2>3, <2>4, <3>2, <3>4
    <3>6. /\ NumberOf(key, 1, n) = Cardinality({i \in 1 .. n : eventLog[i].token0 = t})
          /\ NumberOf(key, 2, n) = Cardinality({i \in 1 .. n : eventLog[i].token1 = t})
      BY <2>5, <3>1, Zenon
    <3> QED
      BY <3>5, <3>6 DEF key
  <2>14. Counted(<< "global", "pair_count" >>) = Cardinality(Pairs)
    BY <2>2, <2>4 DEF PairCount
  <2> QED
    BY <2>2, <2>10, <2>11, <2>12, <2>13, <2>14 DEF TotalsCount, n
<1> QED
  BY <1>1, Invariance, PTL

(* The volumes in dollars and in the first token, of all time, of the day  *)
(* and of the hour, are the sums of the swaps of the log that had a price, *)
(* over fractions (store_volumes): no write is lost between two blocks, no *)
(* deletion of an old period takes part of the current one, and what is    *)
(* filed under the wrong unit for the hour is the volume of the day.       *)
THEOREM VolumesAreSums == Spec => []VolumesAddUp
<1>1. Inv => VolumesAddUp
  BY VolumesSum DEF Inv
<1> QED
  BY <1>1, Invariance, PTL

(* The supply of a pair and the liquidity in dollars are the mints less    *)
(* the burns that had a price, whatever was minted or burned at none.      *)
THEOREM SupplyIsOfPriced == Spec => []SupplyCountsPricedOnly
<1>1. Inv => SupplyCountsPricedOnly
  BY SupplySums DEF Inv
<1> QED
  BY <1>1, Invariance, PTL

=============================================================================
