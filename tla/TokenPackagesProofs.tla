------------------------- MODULE TokenPackagesProofs -------------------------
(***************************************************************************)
(* The three small packages keep their types; the stores of SPL tokens are *)
(* those of the chain and its transfers are booked as they were made; no   *)
(* ERC-20 token gets through map_tokens; every block of a producer is      *)
(* counted.                                                                *)
(***************************************************************************)
EXTENDS TokenPackages, StoreLemmas

-----------------------------------------------------------------------------
(* The tokens of Ethereum.  No call is answered as a token's without a     *)
(* panic, so the list of tokens stays empty; and a token contract that the *)
(* loop has not reached is still ahead of it.                              *)
TokensAhead == {c.address : c \in {x \in ToSet(ethCalls) : IsToken(x)}}

EthInv ==
  /\ ethStage \in {"idle", "map_tokens", "store_tokens"}
  /\ ethNumber \in 0 .. EthMaxBlocks
  /\ ethPanic \in BOOLEAN
  /\ IsList(ethCalls)
  /\ ethCalls # <<>> => ethStage = "map_tokens"
  /\ tokens = <<>>
  /\ IsStore(ethStore)
  /\ ethStore.kv = <<>>
  /\ IF ethStage = "map_tokens" THEN seen \subseteq TokensAhead ELSE seen = {}

(* The third answer of two is read: whoever answers as a token panics.     *)
LEMMA TokensPanic ==
  ASSUME NEW call
  PROVE  /\ TokenOutcome(call) # "ok"
         /\ IsToken(call) => ~Skipped(call) /\ TokenOutcome(call) = "panic"
<1>1. DOMAIN Responses(call) = {1, 2}
  BY DEF Responses, CreateRpcCalls
<1>2. Responses(call)[2] = call["symbol"]
  BY DEF Responses, CreateRpcCalls
<1>3. ReadResponse(call, 3) = "panic"
  BY <1>1 DEF ReadResponse
<1>4. ReadResponse(call, 2) = ReadString(call.symbol)
  BY <1>1, <1>2 DEF ReadResponse
<1>5. TokenOutcome(call) # "ok"
  BY <1>3 DEF TokenOutcome
<1>6. ASSUME IsToken(call)
      PROVE  ~Skipped(call) /\ TokenOutcome(call) = "panic"
  <2>1. ~Skipped(call) /\ RetryRpcCalls(call.decimals, call.name, call.symbol) = "ok"
    BY <1>6 DEF IsToken
  <2>2. /\ ~call.decimals.failed /\ ~call.name.failed /\ ~call.symbol.failed
        /\ ReadUint32(call.decimals) = "ok"
        /\ ReadString(call.symbol) = "ok"
    BY <2>1 DEF RetryRpcCalls
  <2> QED
    BY <1>3, <1>4, <2>1, <2>2 DEF TokenOutcome
<1> QED
  BY <1>5, <1>6


LEMMA EthInvInit == EthInit => EthInv
<1> SUFFICES ASSUME EthInit PROVE EthInv
  OBVIOUS
<1>1. IsStore(ethStore) /\ ethStore.kv = <<>>
  BY EmptyStoreIsStore DEF EthInit, EmptyStore
<1>2. IsList(ethCalls) /\ ~(ethCalls # <<>>)
  BY EmptyIsList DEF EthInit
<1>3. 0 \in 0 .. EthMaxBlocks
  BY EthAssumption
<1> QED
  BY <1>1, <1>2, <1>3 DEF EthInit, EthInv

LEMMA EthInvNext == EthInv /\ EthNext => EthInv'
<1> SUFFICES ASSUME EthInv, EthNext PROVE EthInv'
  OBVIOUS
<1> USE DEF EthInv
<1>1. CASE ProduceEthBlock
  <2>1. PICK b \in EthBlocks :
          /\ ethCalls' = b
          /\ seen' = seen \cup {c.address : c \in {x \in ToSet(b) : IsToken(x)}}
    BY <1>1 DEF ProduceEthBlock
  <2>2. IsList(b)
    BY EthAssumption DEF IsList
  <2>3. seen' \subseteq TokensAhead'
    BY <1>1, <2>1 DEF ProduceEthBlock, TokensAhead
  <2>4. ethNumber' \in 0 .. EthMaxBlocks
    BY <1>1, EthAssumption DEF ProduceEthBlock
  <2> QED
    BY <1>1, <2>1, <2>2, <2>3, <2>4 DEF ProduceEthBlock
<1>2. ASSUME AtEthCall, ~(IsToken(Head(ethCalls))), ethCalls' = Tail(ethCalls), seen' = seen
      PROVE  IsList(ethCalls') /\ seen' \subseteq TokensAhead'
  <2>1. IsList(ethCalls') /\ ToSet(ethCalls) = {Head(ethCalls)} \cup ToSet(ethCalls')
    BY <1>2, TailOfList DEF AtEthCall
  <2>2. TokensAhead \subseteq TokensAhead'
    BY <1>2, <2>1 DEF TokensAhead
  <2> QED
    BY <1>2, <2>1, <2>2 DEF AtEthCall
<1>3. CASE SkipEthCall
  <2>1. ~IsToken(Head(ethCalls))
    BY <1>3 DEF SkipEthCall, IsToken
  <2> QED
    BY <1>2, <1>3, <2>1 DEF SkipEthCall, AtEthCall
<1>4. CASE MapToken
  <2>1. ~IsToken(Head(ethCalls)) /\ TokenOutcome(Head(ethCalls)) # "ok"
    BY <1>4, TokensPanic DEF MapToken
  <2> QED
    BY <1>2, <1>4, <2>1 DEF MapToken, AtEthCall
<1>5. CASE MapTokenPanics
  BY <1>5 DEF MapTokenPanics, TokensAhead
<1>6. CASE TokensMapped
  <2>1. TokensAhead = {}
    BY <1>6, EmptyIsList DEF TokensMapped, TokensAhead
  <2> QED
    BY <1>6, <2>1 DEF TokensMapped
<1>7. CASE StoreTokens
  <2> DEFINE writes == [i \in DOMAIN tokens |-> <<1, <<"token", tokens[i]>>, tokens[i]>>]
  <2>1. DOMAIN writes = 1 .. 0
    BY EmptyIsList
  <2>2. ethStore' = PutAll(NextBlock(ethStore), writes)
    BY <1>7 DEF StoreTokens
  <2> HIDE DEF writes
  <2>3. IsStore(NextBlock(ethStore)) /\ NextBlock(ethStore).kv = <<>>
    BY NextBlockIsStore
  <2>4. PICK h : OneByOne("set", NextBlock(ethStore), writes, 0, h) /\ ethStore' = h[0]
    BY <2>1, <2>2, PutAllSteps
  <2>5. ethStore' = NextBlock(ethStore)
    BY <2>4 DEF OneByOne
  <2> QED
    BY <1>7, <2>3, <2>5 DEF StoreTokens
<1> QED
  BY <1>1, <1>3, <1>4, <1>5, <1>6, <1>7 DEF EthNext

-----------------------------------------------------------------------------
(* The block producers.  The store has counted every block but the one     *)
(* whose coinbase is on its way to it.                                     *)
Reached == IF producerStage \in {"idle", "error"} THEN Len(produced) ELSE Len(produced) - 1
BlocksOf(address, n) == {i \in 1 .. n : produced[i] = address}
CountOf(address) == IF Has(producerStore, address) THEN producerStore.kv[address] ELSE 0

ProducersInv ==
  /\ producerStage \in {"idle", "map_coinbase", "store_coinbase", "error"}
  /\ produced \in Seq(Producers \cup {Absent})
  /\ producerStage # "idle" => produced # <<>>
  /\ producerStage = "store_coinbase" => Last(produced) # Absent
  /\ producerStage = "error" => Last(produced) = Absent
  /\ IsStore(producerStore)
  /\ DOMAIN producerStore.kv \subseteq Producers
  /\ \A address \in Producers : CountOf(address) = Cardinality(BlocksOf(address, Reached))

LEMMA ProducersInvInit == ProducersInit => ProducersInv
<1> SUFFICES ASSUME ProducersInit PROVE ProducersInv
  OBVIOUS
<1>1. IsStore(producerStore) /\ DOMAIN producerStore.kv = {}
  BY EmptyStoreIsStore, EmptyIsList DEF ProducersInit, EmptyStore
<1>2. Reached = 0 /\ produced \in Seq(Producers \cup {Absent})
  BY DEF ProducersInit, Reached
<1>3. ASSUME NEW address \in Producers
      PROVE  CountOf(address) = Cardinality(BlocksOf(address, Reached))
  <2>1. BlocksOf(address, Reached) = {}
    BY <1>2 DEF BlocksOf
  <2>2. CountOf(address) = 0
    BY <1>1 DEF CountOf, Has
  <2> QED
    BY <2>1, <2>2, FS_EmptySet
<1> QED
  BY <1>1, <1>2, <1>3 DEF ProducersInit, ProducersInv

(* One more block counts for its coinbase only.                            *)
LEMMA BlocksOfNext ==
  ASSUME NEW n \in Nat, NEW address
  PROVE  /\ Cardinality(BlocksOf(address, n)) \in Nat
         /\ Cardinality(BlocksOf(address, n + 1)) =
              Cardinality(BlocksOf(address, n)) + (IF produced[n + 1] = address THEN 1 ELSE 0)
<1>1. IsFiniteSet(BlocksOf(address, n)) /\ n + 1 \notin BlocksOf(address, n)
  <2>1. IsFiniteSet(1 .. n) /\ BlocksOf(address, n) \subseteq 1 .. n
    BY FS_Interval DEF BlocksOf
  <2>2. n + 1 \notin 1 .. n
    OBVIOUS
  <2> QED
    BY <2>1, <2>2, FS_Subset
<1>2. Cardinality(BlocksOf(address, n)) \in Nat
  BY <1>1, FS_CardinalityType
<1>3. \A i : i \in 1 .. n + 1 <=> i \in 1 .. n \/ i = n + 1
  OBVIOUS
<1>4. CASE produced[n + 1] = address
  <2>1. BlocksOf(address, n + 1) = BlocksOf(address, n) \cup {n + 1}
    BY <1>3, <1>4 DEF BlocksOf
  <2> QED
    BY <1>1, <1>2, <1>4, <2>1, FS_AddElement
<1>5. CASE produced[n + 1] # address
  <2>1. BlocksOf(address, n + 1) = BlocksOf(address, n)
    BY <1>3, <1>5 DEF BlocksOf
  <2> QED
    BY <1>2, <1>5, <2>1
<1> QED
  BY <1>4, <1>5

LEMMA CountBlockCounts ==
  ASSUME NEW store, IsStore(store), NEW address
  PROVE  LET new == CountBlock(store, address) IN
         /\ IsStore(new)
         /\ DOMAIN new.kv = DOMAIN store.kv \cup {address}
         /\ new.kv[address] = IF Has(store, address) THEN store.kv[address] + 1 ELSE 1
         /\ \A k \in DOMAIN store.kv \ {address} : new.kv[k] = store.kv[k]
<1> DEFINE writes == << <<1, address, 1>> >>
           new == CountBlock(store, address)
<1>1. DOMAIN writes = 1 .. 1 /\ writes[1] = <<1, address, 1>>
  OBVIOUS
<1>2. new = AddAll(store, writes, "int64")
  BY DEF CountBlock
<1> HIDE DEF writes, new
<1>3. PICK h : OneByOne("int64", store, writes, 1, h) /\ new = h[1]
  BY <1>1, <1>2, AddAllSteps
<1>4. 1 \in 1 .. 1 /\ 1 - 1 = 0
  OBVIOUS
<1>5. new = Step("int64", store, <<1, address, 1>>)
  BY <1>1, <1>3, <1>4 DEF OneByOne
<1>6. new = Put(store, 1, address, Added(store, "int64", address, 1))
  BY <1>5 DEF Step
<1>7. Added(store, "int64", address, 1) =
        IF Has(store, address) THEN store.kv[address] + 1 ELSE 1
  BY DEF Added, AddValues
<1>8. /\ IsStore(new)
      /\ DOMAIN new.kv = DOMAIN store.kv \cup {address}
      /\ new.kv[address] = Added(store, "int64", address, 1)
      /\ \A k \in DOMAIN store.kv \ {address} : new.kv[k] = store.kv[k]
  BY <1>6, PutIsStore
<1> QED
  BY <1>7, <1>8 DEF new

LEMMA ProducersInvNext == ProducersInv /\ ProducersNext => ProducersInv'
<1> SUFFICES ASSUME ProducersInv, ProducersNext PROVE ProducersInv'
  OBVIOUS
<1>1. CASE ProduceHeader
  <2>1. PICK address \in Producers \cup {Absent} : produced' = Append(produced, address)
    BY <1>1 DEF ProduceHeader
  <2>2. /\ produced' \in Seq(Producers \cup {Absent})
        /\ Len(produced') = Len(produced) + 1 /\ Len(produced) \in Nat
        /\ \A i \in 1 .. Len(produced) : produced'[i] = produced[i]
    BY <2>1, AppendProperties DEF ProducersInv
  <2>3. produced' # <<>>
    BY <2>2
  <2>4. Reached = Len(produced) /\ Reached' = Len(produced)
    BY <1>1, <2>2 DEF ProduceHeader, Reached
  <2>5. ASSUME NEW a \in Producers
        PROVE  CountOf(a)' = Cardinality(BlocksOf(a, Reached))'
    <3>1. BlocksOf(a, Reached)' = BlocksOf(a, Reached)
      BY <2>2, <2>4 DEF BlocksOf
    <3> QED
      BY <1>1, <3>1 DEF ProduceHeader, CountOf, Has, ProducersInv
  <2> QED
    BY <1>1, <2>2, <2>3, <2>5 DEF ProduceHeader, ProducersInv
<1>2. CASE MapCoinbase
  BY <1>2 DEF MapCoinbase, ProducersInv, CountOf, Has, Reached, BlocksOf
<1>3. produced # <<>> => /\ Len(produced) - 1 \in Nat
                         /\ Last(produced) = produced[Len(produced)]
                         /\ Last(produced) \in Producers \cup {Absent}
  <2>1. Len(produced) \in Nat /\ (produced # <<>> => Len(produced) # 0)
    BY DEF ProducersInv
  <2>2. ASSUME produced # <<>>
        PROVE  produced[Len(produced)] \in Producers \cup {Absent}
    <3>1. Len(produced) \in 1 .. Len(produced)
      BY <2>1, <2>2
    <3> QED
      BY <3>1, ElementOfSeq DEF ProducersInv
  <2> QED
    BY <2>1, <2>2 DEF Last
<1>4. ASSUME producerStage \in {"map_coinbase", "store_coinbase"}, NEW a
      PROVE  Cardinality(BlocksOf(a, Len(produced))) =
               Cardinality(BlocksOf(a, Reached)) + (IF Last(produced) = a THEN 1 ELSE 0)
  <2>1. produced # <<>> /\ Reached = Len(produced) - 1
    BY <1>4 DEF ProducersInv, Reached
  <2>2. (Len(produced) - 1) + 1 = Len(produced)
    BY DEF ProducersInv
  <2> QED
    BY <1>3, <2>1, <2>2, BlocksOfNext
<1>5. CASE MapCoinbaseFails
  <2>1. ASSUME NEW a \in Producers
        PROVE  CountOf(a)' = Cardinality(BlocksOf(a, Reached))'
    <3>1. Last(produced) # a /\ produced # <<>>
      BY <1>5, ProducersAssumption DEF MapCoinbaseFails, ProducersInv
    <3>2. Reached = Len(produced) - 1 /\ Len(produced) - 1 \in Nat
      BY <1>3, <1>5, <3>1 DEF MapCoinbaseFails, Reached
    <3>3. Cardinality(BlocksOf(a, Reached)) \in Nat
      BY <3>2, BlocksOfNext
    <3>4. Cardinality(BlocksOf(a, Len(produced))) = Cardinality(BlocksOf(a, Reached))
      BY <1>4, <1>5, <3>1, <3>3 DEF MapCoinbaseFails
    <3>5. BlocksOf(a, Reached)' = BlocksOf(a, Len(produced))
      BY <1>5 DEF MapCoinbaseFails, BlocksOf, Reached
    <3>6. CountOf(a)' = CountOf(a)
      BY <1>5 DEF MapCoinbaseFails, CountOf, Has
    <3> QED
      BY <3>4, <3>5, <3>6 DEF ProducersInv
  <2> QED
    BY <1>5, <2>1 DEF MapCoinbaseFails, ProducersInv
<1>6. CASE StoreCoinbase
  <2> DEFINE a == Last(produced)
             store == NextBlock(producerStore)
  <2>1. a \in Producers
    BY <1>3, <1>6 DEF StoreCoinbase, ProducersInv
  <2>2. IsStore(store) /\ store.kv = producerStore.kv
    BY NextBlockIsStore DEF ProducersInv
  <2>3. producerStore' = CountBlock(store, a)
    BY <1>6 DEF StoreCoinbase
  <2> HIDE DEF a, store
  <2>4. /\ IsStore(producerStore')
        /\ DOMAIN producerStore'.kv = DOMAIN store.kv \cup {a}
        /\ producerStore'.kv[a] = IF Has(store, a) THEN store.kv[a] + 1 ELSE 1
        /\ \A k \in DOMAIN store.kv \ {a} : producerStore'.kv[k] = store.kv[k]
    BY <2>2, <2>3, CountBlockCounts
  <2>5. ASSUME NEW b \in Producers
        PROVE  CountOf(b)' = CountOf(b) + (IF a = b THEN 1 ELSE 0) /\ CountOf(b) \in Nat
    <3>1. CountOf(b) = Cardinality(BlocksOf(b, Reached)) /\ Reached \in Nat
      BY <1>3, <1>6 DEF ProducersInv, StoreCoinbase, Reached
    <3>2. CountOf(b) \in Nat
      BY <3>1, BlocksOfNext
    <3>3. CASE a = b
      BY <2>2, <2>4, <3>2, <3>3 DEF CountOf, Has
    <3>4. CASE a # b
      BY <2>2, <2>4, <3>2, <3>4 DEF CountOf, Has
    <3> QED
      BY <3>2, <3>3, <3>4
  <2>6. ASSUME NEW b \in Producers
        PROVE  CountOf(b)' = Cardinality(BlocksOf(b, Reached))'
    <3>1. Cardinality(BlocksOf(b, Len(produced))) =
            Cardinality(BlocksOf(b, Reached)) + (IF a = b THEN 1 ELSE 0)
      BY <1>4, <1>6 DEF StoreCoinbase, a
    <3>2. BlocksOf(b, Reached)' = BlocksOf(b, Len(produced))
      BY <1>6 DEF StoreCoinbase, BlocksOf, Reached
    <3> QED
      BY <2>5, <3>1, <3>2 DEF ProducersInv
  <2>7. DOMAIN producerStore'.kv \subseteq Producers
    BY <2>1, <2>2, <2>4 DEF ProducersInv
  <2> QED
    BY <1>6, <2>4, <2>6, <2>7 DEF StoreCoinbase, ProducersInv
<1> QED
  BY <1>1, <1>2, <1>5, <1>6 DEF ProducersNext

-----------------------------------------------------------------------------
(* The runs of the chain: the state after each instruction of a block, or  *)
(* after each instruction that an instruction runs itself.                 *)
Advance(level, run, x) == IF level = "inner" THEN RunInner(run, x) ELSE RunInst(run, x)

IsRuns(level, run, seq, D, g) ==
  g = [s \in SUBSET D |->
         IF s = {} THEN run ELSE Advance(level, g[s \ {Max(s)}], seq[Max(s)])]

LEMMA RunsExist ==
  ASSUME NEW level, NEW run, NEW seq, NEW n \in Nat
  PROVE  \E g : IsRuns(level, run, seq, 1 .. n, g)
<1> DEFINE T == {k \in Nat : \E g : IsRuns(level, run, seq, 1 .. k, g)}
<1>1. 0 \in T
  <2> DEFINE g == [s \in SUBSET (1 .. 0) |-> run]
  <2>1. \A s \in SUBSET (1 .. 0) : s = {}
    OBVIOUS
  <2>2. IsRuns(level, run, seq, 1 .. 0, g)
    BY <2>1 DEF IsRuns
  <2> QED
    BY <2>2
<1>2. ASSUME NEW k \in T
      PROVE  k + 1 \in T
  <2>1. k \in Nat
    OBVIOUS
  <2>2. PICK g : IsRuns(level, run, seq, 1 .. k, g)
    OBVIOUS
  <2> DEFINE f == [s \in SUBSET (1 .. k + 1) |->
                     IF k + 1 \in s THEN Advance(level, g[s \ {k + 1}], seq[k + 1]) ELSE g[s]]
  <2>3. ASSUME NEW s \in SUBSET (1 .. k + 1)
        PROVE  f[s] = IF s = {} THEN run ELSE Advance(level, f[s \ {Max(s)}], seq[Max(s)])
    <3>1. CASE k + 1 \in s
      <4>1. Max(s) = k + 1 /\ s \ {k + 1} \in SUBSET (1 .. k) /\ k + 1 \notin s \ {k + 1}
        BY <2>1, <3>1, LastOfSubset
      <4>2. s \ {k + 1} \in SUBSET (1 .. k + 1)
        OBVIOUS
      <4>3. f[s \ {k + 1}] = g[s \ {k + 1}]
        BY <4>1, <4>2
      <4> QED
        BY <3>1, <4>1, <4>3
    <3>2. CASE k + 1 \notin s
      <4>1. s \in SUBSET (1 .. k) /\ s \ {Max(s)} \in SUBSET (1 .. k)
        <5>1. \A i \in s : i # k + 1 /\ i \in 1 .. k + 1
          BY <3>2
        <5>2. \A i \in s : i \in 1 .. k
          BY <2>1, <5>1
        <5> QED
          BY <5>2
      <4>2. s \ {Max(s)} \in SUBSET (1 .. k + 1) /\ k + 1 \notin s \ {Max(s)}
        BY <3>2
      <4>3. f[s] = g[s] /\ f[s \ {Max(s)}] = g[s \ {Max(s)}]
        BY <3>2, <4>2
      <4>4. g[s] = IF s = {} THEN run ELSE Advance(level, g[s \ {Max(s)}], seq[Max(s)])
        BY <2>2, <4>1 DEF IsRuns
      <4> QED
        BY <4>3, <4>4
    <3> QED
      BY <3>1, <3>2
  <2>4. f = [s \in SUBSET (1 .. k + 1) |->
               IF s = {} THEN run ELSE Advance(level, f[s \ {Max(s)}], seq[Max(s)])]
    <3>1. f = [s \in SUBSET (1 .. k + 1) |-> f[s]]
      OBVIOUS
    <3> HIDE DEF f
    <3> QED
      BY <2>3, <3>1
  <2>5. IsRuns(level, run, seq, 1 .. k + 1, f)
    BY <2>4 DEF IsRuns
  <2> HIDE DEF f
  <2> QED
    BY <2>1, <2>5
<1> HIDE DEF T
<1>3. n \in T
  BY <1>1, <1>2, Induction
<1> QED
  BY <1>3 DEF T

Runs(level, run, seq, n, h) ==
  /\ h[0] = run
  /\ \A i \in 1 .. n : h[i] = Advance(level, h[i - 1], seq[i])

LEMMA RunsOneByOne ==
  ASSUME NEW level, NEW run, NEW seq, NEW n \in Nat, NEW g,
         IsRuns(level, run, seq, 1 .. n, g)
  PROVE  \E h : Runs(level, run, seq, n, h) /\ h[n] = g[1 .. n]
<1> DEFINE h == [i \in 0 .. n |-> g[1 .. i]]
<1>1. h[0] = run
  <2>1. 1 .. 0 = {} /\ {} \in SUBSET (1 .. n) /\ 0 \in 0 .. n
    OBVIOUS
  <2> QED
    BY <2>1 DEF IsRuns
<1>2. ASSUME NEW i \in 1 .. n
      PROVE  h[i] = Advance(level, h[i - 1], seq[i])
  <2>1. i - 1 \in Nat /\ (i - 1) + 1 = i /\ i - 1 \in 0 .. n /\ i \in 0 .. n
    OBVIOUS
  <2>2. Max(1 .. i) = i /\ (1 .. i) \ {i} = 1 .. i - 1
    BY <2>1, LastOfInterval
  <2>3. 1 .. i \in SUBSET (1 .. n) /\ 1 .. i # {}
    OBVIOUS
  <2>4. g[1 .. i] = Advance(level, g[1 .. i - 1], seq[i])
    BY <2>2, <2>3 DEF IsRuns
  <2> QED
    BY <2>1, <2>4
<1>3. h[n] = g[1 .. n]
  OBVIOUS
<1> HIDE DEF h
<1> QED
  BY <1>1, <1>2, <1>3 DEF Runs

InnerFold(run, seq, D, g) ==
  g = [s \in SUBSET D |-> IF s = {} THEN run ELSE RunInner(g[s \ {Max(s)}], seq[Max(s)])]
BlockFold(run, seq, D, g) ==
  g = [s \in SUBSET D |-> IF s = {} THEN run ELSE RunInst(g[s \ {Max(s)}], seq[Max(s)])]

LEMMA InnerUnfolds ==
  ASSUME NEW run, NEW seq, \E g : InnerFold(run, seq, DOMAIN seq, g)
  PROVE  \E g : /\ InnerFold(run, seq, DOMAIN seq, g)
                /\ FoldLeft(RunInner, run, seq) = g[DOMAIN seq]
  BY DEF InnerFold, FoldLeft, MapThenFoldSet

LEMMA BlockUnfolds ==
  ASSUME NEW run, NEW seq, \E g : BlockFold(run, seq, DOMAIN seq, g)
  PROVE  \E g : /\ BlockFold(run, seq, DOMAIN seq, g)
                /\ FoldLeft(RunInst, run, seq) = g[DOMAIN seq]
  BY DEF BlockFold, FoldLeft, MapThenFoldSet

LEMMA RunSteps ==
  ASSUME NEW run, NEW seq, IsList(seq)
  PROVE  LET n == Len(seq) IN
         /\ \E h : Runs("inner", run, seq, n, h) /\ FoldLeft(RunInner, run, seq) = h[n]
         /\ \E h : Runs("block", run, seq, n, h) /\ FoldLeft(RunInst, run, seq) = h[n]
<1> DEFINE n == Len(seq)
<1>1. n \in Nat /\ DOMAIN seq = 1 .. n
  BY ListHasLength DEF HasLength
<1>2. ASSUME NEW g, NEW D
      PROVE  /\ IsRuns("inner", run, seq, D, g) <=> InnerFold(run, seq, D, g)
             /\ IsRuns("block", run, seq, D, g) <=> BlockFold(run, seq, D, g)
  BY DEF IsRuns, InnerFold, BlockFold, Advance
<1> HIDE DEF n
<1>3. PICK g : InnerFold(run, seq, 1 .. n, g) /\ FoldLeft(RunInner, run, seq) = g[1 .. n]
  BY <1>1, <1>2, RunsExist, InnerUnfolds
<1>4. PICK f : BlockFold(run, seq, 1 .. n, f) /\ FoldLeft(RunInst, run, seq) = f[1 .. n]
  BY <1>1, <1>2, RunsExist, BlockUnfolds
<1>5. \E h : Runs("inner", run, seq, n, h) /\ FoldLeft(RunInner, run, seq) = h[n]
  BY <1>1, <1>2, <1>3, RunsOneByOne
<1>6. \E h : Runs("block", run, seq, n, h) /\ FoldLeft(RunInst, run, seq) = h[n]
  BY <1>1, <1>2, <1>4, RunsOneByOne
<1> QED
  BY <1>5, <1>6 DEF n

(* What one instruction does to a run that can take it.                    *)
IsRun(r) ==
  /\ r = [holding |-> r.holding, moved |-> r.moved, hidden |-> r.hidden, ok |-> r.ok]
  /\ r.ok \in BOOLEAN

Begins(r, new, a, mint, top) ==
  /\ a \notin DOMAIN r.holding
  /\ new.holding = [b \in DOMAIN r.holding \cup {a} |-> IF b = a THEN mint ELSE r.holding[b]]
  /\ new.hidden = IF top THEN r.hidden ELSE r.hidden \cup {a}
  /\ new.moved = r.moved

MovedBy(inst, mint) ==
  [from |-> inst.accounts[1], amount |-> inst.amount, mint |-> mint,
   checked |-> inst.tag = TransferChecked]

Does(r, new, inst, top) ==
  LET a == inst.accounts[1]
      b == inst.accounts[2]
      held == r.holding
  IN /\ inst.tag \in InitMintTags => Begins(r, new, a, a, top)
     /\ inst.tag \in InitAccountTags => Begins(r, new, a, b, top) /\ IsMint(held, b)
     /\ inst.tag = CloseAccount =>
          /\ IsTokenAccount(held, a)
          /\ new.holding = [c \in DOMAIN held \ {a} |-> held[c]]
          /\ new.hidden = r.hidden /\ new.moved = r.moved
     /\ inst.tag \in TransferTags =>
          /\ IsTokenAccount(held, a)
          /\ inst.tag = TransferChecked => b = held[a]
          /\ new.holding = held /\ new.hidden = r.hidden
          /\ new.moved = IF top THEN Append(r.moved, MovedBy(inst, held[a])) ELSE r.moved
     /\ inst.tag \notin InitMintTags \cup InitAccountTags \cup TransferTags \cup {CloseAccount} =>
          new.holding = held /\ new.hidden = r.hidden /\ new.moved = r.moved

LEMMA TagsDiffer ==
  /\ InitMintTags \cap InitAccountTags = {}
  /\ InitMintTags \cap TransferTags = {}
  /\ InitAccountTags \cap TransferTags = {}
  /\ CloseAccount \notin InitMintTags \cup InitAccountTags \cup TransferTags
  BY DEF InitMintTags, InitAccountTags, TransferTags, InitializeMint, InitializeMint2,
     InitializeAccount, InitializeAccount2, InitializeAccount3, Transfer, TransferChecked,
     CloseAccount

LEMMA ExecuteDoes ==
  ASSUME NEW r, IsRun(r), NEW inst, NEW top \in BOOLEAN, NEW new, new = Execute(r, inst, top)
  PROVE  /\ IsRun(new)
         /\ new.ok => r.ok /\ Does(r, new, inst, top)
<1> DEFINE a == inst.accounts[1]
           b == inst.accounts[2]
           held == r.holding
           begun(mint) == [c \in DOMAIN held \cup {a} |-> IF c = a THEN mint ELSE held[c]]
           hid == IF top THEN r.hidden ELSE r.hidden \cup {a}
<1>0. ASSUME NEW holding0, NEW moved0, NEW hidden0, NEW ok0 \in BOOLEAN,
             new = [holding |-> holding0, moved |-> moved0, hidden |-> hidden0, ok |-> ok0]
      PROVE  IsRun(new) /\ new.holding = holding0 /\ new.moved = moved0 /\ new.hidden = hidden0
             /\ new.ok = ok0
  BY <1>0 DEF IsRun
<1>1. CASE inst.tag \in InitMintTags
  <2> DEFINE ok == r.ok /\ a \notin DOMAIN held
  <2>1. new = [holding |-> begun(a), moved |-> r.moved, hidden |-> hid, ok |-> ok]
    <3>1. inst.tag \notin InitAccountTags \cup TransferTags \cup {CloseAccount}
      BY <1>1, TagsDiffer
    <3>2. new = Begin(r, top, a, a)
      BY <1>1, <3>1 DEF Execute
    <3> QED
      BY <3>2 DEF Begin
  <2>2. ok \in BOOLEAN /\ (ok => r.ok /\ a \notin DOMAIN held)
    BY DEF IsRun
  <2> HIDE DEF ok
  <2>3. IsRun(new) /\ new.holding = begun(a) /\ new.moved = r.moved /\ new.hidden = hid
        /\ new.ok = ok
    BY <1>0, <2>1, <2>2
  <2>4. new.ok => r.ok /\ Begins(r, new, a, a, top)
    BY <2>2, <2>3 DEF Begins
  <2> QED
    BY <1>1, <2>3, <2>4, TagsDiffer DEF Does
<1>2. CASE inst.tag \in InitAccountTags
  <2> DEFINE ok == r.ok /\ a \notin DOMAIN held /\ (b \in DOMAIN held /\ held[b] = b)
  <2>1. inst.tag \notin InitMintTags \cup TransferTags \cup {CloseAccount}
    BY <1>2, TagsDiffer
  <2>2. new = [holding |-> begun(b), moved |-> r.moved, hidden |-> hid, ok |-> ok]
    <3>1. new = [Begin(r, top, a, b) EXCEPT !.ok = @ /\ IsMint(held, b)]
      BY <1>2, <2>1 DEF Execute
    <3> QED
      BY <3>1 DEF Begin, IsMint
  <2>3. ok \in BOOLEAN /\ (ok => r.ok /\ a \notin DOMAIN held /\ IsMint(held, b))
    BY DEF IsRun, IsMint
  <2> HIDE DEF ok
  <2>4. IsRun(new) /\ new.holding = begun(b) /\ new.moved = r.moved /\ new.hidden = hid
        /\ new.ok = ok
    BY <1>0, <2>2, <2>3
  <2>5. new.ok => r.ok /\ Begins(r, new, a, b, top) /\ IsMint(held, b)
    BY <2>3, <2>4 DEF Begins
  <2> QED
    BY <1>2, <2>4, <2>5, TagsDiffer DEF Does
<1>3. CASE inst.tag = CloseAccount
  <2> DEFINE ok == r.ok /\ (a \in DOMAIN held /\ held[a] # a)
             rest == [c \in DOMAIN held \ {a} |-> held[c]]
  <2>1. inst.tag \notin InitMintTags \cup InitAccountTags \cup TransferTags
    BY <1>3, TagsDiffer
  <2>2. new = [holding |-> rest, moved |-> r.moved, hidden |-> r.hidden, ok |-> ok]
    BY <1>3, <2>1 DEF Execute, IsRun, IsTokenAccount
  <2>3. ok \in BOOLEAN /\ (ok => r.ok /\ IsTokenAccount(held, a))
    BY DEF IsRun, IsTokenAccount
  <2> HIDE DEF ok
  <2>4. IsRun(new) /\ new.holding = rest /\ new.moved = r.moved /\ new.hidden = r.hidden
        /\ new.ok = ok
    BY <1>0, <2>2, <2>3
  <2> QED
    BY <1>3, <2>1, <2>3, <2>4 DEF Does
<1>4. CASE inst.tag \in TransferTags
  <2>1. inst.tag \notin InitMintTags \cup InitAccountTags \cup {CloseAccount}
    BY <1>4, TagsDiffer
  <2>2. PICK last : last = Last(inst.accounts)
    OBVIOUS
  <2> DEFINE ok == r.ok /\ (a \in DOMAIN held /\ held[a] # a)
                   /\ (last \in DOMAIN held /\ held[last] # last) /\ held[last] = held[a]
                   /\ (inst.tag = TransferChecked => b = held[a])
             sent == IF top /\ a \in DOMAIN held THEN Append(r.moved, MovedBy(inst, held[a]))
                     ELSE r.moved
  <2>3. new = [holding |-> held, moved |-> sent, hidden |-> r.hidden, ok |-> ok]
    BY <1>4, <2>1, <2>2 DEF Execute, IsRun, MovedBy, IsTokenAccount
  <2>4. ok \in BOOLEAN /\ (ok => /\ r.ok /\ IsTokenAccount(held, a)
                                 /\ inst.tag = TransferChecked => b = held[a])
    BY DEF IsRun, IsTokenAccount
  <2>5. IsTokenAccount(held, a) =>
          sent = IF top THEN Append(r.moved, MovedBy(inst, held[a])) ELSE r.moved
    BY DEF IsTokenAccount
  <2> HIDE DEF ok, sent
  <2>6. IsRun(new) /\ new.holding = held /\ new.moved = sent /\ new.hidden = r.hidden
        /\ new.ok = ok
    BY <1>0, <2>3, <2>4
  <2> QED
    BY <1>4, <2>1, <2>4, <2>5, <2>6 DEF Does
<1>5. CASE inst.tag \notin InitMintTags \cup InitAccountTags \cup TransferTags \cup {CloseAccount}
  <2>1. new = r
    BY <1>5 DEF Execute
  <2> QED
    BY <1>5, <2>1 DEF Does
<1> QED
  BY <1>1, <1>2, <1>3, <1>4, <1>5

LEMMA ExecuteTop ==
  ASSUME NEW r, IsRun(r), NEW inst, NEW new, new = Execute(r, inst, TRUE)
  PROVE  /\ IsRun(new)
         /\ new.ok => r.ok /\ Does(r, new, inst, TRUE)
  BY ExecuteDoes

(* A mint holds itself, and every account a mint.                          *)
MintsHeld(H) == \A a \in DOMAIN H : IsMint(H, H[a])

LEMMA BeginKeepsMints ==
  ASSUME NEW r, NEW new, NEW a, NEW mint, NEW top, Begins(r, new, a, mint, top),
         mint = a \/ IsMint(r.holding, mint), MintsHeld(r.holding)
  PROVE  MintsHeld(new.holding)
<1>1. ASSUME NEW b \in DOMAIN new.holding
      PROVE  IsMint(new.holding, new.holding[b])
  <2>1. b = a => new.holding[b] = mint
    BY DEF Begins
  <2>2. b # a => b \in DOMAIN r.holding /\ new.holding[b] = r.holding[b]
    BY DEF Begins
  <2>3. IsMint(new.holding, mint)
    BY DEF Begins, IsMint
  <2>4. ASSUME b # a
        PROVE  IsMint(new.holding, new.holding[b])
    <3>1. IsMint(r.holding, r.holding[b])
      BY <2>2, <2>4 DEF MintsHeld
    <3> QED
      BY <2>2, <2>4, <3>1 DEF Begins, IsMint
  <2> QED
    BY <2>1, <2>3, <2>4
<1> QED
  BY <1>1 DEF MintsHeld

LEMMA DoesKeepsMints ==
  ASSUME NEW r, NEW new, NEW inst, NEW top, Does(r, new, inst, top), MintsHeld(r.holding)
  PROVE  MintsHeld(new.holding)
<1>1. CASE inst.tag \in InitMintTags
  BY <1>1, BeginKeepsMints DEF Does
<1>2. CASE inst.tag \in InitAccountTags
  BY <1>2, BeginKeepsMints DEF Does
<1>3. CASE inst.tag = CloseAccount
  BY <1>3 DEF Does, MintsHeld, IsMint, IsTokenAccount
<1>4. CASE inst.tag \notin InitMintTags \cup InitAccountTags \cup {CloseAccount}
  <2>1. new.holding = r.holding
    BY <1>4 DEF Does
  <2> QED
    BY <2>1 DEF MintsHeld
<1> QED
  BY <1>1, <1>2, <1>3, <1>4

(* Nothing ends a mint, and none is begun twice.                           *)
KeepsMints(r, new) == \A a : IsMint(r.holding, a) => IsMint(new.holding, a)

LEMMA DoesKeepEachMint ==
  ASSUME NEW r, NEW new, NEW inst, NEW top, Does(r, new, inst, top)
  PROVE  /\ KeepsMints(r, new)
         /\ inst.tag \in InitMintTags =>
              ~IsMint(r.holding, inst.accounts[1]) /\ IsMint(new.holding, inst.accounts[1])
<1>1. CASE inst.tag \in InitMintTags
  BY <1>1 DEF Does, Begins, KeepsMints, IsMint
<1>2. CASE inst.tag \in InitAccountTags
  <2>1. inst.tag \notin InitMintTags
    BY <1>2, TagsDiffer
  <2> QED
    BY <1>2, <2>1 DEF Does, Begins, KeepsMints, IsMint
<1>3. CASE inst.tag = CloseAccount
  <2>1. inst.tag \notin InitMintTags
    BY <1>3, TagsDiffer
  <2> QED
    BY <1>3, <2>1 DEF Does, IsTokenAccount, KeepsMints, IsMint
<1>4. CASE inst.tag \notin InitMintTags \cup InitAccountTags \cup {CloseAccount}
  <2>1. new.holding = r.holding
    BY <1>4 DEF Does
  <2> QED
    BY <1>4, <2>1 DEF KeepsMints
<1> QED
  BY <1>1, <1>2, <1>3, <1>4

(* What other programs run is quiet: what it begins is hidden, and it      *)
(* moves nothing that a handler sees.                                      *)
Quiet(r, new) ==
  /\ KeepsMints(r, new)
  /\ new.moved = r.moved
  /\ r.hidden \subseteq new.hidden
  /\ \A a \in DOMAIN new.holding \ new.hidden :
       a \in DOMAIN r.holding /\ new.holding[a] = r.holding[a]

LEMMA InnerIsQuiet ==
  ASSUME NEW r, IsRun(r), NEW inst, NEW new, new = RunInner(r, inst)
  PROVE  /\ IsRun(new)
         /\ new.ok => r.ok /\ Quiet(r, new) /\ (MintsHeld(r.holding) => MintsHeld(new.holding))
<1>1. IsRun(new) /\ (new.ok => r.ok /\ Does(r, new, inst, FALSE))
  BY ExecuteDoes DEF RunInner
<1>2. ASSUME Does(r, new, inst, FALSE)
      PROVE  Quiet(r, new)
  <2>0. KeepsMints(r, new)
    BY <1>2, DoesKeepEachMint
  <2>1. CASE inst.tag \in InitMintTags
    BY <1>2, <2>0, <2>1 DEF Does, Begins, Quiet
  <2>2. CASE inst.tag \in InitAccountTags
    BY <1>2, <2>0, <2>2 DEF Does, Begins, Quiet
  <2>3. CASE inst.tag = CloseAccount
    BY <1>2, <2>0, <2>3 DEF Does, Quiet
  <2>4. CASE inst.tag \in TransferTags
    BY <1>2, <2>0, <2>4 DEF Does, Quiet
  <2>5. CASE inst.tag \notin InitMintTags \cup InitAccountTags \cup TransferTags \cup {CloseAccount}
    BY <1>2, <2>0, <2>5 DEF Does, Quiet
  <2> QED
    BY <2>1, <2>2, <2>3, <2>4, <2>5
<1> QED
  BY <1>1, <1>2, DoesKeepsMints

LEMMA InnersAreQuiet ==
  ASSUME NEW r, IsRun(r), NEW seq, IsList(seq), NEW new, new = FoldLeft(RunInner, r, seq)
  PROVE  /\ IsRun(new)
         /\ new.ok => r.ok /\ Quiet(r, new) /\ (MintsHeld(r.holding) => MintsHeld(new.holding))
<1> DEFINE n == Len(seq)
<1>1. n \in Nat
  BY ListHasLength DEF HasLength
<1>2. PICK h : Runs("inner", r, seq, n, h) /\ new = h[n]
  BY RunSteps
<1> DEFINE Good(m) ==
             /\ IsRun(h[m])
             /\ h[m].ok => /\ r.ok /\ Quiet(r, h[m])
                           /\ MintsHeld(r.holding) => MintsHeld(h[m].holding)
           T == {m \in Nat : m <= n => Good(m)}
<1> HIDE DEF n
<1>3. 0 \in T
  <2>1. h[0] = r
    BY <1>2 DEF Runs
  <2> QED
    BY <2>1 DEF Quiet, KeepsMints
<1>4. ASSUME NEW m \in T
      PROVE  m + 1 \in T
  <2>1. m \in Nat
    OBVIOUS
  <2>2. SUFFICES ASSUME m + 1 <= n
                 PROVE  Good(m + 1)
    BY <2>1
  <2>3. Good(m)
    BY <1>1, <2>1, <2>2
  <2>4. h[m + 1] = RunInner(h[m], seq[m + 1])
    <3>1. m + 1 \in 1 .. n /\ (m + 1) - 1 = m
      BY <1>1, <2>1, <2>2
    <3> QED
      BY <1>2, <3>1 DEF Runs, Advance
  <2>5. /\ IsRun(h[m + 1])
        /\ h[m + 1].ok =>
             /\ h[m].ok /\ Quiet(h[m], h[m + 1])
             /\ MintsHeld(h[m].holding) => MintsHeld(h[m + 1].holding)
    BY <2>3, <2>4, InnerIsQuiet
  <2>6. Quiet(r, h[m]) /\ Quiet(h[m], h[m + 1]) => Quiet(r, h[m + 1])
    BY DEF Quiet, KeepsMints
  <2> QED
    BY <2>3, <2>5, <2>6
<1> HIDE DEF T
<1>5. n \in T
  BY <1>1, <1>3, <1>4, Induction
<1>6. Good(n)
  BY <1>1, <1>5 DEF T
<1> QED
  BY <1>2, <1>6

(* The instructions of the first m of a block that a handler looks at.     *)
Own(L, m, tags) == {i \in 1 .. m : ~L[i].failed /\ L[i].inst.ours /\ L[i].inst.tag \in tags}
Who(L, i) == L[i].inst.accounts[1]
Second(L, i) == L[i].inst.accounts[2]

KnownMint(L, m, a) ==
  Has(mintStore, MintKey(a)) \/ \E i \in Own(L, m, InitMintTags) : Who(L, i) = a

StoredMint(a, mint) ==
  Has(accountStore, AccountKey(a)) /\ accountStore.kv[AccountKey(a)].mint = mint

LastInit(L, m, a, mint) ==
  \E i \in Own(L, m, InitAccountTags) :
    /\ Who(L, i) = a /\ Second(L, i) = mint
    /\ \A j \in Own(L, m, InitAccountTags) : j > i => Who(L, j) # a
NoInit(L, m, a) == \A i \in Own(L, m, InitAccountTags) : Who(L, i) # a

(* After m instructions the stores, and what the maps will find in the     *)
(* block, know the mints and the accounts of the chain.                    *)
AccountsHeld(L, m, r) ==
  \A a \in DOMAIN r.holding \ r.hidden :
    IF r.holding[a] = a THEN KnownMint(L, m, a)
    ELSE LastInit(L, m, a, r.holding[a]) \/ (NoInit(L, m, a) /\ StoredMint(a, r.holding[a]))

InitsHeld(L, m, hid) ==
  \A i \in Own(L, m, InitAccountTags) : Second(L, i) \in hid \/ KnownMint(L, m, Second(L, i))

Explained(L, m, hid, t) ==
  /\ t.mint \in hid \/ KnownMint(L, m, t.mint)
  /\ t.from \in hid \/ ~NoInit(L, m, t.from) \/ StoredMint(t.from, t.mint)

Holds(L, m, r) ==
  /\ MintsHeld(r.holding)
  /\ AccountsHeld(L, m, r)
  /\ InitsHeld(L, m, r.hidden)
  /\ IsList(r.moved)
  /\ \A k \in 1 .. Len(r.moved) : Explained(L, m, r.hidden, r.moved[k])

LEMMA OwnNext ==
  ASSUME NEW L, NEW m \in Nat
  PROVE  /\ \A tags : Own(L, m, tags) \subseteq Own(L, m + 1, tags)
         /\ \A tags : (L[m + 1].failed \/ ~L[m + 1].inst.ours \/ L[m + 1].inst.tag \notin tags) =>
              Own(L, m + 1, tags) = Own(L, m, tags)
         /\ \A tags : (~L[m + 1].failed /\ L[m + 1].inst.ours /\ L[m + 1].inst.tag \in tags) =>
              Own(L, m + 1, tags) = Own(L, m, tags) \cup {m + 1}
         /\ \A tags : \A i \in Own(L, m, tags) : i \in Nat /\ i < m + 1
<1>1. \A i : i \in 1 .. m + 1 <=> i \in 1 .. m \/ i = m + 1
  OBVIOUS
<1>2. \A i \in 1 .. m : i \in Nat /\ i < m + 1
  OBVIOUS
<1> QED
  BY <1>1, <1>2 DEF Own

LEMMA KnownMintStays ==
  ASSUME NEW L, NEW m \in Nat, NEW a, KnownMint(L, m, a)
  PROVE  KnownMint(L, m + 1, a)
  BY OwnNext DEF KnownMint

LEMMA ExplainedStays ==
  ASSUME NEW L, NEW m \in Nat, NEW hid, NEW new, hid \subseteq new, NEW t, Explained(L, m, hid, t)
  PROVE  Explained(L, m + 1, new, t) /\ Explained(L, m, new, t)
<1>1. ~NoInit(L, m, t.from) => ~NoInit(L, m + 1, t.from)
  BY OwnNext DEF NoInit
<1> QED
  BY <1>1, KnownMintStays DEF Explained

LEMMA HoldsQuiet ==
  ASSUME NEW L, NEW m \in Nat, NEW r, NEW new, Holds(L, m, r), Quiet(r, new), MintsHeld(new.holding)
  PROVE  Holds(L, m, new)
<1>1. AccountsHeld(L, m, new)
  BY DEF AccountsHeld, Holds, Quiet
<1>2. InitsHeld(L, m, new.hidden)
  BY DEF InitsHeld, Holds, Quiet
<1>3. new.moved = r.moved /\ r.hidden \subseteq new.hidden
  BY DEF Quiet
<1> QED
  BY <1>1, <1>2, <1>3, ExplainedStays DEF Holds

(* An instruction that begins nothing a handler sees.                      *)
LEMMA HoldsNoInit ==
  ASSUME NEW L, NEW m \in Nat, NEW r, NEW new, Holds(L, m, r), MintsHeld(new.holding),
         Own(L, m + 1, InitMintTags) = Own(L, m, InitMintTags),
         Own(L, m + 1, InitAccountTags) = Own(L, m, InitAccountTags),
         \A a \in DOMAIN new.holding : a \in DOMAIN r.holding /\ new.holding[a] = r.holding[a],
         new.hidden = r.hidden, new.moved = r.moved
  PROVE  Holds(L, m + 1, new)
<1>1. \A a : KnownMint(L, m + 1, a) <=> KnownMint(L, m, a)
  BY DEF KnownMint
<1>2. \A a : NoInit(L, m + 1, a) <=> NoInit(L, m, a)
  BY DEF NoInit
<1>3. \A a, mint : LastInit(L, m + 1, a, mint) <=> LastInit(L, m, a, mint)
  BY DEF LastInit
<1>4. AccountsHeld(L, m + 1, new)
  BY <1>1, <1>2, <1>3 DEF AccountsHeld, Holds
<1>5. InitsHeld(L, m + 1, new.hidden)
  BY <1>1 DEF InitsHeld, Holds
<1> QED
  BY <1>4, <1>5, ExplainedStays DEF Holds

LEMMA HoldsInitMint ==
  ASSUME NEW L, NEW m \in Nat, NEW r, NEW new, Holds(L, m, r), MintsHeld(new.holding),
         ~L[m + 1].failed, L[m + 1].inst.ours, L[m + 1].inst.tag \in InitMintTags,
         Begins(r, new, Who(L, m + 1), Who(L, m + 1), TRUE)
  PROVE  Holds(L, m + 1, new)
<1> DEFINE a == Who(L, m + 1)
<1>1. /\ Own(L, m + 1, InitMintTags) = Own(L, m, InitMintTags) \cup {m + 1}
      /\ Own(L, m + 1, InitAccountTags) = Own(L, m, InitAccountTags)
  <2>1. L[m + 1].inst.tag \notin InitAccountTags
    BY TagsDiffer
  <2> QED
    BY <2>1, OwnNext
<1>2. KnownMint(L, m + 1, a)
  BY <1>1 DEF KnownMint
<1>3. \A c : NoInit(L, m + 1, c) <=> NoInit(L, m, c)
  BY <1>1 DEF NoInit
<1>4. \A c, mint : LastInit(L, m + 1, c, mint) <=> LastInit(L, m, c, mint)
  BY <1>1 DEF LastInit
<1>5. new.hidden = r.hidden /\ new.moved = r.moved
  BY DEF Begins
<1>6. \A c \in DOMAIN new.holding :
        \/ c = a /\ new.holding[c] = a
        \/ c \in DOMAIN r.holding /\ new.holding[c] = r.holding[c]
  BY DEF Begins
<1> HIDE DEF a
<1>7. AccountsHeld(L, m + 1, new)
  BY <1>2, <1>3, <1>4, <1>5, <1>6, KnownMintStays DEF AccountsHeld, Holds
<1>8. InitsHeld(L, m + 1, new.hidden)
  BY <1>1, <1>5, KnownMintStays DEF InitsHeld, Holds
<1> QED
  BY <1>5, <1>7, <1>8, ExplainedStays DEF Holds

LEMMA HoldsInitAccount ==
  ASSUME NEW L, NEW m \in Nat, NEW r, NEW new, Holds(L, m, r), MintsHeld(new.holding),
         ~L[m + 1].failed, L[m + 1].inst.ours, L[m + 1].inst.tag \in InitAccountTags,
         Begins(r, new, Who(L, m + 1), Second(L, m + 1), TRUE),
         IsMint(r.holding, Second(L, m + 1))
  PROVE  Holds(L, m + 1, new)
<1> DEFINE a == Who(L, m + 1)
           b == Second(L, m + 1)
<1>1. /\ Own(L, m + 1, InitAccountTags) = Own(L, m, InitAccountTags) \cup {m + 1}
      /\ \A j \in Own(L, m, InitAccountTags) : j \in Nat /\ j < m + 1
  BY OwnNext
<1>2. LastInit(L, m + 1, a, b)
  <2>1. m + 1 \in Own(L, m + 1, InitAccountTags)
    BY <1>1
  <2>2. \A j \in Own(L, m + 1, InitAccountTags) : ~(j > m + 1)
    BY <1>1
  <2> QED
    BY <2>1, <2>2 DEF LastInit
<1>3. \A c : c # a /\ NoInit(L, m, c) => NoInit(L, m + 1, c)
  BY <1>1 DEF NoInit
<1>4. ASSUME NEW c, c # a, NEW mint, LastInit(L, m, c, mint)
      PROVE  LastInit(L, m + 1, c, mint)
  BY <1>1, <1>4 DEF LastInit
<1>5. new.hidden = r.hidden /\ new.moved = r.moved
  BY DEF Begins
<1>6. \A c \in DOMAIN new.holding :
        \/ c = a /\ new.holding[c] = b
        \/ c # a /\ c \in DOMAIN r.holding /\ new.holding[c] = r.holding[c]
  BY DEF Begins
<1>7. a # b
  BY DEF Begins, IsMint
<1>8. b \in r.hidden \/ KnownMint(L, m, b)
  BY DEF IsMint, Holds, AccountsHeld
<1>9. InitsHeld(L, m + 1, new.hidden)
  <2>1. ASSUME NEW i \in Own(L, m + 1, InitAccountTags)
        PROVE  Second(L, i) \in r.hidden \/ KnownMint(L, m + 1, Second(L, i))
    <3>1. CASE i = m + 1
      BY <1>8, <3>1, KnownMintStays
    <3>2. CASE i \in Own(L, m, InitAccountTags)
      BY <3>2, KnownMintStays DEF Holds, InitsHeld
    <3> QED
      BY <1>1, <3>1, <3>2
  <2> QED
    BY <1>5, <2>1 DEF InitsHeld
<1> HIDE DEF a, b
<1>10. AccountsHeld(L, m + 1, new)
  <2>1. ASSUME NEW c \in DOMAIN new.holding \ new.hidden
        PROVE  IF new.holding[c] = c THEN KnownMint(L, m + 1, c)
               ELSE \/ LastInit(L, m + 1, c, new.holding[c])
                    \/ NoInit(L, m + 1, c) /\ StoredMint(c, new.holding[c])
    <3>1. CASE c = a
      BY <1>2, <1>6, <1>7, <3>1
    <3>2. CASE c # a
      <4>1. c \in DOMAIN r.holding \ r.hidden /\ new.holding[c] = r.holding[c]
        BY <1>5, <1>6, <3>2
      <4> QED
        BY <1>3, <1>4, <3>2, <4>1, KnownMintStays DEF Holds, AccountsHeld
    <3> QED
      BY <3>1, <3>2
  <2> QED
    BY <2>1 DEF AccountsHeld
<1> QED
  BY <1>5, <1>9, <1>10, ExplainedStays DEF Holds

LEMMA HoldsTransfer ==
  ASSUME NEW L, NEW m \in Nat, NEW r, NEW new, Holds(L, m, r),
         L[m + 1].inst.tag \in TransferTags,
         IsTokenAccount(r.holding, Who(L, m + 1)),
         new.holding = r.holding, new.hidden = r.hidden,
         new.moved = Append(r.moved, MovedBy(L[m + 1].inst, r.holding[Who(L, m + 1)]))
  PROVE  Holds(L, m + 1, new)
<1> DEFINE a == Who(L, m + 1)
           t == MovedBy(L[m + 1].inst, r.holding[a])
<1>1. /\ Own(L, m + 1, InitMintTags) = Own(L, m, InitMintTags)
      /\ Own(L, m + 1, InitAccountTags) = Own(L, m, InitAccountTags)
  <2>1. L[m + 1].inst.tag \notin InitMintTags \cup InitAccountTags
    BY TagsDiffer
  <2> QED
    BY <2>1, OwnNext
<1>2. Holds(L, m + 1, r)
  BY <1>1, HoldsNoInit DEF Holds
<1>3. t.from = a /\ t.mint = r.holding[a] /\ a \in DOMAIN r.holding /\ r.holding[a] # a
  BY DEF MovedBy, IsTokenAccount, Who
<1>4. IsMint(r.holding, r.holding[a])
  BY <1>3 DEF Holds, MintsHeld
<1> HIDE DEF t, a
<1>5. Explained(L, m + 1, r.hidden, t)
  <2>1. t.mint \in r.hidden \/ KnownMint(L, m + 1, t.mint)
    BY <1>2, <1>3, <1>4 DEF IsMint, Holds, AccountsHeld
  <2>2. LastInit(L, m + 1, a, t.mint) => ~NoInit(L, m + 1, a)
    BY DEF LastInit, NoInit
  <2>3. t.from \in r.hidden \/ ~NoInit(L, m + 1, t.from) \/ StoredMint(t.from, t.mint)
    BY <1>2, <1>3, <2>2 DEF Holds, AccountsHeld
  <2> QED
    BY <2>1, <2>3 DEF Explained
<1>6. /\ IsList(new.moved) /\ Len(new.moved) = Len(r.moved) + 1
      /\ \A k \in 1 .. Len(r.moved) : new.moved[k] = r.moved[k]
      /\ new.moved[Len(r.moved) + 1] = t
  <2>1. IsList(r.moved)
    BY DEF Holds
  <2>2. new.moved = Append(r.moved, t)
    BY DEF t, a
  <2> QED
    BY <2>1, <2>2, AppendToList
<1>7. Len(r.moved) \in Nat
  BY ListHasLength DEF Holds, HasLength
<1>8. \A k \in 1 .. Len(new.moved) : k \in 1 .. Len(r.moved) \/ k = Len(r.moved) + 1
  BY <1>6, <1>7
<1>9. \A k \in 1 .. Len(new.moved) : Explained(L, m + 1, new.hidden, new.moved[k])
  BY <1>2, <1>5, <1>6, <1>8 DEF Holds
<1> QED
  BY <1>2, <1>6, <1>9 DEF Holds, AccountsHeld, InitsHeld

LEMMA HoldsDoes ==
  ASSUME NEW L, NEW m \in Nat, NEW r, NEW new, Holds(L, m, r),
         ~L[m + 1].failed, L[m + 1].inst.ours, Does(r, new, L[m + 1].inst, TRUE)
  PROVE  Holds(L, m + 1, new)
<1> DEFINE inst == L[m + 1].inst
<1>1. MintsHeld(new.holding)
  BY DoesKeepsMints DEF Holds
<1>2. CASE inst.tag \in InitMintTags
  BY <1>1, <1>2, HoldsInitMint DEF Does, Who
<1>3. CASE inst.tag \in InitAccountTags
  BY <1>1, <1>3, HoldsInitAccount DEF Does, Who, Second
<1>4. CASE inst.tag \in TransferTags
  BY <1>4, HoldsTransfer DEF Does, Who
<1>5. CASE inst.tag = CloseAccount
  <2>1. inst.tag \notin InitMintTags \cup InitAccountTags
    BY <1>5, TagsDiffer
  <2>2. /\ Own(L, m + 1, InitMintTags) = Own(L, m, InitMintTags)
        /\ Own(L, m + 1, InitAccountTags) = Own(L, m, InitAccountTags)
    BY <2>1, OwnNext
  <2>3. /\ \A a \in DOMAIN new.holding : a \in DOMAIN r.holding /\ new.holding[a] = r.holding[a]
        /\ new.hidden = r.hidden /\ new.moved = r.moved
    BY <1>5 DEF Does
  <2> QED
    BY <1>1, <2>2, <2>3, HoldsNoInit
<1>6. CASE inst.tag \notin InitMintTags \cup InitAccountTags \cup TransferTags \cup {CloseAccount}
  <2>1. /\ Own(L, m + 1, InitMintTags) = Own(L, m, InitMintTags)
        /\ Own(L, m + 1, InitAccountTags) = Own(L, m, InitAccountTags)
    BY <1>6, OwnNext
  <2>2. new.holding = r.holding /\ new.hidden = r.hidden /\ new.moved = r.moved
    BY <1>6 DEF Does
  <2> QED
    BY <1>1, <2>1, <2>2, HoldsNoInit
<1> QED
  BY <1>2, <1>3, <1>4, <1>5, <1>6

(* The transfers the chain made are those that map_transfers will find: p  *)
(* tells where in the block each of the n of them is.                      *)
Ascending(p, n) == \A k, l \in 1 .. n : k < l => p[k] < p[l]
PlacesOf(L, tags, n, p) ==
  /\ \A k \in 1 .. n : p[k] \in Own(L, Len(L), tags)
  /\ Ascending(p, n)
  /\ \A i \in Own(L, Len(L), tags) : \E k \in 1 .. n : p[k] = i

Matched(L, m, r, n, p) ==
  /\ IsList(r.moved)
  /\ Len(r.moved) <= n
  /\ \A k \in 1 .. n : p[k] <= m <=> k <= Len(r.moved)
  /\ \A k \in 1 .. Len(r.moved) :
       LET inst == L[p[k]].inst IN
       /\ r.moved[k] = MovedBy(inst, r.moved[k].mint)
       /\ inst.tag = TransferChecked => inst.accounts[2] = r.moved[k].mint

LEMMA MatchedSame ==
  ASSUME NEW L, Len(L) \in Nat, NEW m \in Nat, m + 1 <= Len(L), NEW r, NEW new,
         NEW n \in Nat, NEW p,
         PlacesOf(L, TransferTags, n, p), Matched(L, m, r, n, p), new.moved = r.moved,
         \/ L[m + 1].failed
         \/ ~L[m + 1].inst.ours
         \/ L[m + 1].inst.tag \notin TransferTags
  PROVE  Matched(L, m + 1, new, n, p)
<1>1. ASSUME NEW k \in 1 .. n
      PROVE  p[k] <= m + 1 <=> p[k] <= m
  <2>1. p[k] \in Own(L, Len(L), TransferTags)
    BY DEF PlacesOf
  <2>2. p[k] \in 1 .. Len(L) /\ p[k] # m + 1
    BY <2>1 DEF Own
  <2> QED
    BY <2>2
<1> QED
  BY <1>1 DEF Matched

LEMMA MatchedTransfer ==
  ASSUME NEW L, Len(L) \in Nat, NEW m \in Nat, m + 1 <= Len(L), NEW r, NEW new,
         NEW n \in Nat, NEW p,
         PlacesOf(L, TransferTags, n, p), Matched(L, m, r, n, p),
         ~L[m + 1].failed, L[m + 1].inst.ours, L[m + 1].inst.tag \in TransferTags,
         NEW mint, L[m + 1].inst.tag = TransferChecked => L[m + 1].inst.accounts[2] = mint,
         new.moved = Append(r.moved, MovedBy(L[m + 1].inst, mint))
  PROVE  Matched(L, m + 1, new, n, p)
<1> DEFINE c == Len(r.moved)
           t == MovedBy(L[m + 1].inst, mint)
<1>1. c \in Nat /\ c <= n
  BY ListHasLength DEF Matched, HasLength
<1>2. m + 1 \in Own(L, Len(L), TransferTags)
  <2>1. m + 1 \in 1 .. Len(L)
    OBVIOUS
  <2> QED
    BY <2>1 DEF Own
<1>3. PICK q \in 1 .. n : p[q] = m + 1
  BY <1>2 DEF PlacesOf
<1>4. \A k \in 1 .. n : p[k] \in Nat /\ (p[k] <= m <=> k <= c)
  <2>1. \A k \in 1 .. n : p[k] \in 1 .. Len(L)
    BY DEF PlacesOf, Own
  <2> QED
    BY <2>1 DEF Matched
<1>5. \A k \in 1 .. n : (k < q => p[k] < p[q]) /\ (q < k => p[q] < p[k])
  BY DEF PlacesOf, Ascending
<1> HIDE DEF c, t
<1>6. q = c + 1
  <2>1. q > c
    BY <1>1, <1>3, <1>4
  <2>2. ASSUME q > c + 1
        PROVE  FALSE
    <3>1. c + 1 \in 1 .. n /\ c + 1 < q
      BY <1>1, <2>2
    <3>2. p[c + 1] < m + 1 /\ p[c + 1] \in Nat /\ (p[c + 1] <= m <=> c + 1 <= c)
      BY <1>3, <1>4, <1>5, <3>1
    <3> QED
      BY <1>1, <3>2
  <2> QED
    BY <1>1, <2>1, <2>2
<1>7. \A k \in 1 .. n : p[k] <= m + 1 <=> k <= c + 1
  <2>1. ASSUME NEW k \in 1 .. n
        PROVE  p[k] <= m + 1 <=> k <= c + 1
    <3>1. p[k] \in Nat /\ (p[k] <= m <=> k <= c) /\ (q < k => m + 1 < p[k])
      BY <1>3, <1>4, <1>5
    <3>2. k = q => p[k] = m + 1
      BY <1>3
    <3> QED
      BY <1>1, <1>6, <3>1, <3>2
  <2> QED
    BY <2>1
<1>8. /\ IsList(new.moved) /\ Len(new.moved) = c + 1
      /\ \A k \in 1 .. c : new.moved[k] = r.moved[k]
      /\ new.moved[c + 1] = t
  <2>1. IsList(r.moved)
    BY DEF Matched
  <2>2. new.moved = Append(r.moved, t)
    BY DEF t
  <2> QED
    BY <2>1, <2>2, AppendToList DEF c
<1>9. \A k \in 1 .. c + 1 : k \in 1 .. c \/ k = c + 1
  BY <1>1
<1>10. /\ t = MovedBy(L[p[c + 1]].inst, t.mint)
       /\ L[p[c + 1]].inst.tag = TransferChecked => L[p[c + 1]].inst.accounts[2] = t.mint
  <2>1. p[c + 1] = m + 1
    BY <1>3, <1>6
  <2>2. t.mint = mint
    BY DEF t, MovedBy
  <2> QED
    BY <2>1, <2>2 DEF t
<1>11. \A k \in 1 .. c + 1 :
         /\ new.moved[k] = MovedBy(L[p[k]].inst, new.moved[k].mint)
         /\ L[p[k]].inst.tag = TransferChecked => L[p[k]].inst.accounts[2] = new.moved[k].mint
  <2>1. \A k \in 1 .. c :
          /\ r.moved[k] = MovedBy(L[p[k]].inst, r.moved[k].mint)
          /\ L[p[k]].inst.tag = TransferChecked => L[p[k]].inst.accounts[2] = r.moved[k].mint
    BY DEF Matched, c
  <2> QED
    BY <1>8, <1>9, <1>10, <2>1
<1>12. c + 1 <= n
  BY <1>6
<1> QED
  BY <1>7, <1>8, <1>11, <1>12 DEF Matched

(* The mints of the chain before the block, which are H, are mints still,  *)
(* and those that the block begins are none of them.                       *)
MintsKept(L, m, H, r) ==
  /\ \A a : IsMint(H, a) => IsMint(r.holding, a)
  /\ \A i \in Own(L, m, InitMintTags) : ~IsMint(H, Who(L, i)) /\ IsMint(r.holding, Who(L, i))

LEMMA MintsKeptSame ==
  ASSUME NEW L, NEW m, NEW k, NEW H, NEW r, NEW new, MintsKept(L, m, H, r), KeepsMints(r, new),
         Own(L, k, InitMintTags) = Own(L, m, InitMintTags)
  PROVE  MintsKept(L, k, H, new)
  BY DEF MintsKept, KeepsMints

LEMMA MintsKeptDoes ==
  ASSUME NEW L, NEW m \in Nat, NEW H, NEW r, NEW new, MintsKept(L, m, H, r),
         ~L[m + 1].failed, L[m + 1].inst.ours, Does(r, new, L[m + 1].inst, TRUE)
  PROVE  MintsKept(L, m + 1, H, new)
<1>1. /\ KeepsMints(r, new)
      /\ L[m + 1].inst.tag \in InitMintTags =>
           ~IsMint(r.holding, Who(L, m + 1)) /\ IsMint(new.holding, Who(L, m + 1))
  BY DoesKeepEachMint DEF Who
<1>2. CASE L[m + 1].inst.tag \in InitMintTags
  <2>1. Own(L, m + 1, InitMintTags) = Own(L, m, InitMintTags) \cup {m + 1}
    BY <1>2, OwnNext
  <2> QED
    BY <1>1, <1>2, <2>1 DEF MintsKept, KeepsMints
<1>3. CASE L[m + 1].inst.tag \notin InitMintTags
  <2>1. Own(L, m + 1, InitMintTags) = Own(L, m, InitMintTags)
    BY <1>3, OwnNext
  <2> QED
    BY <1>1, <2>1, MintsKeptSame
<1> QED
  BY <1>2, <1>3

(* One instruction of the block, with all it runs itself.                  *)
LEMMA InstHolds ==
  ASSUME NEW L, Len(L) \in Nat, NEW m \in Nat, m + 1 <= Len(L), IsList(L[m + 1].inst.inner),
         NEW n \in Nat, NEW p, PlacesOf(L, TransferTags, n, p),
         NEW H, NEW r, IsRun(r),
         r.ok => Holds(L, m, r) /\ Matched(L, m, r, n, p) /\ MintsKept(L, m, H, r),
         NEW new, new = RunInst(r, L[m + 1])
  PROVE  /\ IsRun(new)
         /\ new.ok => r.ok /\ r.hidden \subseteq new.hidden
         /\ new.ok => /\ Holds(L, m + 1, new) /\ Matched(L, m + 1, new, n, p)
                      /\ MintsKept(L, m + 1, H, new)
<1> DEFINE x == L[m + 1]
<1>1. CASE x.failed
  <2>1. new = r
    BY <1>1 DEF RunInst
  <2>2. /\ Own(L, m + 1, InitMintTags) = Own(L, m, InitMintTags)
        /\ Own(L, m + 1, InitAccountTags) = Own(L, m, InitAccountTags)
    BY <1>1, OwnNext
  <2>3. r.ok => Holds(L, m + 1, r)
    BY <2>2, HoldsNoInit DEF Holds
  <2>4. r.ok => Matched(L, m + 1, r, n, p)
    BY <1>1, MatchedSame
  <2>5. r.ok => MintsKept(L, m + 1, H, r)
    BY <2>2, MintsKeptSame DEF KeepsMints
  <2> QED
    BY <2>1, <2>3, <2>4, <2>5
<1>2. CASE ~x.failed
  <2> DEFINE mid == IF x.inst.ours THEN Execute(r, x.inst, TRUE) ELSE r
  <2>1. new = FoldLeft(RunInner, mid, x.inst.inner)
    BY <1>2 DEF RunInst
  <2>2. /\ IsRun(mid)
        /\ mid.ok => r.ok /\ r.hidden \subseteq mid.hidden
        /\ mid.ok => /\ Holds(L, m + 1, mid) /\ Matched(L, m + 1, mid, n, p)
                     /\ MintsKept(L, m + 1, H, mid)
    <3>1. CASE ~x.inst.ours
      <4>1. mid = r
        BY <3>1
      <4>2. /\ Own(L, m + 1, InitMintTags) = Own(L, m, InitMintTags)
            /\ Own(L, m + 1, InitAccountTags) = Own(L, m, InitAccountTags)
        BY <3>1, OwnNext
      <4>3. r.ok => Holds(L, m + 1, r)
        BY <4>2, HoldsNoInit DEF Holds
      <4>4. r.ok => Matched(L, m + 1, r, n, p)
        BY <3>1, MatchedSame
      <4>5. r.ok => MintsKept(L, m + 1, H, r)
        BY <4>2, MintsKeptSame DEF KeepsMints
      <4> QED
        BY <4>1, <4>3, <4>4, <4>5
    <3>2. CASE x.inst.ours
      <4>1. PICK after : after = Execute(r, x.inst, TRUE)
        OBVIOUS
      <4>2. mid = after
        BY <3>2, <4>1
      <4>3. IsRun(after) /\ (after.ok => r.ok /\ Does(r, after, x.inst, TRUE))
        <5>1. PICK inst : inst = x.inst
          OBVIOUS
        <5>2. after = Execute(r, inst, TRUE)
          BY <4>1, <5>1
        <5>3. IsRun(after) /\ (after.ok => r.ok /\ Does(r, after, inst, TRUE))
          BY <5>2, ExecuteTop
        <5> QED
          BY <5>1, <5>3
      <4>4. after.ok => Holds(L, m + 1, after)
        BY <1>2, <3>2, <4>3, HoldsDoes
      <4>5. after.ok => r.hidden \subseteq after.hidden
        BY <4>3, TagsDiffer DEF Does, Begins
      <4>6. ASSUME after.ok
            PROVE  Matched(L, m + 1, after, n, p)
        <5>1. Matched(L, m, r, n, p) /\ Does(r, after, x.inst, TRUE)
          BY <4>3, <4>6
        <5>2. CASE x.inst.tag \in TransferTags
          <6>1. PICK mint : mint = r.holding[x.inst.accounts[1]]
            OBVIOUS
          <6>2. after.moved = Append(r.moved, MovedBy(x.inst, mint))
                /\ (x.inst.tag = TransferChecked => x.inst.accounts[2] = mint)
            BY <5>1, <5>2, <6>1 DEF Does
          <6> QED
            BY <1>2, <3>2, <5>1, <5>2, <6>2, MatchedTransfer
        <5>3. CASE x.inst.tag \notin TransferTags
          <6>1. after.moved = r.moved
            BY <5>1, <5>3 DEF Does, Begins
          <6> QED
            BY <5>1, <5>3, <6>1, MatchedSame
        <5> QED
          BY <5>2, <5>3
      <4>7. after.ok => MintsKept(L, m + 1, H, after)
        BY <1>2, <3>2, <4>3, MintsKeptDoes
      <4> QED
        BY <4>2, <4>3, <4>4, <4>5, <4>6, <4>7
    <3> QED
      BY <3>1, <3>2
  <2> HIDE DEF mid
  <2>3. /\ IsRun(new)
        /\ new.ok => mid.ok /\ Quiet(mid, new) /\ (MintsHeld(mid.holding) => MintsHeld(new.holding))
    BY <2>1, <2>2, InnersAreQuiet
  <2>4. ASSUME new.ok
        PROVE  /\ Holds(L, m + 1, new) /\ Matched(L, m + 1, new, n, p)
               /\ MintsKept(L, m + 1, H, new)
    <3>1. Holds(L, m + 1, mid) /\ Matched(L, m + 1, mid, n, p) /\ Quiet(mid, new)
          /\ MintsHeld(new.holding) /\ MintsKept(L, m + 1, H, mid)
      BY <2>2, <2>3, <2>4 DEF Holds
    <3>2. Holds(L, m + 1, new)
      BY <3>1, HoldsQuiet
    <3>3. Matched(L, m + 1, new, n, p)
      BY <3>1 DEF Quiet, Matched
    <3>4. MintsKept(L, m + 1, H, new)
      BY <3>1, MintsKeptSame DEF Quiet
    <3> QED
      BY <3>2, <3>3, <3>4
  <2>5. new.ok => r.ok /\ r.hidden \subseteq new.hidden
    BY <2>2, <2>3 DEF Quiet
  <2> QED
    BY <2>3, <2>4, <2>5
<1> QED
  BY <1>1, <1>2

(* The whole block.                                                        *)
LEMMA BlockHolds ==
  ASSUME NEW L, IsList(L), \A i \in DOMAIN L : IsList(L[i].inst.inner),
         NEW n \in Nat, NEW p, PlacesOf(L, TransferTags, n, p),
         NEW H, NEW r, IsRun(r), Holds(L, 0, r), Matched(L, 0, r, n, p), MintsKept(L, 0, H, r),
         NEW new, new = FoldLeft(RunInst, r, L)
  PROVE  new.ok => /\ r.hidden \subseteq new.hidden
                   /\ Holds(L, Len(L), new)
                   /\ Matched(L, Len(L), new, n, p)
                   /\ MintsKept(L, Len(L), H, new)
<1> DEFINE len == Len(L)
<1>1. len \in Nat /\ DOMAIN L = 1 .. len
  BY ListHasLength DEF HasLength
<1>2. PICK h : Runs("block", r, L, len, h) /\ new = h[len]
  BY RunSteps
<1> DEFINE Good(m) ==
             /\ IsRun(h[m])
             /\ h[m].ok => r.hidden \subseteq h[m].hidden
             /\ h[m].ok => /\ Holds(L, m, h[m]) /\ Matched(L, m, h[m], n, p)
                           /\ MintsKept(L, m, H, h[m])
           T == {m \in Nat : m <= len => Good(m)}
<1>3. 0 \in T
  <2>1. h[0] = r
    BY <1>2 DEF Runs
  <2> QED
    BY <2>1
<1>4. ASSUME NEW m \in T
      PROVE  m + 1 \in T
  <2>1. m \in Nat
    OBVIOUS
  <2>2. SUFFICES ASSUME m + 1 <= len
                 PROVE  Good(m + 1)
    BY <2>1
  <2>3. Good(m)
    BY <1>1, <2>1, <2>2
  <2>4. m + 1 \in 1 .. len /\ (m + 1) - 1 = m
    BY <1>1, <2>1, <2>2
  <2>5. h[m + 1] = RunInst(h[m], L[m + 1])
    BY <1>2, <2>4 DEF Runs, Advance
  <2>6. IsList(L[m + 1].inst.inner)
    BY <1>1, <2>4
  <2>7. /\ IsRun(h[m + 1])
        /\ h[m + 1].ok => h[m].ok /\ h[m].hidden \subseteq h[m + 1].hidden
        /\ h[m + 1].ok => /\ Holds(L, m + 1, h[m + 1]) /\ Matched(L, m + 1, h[m + 1], n, p)
                          /\ MintsKept(L, m + 1, H, h[m + 1])
    BY <1>1, <2>1, <2>2, <2>3, <2>5, <2>6, InstHolds
  <2> QED
    BY <2>3, <2>7
<1> HIDE DEF T
<1>5. len \in T
  BY <1>1, <1>3, <1>4, Induction
<1>6. Good(len)
  BY <1>1, <1>5 DEF T
<1> QED
  BY <1>2, <1>6
-----------------------------------------------------------------------------
(* The transfers of SPL tokens.  A mint that is known stays known: the     *)
(* store of mints is only added to, and a transfer is logged only when its *)
(* mint is in it.                                                          *)
SplInv ==
  /\ splStage \in {"idle", "map_mints", "store_mints", "map_accounts", "store_accounts",
                   "map_transfers", "store_mint_volumes"}
  /\ splNumber \in 0 .. SplMaxBlocks
  /\ splError \in {"none", "err", "panic"}
  /\ splBlock \in SplBlocks \cup {<<>>}
  /\ IsList(mints)
  /\ IsStore(mintStore)
  /\ IsList(transferLog)
  /\ \A t \in ToSet(transferLog) : Has(mintStore, MintKey(t.mint))

LEMMA SplInvInit == SplInit => SplInv
<1> SUFFICES ASSUME SplInit PROVE SplInv
  OBVIOUS
<1>1. IsList(mints)
  BY EmptyIsList DEF SplInit
<1>2. IsList(transferLog) /\ ToSet(transferLog) = {} /\ IsStore(mintStore)
  BY EmptyIsList, EmptyStoreIsStore DEF SplInit
<1>3. 0 \in 0 .. SplMaxBlocks
  BY SplAssumption
<1> QED
  BY <1>1, <1>2, <1>3 DEF SplInit, SplInv

(* The instructions of a block are a list, and what each of them runs.     *)
LEMMA InstructionsAreListed ==
  ASSUME NEW b \in SplBlocks \cup {<<>>}
  PROVE  /\ IsList(Instructions(b))
         /\ \A x \in ToSet(Instructions(b)) : IsList(x.inst.inner)
         /\ b = <<>> => ToSet(Instructions(b)) = {}
<1> DEFINE part(i) == [j \in DOMAIN b[i].insts |->
                         [trx |-> i, failed |-> b[i].failed, inst |-> b[i].insts[j]]]
           parts == [i \in DOMAIN b |-> part(i)]
<1>1. IsList(b) /\ \A i \in DOMAIN b : IsList(b[i].insts)
  BY SplAssumption, EmptyIsList DEF IsList
<1>2. \A i \in DOMAIN b : \A inst \in ToSet(b[i].insts) : IsList(inst.inner)
  BY SplAssumption, EmptyIsList DEF IsList
<1>3. Instructions(b) = FlattenSeq(parts)
  BY DEF Instructions
<1>4. ASSUME NEW i \in DOMAIN b
      PROVE  IsList(part(i)) /\ \A x \in ToSet(part(i)) : IsList(x.inst.inner)
  <2>1. part(i) = [j \in DOMAIN b[i].insts |-> part(i)[j]] /\ DOMAIN part(i) = DOMAIN b[i].insts
    OBVIOUS
  <2>2. \A j \in DOMAIN b[i].insts : part(i)[j].inst = b[i].insts[j]
    OBVIOUS
  <2>3. \A x \in ToSet(part(i)) : \E j \in DOMAIN b[i].insts : x.inst = b[i].insts[j]
    <3>1. \A x \in ToSet(part(i)) : \E j \in DOMAIN part(i) : x = part(i)[j]
      <4> HIDE DEF part
      <4> QED
        BY DEF ToSet
    <3> QED
      BY <2>1, <2>2, <3>1
  <2> HIDE DEF part
  <2>4. IsList(part(i))
    BY <1>1, <2>1, ImageIsList
  <2>5. \A j \in DOMAIN b[i].insts : b[i].insts[j] \in ToSet(b[i].insts)
    BY DEF ToSet
  <2> QED
    BY <1>2, <2>3, <2>4, <2>5
<1>5. parts = [i \in DOMAIN b |-> parts[i]] /\ DOMAIN parts = DOMAIN b
      /\ \A i \in DOMAIN b : parts[i] = part(i)
  OBVIOUS
<1> HIDE DEF part, parts
<1>6. IsList(parts)
  BY <1>1, <1>5, ImageIsList
<1>7. /\ IsList(FlattenSeq(parts))
      /\ \A x \in ToSet(FlattenSeq(parts)) : \E i \in DOMAIN parts : x \in ToSet(parts[i])
  BY <1>4, <1>5, <1>6, FlattenOfLists
<1> QED
  BY <1>3, <1>4, <1>5, <1>7, EmptyIsList

Block == Instructions(splBlock)

LEMMA BlockIsList ==
  ASSUME SplInv
  PROVE  /\ IsList(Block)
         /\ Len(Block) \in Nat /\ DOMAIN Block = 1 .. Len(Block)
         /\ \A i \in DOMAIN Block : Block[i] \in ToSet(Block)
<1>1. IsList(Block)
  BY InstructionsAreListed DEF SplInv, Block
<1>2. Len(Block) \in Nat /\ DOMAIN Block = 1 .. Len(Block)
  BY <1>1, ListHasLength DEF HasLength
<1> QED
  BY <1>1, <1>2 DEF ToSet

(* What a map looks for, in the order of the block.                        *)
HandledIn(L) == Where(L, LAMBDA x : Committed(x) /\ x.inst.ours)
FoundIn(L, tags) == Where(HandledIn(L), LAMBDA x : x.inst.tag \in tags)

LEMMA HandledPlaces ==
  ASSUME NEW L, IsList(L)
  PROVE  /\ IsList(HandledIn(L))
         /\ \E p : /\ Ascending(p, Len(HandledIn(L)))
                   /\ \A k \in 1 .. Len(HandledIn(L)) :
                        LET x == L[p[k]] IN
                        p[k] \in DOMAIN L /\ HandledIn(L)[k] = x /\ ~x.failed /\ x.inst.ours
                   /\ \A j \in DOMAIN L :
                        ~L[j].failed /\ L[j].inst.ours =>
                          \E k \in 1 .. Len(HandledIn(L)) : p[k] = j
<1> DEFINE kept == [j \in DOMAIN L |-> IF Committed(L[j]) /\ L[j].inst.ours THEN <<L[j]>> ELSE <<>>]
<1>1. HandledIn(L) = FlattenSeq(kept)
  BY DEF HandledIn, Where, Each
<1>2. IsList(L) /\ DOMAIN L = 1 .. Len(L)
  BY ListHasLength DEF HasLength
<1>3. \A x : <<x>> # <<>>
  OBVIOUS
<1>4. \A j \in DOMAIN L : kept[j] # <<>> <=> ~L[j].failed /\ L[j].inst.ours
  BY <1>3 DEF Committed
<1>5. Selection(L, kept)
  BY DEF Selection
<1> HIDE DEF kept
<1>6. /\ IsList(FlattenSeq(kept))
      /\ \E p : PlacesUpTo(L, kept, Len(L), FlattenSeq(kept), p)
  BY <1>2, <1>5, SelectionPlaces
<1>7. PICK p : PlacesUpTo(L, kept, Len(L), HandledIn(L), p)
  BY <1>1, <1>6
<1>8. Ascending(p, Len(HandledIn(L)))
  BY <1>7 DEF PlacesUpTo, Ascending
<1>9. \A k \in 1 .. Len(HandledIn(L)) :
        p[k] \in DOMAIN L /\ kept[p[k]] # <<>> /\ HandledIn(L)[k] = L[p[k]]
  BY <1>2, <1>7 DEF PlacesUpTo
<1>10. \A j \in DOMAIN L : kept[j] # <<>> => \E k \in 1 .. Len(HandledIn(L)) : p[k] = j
  BY <1>2, <1>7 DEF PlacesUpTo
<1>11. \A k \in 1 .. Len(HandledIn(L)) :
         p[k] \in DOMAIN L /\ HandledIn(L)[k] = L[p[k]] /\ ~L[p[k]].failed /\ L[p[k]].inst.ours
  BY <1>4, <1>9
<1>12. \A j \in DOMAIN L :
         ~L[j].failed /\ L[j].inst.ours => \E k \in 1 .. Len(HandledIn(L)) : p[k] = j
  BY <1>4, <1>10
<1>13. IsList(HandledIn(L))
  BY <1>1, <1>6
<1>14. /\ Ascending(p, Len(HandledIn(L)))
       /\ \A k \in 1 .. Len(HandledIn(L)) :
            LET x == L[p[k]] IN
            p[k] \in DOMAIN L /\ HandledIn(L)[k] = x /\ ~x.failed /\ x.inst.ours
       /\ \A j \in DOMAIN L :
            ~L[j].failed /\ L[j].inst.ours => \E k \in 1 .. Len(HandledIn(L)) : p[k] = j
  BY <1>8, <1>11, <1>12
<1> QED
  BY <1>13, <1>14

LEMMA FoundPlaces ==
  ASSUME NEW L, IsList(L), NEW tags
  PROVE  LET found == FoundIn(L, tags) IN
         /\ IsList(found)
         /\ \E p : /\ PlacesOf(L, tags, Len(found), p)
                   /\ \A k \in 1 .. Len(found) : found[k] = L[p[k]]
<1> DEFINE found == FoundIn(L, tags)
           kept == [j \in DOMAIN HandledIn(L) |->
                      IF HandledIn(L)[j].inst.tag \in tags THEN <<HandledIn(L)[j]>> ELSE <<>>]
<1>1. found = FlattenSeq(kept)
  BY DEF FoundIn, Where, Each
<1>2. IsList(HandledIn(L))
  BY HandledPlaces
<1>3. Len(HandledIn(L)) \in Nat /\ DOMAIN HandledIn(L) = 1 .. Len(HandledIn(L))
  BY <1>2, ListHasLength DEF HasLength
<1>4. PICK p : /\ Ascending(p, Len(HandledIn(L)))
               /\ \A k \in 1 .. Len(HandledIn(L)) :
                    LET x == L[p[k]] IN
                    p[k] \in DOMAIN L /\ HandledIn(L)[k] = x /\ ~x.failed /\ x.inst.ours
               /\ \A j \in DOMAIN L :
                    ~L[j].failed /\ L[j].inst.ours =>
                      \E k \in 1 .. Len(HandledIn(L)) : p[k] = j
  BY HandledPlaces
<1>5. \A x : <<x>> # <<>>
  OBVIOUS
<1>6. \A j \in DOMAIN HandledIn(L) : kept[j] # <<>> <=> HandledIn(L)[j].inst.tag \in tags
  BY <1>5
<1>7. Selection(HandledIn(L), kept)
  BY DEF Selection
<1> HIDE DEF kept, found
<1>8. /\ IsList(FlattenSeq(kept))
      /\ \E q : PlacesUpTo(HandledIn(L), kept, Len(HandledIn(L)), FlattenSeq(kept), q)
  BY <1>2, <1>7, SelectionPlaces
<1>9. PICK q : PlacesUpTo(HandledIn(L), kept, Len(HandledIn(L)), found, q)
  BY <1>1, <1>8
<1> DEFINE n == Len(found)
           places == [k \in 1 .. n |-> p[q[k]]]
<1>10. \A k \in 1 .. n : /\ q[k] \in 1 .. Len(HandledIn(L)) /\ found[k] = HandledIn(L)[q[k]]
                         /\ HandledIn(L)[q[k]].inst.tag \in tags
  BY <1>3, <1>6, <1>9 DEF PlacesUpTo
<1>11. Len(L) \in Nat /\ DOMAIN L = 1 .. Len(L)
  BY ListHasLength DEF HasLength
<1>12. \A k \in 1 .. n : places[k] = p[q[k]]
  OBVIOUS
<1> HIDE DEF n, places
<1>13. \A k \in 1 .. n : places[k] \in Own(L, Len(L), tags) /\ found[k] = L[places[k]]
  <2>1. ASSUME NEW k \in 1 .. n
        PROVE  places[k] \in Own(L, Len(L), tags) /\ found[k] = L[places[k]]
    <3>1. PICK j \in 1 .. Len(HandledIn(L)) : j = q[k] /\ places[k] = p[j]
      BY <1>10, <1>12
    <3>2. found[k] = HandledIn(L)[j] /\ found[k].inst.tag \in tags
      BY <1>10, <3>1
    <3>3. p[j] \in 1 .. Len(L) /\ found[k] = L[p[j]] /\ ~L[p[j]].failed /\ L[p[j]].inst.ours
      BY <1>4, <1>11, <3>2
    <3> QED
      BY <3>1, <3>2, <3>3 DEF Own
  <2> QED
    BY <2>1
<1>14. Ascending(places, n)
  BY <1>4, <1>9, <1>10, <1>12 DEF Ascending, PlacesUpTo, n
<1>15. ASSUME NEW i \in Own(L, Len(L), tags)
       PROVE  \E k \in 1 .. n : places[k] = i
  <2>1. i \in DOMAIN L /\ ~L[i].failed /\ L[i].inst.ours /\ L[i].inst.tag \in tags
    BY <1>11 DEF Own
  <2>2. PICK j \in 1 .. Len(HandledIn(L)) : p[j] = i
    BY <1>4, <2>1
  <2>3. kept[j] # <<>>
    BY <1>3, <1>4, <1>6, <2>1, <2>2
  <2>4. PICK k \in 1 .. n : q[k] = j
    BY <1>9, <2>3 DEF PlacesUpTo, n
  <2> QED
    BY <1>12, <2>2, <2>4
<1>16. PlacesOf(L, tags, n, places)
  BY <1>13, <1>14, <1>15 DEF PlacesOf
<1> QED
  BY <1>1, <1>8, <1>13, <1>16 DEF n, found

LEMMA HandledOfPlaces ==
  ASSUME SplInv, NEW tags
  PROVE  LET found == HandledOf(tags) IN
         /\ IsList(found)
         /\ \E p : /\ PlacesOf(Block, tags, Len(found), p)
                   /\ \A k \in 1 .. Len(found) : found[k] = Block[p[k]]
<1>1. HandledOf(tags) = FoundIn(Block, tags)
  BY DEF HandledOf, Handled, FoundIn, HandledIn, Block
<1> QED
  BY <1>1, BlockIsList, FoundPlaces

(* The elements alone.                                                     *)
LEMMA HandledOfIsList ==
  ASSUME SplInv, NEW tags
  PROVE  /\ IsList(HandledOf(tags)) /\ DOMAIN HandledOf(tags) = 1 .. Len(HandledOf(tags))
         /\ \A k \in DOMAIN HandledOf(tags) : HandledOf(tags)[k].inst.tag \in tags
<1>1. IsList(HandledOf(tags))
  BY HandledOfPlaces
<1>2. DOMAIN HandledOf(tags) = 1 .. Len(HandledOf(tags))
  BY <1>1, ListHasLength DEF HasLength
<1> QED
  BY <1>1, <1>2, HandledOfPlaces DEF PlacesOf, Own

LEMMA SplInvNext == SplInv /\ SplNext => SplInv'
<1> SUFFICES ASSUME SplInv, SplNext PROVE SplInv'
  OBVIOUS
<1>1. CASE ProduceSplBlock
  <2>1. PICK b \in SplBlocks : splBlock' = b
    BY <1>1 DEF ProduceSplBlock
  <2>3. splNumber' \in 0 .. SplMaxBlocks
    BY <1>1, SplAssumption DEF ProduceSplBlock, SplInv
  <2> QED
    BY <1>1, <2>1, <2>3 DEF ProduceSplBlock, SplInv
<1>2. CASE UnpackFails
  <2>1. splError' \in {"err", "panic"}
    <3>1. PICK inst \in FailedUnpacks : splError' = Unpack(inst)
      BY <1>2 DEF UnpackFails
    <3>2. Unpack(inst) # "ok"
      BY DEF FailedUnpacks
    <3> QED
      BY <3>1, <3>2 DEF Unpack
  <2> QED
    BY <1>2, <2>1 DEF UnpackFails, SplInv
<1>3. CASE MapMints
  <2> DEFINE found == HandledOf(InitMintTags)
  <2>1. IsList(found)
    BY HandledOfIsList
  <2>2. mints' = [i \in DOMAIN found |-> NewMint(found[i].inst)]
    BY <1>3 DEF MapMints
  <2> HIDE DEF found
  <2>3. mints' = [i \in DOMAIN found |-> mints'[i]]
    BY <2>2
  <2>4. IsList(mints')
    BY <2>1, <2>3, ImageIsList
  <2> QED
    BY <1>3, <2>4 DEF MapMints, SplThen, SplInv
<1>4. CASE StoreMints
  <2> DEFINE writes == [i \in DOMAIN mints |-> <<0, MintKey(mints[i].address), mints[i]>>]
             store == NextBlock(mintStore)
  <2>1. mintStore' = PutAll(store, writes)
    BY <1>4 DEF StoreMints
  <2>2. IsStore(store) /\ DOMAIN store.kv = DOMAIN mintStore.kv
    BY NextBlockIsStore DEF SplInv
  <2>3. writes = [i \in DOMAIN mints |-> writes[i]]
    OBVIOUS
  <2> HIDE DEF writes, store
  <2>4. IsList(writes)
    BY <2>3, ImageIsList DEF SplInv
  <2>5. Len(writes) \in Nat /\ DOMAIN writes = 1 .. Len(writes)
    BY <2>4, ListHasLength DEF HasLength
  <2>6. IsStore(mintStore') /\ DOMAIN mintStore.kv \subseteq DOMAIN mintStore'.kv
    BY <2>1, <2>2, <2>5, PutAllIsStore
  <2>7. \A t \in ToSet(transferLog)' : Has(mintStore, MintKey(t.mint))'
    BY <1>4, <2>6 DEF StoreMints, SplInv, Has, MintKey, ToSet
  <2> QED
    BY <1>4, <2>6, <2>7 DEF StoreMints, SplThen, SplInv
<1>5. CASE MapAccounts
  BY <1>5 DEF MapAccounts, SplThen, SplInv, Has, MintKey, ToSet
<1>6. CASE StoreAccounts
  BY <1>6 DEF StoreAccounts, SplThen, SplInv, Has, MintKey, ToSet
<1>7. CASE MapTransfers
  <2> DEFINE sent == HandledOf(TransferTags)
             each(i) ==
               LET inst == sent[i].inst IN
               IF ~Resolved(inst) THEN <<>>
               ELSE << [trx |-> <<splNumber, sent[i].trx>>, at |-> i, from |-> Sender(inst),
                        to |-> Last(inst.accounts), mint |-> MintOf(inst), native |-> inst.amount,
                        amount |-> ConvertTokenToDecimal(inst.amount,
                                                         GetMint(MintOf(inst)).decimals)] >>
             parts == [i \in DOMAIN sent |-> each(i)]
             found == FlattenSeq(parts)
  <2>1. transferLog' = transferLog \o found
    BY <1>7 DEF MapTransfers
  <2>2. IsList(sent)
    BY HandledOfIsList
  <2>3. ASSUME NEW i \in DOMAIN sent
        PROVE  IsList(each(i)) /\ \A t \in ToSet(each(i)) : Has(mintStore, MintKey(t.mint))
    <3>1. CASE ~Resolved(sent[i].inst)
      BY <3>1, EmptyIsList
    <3>2. CASE Resolved(sent[i].inst)
      <4>1. PICK t : each(i) = <<t>> /\ t.mint = MintOf(sent[i].inst)
        BY <3>2
      <4>2. IsList(<<t>>) /\ ToSet(<<t>>) \subseteq {t}
        <5>1. <<t>> \in Seq({t})
          OBVIOUS
        <5> QED
          BY <5>1, SeqIsList
      <4>3. Has(mintStore, MintKey(t.mint))
        BY <3>2, <4>1 DEF Resolved, GetMint, GetLast
      <4> QED
        BY <4>1, <4>2, <4>3
    <3> QED
      BY <3>1, <3>2
  <2> HIDE DEF each, sent
  <2>4. parts = [i \in DOMAIN sent |-> parts[i]] /\ DOMAIN parts = DOMAIN sent
    OBVIOUS
  <2>5. IsList(parts) /\ \A i \in DOMAIN parts : parts[i] = each(i)
    <3>1. \A i \in DOMAIN parts : parts[i] = each(i)
      OBVIOUS
    <3> HIDE DEF parts
    <3> QED
      BY <2>2, <2>4, <3>1, ImageIsList
  <2> HIDE DEF parts
  <2>6. IsList(found) /\ \A t \in ToSet(found) : \E i \in DOMAIN parts : t \in ToSet(parts[i])
    BY <2>3, <2>4, <2>5, FlattenOfLists
  <2>7. \A t \in ToSet(found) : Has(mintStore, MintKey(t.mint))
    BY <2>3, <2>4, <2>5, <2>6
  <2> HIDE DEF found
  <2>8. IsList(transferLog') /\ ToSet(transferLog') = ToSet(transferLog) \cup ToSet(found)
    BY <2>1, <2>6, ConcatOfLists DEF SplInv
  <2>9. \A t \in ToSet(transferLog') : Has(mintStore', MintKey(t.mint))
    BY <1>7, <2>7, <2>8 DEF MapTransfers, SplInv
  <2> QED
    BY <1>7, <2>8, <2>9 DEF MapTransfers, SplThen, SplInv, Has, MintKey
<1>8. CASE StoreMintVolumes
  BY <1>8 DEF StoreMintVolumes, SplThen, SplInv, Has, MintKey, ToSet
<1> QED
  BY <1>1, <1>2, <1>3, <1>4, <1>5, <1>6, <1>7, <1>8 DEF SplNext


-----------------------------------------------------------------------------
(* The chain and the stores.  Whatever the stage, what the chain knows is  *)
(* in the stores or will be found in the block; each map has found what    *)
(* the block has; and what was found has been stored.  L is the block, as  *)
(* a list of instructions, and r what the chain is after it.               *)
ChainRun == [holding |-> holding, moved |-> moved, hidden |-> hidden, ok |-> TRUE]

SentMatches(L, r) ==
  LET sent == FoundIn(L, TransferTags) IN
  /\ DOMAIN r.moved = DOMAIN sent
  /\ \A k \in DOMAIN sent :
       /\ r.moved[k] = MovedBy(sent[k].inst, r.moved[k].mint)
       /\ sent[k].inst.tag = TransferChecked => sent[k].inst.accounts[2] = r.moved[k].mint

MintsStored(L) == \A i \in Own(L, Len(L), InitMintTags) : Has(mintStore, MintKey(Who(L, i)))
AccountsStored(L) ==
  \A i \in Own(L, Len(L), InitAccountTags) :
    \/ \E j \in Own(L, Len(L), InitAccountTags) : j > i /\ Who(L, j) = Who(L, i)
    \/ StoredMint(Who(L, i), Second(L, i))

MintsFound(L) ==
  LET found == FoundIn(L, InitMintTags) IN mints = [k \in DOMAIN found |-> NewMint(found[k].inst)]
AccountsFound(L) ==
  LET found == FoundIn(L, InitAccountTags) IN
  accounts = [k \in DOMAIN found |-> NewAccount(found[k].inst)]

(* The store has mints of the chain, and none that the block is to begin.  *)
MintsBegun(L, r) ==
  /\ \A a : Has(mintStore, MintKey(a)) => IsMint(r.holding, a)
  /\ \A i \in Own(L, Len(L), InitMintTags) :
       /\ IsMint(r.holding, Who(L, i))
       /\ splStage \in {"map_mints", "store_mints"} => ~Has(mintStore, MintKey(Who(L, i)))

ChainInv(L, r) ==
  /\ Holds(L, Len(L), r)
  /\ SentMatches(L, r)
  /\ MintsBegun(L, r)
  /\ splStage \notin {"map_mints", "store_mints"} => MintsStored(L)
  /\ splStage = "store_mints" => MintsFound(L)
  /\ splStage \notin {"map_mints", "store_mints", "map_accounts"} => AccountsFound(L)
  /\ splStage \in {"map_transfers", "store_mint_volumes", "idle"} => AccountsStored(L)

SplChainInv ==
  /\ IsStore(accountStore)
  /\ \A k \in DOMAIN mintStore.kv : mintStore.kv[k] # Absent
  /\ \A k \in DOMAIN mintStore.kv : 10 ^ mintStore.kv[k].decimals \in Nat \ {0}
  /\ \A k \in DOMAIN accountStore.kv : accountStore.kv[k] # Absent
  /\ \E L, r : L = Block /\ r = ChainRun /\ ChainInv(L, r)
  /\ TransfersOfTheRightMint
  /\ SkippedTransfersExplained

LEMMA MintsBegunStay ==
  ASSUME NEW L, NEW r, MintsBegun(L, r), mintStore' = mintStore,
         splStage' \in {"map_mints", "store_mints"} => splStage \in {"map_mints", "store_mints"}
  PROVE  MintsBegun(L, r)'
  BY DEF MintsBegun, Has

(* The stores only learn: what they are about to be told does not matter.  *)
LEMMA HoldsMoves ==
  ASSUME NEW L, NEW m, NEW r, Holds(L, m, r),
         \A a : Has(mintStore, MintKey(a)) => Has(mintStore, MintKey(a))',
         \A a, mint : NoInit(L, m, a) /\ StoredMint(a, mint) => StoredMint(a, mint)'
  PROVE  Holds(L, m, r)'
<1>1. \A a : KnownMint(L, m, a) => KnownMint(L, m, a)'
  BY DEF KnownMint
<1>2. AccountsHeld(L, m, r)'
  <2>1. AccountsHeld(L, m, r)
    BY DEF Holds
  <2> QED
    BY <1>1, <2>1 DEF AccountsHeld
<1>3. InitsHeld(L, m, r.hidden)'
  BY <1>1 DEF InitsHeld, Holds
<1>4. \A t : Explained(L, m, r.hidden, t) => Explained(L, m, r.hidden, t)'
  BY <1>1 DEF Explained
<1> QED
  BY <1>2, <1>3, <1>4 DEF Holds

LEMMA LastInitExists ==
  ASSUME NEW L, NEW m \in Nat, NEW a, ~NoInit(L, m, a)
  PROVE  \E mint : LastInit(L, m, a, mint)
<1> DEFINE S == {i \in Own(L, m, InitAccountTags) : Who(L, i) = a}
<1>1. S # {}
  BY DEF NoInit
<1>2. S \in SUBSET (1 .. m)
  BY DEF Own
<1>3. PICK i \in S : \A j \in S : j <= i
  BY <1>1, <1>2, GreatestExists
<1>4. \A j \in Own(L, m, InitAccountTags) : j > i => Who(L, j) # a
  <2>1. i \in Nat /\ \A j \in Own(L, m, InitAccountTags) : j \in Nat
    BY <1>3 DEF Own
  <2> QED
    BY <1>3, <2>1
<1> QED
  BY <1>3, <1>4 DEF LastInit

LEMMA LastInitStored ==
  ASSUME NEW L, NEW a, NEW mint, AccountsStored(L), LastInit(L, Len(L), a, mint)
  PROVE  StoredMint(a, mint)
  BY DEF AccountsStored, LastInit

LEMMA KnownMintStored ==
  ASSUME NEW L, NEW a, MintsStored(L), KnownMint(L, Len(L), a)
  PROVE  Has(mintStore, MintKey(a))
  BY DEF MintsStored, KnownMint

(* Between two blocks the stores are the chain.                            *)
LEMMA ChainInStores ==
  ASSUME SplChainInv, splStage = "idle", NEW a \in DOMAIN holding \ hidden
  PROVE  IF holding[a] = a THEN Has(mintStore, MintKey(a)) ELSE StoredMint(a, holding[a])
<1>1. PICK L, r : L = Block /\ r = ChainRun /\ ChainInv(L, r)
  BY DEF SplChainInv
<1>2. Holds(L, Len(L), r) /\ MintsStored(L) /\ AccountsStored(L)
  BY <1>1 DEF ChainInv
<1>3. r.holding = holding /\ r.hidden = hidden
  BY <1>1 DEF ChainRun
<1>4. IF holding[a] = a THEN KnownMint(L, Len(L), a)
      ELSE LastInit(L, Len(L), a, holding[a]) \/ StoredMint(a, holding[a])
  BY <1>2, <1>3 DEF Holds, AccountsHeld
<1> QED
  BY <1>2, <1>4, LastInitStored, KnownMintStored

LEMMA NothingOfNone ==
  /\ IsList(Instructions(<<>>)) /\ Len(Instructions(<<>>)) = 0
  /\ \A tags : FoundIn(Instructions(<<>>), tags) = <<>>
<1> DEFINE L == Instructions(<<>>)
<1>1. IsList(L) /\ ToSet(L) = {}
  BY InstructionsAreListed
<1> HIDE DEF L
<1>2. Len(L) \in Nat /\ DOMAIN L = 1 .. Len(L)
  BY <1>1, ListHasLength DEF HasLength
<1>3. Len(L) = 0
  <2>1. ASSUME Len(L) # 0
        PROVE  FALSE
    <3>1. 1 \in DOMAIN L
      BY <1>2, <2>1
    <3>2. L[1] \in ToSet(L)
      BY <3>1 DEF ToSet
    <3> QED
      BY <1>1, <3>2
  <2> QED
    BY <2>1
<1>4. ASSUME NEW tags
      PROVE  FoundIn(L, tags) = <<>>
  <2> DEFINE found == FoundIn(L, tags)
  <2>1. IsList(found) /\ \E p : PlacesOf(L, tags, Len(found), p)
    BY <1>1, FoundPlaces
  <2>2. Own(L, Len(L), tags) = {}
    <3>1. 1 .. 0 = {}
      OBVIOUS
    <3> QED
      BY <1>3, <3>1 DEF Own
  <2> HIDE DEF found
  <2>3. HasLength(found, Len(found))
    BY <2>1, ListHasLength
  <2>4. Len(found) \in Nat /\ found = [i \in 1 .. Len(found) |-> found[i]]
    BY <2>3 DEF HasLength
  <2>5. Len(found) = 0
    <3>1. \A k \in 1 .. Len(found) : FALSE
      BY <2>1, <2>2 DEF PlacesOf
    <3> QED
      BY <2>4, <3>1
  <2>6. found \in Seq(ToSet(found))
    BY <2>1 DEF IsList
  <2>7. found = <<>>
    BY <2>5, <2>6, EmptySeq
  <2> QED
    BY <2>7 DEF found
<1> QED
  BY <1>1, <1>3, <1>4 DEF L

LEMMA SplChainInit == SplInit => SplChainInv
<1> SUFFICES ASSUME SplInit PROVE SplChainInv
  OBVIOUS
<1> DEFINE L == Instructions(<<>>)
<1>1. L = Block
  BY DEF SplInit, Block
<1>2. Len(L) = 0 /\ \A tags : FoundIn(L, tags) = <<>>
  BY NothingOfNone
<1>3. 1 .. 0 = {} /\ DOMAIN <<>> = {}
  OBVIOUS
<1>4. \A tags : Own(L, Len(L), tags) = {}
  BY <1>2, <1>3 DEF Own
<1> HIDE DEF L
<1>5. Holds(L, Len(L), ChainRun)
  <2>1. ChainRun.holding = <<>> /\ ChainRun.moved = <<>>
    BY DEF ChainRun, SplInit
  <2>2. Len(<<>>) = 0
    OBVIOUS
  <2> QED
    BY <1>3, <1>4, <2>1, <2>2, EmptyIsList
       DEF Holds, MintsHeld, AccountsHeld, InitsHeld
<1>6. SentMatches(L, ChainRun)
  BY <1>2, <1>3 DEF SentMatches, ChainRun, SplInit
<1>7. MintsStored(L) /\ AccountsStored(L)
  BY <1>4 DEF MintsStored, AccountsStored
<1>8. AccountsFound(L)
  <2>1. FoundIn(L, InitAccountTags) = <<>> /\ accounts = <<>>
    BY <1>2 DEF SplInit
  <2>2. [k \in DOMAIN <<>> |-> NewAccount(<<>>[k].inst)] = <<>>
    <3> DEFINE none == [k \in DOMAIN <<>> |-> NewAccount(<<>>[k].inst)]
    <3>1. none = [k \in 1 .. 0 |-> none[k]]
      BY <1>3
    <3> HIDE DEF none
    <3>2. IsList(none) /\ Len(none) = 0
      BY <3>1, FunctionIsList
    <3>3. none = <<>>
      BY <3>2, EmptySeq DEF IsList
    <3> QED
      BY <3>3 DEF none
  <2> QED
    BY <2>1, <2>2 DEF AccountsFound
<1>9. IsStore(accountStore) /\ DOMAIN mintStore.kv = {} /\ DOMAIN accountStore.kv = {}
  BY <1>3, EmptyStoreIsStore DEF SplInit, EmptyStore
<1>10. ChainInv(L, ChainRun)
  <2>1. MintsBegun(L, ChainRun)
    BY <1>4, <1>9 DEF MintsBegun, Has
  <2> QED
    BY <1>5, <1>6, <1>7, <1>8, <2>1 DEF ChainInv, SplInit
<1>11. TransfersOfTheRightMint /\ SkippedTransfersExplained
  <2>1. ToSet(transfers) = {} /\ DOMAIN moved = {}
    BY <1>3, EmptyIsList DEF SplInit
  <2> QED
    BY <2>1 DEF TransfersOfTheRightMint, SkippedTransfersExplained
<1> QED
  BY <1>1, <1>9, <1>10, <1>11 DEF SplChainInv

(* A new block: what the chain did before it is in the stores.             *)
LEMMA ProduceKeepsChain == SplInv /\ SplChainInv /\ ProduceSplBlock => SplChainInv'
<1> SUFFICES ASSUME SplInv, SplChainInv, ProduceSplBlock PROVE SplChainInv'
  OBVIOUS
<1>1. PICK b \in SplBlocks : /\ RunBlock(b).ok
                             /\ splBlock' = b
                             /\ holding' = RunBlock(b).holding
                             /\ moved' = RunBlock(b).moved
                             /\ hidden' = RunBlock(b).hidden
  BY DEF ProduceSplBlock
<1>2. PICK L : L = Instructions(b)
  OBVIOUS
<1>3. IsList(L) /\ \A i \in DOMAIN L : IsList(L[i].inst.inner)
  BY <1>2, InstructionsAreListed DEF ToSet
<1>4. PICK start : start = [holding |-> holding, moved |-> <<>>, hidden |-> hidden, ok |-> TRUE]
  OBVIOUS
<1>5. PICK new : new = FoldLeft(RunInst, start, L)
  OBVIOUS
<1>6. new = RunBlock(b)
  BY <1>2, <1>4, <1>5 DEF RunBlock
<1>7. PICK sent : sent = FoundIn(L, TransferTags)
  OBVIOUS
<1>8. PICK p : /\ PlacesOf(L, TransferTags, Len(sent), p)
               /\ \A k \in 1 .. Len(sent) : sent[k] = L[p[k]]
  BY <1>3, <1>7, FoundPlaces
<1>9. Len(sent) \in Nat /\ DOMAIN sent = 1 .. Len(sent)
  <2>1. IsList(sent)
    BY <1>3, <1>7, FoundPlaces
  <2> QED
    BY <2>1, ListHasLength DEF HasLength
<1>10. Len(L) \in Nat
  BY <1>3, ListHasLength DEF HasLength
<1>11. splStage = "idle"
  BY DEF ProduceSplBlock
<1>12. IsRun(start) /\ start.holding = holding /\ start.moved = <<>> /\ start.hidden = hidden
  BY <1>4 DEF IsRun
<1>13. Holds(L, 0, start)
  <2>1. \A tags : Own(L, 0, tags) = {}
    <3>1. 1 .. 0 = {}
      OBVIOUS
    <3> QED
      BY <3>1 DEF Own
  <2>2. MintsHeld(holding)
    BY DEF SplChainInv, ChainInv, Holds, ChainRun
  <2>3. AccountsHeld(L, 0, start)
    BY <1>11, <1>12, <2>1, ChainInStores DEF AccountsHeld, KnownMint, NoInit
  <2>4. IsList(start.moved) /\ \A k \in 1 .. Len(start.moved) : FALSE
    BY <1>12, EmptyIsList
  <2> QED
    BY <1>12, <2>1, <2>2, <2>3, <2>4 DEF Holds, InitsHeld
<1>14. Matched(L, 0, start, Len(sent), p)
  <2>1. IsList(start.moved) /\ Len(start.moved) = 0
    BY <1>12, EmptyIsList
  <2>2. \A k \in 1 .. Len(sent) : p[k] \in 1 .. Len(L)
    BY <1>8 DEF PlacesOf, Own
  <2>3. \A k \in 1 .. Len(sent) : ~(p[k] <= 0) /\ ~(k <= 0)
    BY <1>10, <2>2
  <2> QED
    BY <1>9, <2>1, <2>3 DEF Matched
<1>15. /\ Holds(L, Len(L), new) /\ Matched(L, Len(L), new, Len(sent), p)
       /\ MintsKept(L, Len(L), holding, new)
  <2>h. PICK H : H = holding
    OBVIOUS
  <2>1. MintsKept(L, 0, H, start)
    <3>1. Own(L, 0, InitMintTags) = {}
      <4>1. 1 .. 0 = {}
        OBVIOUS
      <4> QED
        BY <4>1 DEF Own
    <3> QED
      BY <1>12, <2>h, <3>1 DEF MintsKept
  <2>2. new.ok
    BY <1>1, <1>6
  <2>3. PICK n \in Nat : n = Len(sent)
    BY <1>9
  <2>4. PlacesOf(L, TransferTags, n, p) /\ Matched(L, 0, start, n, p)
    BY <1>8, <1>14, <2>3
  <2>5. IsRun(start) /\ Holds(L, 0, start)
    BY <1>12, <1>13
  <2>6. /\ Holds(L, Len(L), new) /\ Matched(L, Len(L), new, n, p)
        /\ MintsKept(L, Len(L), H, new)
    BY <1>3, <1>5, <2>1, <2>2, <2>4, <2>5, BlockHolds
  <2> QED
    BY <2>3, <2>6, <2>h
<1>16. PICK r : r = [holding |-> new.holding, moved |-> new.moved, hidden |-> new.hidden,
                     ok |-> TRUE]
  OBVIOUS
<1>17. r = ChainRun' /\ L = Block' /\ r.holding = new.holding /\ r.moved = new.moved
       /\ r.hidden = new.hidden
  BY <1>1, <1>2, <1>6, <1>16 DEF ChainRun, Block
<1>18. SentMatches(L, r)
  <2>1. DOMAIN new.moved = 1 .. Len(sent)
    <3>1. Len(new.moved) \in Nat /\ DOMAIN new.moved = 1 .. Len(new.moved)
          /\ Len(new.moved) <= Len(sent)
      BY <1>15, ListHasLength DEF Matched, HasLength
    <3>2. \A k \in 1 .. Len(sent) : p[k] \in 1 .. Len(L)
      BY <1>8 DEF PlacesOf, Own
    <3>3. \A k \in 1 .. Len(sent) : k <= Len(new.moved)
      BY <1>10, <1>15, <3>2 DEF Matched
    <3>4. Len(new.moved) = Len(sent)
      <4>1. ASSUME Len(new.moved) < Len(sent)
            PROVE  FALSE
        <5>1. Len(sent) \in 1 .. Len(sent)
          BY <1>9, <3>1, <4>1
        <5> QED
          BY <1>9, <3>1, <3>3, <4>1, <5>1
      <4> QED
        BY <1>9, <3>1, <4>1
    <3> QED
      BY <3>1, <3>4
  <2>2. \A k \in 1 .. Len(sent) : k \in 1 .. Len(new.moved)
    <3>1. DOMAIN new.moved = 1 .. Len(new.moved)
      BY <1>15, ListHasLength DEF Matched, HasLength
    <3> QED
      BY <2>1, <3>1
  <2>3. \A k \in 1 .. Len(sent) :
          /\ new.moved[k] = MovedBy(sent[k].inst, new.moved[k].mint)
          /\ sent[k].inst.tag = TransferChecked => sent[k].inst.accounts[2] = new.moved[k].mint
    BY <1>8, <1>15, <2>2 DEF Matched
  <2> QED
    BY <1>7, <1>9, <1>17, <2>1, <2>3 DEF SentMatches
<1>19. mintStore' = mintStore /\ accountStore' = accountStore /\ splStage' = "map_mints"
  BY DEF ProduceSplBlock
<1>20. Holds(L, Len(L), r)'
  <2>1. Holds(L, Len(L), r)
    BY <1>15, <1>17 DEF Holds, AccountsHeld
  <2> QED
    BY <1>19, <2>1, HoldsMoves DEF Has, StoredMint
<1>21. ChainInv(L, r)'
  <2>1. \A a : Has(mintStore, MintKey(a)) => IsMint(holding, a)
    BY DEF SplChainInv, ChainInv, MintsBegun, ChainRun
  <2>2. MintsBegun(L, r)'
    BY <1>15, <1>17, <1>19, <2>1 DEF MintsBegun, MintsKept, Has
  <2> QED
    BY <1>18, <1>19, <1>20, <2>2 DEF ChainInv
<1>22. TransfersOfTheRightMint' /\ SkippedTransfersExplained'
  BY <1>19 DEF TransfersOfTheRightMint, SkippedTransfersExplained, Mapped
<1>23. \E M, q : M = Block' /\ q = ChainRun' /\ ChainInv(M, q)'
  BY <1>17, <1>21
<1> QED
  BY <1>19, <1>22, <1>23 DEF SplChainInv

(* A handler: the block, the chain and what handlers have read stay.       *)
LEMMA HandlerKeepsChain ==
  ASSUME SplChainInv, UNCHANGED <<splBlock, holding, moved, hidden>>
  PROVE  \E L, r : /\ L = Block /\ r = ChainRun /\ ChainInv(L, r)
                   /\ L = Block' /\ r = ChainRun'
<1>1. Block' = Block /\ ChainRun' = ChainRun
  BY DEF Block, ChainRun
<1> QED
  BY <1>1 DEF SplChainInv

LEMMA RecordsKnown ==
  ASSUME SplInv, NEW x \in ToSet(Block)
  PROVE  /\ x.inst.tag \in InitMintTags =>
              NewMint(x.inst) # Absent /\ 10 ^ x.inst.decimals \in Nat \ {0}
         /\ x.inst.tag \in InitAccountTags => NewAccount(x.inst) # Absent
         /\ x.inst.tag \in TransferTags => x.inst.amount \in Nat
<1>1. splBlock \in SplBlocks
  BY InstructionsAreListed DEF SplInv, Block
<1> QED
  BY <1>1, RecordsAssumption DEF Block

(* What a map found is where it is in the block.                           *)
LEMMA FoundIsOwn ==
  ASSUME SplInv, NEW L, L = Block, NEW tags
  PROVE  LET found == FoundIn(L, tags) IN
         /\ IsList(found) /\ Len(found) \in Nat /\ DOMAIN found = 1 .. Len(found)
         /\ \A k \in DOMAIN found : found[k] \in ToSet(Block) /\ found[k].inst.tag \in tags
         /\ \E p : /\ PlacesOf(L, tags, Len(found), p)
                   /\ \A k \in DOMAIN found : found[k] = L[p[k]]
<1> DEFINE found == FoundIn(L, tags)
<1>1. IsList(L) /\ DOMAIN L = 1 .. Len(L) /\ \A i \in DOMAIN L : L[i] \in ToSet(Block)
  BY BlockIsList
<1>2. /\ IsList(found)
      /\ \E p : PlacesOf(L, tags, Len(found), p) /\ \A k \in 1 .. Len(found) : found[k] = L[p[k]]
  BY <1>1, FoundPlaces
<1> HIDE DEF found
<1>3. Len(found) \in Nat /\ DOMAIN found = 1 .. Len(found)
  BY <1>2, ListHasLength DEF HasLength
<1>4. \A k \in DOMAIN found : found[k] \in ToSet(Block) /\ found[k].inst.tag \in tags
  BY <1>1, <1>2, <1>3 DEF PlacesOf, Own
<1> QED
  BY <1>2, <1>3, <1>4 DEF found

LEMMA MapMintsKeepsChain == SplInv /\ SplChainInv /\ MapMints => SplChainInv'
<1> SUFFICES ASSUME SplInv, SplChainInv, MapMints PROVE SplChainInv'
  OBVIOUS
<1>1. PICK L, r : L = Block /\ r = ChainRun /\ ChainInv(L, r) /\ L = Block' /\ r = ChainRun'
  BY HandlerKeepsChain DEF MapMints, SplThen
<1>2. mintStore' = mintStore /\ accountStore' = accountStore /\ splStage = "map_mints"
      /\ splStage' = "store_mints"
  BY DEF MapMints, SplAt, SplThen
<1>3. Holds(L, Len(L), r)'
  BY <1>1, <1>2, HoldsMoves DEF ChainInv, Has, StoredMint
<1>4. HandledOf(InitMintTags) = FoundIn(L, InitMintTags)
  BY <1>1 DEF HandledOf, Handled, FoundIn, HandledIn, Block
<1>5. MintsFound(L)'
  BY <1>4 DEF MapMints, MintsFound
<1>6. ChainInv(L, r)'
  BY <1>1, <1>2, <1>3, <1>5, MintsBegunStay DEF ChainInv
<1>7. TransfersOfTheRightMint' /\ SkippedTransfersExplained'
  BY <1>2 DEF TransfersOfTheRightMint, SkippedTransfersExplained, Mapped
<1>8. \E M, q : M = Block' /\ q = ChainRun' /\ ChainInv(M, q)'
  BY <1>1, <1>6
<1> QED
  BY <1>2, <1>7, <1>8 DEF SplChainInv

(* store_mints adds the mints the block begins; those it had stay as they  *)
(* were.                                                                   *)
LEMMA StoreMintsAdds ==
  ASSUME SplInv, SplChainInv, StoreMints
  PROVE  /\ \A k \in DOMAIN mintStore.kv :
              k \in DOMAIN mintStore'.kv /\ mintStore'.kv[k] = mintStore.kv[k]
         /\ \A k \in DOMAIN mintStore'.kv :
              mintStore'.kv[k] # Absent /\ 10 ^ mintStore'.kv[k].decimals \in Nat \ {0}
         /\ \A k \in DOMAIN mintStore'.kv \ DOMAIN mintStore.kv :
              \E i \in Own(Block, Len(Block), InitMintTags) : k = MintKey(Who(Block, i))
         /\ \A i \in Own(Block, Len(Block), InitMintTags) :
              MintKey(Who(Block, i)) \in DOMAIN mintStore'.kv
<1>1. PICK L, r : L = Block /\ r = ChainRun /\ ChainInv(L, r) /\ L = Block' /\ r = ChainRun'
  BY HandlerKeepsChain DEF StoreMints, SplThen
<1>2. splStage = "store_mints"
  BY DEF StoreMints, SplAt
<1> DEFINE found == FoundIn(L, InitMintTags)
           writes == [i \in DOMAIN mints |-> <<0, MintKey(mints[i].address), mints[i]>>]
           store == NextBlock(mintStore)
<1>3. mints = [k \in DOMAIN found |-> NewMint(found[k].inst)]
  BY <1>1, <1>2 DEF ChainInv, MintsFound
<1>4. /\ Len(found) \in Nat /\ DOMAIN found = 1 .. Len(found)
      /\ \A k \in DOMAIN found : found[k] \in ToSet(Block) /\ found[k].inst.tag \in InitMintTags
  BY <1>1, FoundIsOwn
<1>5. PICK p : /\ PlacesOf(L, InitMintTags, Len(found), p)
               /\ \A k \in DOMAIN found : found[k] = L[p[k]]
  BY <1>1, FoundIsOwn
<1>6. mintStore' = PutAll(store, writes)
  BY DEF StoreMints
<1> HIDE DEF found, store
<1>7. DOMAIN writes = 1 .. Len(found)
  BY <1>3, <1>4
<1>8. \A k \in 1 .. Len(found) :
        /\ writes[k][2] = MintKey(found[k].inst.accounts[1])
        /\ writes[k][3] = NewMint(found[k].inst)
        /\ writes[k][3].decimals = found[k].inst.decimals
  BY <1>3, <1>4 DEF NewMint
<1> HIDE DEF writes
<1>9. IsStore(store) /\ store.kv = mintStore.kv
  BY NextBlockIsStore DEF SplInv, store
<1>10. /\ DOMAIN mintStore'.kv = DOMAIN mintStore.kv \cup Written(writes)
       /\ \A k \in DOMAIN mintStore.kv \ Written(writes) : mintStore'.kv[k] = mintStore.kv[k]
       /\ \A k \in Written(writes) :
            \E i \in 1 .. Len(found) : mintStore'.kv[k] = writes[i][3]
  BY <1>4, <1>6, <1>7, <1>9, PutAllIsStore
<1>11. ASSUME NEW k \in 1 .. Len(found)
       PROVE  /\ p[k] \in Own(L, Len(L), InitMintTags)
              /\ writes[k][2] = MintKey(Who(L, p[k]))
  BY <1>4, <1>5, <1>8 DEF Who, PlacesOf
<1>12. \A k \in Written(writes) :
         \E i \in Own(L, Len(L), InitMintTags) : k = MintKey(Who(L, i))
  BY <1>7, <1>11 DEF Written
<1>13. \A i \in Own(L, Len(L), InitMintTags) : MintKey(Who(L, i)) \in Written(writes)
  <2>1. ASSUME NEW i \in Own(L, Len(L), InitMintTags)
        PROVE  MintKey(Who(L, i)) \in Written(writes)
    <3>1. PICK k \in 1 .. Len(found) : p[k] = i
      BY <1>5 DEF PlacesOf
    <3> QED
      BY <1>7, <1>11, <3>1 DEF Written
  <2> QED
    BY <2>1
<1>14. DOMAIN mintStore.kv \cap Written(writes) = {}
  BY <1>1, <1>2, <1>12 DEF ChainInv, MintsBegun, Has
<1>15. \A i \in 1 .. Len(found) :
         writes[i][3] # Absent /\ 10 ^ writes[i][3].decimals \in Nat \ {0}
  <2>1. ASSUME NEW i \in 1 .. Len(found)
        PROVE  /\ NewMint(found[i].inst) # Absent
               /\ 10 ^ found[i].inst.decimals \in Nat \ {0}
    BY <1>4, RecordsKnown
  <2> QED
    BY <1>8, <2>1
<1>16. \A k \in DOMAIN mintStore'.kv :
         mintStore'.kv[k] # Absent /\ 10 ^ mintStore'.kv[k].decimals \in Nat \ {0}
  <2>1. \A k \in DOMAIN mintStore.kv :
          mintStore.kv[k] # Absent /\ 10 ^ mintStore.kv[k].decimals \in Nat \ {0}
    BY DEF SplChainInv
  <2>2. ASSUME NEW k \in Written(writes)
        PROVE  mintStore'.kv[k] # Absent /\ 10 ^ mintStore'.kv[k].decimals \in Nat \ {0}
    BY <1>10, <1>15
  <2>3. ASSUME NEW k \in DOMAIN mintStore.kv \ Written(writes)
        PROVE  mintStore'.kv[k] # Absent /\ 10 ^ mintStore'.kv[k].decimals \in Nat \ {0}
    BY <1>10, <2>1
  <2> QED
    BY <1>10, <2>2, <2>3
<1> QED
  BY <1>1, <1>10, <1>12, <1>13, <1>14, <1>16

LEMMA StoreMintsKeepsChain == SplInv /\ SplChainInv /\ StoreMints => SplChainInv'
<1> SUFFICES ASSUME SplInv, SplChainInv, StoreMints PROVE SplChainInv'
  OBVIOUS
<1>1. PICK L, r : L = Block /\ r = ChainRun /\ ChainInv(L, r) /\ L = Block' /\ r = ChainRun'
  BY HandlerKeepsChain DEF StoreMints, SplThen
<1>2. accountStore' = accountStore /\ splStage = "store_mints" /\ splStage' = "map_accounts"
  BY DEF StoreMints, SplAt, SplThen
<1>3. PICK D, E : D = DOMAIN mintStore.kv /\ E = DOMAIN mintStore'.kv
  OBVIOUS
<1>4. /\ D \subseteq E
      /\ \A k \in E \ D : \E i \in Own(L, Len(L), InitMintTags) : k = MintKey(Who(L, i))
      /\ \A i \in Own(L, Len(L), InitMintTags) : MintKey(Who(L, i)) \in E
  BY <1>1, <1>3, StoreMintsAdds
<1>5. MintsBegun(L, r) /\ Holds(L, Len(L), r)
  BY <1>1 DEF ChainInv
<1>6. MintsStored(L)'
  BY <1>3, <1>4 DEF MintsStored, Has, MintKey
<1>7. Holds(L, Len(L), r)'
  <2>1. \A a, mint : StoredMint(a, mint) => StoredMint(a, mint)'
    BY <1>2 DEF StoredMint, Has, AccountKey
  <2>2. \A a : Has(mintStore, MintKey(a)) => Has(mintStore, MintKey(a))'
    BY <1>3, <1>4 DEF Has, MintKey
  <2> QED
    BY <1>5, <2>1, <2>2, HoldsMoves
<1>8. MintsBegun(L, r)'
  <2>1. \A a, b : MintKey(a) = MintKey(b) => a = b
    BY DEF MintKey
  <2>2. ASSUME NEW a, MintKey(a) \in E
        PROVE  IsMint(r.holding, a)
    <3>2. CASE MintKey(a) \in D
      BY <1>3, <1>5, <3>2 DEF MintsBegun, Has
    <3>3. CASE MintKey(a) \notin D
      <4>1. PICK i \in Own(L, Len(L), InitMintTags) : MintKey(a) = MintKey(Who(L, i))
        BY <1>4, <2>2, <3>3
      <4>2. a = Who(L, i)
        BY <2>1, <4>1
      <4> QED
        BY <1>5, <4>1, <4>2 DEF MintsBegun
    <3> QED
      BY <3>2, <3>3
  <2>3. \A i \in Own(L, Len(L), InitMintTags) : IsMint(r.holding, Who(L, i))
    BY <1>5 DEF MintsBegun
  <2>4. \A a : Has(mintStore, MintKey(a))' => MintKey(a) \in E
    BY <1>3 DEF Has, MintKey
  <2>5. \A a : Has(mintStore, MintKey(a))' => IsMint(r.holding, a)
    BY <2>2, <2>4
  <2> QED
    BY <1>2, <2>3, <2>5 DEF MintsBegun
<1>9. ChainInv(L, r)'
  BY <1>1, <1>2, <1>6, <1>7, <1>8 DEF ChainInv
<1>10. TransfersOfTheRightMint' /\ SkippedTransfersExplained'
  BY <1>2 DEF TransfersOfTheRightMint, SkippedTransfersExplained, Mapped
<1>11. \E M, q : M = Block' /\ q = ChainRun' /\ ChainInv(M, q)'
  BY <1>1, <1>9
<1>12. \A k \in DOMAIN mintStore'.kv :
         mintStore'.kv[k] # Absent /\ 10 ^ mintStore'.kv[k].decimals \in Nat \ {0}
  BY StoreMintsAdds
<1> QED
  BY <1>2, <1>10, <1>11, <1>12 DEF SplChainInv

LEMMA MapAccountsKeepsChain == SplInv /\ SplChainInv /\ MapAccounts => SplChainInv'
<1> SUFFICES ASSUME SplInv, SplChainInv, MapAccounts PROVE SplChainInv'
  OBVIOUS
<1>1. PICK L, r : L = Block /\ r = ChainRun /\ ChainInv(L, r) /\ L = Block' /\ r = ChainRun'
  BY HandlerKeepsChain DEF MapAccounts, SplThen
<1>2. mintStore' = mintStore /\ accountStore' = accountStore /\ splStage = "map_accounts"
      /\ splStage' = "store_accounts"
  BY DEF MapAccounts, SplAt, SplThen
<1>3. Holds(L, Len(L), r)'
  BY <1>1, <1>2, HoldsMoves DEF ChainInv, Has, StoredMint
<1>4. HandledOf(InitAccountTags) = FoundIn(L, InitAccountTags)
  BY <1>1 DEF HandledOf, Handled, FoundIn, HandledIn, Block
<1>5. AccountsFound(L)'
  BY <1>4 DEF MapAccounts, AccountsFound
<1>6. MintsStored(L)'
  BY <1>1, <1>2 DEF ChainInv, MintsStored, Has
<1>7. ChainInv(L, r)'
  BY <1>1, <1>2, <1>3, <1>5, <1>6, MintsBegunStay DEF ChainInv
<1>8. TransfersOfTheRightMint' /\ SkippedTransfersExplained'
  BY <1>2 DEF TransfersOfTheRightMint, SkippedTransfersExplained, Mapped
<1>9. \E M, q : M = Block' /\ q = ChainRun' /\ ChainInv(M, q)'
  BY <1>1, <1>7
<1> QED
  BY <1>2, <1>8, <1>9 DEF SplChainInv

LEMMA StoreAccountsKeepsChain == SplInv /\ SplChainInv /\ StoreAccounts => SplChainInv'
<1> SUFFICES ASSUME SplInv, SplChainInv, StoreAccounts PROVE SplChainInv'
  OBVIOUS
<1>1. PICK L, r : L = Block /\ r = ChainRun /\ ChainInv(L, r) /\ L = Block' /\ r = ChainRun'
  BY HandlerKeepsChain DEF StoreAccounts, SplThen
<1>2. mintStore' = mintStore /\ accounts' = accounts
      /\ splStage = "store_accounts" /\ splStage' = "map_transfers"
  BY DEF StoreAccounts, SplAt, SplThen
<1> DEFINE found == FoundIn(L, InitAccountTags)
           inits == Own(L, Len(L), InitAccountTags)
           writes == [i \in DOMAIN accounts |->
                        <<0, AccountKey(accounts[i].address), accounts[i]>>]
           store == NextBlock(accountStore)
<1>3. accounts = [k \in DOMAIN found |-> NewAccount(found[k].inst)]
  BY <1>1, <1>2 DEF ChainInv, AccountsFound
<1>4. /\ Len(found) \in Nat /\ DOMAIN found = 1 .. Len(found)
      /\ \A k \in DOMAIN found : found[k] \in ToSet(Block) /\ found[k].inst.tag \in InitAccountTags
  BY <1>1, FoundIsOwn
<1>5. PICK p : /\ PlacesOf(L, InitAccountTags, Len(found), p)
               /\ \A k \in DOMAIN found : found[k] = L[p[k]]
  BY <1>1, FoundIsOwn
<1>6. accountStore' = PutAll(store, writes)
  BY DEF StoreAccounts, WriteAccounts
<1> HIDE DEF found, store
<1>7. DOMAIN writes = 1 .. Len(found)
  BY <1>3, <1>4
<1>8. \A k \in 1 .. Len(found) :
        /\ writes[k][2] = AccountKey(Who(L, p[k]))
        /\ writes[k][3] = NewAccount(found[k].inst)
        /\ writes[k][3].mint = Second(L, p[k])
  BY <1>3, <1>4, <1>5 DEF NewAccount, Who, Second
<1> HIDE DEF writes
<1>9. IsStore(store) /\ store.kv = accountStore.kv
  BY NextBlockIsStore DEF SplChainInv, store
<1>10. /\ IsStore(accountStore')
       /\ DOMAIN accountStore'.kv = DOMAIN accountStore.kv \cup Written(writes)
       /\ \A k \in DOMAIN accountStore.kv \ Written(writes) :
            accountStore'.kv[k] = accountStore.kv[k]
       /\ \A k \in Written(writes) :
            \E i \in 1 .. Len(found) : /\ writes[i][2] = k /\ accountStore'.kv[k] = writes[i][3]
                                       /\ \A j \in i + 1 .. Len(found) : writes[j][2] # k
  <2>1. PICK n \in Nat : n = Len(found)
    BY <1>4
  <2>2. PICK new : new = PutAll(store, writes)
    OBVIOUS
  <2>3. DOMAIN writes = 1 .. n
    BY <1>7, <2>1
  <2>4. /\ IsStore(new)
        /\ DOMAIN new.kv = DOMAIN store.kv \cup Written(writes)
        /\ \A k \in DOMAIN store.kv \ Written(writes) : new.kv[k] = store.kv[k]
        /\ \A k \in Written(writes) :
             \E i \in 1 .. n : /\ writes[i][2] = k /\ new.kv[k] = writes[i][3]
                               /\ \A j \in i + 1 .. n : writes[j][2] # k
    BY <1>9, <2>2, <2>3, PutAllIsStore
  <2>5. accountStore' = new
    BY <1>6, <2>2
  <2> QED
    BY <1>9, <2>1, <2>4, <2>5
<1>11. \A k \in DOMAIN accountStore'.kv : accountStore'.kv[k] # Absent
  <2>1. \A i \in 1 .. Len(found) : writes[i][3] # Absent
    BY <1>4, <1>8, RecordsKnown
  <2> QED
    BY <1>10, <2>1 DEF SplChainInv
<1>12. \A a, c : AccountKey(a) = AccountKey(c) => a = c
  BY DEF AccountKey
<1>13. \A i \in inits : i \in Nat
  BY DEF Own
<1>14. \A k \in 1 .. Len(found) : p[k] \in inits
  BY <1>5 DEF PlacesOf
<1> HIDE DEF inits
<1>15. ASSUME NEW i \in inits, \A j \in inits : j > i => Who(L, j) # Who(L, i)
       PROVE  StoredMint(Who(L, i), Second(L, i))'
  <2> DEFINE key == AccountKey(Who(L, i))
  <2>1. PICK k \in 1 .. Len(found) : p[k] = i
    BY <1>5 DEF PlacesOf, inits
  <2>2. writes[k][2] = key
    BY <1>8, <2>1
  <2>3. key \in Written(writes)
    BY <1>7, <2>2 DEF Written
  <2> HIDE DEF key
  <2>4. PICK w \in 1 .. Len(found) :
          /\ writes[w][2] = key /\ accountStore'.kv[key] = writes[w][3]
          /\ \A j \in w + 1 .. Len(found) : writes[j][2] # key
    BY <1>10, <2>3
  <2>5. Who(L, p[w]) = Who(L, i)
    BY <1>8, <1>12, <2>4 DEF key
  <2>6. ~(p[w] > i) /\ p[w] \in Nat /\ i \in Nat
    BY <1>13, <1>14, <1>15, <2>5
  <2>7. w = k
    <3>1. ~(k > w)
      <4>1. ASSUME k > w
            PROVE  FALSE
        <5>1. k \in w + 1 .. Len(found)
          BY <1>4, <4>1
        <5> QED
          BY <2>2, <2>4, <5>1
      <4> QED
        BY <4>1
    <3>2. ~(w > k)
      <4>1. w > k => p[k] < p[w]
        BY <1>5 DEF PlacesOf, Ascending
      <4> QED
        BY <2>1, <2>6, <4>1
    <3> QED
      BY <1>4, <3>1, <3>2
  <2>8. accountStore'.kv[key].mint = Second(L, i)
    BY <1>8, <2>1, <2>4, <2>7
  <2> QED
    BY <1>10, <2>3, <2>8 DEF StoredMint, Has, AccountKey, key
<1>16. AccountsStored(L)'
  BY <1>15 DEF AccountsStored, StoredMint, Has, AccountKey, inits
<1>17. Holds(L, Len(L), r)'
  <2>1. Holds(L, Len(L), r)
    BY <1>1 DEF ChainInv
  <2>2. \A a : Has(mintStore, MintKey(a)) => Has(mintStore, MintKey(a))'
    BY <1>2 DEF Has, MintKey
  <2>3. ASSUME NEW a, NEW mint, NoInit(L, Len(L), a), StoredMint(a, mint)
        PROVE  StoredMint(a, mint)'
    <3>1. AccountKey(a) \notin Written(writes)
      <4>1. \A k \in 1 .. Len(found) : Who(L, p[k]) # a
        BY <1>14, <2>3 DEF NoInit, inits
      <4> QED
        BY <1>7, <1>8, <1>12, <4>1 DEF Written
    <3> QED
      BY <1>10, <2>3, <3>1 DEF StoredMint, Has, AccountKey
  <2> QED
    BY <2>1, <2>2, <2>3, HoldsMoves
<1>18. MintsStored(L)' /\ AccountsFound(L)'
  BY <1>1, <1>2 DEF ChainInv, MintsStored, AccountsFound, Has
<1>19. ChainInv(L, r)'
  BY <1>1, <1>2, <1>16, <1>17, <1>18, MintsBegunStay DEF ChainInv
<1>20. TransfersOfTheRightMint' /\ SkippedTransfersExplained'
  BY <1>2 DEF TransfersOfTheRightMint, SkippedTransfersExplained, Mapped
<1>21. \E M, q : M = Block' /\ q = ChainRun' /\ ChainInv(M, q)'
  BY <1>1, <1>19
<1>22. \A k \in DOMAIN mintStore'.kv :
         mintStore'.kv[k] # Absent /\ 10 ^ mintStore'.kv[k].decimals \in Nat \ {0}
  BY <1>2 DEF SplChainInv
<1> QED
  BY <1>10, <1>11, <1>20, <1>21, <1>22 DEF SplChainInv

(* What map_transfers knows of a sender that no inner instruction touched: *)
(* the block initialised its account, or the store has it as it was when   *)
(* it sent.                                                                *)
LEMMA SenderKnown ==
  ASSUME SplInv, NEW L, NEW r, L = Block, ChainInv(L, r), splStage = "map_transfers",
         NEW k \in 1 .. Len(r.moved), r.moved[k].from \notin r.hidden
  PROVE  LET t == r.moved[k] IN
         \/ StoredMint(t.from, t.mint)
         \/ \E a \in ToSet(accounts) :
              /\ a.address = t.from /\ StoredMint(t.from, a.mint)
              /\ a.mint \in r.hidden \/ Has(mintStore, MintKey(a.mint))
<1> DEFINE t == r.moved[k]
<1>1. /\ Holds(L, Len(L), r) /\ MintsStored(L) /\ AccountsStored(L) /\ AccountsFound(L)
  BY DEF ChainInv
<1>2. Explained(L, Len(L), r.hidden, t)
  BY <1>1 DEF Holds
<1>3. ASSUME ~NoInit(L, Len(L), t.from)
      PROVE  \E a \in ToSet(accounts) :
               /\ a.address = t.from /\ StoredMint(t.from, a.mint)
               /\ a.mint \in r.hidden \/ Has(mintStore, MintKey(a.mint))
  <2>1. Len(L) \in Nat
    BY BlockIsList
  <2>2. PICK mint : LastInit(L, Len(L), t.from, mint)
    BY <1>3, <2>1, LastInitExists
  <2>3. StoredMint(t.from, mint)
    BY <1>1, <2>2, LastInitStored
  <2>4. PICK i \in Own(L, Len(L), InitAccountTags) : Who(L, i) = t.from /\ Second(L, i) = mint
    BY <2>2 DEF LastInit
  <2>5. mint \in r.hidden \/ Has(mintStore, MintKey(mint))
    BY <1>1, <2>4, KnownMintStored DEF Holds, InitsHeld
  <2> DEFINE found == FoundIn(L, InitAccountTags)
  <2>6. DOMAIN found = 1 .. Len(found)
    BY FoundIsOwn
  <2>7. PICK p : /\ PlacesOf(L, InitAccountTags, Len(found), p)
                 /\ \A j \in DOMAIN found : found[j] = L[p[j]]
    BY FoundIsOwn
  <2>8. PICK j \in 1 .. Len(found) : p[j] = i
    BY <2>4, <2>7 DEF PlacesOf
  <2>9. j \in DOMAIN found /\ found[j] = L[i]
    BY <2>6, <2>7, <2>8
  <2>10. accounts = [n \in DOMAIN found |-> NewAccount(found[n].inst)]
    BY <1>1 DEF AccountsFound
  <2> HIDE DEF found
  <2>11. accounts[j] \in ToSet(accounts) /\ accounts[j] = NewAccount(L[i].inst)
    BY <2>9, <2>10 DEF ToSet
  <2>12. accounts[j].address = t.from /\ accounts[j].mint = mint
    BY <2>4, <2>11 DEF NewAccount, Who, Second
  <2> QED
    BY <2>3, <2>5, <2>11, <2>12
<1> QED
  BY <1>2, <1>3 DEF Explained

(* A transfer of the block as map_transfers sees it.                       *)
LEMMA TransferSeen ==
  ASSUME SplInv, SplChainInv, NEW L, NEW r, L = Block, r = ChainRun, ChainInv(L, r),
         splStage = "map_transfers", NEW k \in DOMAIN FoundIn(L, TransferTags)
  PROVE  LET inst == FoundIn(L, TransferTags)[k].inst
             t == moved[k]
         IN /\ k \in DOMAIN moved /\ inst.tag \in TransferTags
            /\ t.from = Sender(inst) /\ t.amount = inst.amount
            /\ Resolved(inst) =>
                 \/ MintOf(inst) = t.mint
                 \/ t.from \in hidden
                 \/ \E a \in ToSet(accounts) : a.address = t.from /\ a.mint = MintOf(inst)
            /\ \/ Resolved(inst)
               \/ t.mint \in hidden
               \/ ~t.checked /\ t.from \in hidden
               \/ \E a \in ToSet(accounts) : a.address = t.from /\ a.mint \in hidden
<1> DEFINE sent == FoundIn(L, TransferTags)
           inst == sent[k].inst
           t == moved[k]
<1>1. r.moved = moved /\ r.hidden = hidden
  BY DEF ChainRun
<1>2. /\ DOMAIN moved = DOMAIN sent
      /\ t = MovedBy(inst, t.mint)
      /\ inst.tag = TransferChecked => inst.accounts[2] = t.mint
  BY <1>1 DEF ChainInv, SentMatches
<1>3. inst.tag \in TransferTags
  BY FoundIsOwn
<1>4. k \in 1 .. Len(r.moved)
  <2>1. IsList(r.moved)
    BY DEF ChainInv, Holds
  <2> QED
    BY <1>1, <1>2, <2>1, ListHasLength DEF HasLength
<1>5. Explained(L, Len(L), hidden, t) /\ MintsStored(L)
  BY <1>1, <1>4 DEF ChainInv, Holds
<1> HIDE DEF sent, inst, t
<1>6. t.from = inst.accounts[1] /\ t.amount = inst.amount
      /\ (t.checked <=> inst.tag = TransferChecked)
  <2>1. PICK mint : mint = t.mint
    OBVIOUS
  <2>2. PICK checked \in BOOLEAN : checked = (inst.tag = TransferChecked)
    OBVIOUS
  <2>3. t = [from |-> inst.accounts[1], amount |-> inst.amount, mint |-> mint,
             checked |-> checked]
    BY <1>2, <2>1, <2>2 DEF MovedBy
  <2>4. t.checked = checked
    BY <2>3
  <2> QED
    BY <2>2, <2>3, <2>4
<1>7. Sender(inst) = t.from
  BY <1>3, <1>6 DEF Sender
<1>8. t.mint \in hidden \/ Has(mintStore, MintKey(t.mint))
  BY <1>5, KnownMintStored DEF Explained
<1>9. \A a : Has(mintStore, MintKey(a)) <=> GetMint(a) # Absent
  <2>1. \A m \in DOMAIN mintStore.kv : mintStore.kv[m] # Absent
    BY DEF SplChainInv
  <2> QED
    BY <2>1 DEF GetMint, GetLast, Has
<1>10. \A a, mint : StoredMint(a, mint) => GetAccount(a) # Absent /\ GetAccount(a).mint = mint
  <2>1. \A m \in DOMAIN accountStore.kv : accountStore.kv[m] # Absent
    BY DEF SplChainInv
  <2> QED
    BY <2>1 DEF GetAccount, GetLast, StoredMint, Has
<1>11. CASE inst.tag = TransferChecked
  <2>1. MintOf(inst) = t.mint
    BY <1>2, <1>11 DEF MintOf, inst, t
  <2> QED
    BY <1>2, <1>3, <1>6, <1>7, <1>8, <1>9, <2>1 DEF Resolved, sent, inst, t
<1>12. CASE inst.tag # TransferChecked
  <2>1. \A mint : StoredMint(t.from, mint) => MintOf(inst) = mint
    BY <1>7, <1>10, <1>12 DEF MintOf
  <2>2. CASE t.from \in hidden
    BY <1>2, <1>3, <1>6, <1>7, <1>12, <2>2 DEF sent, inst, t
  <2>3. CASE t.from \notin hidden
    <3>1. \/ StoredMint(t.from, t.mint)
          \/ \E a \in ToSet(accounts) :
               /\ a.address = t.from /\ StoredMint(t.from, a.mint)
               /\ a.mint \in hidden \/ Has(mintStore, MintKey(a.mint))
      BY <1>1, <1>4, <2>3, SenderKnown DEF t
    <3>2. CASE StoredMint(t.from, t.mint)
      BY <1>2, <1>3, <1>6, <1>7, <1>8, <1>9, <2>1, <3>2 DEF Resolved, sent, inst, t
    <3>3. CASE \E a \in ToSet(accounts) :
                 /\ a.address = t.from /\ StoredMint(t.from, a.mint)
                 /\ a.mint \in hidden \/ Has(mintStore, MintKey(a.mint))
      <4>1. PICK a \in ToSet(accounts) :
              /\ a.address = t.from /\ MintOf(inst) = a.mint
              /\ a.mint \in hidden \/ Has(mintStore, MintKey(a.mint))
        BY <2>1, <3>3
      <4>2. Resolved(inst) \/ a.mint \in hidden
        BY <1>9, <4>1 DEF Resolved
      <4> QED
        BY <1>2, <1>3, <1>6, <1>7, <4>1, <4>2 DEF sent, inst, t
    <3> QED
      BY <3>1, <3>2, <3>3
  <2> QED
    BY <2>2, <2>3
<1> QED
  BY <1>11, <1>12

LEMMA MapTransfersKeepsChain == SplInv /\ SplChainInv /\ MapTransfers => SplChainInv'
<1> SUFFICES ASSUME SplInv, SplChainInv, MapTransfers PROVE SplChainInv'
  OBVIOUS
<1>1. PICK L, r : L = Block /\ r = ChainRun /\ ChainInv(L, r) /\ L = Block' /\ r = ChainRun'
  BY HandlerKeepsChain DEF MapTransfers, SplThen
<1>2. /\ mintStore' = mintStore /\ accountStore' = accountStore /\ accounts' = accounts
      /\ moved' = moved /\ hidden' = hidden
      /\ splStage = "map_transfers" /\ splStage' = "store_mint_volumes"
  BY DEF MapTransfers, SplAt, SplThen
<1> DEFINE sent == FoundIn(L, TransferTags)
           each(i) ==
             LET inst == sent[i].inst IN
             IF ~Resolved(inst) THEN <<>>
             ELSE << [trx |-> <<splNumber, sent[i].trx>>, at |-> i, from |-> Sender(inst),
                      to |-> Last(inst.accounts), mint |-> MintOf(inst), native |-> inst.amount,
                      amount |-> ConvertTokenToDecimal(inst.amount,
                                                       GetMint(MintOf(inst)).decimals)] >>
           parts == [i \in DOMAIN sent |-> each(i)]
<1>3. transfers' = FlattenSeq(parts)
  <2>1. HandledOf(TransferTags) = sent
    BY <1>1 DEF HandledOf, Handled, FoundIn, HandledIn, Block
  <2> HIDE DEF sent
  <2> QED
    BY <2>1 DEF MapTransfers
<1>4. IsList(sent)
  BY <1>1, FoundIsOwn
<1>5. ASSUME NEW i \in DOMAIN sent
      PROVE  /\ IsList(each(i))
             /\ \A t \in ToSet(each(i)) :
                  /\ Resolved(sent[i].inst) /\ t.at = i /\ t.from = Sender(sent[i].inst)
                  /\ t.mint = MintOf(sent[i].inst)
             /\ Resolved(sent[i].inst) =>
                  \E t \in ToSet(each(i)) : /\ t.at = i /\ t.from = Sender(sent[i].inst)
                                            /\ t.native = sent[i].inst.amount
  <2>1. CASE ~Resolved(sent[i].inst)
    BY <2>1, EmptyIsList
  <2>2. CASE Resolved(sent[i].inst)
    <3>1. PICK t : /\ each(i) = <<t>> /\ t.at = i /\ t.from = Sender(sent[i].inst)
                   /\ t.mint = MintOf(sent[i].inst) /\ t.native = sent[i].inst.amount
      BY <2>2
    <3>2. IsList(<<t>>) /\ ToSet(<<t>>) = {t}
      BY SingletonIsList
    <3> HIDE DEF each
    <3> QED
      BY <2>2, <3>1, <3>2
  <2> QED
    BY <2>1, <2>2
<1> HIDE DEF each, sent
<1>6. parts = [i \in DOMAIN sent |-> parts[i]] /\ DOMAIN parts = DOMAIN sent
      /\ \A i \in DOMAIN sent : parts[i] = each(i)
  OBVIOUS
<1> HIDE DEF parts
<1>7. IsList(parts)
  BY <1>4, <1>6, ImageIsList
<1>8. /\ \A t \in ToSet(FlattenSeq(parts)) : \E i \in DOMAIN parts : t \in ToSet(parts[i])
      /\ \A i \in DOMAIN parts : ToSet(parts[i]) \subseteq ToSet(FlattenSeq(parts))
  BY <1>5, <1>6, <1>7, FlattenOfLists
<1>9. DOMAIN moved = DOMAIN sent
  BY <1>1 DEF ChainInv, SentMatches, ChainRun, sent
<1>10. ASSUME NEW t \in ToSet(transfers')
       PROVE  \/ t.at \in DOMAIN moved /\ t.mint = moved[t.at].mint
              \/ t.from \in hidden
              \/ \E a \in ToSet(accounts) : a.address = t.from /\ a.mint = t.mint
  <2>1. PICK i \in DOMAIN sent : t \in ToSet(each(i))
    BY <1>3, <1>6, <1>8, <1>10
  <2>2. Resolved(sent[i].inst) /\ t.at = i /\ t.from = Sender(sent[i].inst)
        /\ t.mint = MintOf(sent[i].inst)
    BY <1>5, <2>1
  <2> QED
    BY <1>1, <1>2, <2>2, TransferSeen DEF sent
<1>11. ASSUME NEW i \in DOMAIN moved
       PROVE  \/ \E t \in ToSet(transfers') :
                   t.at = i /\ t.from = moved[i].from /\ t.native = moved[i].amount
              \/ moved[i].mint \in hidden
              \/ ~moved[i].checked /\ moved[i].from \in hidden
              \/ \E a \in ToSet(accounts) : a.address = moved[i].from /\ a.mint \in hidden
  <2>1. i \in DOMAIN sent
    BY <1>9
  <2>2. /\ moved[i].from = Sender(sent[i].inst) /\ moved[i].amount = sent[i].inst.amount
        /\ \/ Resolved(sent[i].inst)
           \/ moved[i].mint \in hidden
           \/ ~moved[i].checked /\ moved[i].from \in hidden
           \/ \E a \in ToSet(accounts) : a.address = moved[i].from /\ a.mint \in hidden
    BY <1>1, <1>2, <2>1, TransferSeen DEF sent
  <2>3. Resolved(sent[i].inst) =>
          \E t \in ToSet(transfers') :
            t.at = i /\ t.from = moved[i].from /\ t.native = moved[i].amount
    BY <1>3, <1>5, <1>6, <1>8, <2>1, <2>2
  <2> QED
    BY <2>2, <2>3
<1>12. TransfersOfTheRightMint' /\ SkippedTransfersExplained'
  BY <1>2, <1>10, <1>11 DEF TransfersOfTheRightMint, SkippedTransfersExplained
<1>13. Holds(L, Len(L), r)'
  BY <1>1, <1>2, HoldsMoves DEF ChainInv, Has, StoredMint
<1>14. MintsStored(L)' /\ AccountsFound(L)' /\ AccountsStored(L)'
  BY <1>1, <1>2 DEF ChainInv, MintsStored, AccountsFound, AccountsStored, StoredMint, Has
<1>15. ChainInv(L, r)'
  BY <1>1, <1>2, <1>13, <1>14, MintsBegunStay DEF ChainInv
<1>16. \E M, q : M = Block' /\ q = ChainRun' /\ ChainInv(M, q)'
  BY <1>1, <1>15
<1> QED
  BY <1>2, <1>12, <1>16 DEF SplChainInv

(* The chain, the two stores and what the maps found stay as they are.     *)
LEMMA ChainStays ==
  ASSUME SplChainInv,
         UNCHANGED <<splBlock, holding, moved, hidden, mintStore, accountStore, accounts,
                     mints, transfers>>,
         \/ splStage' = splStage /\ (Mapped' => Mapped)
         \/ splStage = "store_mint_volumes" /\ splStage' = "idle" /\ Mapped
  PROVE  SplChainInv'
<1>1. PICK L, r : L = Block /\ r = ChainRun /\ ChainInv(L, r) /\ L = Block' /\ r = ChainRun'
  BY HandlerKeepsChain
<1>2. Holds(L, Len(L), r)'
  BY <1>1, HoldsMoves DEF ChainInv, Has, StoredMint
<1>3. /\ MintsStored(L) => MintsStored(L)'
      /\ MintsFound(L) => MintsFound(L)'
      /\ AccountsFound(L) => AccountsFound(L)'
      /\ AccountsStored(L) => AccountsStored(L)'
  BY DEF MintsStored, MintsFound, AccountsFound, AccountsStored, StoredMint, Has
<1>4. ChainInv(L, r)'
  BY <1>1, <1>2, <1>3, MintsBegunStay DEF ChainInv
<1>5. Mapped' => Mapped
  OBVIOUS
<1>6. TransfersOfTheRightMint' /\ SkippedTransfersExplained'
  BY <1>5 DEF SplChainInv, TransfersOfTheRightMint, SkippedTransfersExplained
<1>7. \E M, q : M = Block' /\ q = ChainRun' /\ ChainInv(M, q)'
  BY <1>1, <1>4
<1> QED
  BY <1>6, <1>7 DEF SplChainInv

LEMMA SplChainNext == SplInv /\ SplChainInv /\ (SplNext \/ UNCHANGED splVars) => SplChainInv'
<1> SUFFICES ASSUME SplInv, SplChainInv, SplNext \/ UNCHANGED splVars PROVE SplChainInv'
  OBVIOUS
<1>1. CASE UnpackFails
  <2>1. splStage' = splStage /\ ~(splStage \in {"store_mint_volumes", "idle"})
    BY <1>1 DEF UnpackFails
  <2> QED
    BY <1>1, <2>1, ChainStays DEF UnpackFails, Mapped
<1>2. CASE StoreMintVolumes
  <2>1. splStage = "store_mint_volumes" /\ splStage' = "idle" /\ Mapped
    BY <1>2 DEF StoreMintVolumes, SplAt, SplThen, Mapped
  <2> QED
    BY <1>2, <2>1, ChainStays DEF StoreMintVolumes, SplThen
<1>3. CASE UNCHANGED splVars
  <2>1. splStage' = splStage /\ splError' = splError
    BY <1>3 DEF splVars
  <2> QED
    BY <1>3, <2>1, ChainStays DEF splVars, Mapped
<1> QED
  BY <1>1, <1>2, <1>3, ProduceKeepsChain, MapMintsKeepsChain, StoreMintsKeepsChain,
     MapAccountsKeepsChain, StoreAccountsKeepsChain, MapTransfersKeepsChain DEF SplNext
-----------------------------------------------------------------------------
(* The volumes.  The two stores have the transfers of the log, but for     *)
(* those that store_mint_volumes is about to add; every transfer was       *)
(* priced with the decimals its mint has in the store, which never change. *)
Natives(log, m) == [i \in DOMAIN log |-> IF log[i].mint = m THEN log[i].native ELSE 0]
Amounts(log, m) == [i \in DOMAIN log |-> IF log[i].mint = m THEN log[i].amount ELSE Zero]

Priced(t) ==
  /\ t.native \in Nat
  /\ Has(mintStore, MintKey(t.mint))
  /\ t.amount = Fraction(t.native, 10 ^ mintStore.kv[MintKey(t.mint)].decimals)

VolumesOf(log) ==
  \A m :
    /\ (\E i \in DOMAIN log : log[i].mint = m) =>
         Has(nativeVolumes, NativeMintVolume(m)) /\ Has(decimalVolumes, DecimalMintVolume(m))
    /\ HeldValue("bigint", nativeVolumes, NativeMintVolume(m)) = Total("bigint", Natives(log, m))
    /\ HeldValue("bigfloat", decimalVolumes, DecimalMintVolume(m))
         = Total("bigfloat", Amounts(log, m))

SplVolumeInv ==
  /\ IsStore(nativeVolumes) /\ IsStore(decimalVolumes)
  /\ IsList(transfers)
  /\ \A t \in ToSet(transferLog) : Priced(t)
  /\ splStage = "store_mint_volumes" =>
       \E done : IsList(done) /\ transferLog = done \o transfers /\ VolumesOf(done)
  /\ splStage # "store_mint_volumes" => VolumesOf(transferLog)

LEMMA SplVolumeInit == SplInit => SplVolumeInv
<1> SUFFICES ASSUME SplInit PROVE SplVolumeInv
  OBVIOUS
<1>1. nativeVolumes = EmptyStore /\ decimalVolumes = EmptyStore /\ transferLog = <<>>
      /\ transfers = <<>> /\ splStage = "idle"
  BY DEF SplInit
<1>2. IsStore(EmptyStore) /\ DOMAIN EmptyStore.kv = {}
  BY EmptyStoreIsStore, EmptyIsList DEF EmptyStore
<1>3. DOMAIN <<>> = {} /\ ToSet(<<>>) = {} /\ IsList(<<>>)
  BY EmptyIsList
<1>4. ASSUME NEW m
      PROVE  /\ HeldValue("bigint", nativeVolumes, NativeMintVolume(m))
                  = Total("bigint", Natives(<<>>, m))
             /\ HeldValue("bigfloat", decimalVolumes, DecimalMintVolume(m))
                  = Total("bigfloat", Amounts(<<>>, m))
  <2>1. PICK s, t : s = Natives(<<>>, m) /\ t = Amounts(<<>>, m)
    OBVIOUS
  <2>2. DOMAIN s = {} /\ DOMAIN t = {}
    BY <1>3, <2>1 DEF Natives, Amounts
  <2>3. Total("bigint", s) = Nothing("bigint") /\ Total("bigfloat", t) = Nothing("bigfloat")
    BY <2>2, TotalOfNone
  <2> QED
    BY <1>1, <1>2, <2>1, <2>3 DEF HeldValue, Has
<1>5. VolumesOf(<<>>)
  BY <1>3, <1>4 DEF VolumesOf
<1> QED
  BY <1>1, <1>2, <1>3, <1>5 DEF SplVolumeInv

(* A step that changes neither the log nor the volumes.                    *)
LEMMA VolumesStay ==
  ASSUME SplVolumeInv, UNCHANGED <<nativeVolumes, decimalVolumes, transferLog, transfers>>,
         \A k \in DOMAIN mintStore.kv :
           k \in DOMAIN mintStore'.kv /\ mintStore'.kv[k] = mintStore.kv[k],
         splStage' = "store_mint_volumes" <=> splStage = "store_mint_volumes"
  PROVE  SplVolumeInv'
<1>1. \A t : Priced(t) => Priced(t)'
  BY DEF Priced, Has
<1>2. \A t \in ToSet(transferLog)' : Priced(t)'
  BY <1>1 DEF SplVolumeInv
<1>3. ASSUME NEW log, VolumesOf(log)
      PROVE  VolumesOf(log)'
  BY <1>3 DEF VolumesOf, HeldValue, Has
<1>4. ASSUME splStage' = "store_mint_volumes"
      PROVE  \E done : IsList(done) /\ (transferLog = done \o transfers)' /\ VolumesOf(done)'
  <2>1. PICK done : IsList(done) /\ transferLog = done \o transfers /\ VolumesOf(done)
    BY <1>4 DEF SplVolumeInv
  <2>2. VolumesOf(done)'
    BY <1>3, <2>1
  <2> QED
    BY <2>1, <2>2
<1>5. ASSUME splStage' # "store_mint_volumes"
      PROVE  VolumesOf(transferLog)'
  <2>1. VolumesOf(transferLog)
    BY <1>5 DEF SplVolumeInv
  <2>2. PICK log : log = transferLog
    OBVIOUS
  <2>3. VolumesOf(log)'
    BY <1>3, <2>1, <2>2
  <2> QED
    BY <2>2, <2>3
<1> QED
  BY <1>2, <1>4, <1>5 DEF SplVolumeInv

(* What map_transfers finds is priced.                                     *)
LEMMA TransfersPriced ==
  ASSUME SplInv, SplChainInv, MapTransfers
  PROVE  /\ IsList(transfers') /\ transferLog' = transferLog \o transfers'
         /\ \A t \in ToSet(transfers') : Priced(t)
<1> DEFINE sent == HandledOf(TransferTags)
           each(i) ==
             LET inst == sent[i].inst IN
             IF ~Resolved(inst) THEN <<>>
             ELSE << [trx |-> <<splNumber, sent[i].trx>>, at |-> i, from |-> Sender(inst),
                      to |-> Last(inst.accounts), mint |-> MintOf(inst), native |-> inst.amount,
                      amount |-> ConvertTokenToDecimal(inst.amount,
                                                       GetMint(MintOf(inst)).decimals)] >>
           parts == [i \in DOMAIN sent |-> each(i)]
<1>1. transfers' = FlattenSeq(parts) /\ transferLog' = transferLog \o transfers'
  BY DEF MapTransfers
<1>2. IsList(sent)
  BY HandledOfIsList
<1>3. \A i \in DOMAIN sent : sent[i].inst.amount \in Nat
  <2>1. sent = FoundIn(Block, TransferTags)
    BY DEF HandledOf, Handled, FoundIn, HandledIn, Block
  <2> HIDE DEF sent
  <2>2. \A i \in DOMAIN sent : sent[i] \in ToSet(Block) /\ sent[i].inst.tag \in TransferTags
    BY <2>1, FoundIsOwn
  <2> QED
    BY <2>2, RecordsKnown
<1>4. ASSUME NEW i \in DOMAIN sent
      PROVE  IsList(each(i)) /\ \A t \in ToSet(each(i)) : Priced(t)
  <2>1. CASE ~Resolved(sent[i].inst)
    BY <2>1, EmptyIsList
  <2>2. CASE Resolved(sent[i].inst)
    <3>1. PICK t : /\ each(i) = <<t>> /\ t.native = sent[i].inst.amount
                   /\ t.mint = MintOf(sent[i].inst)
                   /\ t.amount = Fraction(sent[i].inst.amount,
                                          10 ^ GetMint(MintOf(sent[i].inst)).decimals)
      BY <2>2 DEF ConvertTokenToDecimal
    <3>2. IsList(<<t>>) /\ ToSet(<<t>>) = {t}
      BY SingletonIsList
    <3> HIDE DEF each
    <3>3. /\ Has(mintStore, MintKey(t.mint))
          /\ GetMint(MintOf(sent[i].inst)) = mintStore.kv[MintKey(t.mint)]
      BY <2>2, <3>1 DEF Resolved, GetMint, GetLast
    <3>4. Priced(t)
      BY <1>3, <3>1, <3>3 DEF Priced
    <3> QED
      BY <3>1, <3>2, <3>4
  <2> QED
    BY <2>1, <2>2
<1> HIDE DEF each, sent
<1>5. parts = [i \in DOMAIN sent |-> parts[i]] /\ DOMAIN parts = DOMAIN sent
      /\ \A i \in DOMAIN sent : parts[i] = each(i)
  OBVIOUS
<1> HIDE DEF parts
<1>6. IsList(parts)
  BY <1>2, <1>5, ImageIsList
<1>7. /\ IsList(FlattenSeq(parts))
      /\ \A t \in ToSet(FlattenSeq(parts)) : \E i \in DOMAIN parts : t \in ToSet(parts[i])
  BY <1>4, <1>5, <1>6, FlattenOfLists
<1> QED
  BY <1>1, <1>4, <1>5, <1>7

LEMMA MapTransfersKeepsVolumes ==
  SplInv /\ SplChainInv /\ SplVolumeInv /\ MapTransfers => SplVolumeInv'
<1> SUFFICES ASSUME SplInv, SplChainInv, SplVolumeInv, MapTransfers PROVE SplVolumeInv'
  OBVIOUS
<1>1. /\ IsList(transfers') /\ transferLog' = transferLog \o transfers'
      /\ \A t \in ToSet(transfers') : Priced(t)
  BY TransfersPriced
<1>2. /\ splStage = "map_transfers" /\ splStage' = "store_mint_volumes"
      /\ mintStore' = mintStore
      /\ nativeVolumes' = nativeVolumes /\ decimalVolumes' = decimalVolumes
  BY DEF MapTransfers, SplAt, SplThen
<1>3. IsList(transferLog) /\ VolumesOf(transferLog)
  BY <1>2 DEF SplInv, SplVolumeInv
<1>4. \A t \in ToSet(transferLog') : Priced(t)
  BY <1>1, <1>3, ConcatOfLists DEF SplVolumeInv
<1>5. \A t \in ToSet(transferLog') : Priced(t)'
  BY <1>2, <1>4 DEF Priced, Has
<1>6. PICK done : done = transferLog
  OBVIOUS
<1>7. IsList(done) /\ transferLog' = done \o transfers' /\ VolumesOf(done)'
  BY <1>1, <1>2, <1>3, <1>6 DEF VolumesOf, HeldValue, Has
<1> QED
  BY <1>1, <1>2, <1>5, <1>7 DEF SplVolumeInv

(* Transfers whose units, and whose amounts, are numbers.                  *)
NativesKnown(log) == \A t \in ToSet(log) : IsNumber("bigint", t.native)
AmountsKnown(log) == \A t \in ToSet(log) : IsNumber("bigfloat", t.amount)

(* The transfers so far: those done before, then those of the block.       *)
Followed(done, todo, log) == IsList(done) /\ IsList(todo) /\ log = done \o todo

(* What store_mint_volumes writes for a block's transfers.                 *)
NativeWrites(log) ==
  [i \in DOMAIN log |-> <<0, NativeMintVolume(log[i].mint), log[i].native>>]
DecimalWrites(log) ==
  [i \in DOMAIN log |-> <<0, DecimalMintVolume(log[i].mint), log[i].amount>>]

(* A block's transfers of a mint are added to what its volume holds.       *)
LEMMA NativesGrow ==
  ASSUME NEW done, NEW todo, NEW log, Followed(done, todo, log), NEW m,
         NativesKnown(log),
         NEW store, NEW writes,
         writes = NativeWrites(todo),
         HeldValue("bigint", store, NativeMintVolume(m)) = Total("bigint", Natives(done, m))
  PROVE  HeldValue("bigint", AddAll(store, writes, "bigint"), NativeMintVolume(m))
           = Total("bigint", Natives(log, m))
<1>0. IsList(done) /\ IsList(todo) /\ log = done \o todo
  BY DEF Followed
<1>1. PICK n, k \in Nat : n = Len(done) /\ k = Len(todo)
  BY <1>0, ListHasLength DEF HasLength
<1>2. DOMAIN done = 1 .. n /\ DOMAIN todo = 1 .. k
  BY <1>0, <1>1, ListHasLength DEF HasLength
<1>3. /\ DOMAIN log = 1 .. n + k
      /\ \A i \in 1 .. n : log[i] = done[i]
      /\ \A i \in 1 .. k : log[n + i] = todo[i]
      /\ ToSet(log) = ToSet(done) \cup ToSet(todo)
  BY <1>0, <1>1, ConcatOfLists
<1>4. /\ \A i \in 1 .. n : IsNumber("bigint", done[i].native)
      /\ \A i \in 1 .. k : IsNumber("bigint", todo[i].native)
  BY <1>2, <1>3 DEF ToSet, NativesKnown
<1>5. PICK key : key = NativeMintVolume(m)
  OBVIOUS
<1>6. \A a : NativeMintVolume(a) = key <=> a = m
  BY <1>5 DEF NativeMintVolume
<1>7. /\ DOMAIN writes = 1 .. k
      /\ \A i \in 1 .. k :
           (writes[i][2] = key <=> todo[i].mint = m) /\ writes[i][3] = todo[i].native
  BY <1>2, <1>6 DEF NativeWrites
<1>8. CountsUp("bigint", writes, key)
  BY <1>4, <1>7 DEF CountsUp
<1>9. PICK s, p, u : /\ s = Natives(done, m) /\ p = Parts("bigint", writes, key)
                     /\ u = Natives(log, m)
  OBVIOUS
<1>10. /\ DOMAIN s = 1 .. n
       /\ \A i \in 1 .. n : s[i] = IF done[i].mint = m THEN done[i].native ELSE Nothing("bigint")
  BY <1>2, <1>9 DEF Natives, Nothing
<1>11. /\ DOMAIN p = 1 .. k
       /\ \A i \in 1 .. k : p[i] = IF todo[i].mint = m THEN todo[i].native ELSE Nothing("bigint")
  <2>1. /\ DOMAIN p = DOMAIN writes
        /\ \A i \in DOMAIN writes :
             p[i] = IF writes[i][2] = key THEN writes[i][3] ELSE Nothing("bigint")
    BY <1>9 DEF Parts
  <2> QED
    BY <1>7, <2>1
<1>12. /\ DOMAIN u = 1 .. n + k
       /\ \A i \in 1 .. n + k :
            u[i] = IF log[i].mint = m THEN log[i].native ELSE Nothing("bigint")
  BY <1>3, <1>9 DEF Natives, Nothing
<1>13. /\ \A i \in 1 .. n : i \in 1 .. n + k
       /\ \A i \in 1 .. k : n + i \in 1 .. n + k
  OBVIOUS
<1>14. Joined(s, n, p, k, u)
  BY <1>3, <1>10, <1>11, <1>12, <1>13 DEF Joined
<1>15. Numbers("bigint", s, n)
  BY <1>4, <1>10, NothingIsNumber DEF Numbers
<1>16. Adds("bigint")
  BY DEF Adds
<1>17. HeldValue("bigint", store, key) = Total("bigint", s)
  BY <1>5, <1>9
<1>18. HeldValue("bigint", AddAll(store, writes, "bigint"), key) = Total("bigint", u)
  <2>1. Joined(s, n, Parts("bigint", writes, key), k, u)
    BY <1>9, <1>14
  <2>2. DOMAIN writes = 1 .. k
    BY <1>7
  <2>3. HeldValue("bigint", AddAll(store, writes, "bigint"), key) = Total("bigint", u)
    BY <1>8, <1>15, <1>16, <1>17, <2>1, <2>2, KeyGrows
  <2> QED
    BY <2>3
<1> QED
  BY <1>5, <1>9, <1>18

LEMMA AmountsGrow ==
  ASSUME NEW done, NEW todo, NEW log, Followed(done, todo, log), NEW m,
         AmountsKnown(log),
         NEW store, NEW writes,
         writes = DecimalWrites(todo),
         HeldValue("bigfloat", store, DecimalMintVolume(m)) = Total("bigfloat", Amounts(done, m))
  PROVE  HeldValue("bigfloat", AddAll(store, writes, "bigfloat"), DecimalMintVolume(m))
           = Total("bigfloat", Amounts(log, m))
<1>0. IsList(done) /\ IsList(todo) /\ log = done \o todo
  BY DEF Followed
<1>1. PICK n, k \in Nat : n = Len(done) /\ k = Len(todo)
  BY <1>0, ListHasLength DEF HasLength
<1>2. DOMAIN done = 1 .. n /\ DOMAIN todo = 1 .. k
  BY <1>0, <1>1, ListHasLength DEF HasLength
<1>3. /\ DOMAIN log = 1 .. n + k
      /\ \A i \in 1 .. n : log[i] = done[i]
      /\ \A i \in 1 .. k : log[n + i] = todo[i]
      /\ ToSet(log) = ToSet(done) \cup ToSet(todo)
  BY <1>0, <1>1, ConcatOfLists
<1>4. /\ \A i \in 1 .. n : IsNumber("bigfloat", done[i].amount)
      /\ \A i \in 1 .. k : IsNumber("bigfloat", todo[i].amount)
  BY <1>2, <1>3 DEF ToSet, AmountsKnown
<1>5. PICK key : key = DecimalMintVolume(m)
  OBVIOUS
<1>6. \A a : DecimalMintVolume(a) = key <=> a = m
  BY <1>5 DEF DecimalMintVolume
<1>7. /\ DOMAIN writes = 1 .. k
      /\ \A i \in 1 .. k :
           (writes[i][2] = key <=> todo[i].mint = m) /\ writes[i][3] = todo[i].amount
  BY <1>2, <1>6 DEF DecimalWrites
<1>8. CountsUp("bigfloat", writes, key)
  BY <1>4, <1>7 DEF CountsUp
<1>9. PICK s, p, u : /\ s = Amounts(done, m) /\ p = Parts("bigfloat", writes, key)
                     /\ u = Amounts(log, m)
  OBVIOUS
<1>10. /\ DOMAIN s = 1 .. n
       /\ \A i \in 1 .. n : s[i] = IF done[i].mint = m THEN done[i].amount ELSE Nothing("bigfloat")
  BY <1>2, <1>9 DEF Amounts, Nothing
<1>11. /\ DOMAIN p = 1 .. k
       /\ \A i \in 1 .. k : p[i] = IF todo[i].mint = m THEN todo[i].amount ELSE Nothing("bigfloat")
  <2>1. /\ DOMAIN p = DOMAIN writes
        /\ \A i \in DOMAIN writes :
             p[i] = IF writes[i][2] = key THEN writes[i][3] ELSE Nothing("bigfloat")
    BY <1>9 DEF Parts
  <2> QED
    BY <1>7, <2>1
<1>12. /\ DOMAIN u = 1 .. n + k
       /\ \A i \in 1 .. n + k :
            u[i] = IF log[i].mint = m THEN log[i].amount ELSE Nothing("bigfloat")
  BY <1>3, <1>9 DEF Amounts, Nothing
<1>13. /\ \A i \in 1 .. n : i \in 1 .. n + k
       /\ \A i \in 1 .. k : n + i \in 1 .. n + k
  OBVIOUS
<1>14. Joined(s, n, p, k, u)
  BY <1>3, <1>10, <1>11, <1>12, <1>13 DEF Joined
<1>15. Numbers("bigfloat", s, n)
  BY <1>4, <1>10, NothingIsNumber DEF Numbers
<1>16. Adds("bigfloat")
  BY DEF Adds
<1>17. HeldValue("bigfloat", store, key) = Total("bigfloat", s)
  BY <1>5, <1>9
<1>18. HeldValue("bigfloat", AddAll(store, writes, "bigfloat"), key) = Total("bigfloat", u)
  <2>1. Joined(s, n, Parts("bigfloat", writes, key), k, u)
    BY <1>9, <1>14
  <2>2. DOMAIN writes = 1 .. k
    BY <1>7
  <2>3. HeldValue("bigfloat", AddAll(store, writes, "bigfloat"), key) = Total("bigfloat", u)
    BY <1>8, <1>15, <1>16, <1>17, <2>1, <2>2, KeyGrows
  <2> QED
    BY <2>3
<1> QED
  BY <1>5, <1>9, <1>18

LEMMA StoreMintVolumesKeepsVolumes ==
  SplInv /\ SplChainInv /\ SplVolumeInv /\ StoreMintVolumes => SplVolumeInv'
<1> SUFFICES ASSUME SplInv, SplChainInv, SplVolumeInv, StoreMintVolumes PROVE SplVolumeInv'
  OBVIOUS
<1> DEFINE natives == [i \in DOMAIN transfers |->
                         <<0, NativeMintVolume(transfers[i].mint), transfers[i].native>>]
           amounts == [i \in DOMAIN transfers |->
                         <<0, DecimalMintVolume(transfers[i].mint), transfers[i].amount>>]
<1>1. /\ nativeVolumes' = AddAll(NextBlock(nativeVolumes), natives, "bigint")
      /\ decimalVolumes' = AddAll(NextBlock(decimalVolumes), amounts, "bigfloat")
      /\ splStage = "store_mint_volumes" /\ splStage' = "idle"
      /\ transferLog' = transferLog /\ transfers' = transfers /\ mintStore' = mintStore
  BY DEF StoreMintVolumes, SplAt, SplThen
<1>2. PICK done : IsList(done) /\ transferLog = done \o transfers /\ VolumesOf(done)
  BY <1>1 DEF SplVolumeInv
<1>3. PICK todo, log : todo = transfers /\ log = transferLog
  OBVIOUS
<1>4. IsList(todo) /\ IsList(log) /\ log = done \o todo
  BY <1>2, <1>3 DEF SplVolumeInv, SplInv
<1>5. \A t \in ToSet(log) : IsNumber("bigint", t.native) /\ IsNumber("bigfloat", t.amount)
  <2>1. ASSUME NEW t \in ToSet(log)
        PROVE  IsNumber("bigint", t.native) /\ IsNumber("bigfloat", t.amount)
    <3>1. Priced(t)
      BY <1>3 DEF SplVolumeInv
    <3>2. 10 ^ mintStore.kv[MintKey(t.mint)].decimals \in Nat \ {0}
      BY <3>1 DEF Priced, Has, SplChainInv
    <3>3. t.native \in Int /\ Decimal(t.amount)
      BY <3>1, <3>2 DEF Priced, Decimal
    <3> QED
      BY <3>3 DEF IsNumber
  <2> QED
    BY <2>1
<1>6. PICK stored, scaled : stored = NextBlock(nativeVolumes) /\ scaled = NextBlock(decimalVolumes)
  OBVIOUS
<1>7. /\ IsStore(stored) /\ stored.kv = nativeVolumes.kv
      /\ IsStore(scaled) /\ scaled.kv = decimalVolumes.kv
  BY <1>6, NextBlockIsStore DEF SplVolumeInv
<1>8. PICK n, k \in Nat : n = Len(done) /\ k = Len(todo)
  BY <1>2, <1>4, ListHasLength DEF HasLength
<1>9. DOMAIN done = 1 .. n /\ DOMAIN todo = 1 .. k
  BY <1>2, <1>4, <1>8, ListHasLength DEF HasLength
<1>10. /\ DOMAIN log = 1 .. n + k
       /\ \A i \in 1 .. n : log[i] = done[i]
       /\ \A i \in 1 .. k : log[n + i] = todo[i]
  BY <1>2, <1>4, <1>8, ConcatOfLists
<1>11. PICK w, x : w = natives /\ x = amounts
  OBVIOUS
<1>12. w = NativeWrites(todo) /\ x = DecimalWrites(todo)
  BY <1>3, <1>11 DEF NativeWrites, DecimalWrites
<1>13. /\ DOMAIN w = 1 .. k /\ DOMAIN x = 1 .. k
       /\ \A i \in 1 .. k : /\ w[i][2] = NativeMintVolume(todo[i].mint)
                            /\ x[i][2] = DecimalMintVolume(todo[i].mint)
  BY <1>9, <1>12 DEF NativeWrites, DecimalWrites
<1> HIDE DEF natives, amounts
<1>14. nativeVolumes' = AddAll(stored, w, "bigint")
       /\ decimalVolumes' = AddAll(scaled, x, "bigfloat")
  BY <1>1, <1>6, <1>11
<1>15. /\ IsStore(nativeVolumes')
       /\ DOMAIN nativeVolumes'.kv = DOMAIN nativeVolumes.kv \cup Written(w)
  <2>1. "bigint" \notin {"set", "delete", "sum", "count"}
    OBVIOUS
  <2> QED
    BY <1>7, <1>13, <1>14, <2>1, AddAllIsStore
<1>16. /\ IsStore(decimalVolumes')
       /\ DOMAIN decimalVolumes'.kv = DOMAIN decimalVolumes.kv \cup Written(x)
  <2>1. "bigfloat" \notin {"set", "delete", "sum", "count"}
    OBVIOUS
  <2> QED
    BY <1>7, <1>13, <1>14, <2>1, AddAllIsStore
<1>17. ASSUME NEW m
       PROVE  /\ HeldValue("bigint", nativeVolumes', NativeMintVolume(m))
                   = Total("bigint", Natives(log, m))
              /\ HeldValue("bigfloat", decimalVolumes', DecimalMintVolume(m))
                   = Total("bigfloat", Amounts(log, m))
  <2>1. /\ HeldValue("bigint", stored, NativeMintVolume(m)) = Total("bigint", Natives(done, m))
        /\ HeldValue("bigfloat", scaled, DecimalMintVolume(m))
             = Total("bigfloat", Amounts(done, m))
    BY <1>2, <1>7 DEF VolumesOf, HeldValue, Has
  <2>4. NativesKnown(log) /\ AmountsKnown(log)
    BY <1>5 DEF NativesKnown, AmountsKnown
  <2>5. Followed(done, todo, log)
    BY <1>2, <1>4 DEF Followed
  <2>2. HeldValue("bigint", AddAll(stored, w, "bigint"), NativeMintVolume(m))
          = Total("bigint", Natives(log, m))
    BY <1>12, <2>1, <2>4, <2>5, NativesGrow
  <2>3. HeldValue("bigfloat", AddAll(scaled, x, "bigfloat"), DecimalMintVolume(m))
          = Total("bigfloat", Amounts(log, m))
    BY <1>12, <2>1, <2>4, <2>5, AmountsGrow
  <2> QED
    BY <1>14, <2>2, <2>3
<1>18. ASSUME NEW m, NEW i \in DOMAIN log, log[i].mint = m
       PROVE  /\ NativeMintVolume(m) \in DOMAIN nativeVolumes'.kv
              /\ DecimalMintVolume(m) \in DOMAIN decimalVolumes'.kv
  <2>1. CASE i \in 1 .. n
    BY <1>2, <1>9, <1>10, <1>15, <1>16, <1>18, <2>1 DEF VolumesOf, Has
  <2>2. CASE i \notin 1 .. n
    <3>1. i - n \in 1 .. k /\ i = n + (i - n)
      BY <1>10, <2>2
    <3>2. todo[i - n].mint = m
      BY <1>10, <1>18, <3>1
    <3>3. NativeMintVolume(m) \in Written(w) /\ DecimalMintVolume(m) \in Written(x)
      BY <1>13, <3>1, <3>2 DEF Written
    <3> QED
      BY <1>15, <1>16, <3>3
  <2> QED
    BY <2>1, <2>2
<1>19. VolumesOf(log)'
  BY <1>17, <1>18 DEF VolumesOf, HeldValue, Has
<1>20. \A t \in ToSet(transferLog') : Priced(t)'
  BY <1>1 DEF SplVolumeInv, Priced, Has
<1> QED
  BY <1>1, <1>3, <1>4, <1>15, <1>16, <1>19, <1>20 DEF SplVolumeInv

LEMMA SplVolumeNext ==
  SplInv /\ SplChainInv /\ SplVolumeInv /\ (SplNext \/ UNCHANGED splVars) => SplVolumeInv'
<1> SUFFICES ASSUME SplInv, SplChainInv, SplVolumeInv, SplNext \/ UNCHANGED splVars
             PROVE  SplVolumeInv'
  OBVIOUS
<1>1. CASE ProduceSplBlock
  BY <1>1, VolumesStay DEF ProduceSplBlock
<1>2. CASE UnpackFails
  BY <1>2, VolumesStay DEF UnpackFails
<1>3. CASE MapMints
  BY <1>3, VolumesStay DEF MapMints, SplAt, SplThen
<1>4. CASE StoreMints
  <2>1. \A k \in DOMAIN mintStore.kv :
          k \in DOMAIN mintStore'.kv /\ mintStore'.kv[k] = mintStore.kv[k]
    BY <1>4, StoreMintsAdds
  <2> QED
    BY <1>4, <2>1, VolumesStay DEF StoreMints, SplAt, SplThen
<1>5. CASE MapAccounts
  BY <1>5, VolumesStay DEF MapAccounts, SplAt, SplThen
<1>6. CASE StoreAccounts
  BY <1>6, VolumesStay DEF StoreAccounts, SplAt, SplThen
<1>7. CASE UNCHANGED splVars
  BY <1>7, VolumesStay DEF splVars
<1> QED
  BY <1>1, <1>2, <1>3, <1>4, <1>5, <1>6, <1>7, MapTransfersKeepsVolumes,
     StoreMintVolumesKeepsVolumes DEF SplNext

(* At the end of a block the volumes of a mint are its transfers.          *)
LEMMA VolumesInAgreement ==
  ASSUME SplInv, SplChainInv, SplVolumeInv
  PROVE  VolumesAgree
<1> SUFFICES ASSUME splStage = "idle", NEW t \in ToSet(transferLog)
             PROVE  LET units == FoldLeft(LAMBDA sum, n : sum + n, 0, Natives(transferLog, t.mint))
                    IN /\ GetLast(nativeVolumes, NativeMintVolume(t.mint)) = units
                       /\ GetLast(decimalVolumes, DecimalMintVolume(t.mint))
                            = Fraction(units, 10 ^ GetMint(t.mint).decimals)
  BY DEF VolumesAgree, Natives
<1>1. PICK m, log : m = t.mint /\ log = transferLog
  OBVIOUS
<1>2. IsList(log) /\ VolumesOf(log) /\ \A x \in ToSet(log) : Priced(x)
  BY <1>1 DEF SplInv, SplVolumeInv
<1>3. PICK n \in Nat : DOMAIN log = 1 .. n
  BY <1>2, ListHasLength DEF HasLength
<1>4. PICK i \in DOMAIN log : log[i].mint = m
  BY <1>1 DEF ToSet
<1>5. \A j \in 1 .. n : Priced(log[j])
  BY <1>2, <1>3 DEF ToSet
<1>6. PICK b : b = 10 ^ mintStore.kv[MintKey(m)].decimals
  OBVIOUS
<1>7. Has(mintStore, MintKey(m)) /\ b \in Nat \ {0} /\ b = 10 ^ GetMint(m).decimals
  BY <1>3, <1>4, <1>5, <1>6 DEF Priced, SplChainInv, Has, GetMint, GetLast
<1>8. PICK s, u : s = Natives(log, m) /\ u = Amounts(log, m)
  OBVIOUS
<1>9. /\ GetLast(nativeVolumes, NativeMintVolume(m)) = Total("bigint", s)
      /\ GetLast(decimalVolumes, DecimalMintVolume(m)) = Total("bigfloat", u)
  BY <1>2, <1>4, <1>8 DEF VolumesOf, HeldValue, GetLast
<1>10. /\ DOMAIN s = 1 .. n /\ DOMAIN u = 1 .. n
       /\ \A j \in 1 .. n : /\ s[j] = IF log[j].mint = m THEN log[j].native ELSE 0
                            /\ u[j] = IF log[j].mint = m THEN log[j].amount ELSE Zero
  BY <1>3, <1>8 DEF Natives, Amounts
<1>11. ASSUME NEW j \in 1 .. n PROVE s[j] \in Int /\ u[j] = Fraction(s[j], b)
  <2>1. CASE log[j].mint = m
    <3>1. s[j] = log[j].native /\ u[j] = log[j].amount
      BY <1>10, <2>1
    <3>2. log[j].native \in Nat /\ log[j].amount = Fraction(log[j].native, b)
      BY <1>5, <1>6, <2>1 DEF Priced
    <3> QED
      BY <3>1, <3>2
  <2>2. CASE log[j].mint # m
    <3>1. s[j] = 0 /\ u[j] = Zero
      BY <1>10, <2>2
    <3>2. Fraction(0, b) = Zero
      BY <1>7, FractionOfZero
    <3> QED
      BY <3>1, <3>2
  <2> QED
    BY <2>1, <2>2
<1>12. Total("bigfloat", u) = Fraction(Total("bigint", s), b)
  <2>1. ScaledBy(s, u, n, b)
    BY <1>11 DEF ScaledBy
  <2> QED
    BY <1>7, <1>10, <2>1, TotalOfScaled
<1>13. Total("bigint", s) = FoldLeft(LAMBDA sum, k : sum + k, 0, s)
  BY DEF Total
<1> QED
  BY <1>1, <1>7, <1>8, <1>9, <1>12, <1>13

-----------------------------------------------------------------------------
IInv == SplInv /\ SplChainInv /\ SplVolumeInv /\ EthInv /\ ProducersInv

LEMMA StepKeepsInvariant == IInv /\ [Next]_vars => IInv'
<1> SUFFICES ASSUME IInv, [Next]_vars PROVE IInv'
  OBVIOUS
<1>1. UNCHANGED splVars => SplInv'
  BY DEF IInv, SplInv, splVars, Has, MintKey, ToSet
<1>2. UNCHANGED ethVars => EthInv'
  BY DEF IInv, EthInv, ethVars, TokensAhead
<1>3. UNCHANGED producerVars => ProducersInv'
  BY DEF IInv, ProducersInv, producerVars, CountOf, Has, BlocksOf, Reached
<1>4. \/ SplNext /\ UNCHANGED <<ethVars, producerVars>>
      \/ EthNext /\ UNCHANGED <<splVars, producerVars>>
      \/ ProducersNext /\ UNCHANGED <<splVars, ethVars>>
      \/ UNCHANGED <<splVars, ethVars, producerVars>>
  BY Zenon DEF Next, vars
<1>5. UNCHANGED <<ethVars, producerVars>> => UNCHANGED ethVars /\ UNCHANGED producerVars
  OBVIOUS
<1>6. UNCHANGED <<splVars, producerVars>> => UNCHANGED splVars /\ UNCHANGED producerVars
  OBVIOUS
<1>7. UNCHANGED <<splVars, ethVars>> => UNCHANGED splVars /\ UNCHANGED ethVars
  OBVIOUS
<1>8. UNCHANGED <<splVars, ethVars, producerVars>> =>
        UNCHANGED splVars /\ UNCHANGED ethVars /\ UNCHANGED producerVars
  OBVIOUS
<1>9. SplInv /\ SplChainInv /\ SplVolumeInv /\ EthInv /\ ProducersInv
  BY DEF IInv
<1> QED
  BY <1>1, <1>2, <1>3, <1>4, <1>5, <1>6, <1>7, <1>8, <1>9, SplInvNext, SplChainNext,
     SplVolumeNext, EthInvNext, ProducersInvNext, Zenon DEF IInv

(* In every state each of the packages keeps its invariant.                *)
THEOREM Invariance == Spec => []IInv
<1>1. Init => IInv
  BY SplInvInit, SplChainInit, SplVolumeInit, EthInvInit, ProducersInvInit DEF Init, IInv
<1> QED
  BY <1>1, StepKeepsInvariant, PTL DEF Spec

(* The handlers of a block run in order, the loop over the calls is empty  *)
(* unless it runs, and a transfer has a mint with known decimals.          *)
THEOREM TypeCorrect == Spec => []TypeOK
<1>1. IInv => TypeOK
  BY DEF IInv, SplInv, EthInv, ProducersInv, TypeOK
<1> QED
  BY <1>1, Invariance, PTL

(* The first contract that answers as a token makes map_tokens panic, so   *)
(* the store of tokens is empty for ever (lib.rs:123 of eth-token).        *)
THEOREM NoTokenStored == Spec => []NoTokenGetsThrough
<1>1. IInv => NoTokenGetsThrough
  BY DEF IInv, EthInv, NoTokenGetsThrough
<1> QED
  BY <1>1, Invariance, PTL

(* Between two blocks, and when a request has failed, the number of each   *)
(* producer is that of its blocks (lib.rs:8-24 of eth-block-producers).    *)
THEOREM BlocksAreCounted == Spec => []BlocksCounted
<1>1. IInv => BlocksCounted
  <2> SUFFICES ASSUME IInv, producerStage \in {"idle", "error"}, NEW address \in Producers
               PROVE  (IF Has(producerStore, address) THEN producerStore.kv[address] ELSE 0)
                        = Cardinality({i \in DOMAIN produced : produced[i] = address})
    BY DEF BlocksCounted
  <2>1. Reached = Len(produced) /\ DOMAIN produced = 1 .. Len(produced)
    BY DEF Reached, IInv, ProducersInv
  <2>2. BlocksOf(address, Reached) = {i \in DOMAIN produced : produced[i] = address}
    BY <2>1 DEF BlocksOf
  <2> QED
    BY <2>2 DEF IInv, ProducersInv, CountOf
<1> QED
  BY <1>1, Invariance, PTL

(* A transfer is booked for the mint the sender's account had when it was  *)
(* made, unless the block initialised the account again or an inner        *)
(* instruction did (map_transfers, lib.rs:139-215 of sol-spl-tokens).      *)
THEOREM MintsAreRight == Spec => []TransfersOfTheRightMint
<1>1. IInv => TransfersOfTheRightMint
  BY DEF IInv, SplChainInv
<1> QED
  BY <1>1, Invariance, PTL

(* Every transfer of the block's own instructions comes out of             *)
(* map_transfers but for those whose mint or account only an inner         *)
(* instruction initialised (lib.rs:191-206 of sol-spl-tokens).             *)
THEOREM SkipsAreExplained == Spec => []SkippedTransfersExplained
<1>1. IInv => SkippedTransfersExplained
  BY DEF IInv, SplChainInv
<1> QED
  BY <1>1, Invariance, PTL

(* Between two blocks the stores of mints and accounts are what the chain  *)
(* is, whatever was closed and initialised again, but for what inner       *)
(* instructions did (lib.rs:73-148 of sol-spl-tokens).                     *)
THEOREM StoresAreTheChain == Spec => []StoresMatchChain
<1>1. IInv => StoresMatchChain
  <2> SUFFICES ASSUME IInv, splStage = "idle", NEW a \in DOMAIN holding \ hidden
               PROVE  IF holding[a] = a THEN Has(mintStore, MintKey(a))
                      ELSE /\ Has(accountStore, AccountKey(a))
                           /\ accountStore.kv[AccountKey(a)].mint = holding[a]
    BY DEF StoresMatchChain
  <2> QED
    BY ChainInStores DEF IInv, StoredMint
<1> QED
  BY <1>1, Invariance, PTL

(* At the end of a block both volumes of a mint are the sum of its         *)
(* transfers, in units and in tokens, and the second is the first with the *)
(* mint's decimals (store_mint_native_volumes and                          *)
(* store_mint_decimal_volumes, lib.rs:218-242 of sol-spl-tokens).          *)
THEOREM VolumesAreTheTransfers == Spec => []VolumesAgree
<1>1. IInv => VolumesAgree
  BY VolumesInAgreement DEF IInv
<1> QED
  BY <1>1, Invariance, PTL

=============================================================================
