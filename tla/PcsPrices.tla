----------------------------- MODULE PcsPrices -----------------------------
(***************************************************************************)
(* map_reserves, store_reserves and store_prices (lib.rs) with the price   *)
(* computations of utils.rs: what the Sync logs of a block leave in the    *)
(* reserves store, and what is derived from it.                            *)
(***************************************************************************)
EXTENDS PcsTokens, Decimals

CONSTANTS
  DecimalsOf,    \* the decimals of a token
  Units,         \* Units[d] stands for 10^d
  WBNB, BUSD, USDT,
  BusdWbnb, UsdtWbnb,  \* the addresses of the two stable-coin pairs
  Whitelist,     \* WHITELIST_TOKENS, in order
  TextPairs      \* pairs whose encoded message happens to be UTF-8

(* The whitelist is a list; a created pair has tokens with decimals.       *)
ASSUME PricesAssumption ==
  /\ DOMAIN Whitelist = 1 .. Len(Whitelist) /\ Len(Whitelist) \in Nat
  /\ \A t \in DOMAIN DecimalsOf : Units[DecimalsOf[t]] \in Nat \ {0}
  /\ \A b \in Blocks : \A i \in DOMAIN b : \A l \in LogsOf(b[i]) :
       l.sig = "PairCreated" => {l.words[1], l.words[2]} \subseteq DOMAIN DecimalsOf

VARIABLES
  reserves,      \* the output of map_reserves
  reserveStore,  \* the store of store_reserves
  priceStore,    \* the store of store_prices
  blockHours,    \* history: the hours that had a block
  lastSync       \* history: the amounts of the last Sync of each known pair

priceVars == <<reserves, reserveStore, priceStore, blockHours, lastSync>>

PairAt(address) == pairStore.kv[PairKey(address)]
ToDecimal(amount, address) == Fraction(amount, Units[DecimalsOf[address]])
GetTokenPrice(r0, r1) == Over(r0, r1)

-----------------------------------------------------------------------------
(* Slips of the code the model can be made to take.                        *)
ReservesOfFirstLog == IF reserves = <<>> THEN <<>> ELSE <<Head(reserves)>>
ComputeUsdPriceByPair(ord) ==
  LET price == GetAt(reserveStore, ord, <<"price", BusdWbnb, BUSD, "token0">>) IN
  IF price = Absent THEN Zero ELSE price

PricesInit ==
  /\ reserves = <<>>
  /\ reserveStore = EmptyStore
  /\ priceStore = EmptyStore
  /\ blockHours = {}
  /\ lastSync = <<>>

(* The Sync logs of the pairs that are known after this block.             *)
Syncs == Where(BlockLogs, LAMBDA l : KnownPair(l.address) /\ l.sig = "Sync")

SyncsOf(a) == {l \in ToSet(Syncs) : l.address = a}
Latest(logs) == CHOOSE l \in logs : \A m \in logs : m.ord <= l.ord

(* get_last_token unwraps the tokens; each price divides by a reserve.     *)
SyncPanics(l) ==
  \/ \E s \in Sides : ~HasToken(TokenOf(PairAt(l.address), s))
  \/ 0 \in ToSet(l.amounts)

Reserve(l) ==
  LET p == PairAt(l.address)
      reserve0 == ToDecimal(l.amounts[1], p.token0)
      reserve1 == ToDecimal(l.amounts[2], p.token1)
  IN [ord |-> l.ord, pair |-> l.address, reserve0 |-> reserve0, reserve1 |-> reserve1,
      price0 |-> GetTokenPrice(reserve0, reserve1), price1 |-> GetTokenPrice(reserve1, reserve0)]

MapReserves ==
  /\ At("map_reserves")
  /\ \A l \in ToSet(Syncs) : ~SyncPanics(l)
  /\ reserves' = [i \in DOMAIN Syncs |-> Reserve(Syncs[i])]
  /\ lastSync' = [a \in DOMAIN lastSync \cup {l.address : l \in ToSet(Syncs)} |->
                    IF SyncsOf(a) = {} THEN lastSync[a] ELSE Latest(SyncsOf(a)).amounts]
  /\ blockHours' = blockHours \cup {hour}
  /\ Then("store_reserves")
  /\ UNCHANGED <<reserveStore, priceStore>>

MapReservesPanics ==
  /\ At("map_reserves")
  /\ \E l \in ToSet(Syncs) : SyncPanics(l)
  /\ Panic
  /\ UNCHANGED priceVars

-----------------------------------------------------------------------------
(* The keys of a day and of an hour have a token where db.rs takes a pair. *)
ReserveWrites(r) ==
  LET p == PairAt(r.pair) IN
  << <<r.ord, <<"price", p.address, p.token0, "token0">>, r.price0>>,
     <<r.ord, <<"price", p.address, p.token1, "token1">>, r.price1>>,
     <<r.ord, <<"reserve", r.pair, p.token0, "reserve0">>, r.reserve0>>,
     <<r.ord, <<"pair_day", day, p.token0, "reserve0">>, r.reserve0>>,
     <<r.ord, <<"pair_hour", hour, p.token0, "reserve0">>, r.reserve0>>,
     <<r.ord, <<"reserve", r.pair, p.token1, "reserve1">>, r.reserve1>>,
     <<r.ord, <<"pair_day", day, p.token1, "reserve1">>, r.reserve1>>,
     <<r.ord, <<"pair_hour", hour, p.token1, "reserve1">>, r.reserve1>> >>

ReservePrefixes == << <<"pair_day", day - 1>>, <<"pair_hour", hour - 1>> >>

KnownReserves == Where(reserves, LAMBDA r : KnownPair(r.pair))

StoreReserves ==
  /\ At("store_reserves")
  /\ reserveStore' =
       PutAll(DeletePrefixes(NextBlock(reserveStore), ReservePrefixes),
              Each(KnownReserves, ReserveWrites))
  /\ Then(IF request = "store_prices" THEN "store_prices" ELSE "map_burn_swaps_events")
  /\ UNCHANGED <<reserves, priceStore, blockHours, lastSync>>

-----------------------------------------------------------------------------
(* utils.rs.  The keys it reads in the reserves store have three parts.    *)

AsDecimal(value) == IF value = Absent THEN Zero ELSE value
PriceAt(ord, key) == AsDecimal(GetAt(reserveStore, ord, key))

BusdPriceKey == <<"price", BUSD, WBNB>>
UsdtPriceKey == <<"price", USDT, WBNB>>

ReserveKey(address, t) == <<"reserve", address, t>>

ComputeUsdPrice(ord) ==
  LET busd == PriceAt(ord, ReserveKey(BusdWbnb, WBNB))
      usdt == PriceAt(ord, ReserveKey(UsdtWbnb, WBNB))
      total == Plus(busd, usdt)
  IN IF total = Zero THEN Zero
     ELSE IF busd = Zero THEN PriceAt(ord, UsdtPriceKey)
     ELSE IF usdt = Zero THEN PriceAt(ord, BusdPriceKey)
     ELSE Plus(Times(PriceAt(ord, UsdtPriceKey), Over(busd, total)),
               Times(PriceAt(ord, BusdPriceKey), Over(usdt, total)))

MajorPair(ord, t, major) == GetAt(pairStore, ord, TokensKey(t, major))

(* decode_pair_bytes takes the encoded Pair for a text and unwraps.        *)
MajorPanics(ord, t, major) ==
  MajorPair(ord, t, major) # Absent /\ MajorPair(ord, t, major).address \notin TextPairs

(* No key ever has the whole message in it: the lookup by it fails.        *)
MajorReserve(ord, pairText, major) == GetAt(reserveStore, ord, <<"reserve", pairText, major>>)

MajorUsable(ord, t, major) ==
  LET p == MajorPair(ord, t, major)
      majorToBnb == GetAt(reserveStore, ord, <<"price", major, WBNB>>)
      tinyToMajor == GetAt(reserveStore, ord, <<"price", t, major>>)
      reserve == MajorReserve(ord, p, major)
  IN /\ p # Absent
     /\ Absent \notin {majorToBnb, tinyToMajor, reserve}
     /\ ~AtMost(Times(majorToBnb, reserve), Fraction(5, 1))

(* The majors are tried in order until one panics or gives a price.        *)
Deciding(ord, t) ==
  {i \in DOMAIN Whitelist : MajorPanics(ord, t, Whitelist[i]) \/ MajorUsable(ord, t, Whitelist[i])}

DirectBnbPrice(t) == AsDecimal(GetLast(reserveStore, <<"price", WBNB, t>>))

BnbPricePanics(ord, t) ==
  /\ t # WBNB
  /\ DirectBnbPrice(t) = Zero
  /\ Deciding(ord, t) # {}
  /\ MajorPanics(ord, t, Whitelist[Min(Deciding(ord, t))])

FindBnbPricePerToken(ord, t) ==
  IF t = WBNB THEN One
  ELSE IF DirectBnbPrice(t) # Zero THEN DirectBnbPrice(t)
  ELSE IF Deciding(ord, t) = {} THEN Absent
  ELSE LET major == Whitelist[Min(Deciding(ord, t))] IN
       Times(GetAt(reserveStore, ord, <<"price", t, major>>),
             GetAt(reserveStore, ord, <<"price", major, WBNB>>))

-----------------------------------------------------------------------------
(* What a reserve makes store_prices write, for one of its two tokens      *)
(* (the closure apply) and in all.                                         *)
InBnb(r, t, amount) ==
  LET bnb == FindBnbPricePerToken(r.ord, t) IN IF bnb = Absent THEN Zero ELSE Times(amount, bnb)

DerivedWrites(r, p, t, amount) ==
  LET bnb == FindBnbPricePerToken(r.ord, t)
      usd == ComputeUsdPrice(r.ord)
      inUsd == Times(InBnb(r, t, amount), usd)
  IN IF bnb = Absent THEN <<>>
     ELSE << <<r.ord, <<"dprice", t, "bnb">>, bnb>>,
             <<r.ord, <<"dreserve", r.pair, t, "bnb">>, InBnb(r, t, amount)>> >> \o
          IF usd = Zero THEN <<>>
          ELSE << <<r.ord, <<"dprice", t, "usd">>, Times(bnb, usd)>>,
                  <<r.ord, <<"token_day", day, "dprice", t, "usd">>, Times(bnb, usd)>>,
                  <<r.ord, <<"dreserve", r.pair, t, "usd">>, inUsd>>,
                  <<r.ord, <<"pair_day", day, "dreserve", p.token0, "usd">>, inUsd>>,
                  <<r.ord, <<"pair_day", day, "dreserve", p.token1, "usd">>, inUsd>>,
                  <<r.ord, <<"pair_hour", hour, "dreserve", p.token0, "usd">>, inUsd>>,
                  <<r.ord, <<"pair_hour", hour, "dreserve", p.token1, "usd">>, inUsd>> >>

(* reserves_bnb_sum is the product of the two.                             *)
PriceWrites(r) ==
  LET p == PairAt(r.pair)
      sum == Times(InBnb(r, p.token0, r.reserve0), InBnb(r, p.token1, r.reserve1))
  IN (IF r.pair \in {UsdtWbnb, BusdWbnb}
      THEN << <<r.ord, <<"dprice", "usd", "bnb">>, ComputeUsdPrice(r.ord)>> >> ELSE <<>>) \o
     DerivedWrites(r, p, p.token0, r.reserve0) \o
     DerivedWrites(r, p, p.token1, r.reserve1) \o
     (IF sum # Zero THEN << <<r.ord, <<"dreserves", r.pair, "bnb">>, sum>> >> ELSE <<>>)

PricesPanic(r) == \E s \in Sides : BnbPricePanics(r.ord, TokenOf(PairAt(r.pair), s))

StorePrices ==
  /\ At("store_prices")
  /\ \A r \in ToSet(KnownReserves) : ~PricesPanic(r)
  /\ priceStore' =
       PutAll(DeletePrefixes(NextBlock(priceStore),
                             ReservePrefixes \o << <<"token_day", day - 1>> >>),
              Each(KnownReserves, PriceWrites))
  /\ Then("idle")
  /\ UNCHANGED <<reserves, reserveStore, blockHours, lastSync>>

StorePricesPanics ==
  /\ At("store_prices")
  /\ \E r \in ToSet(KnownReserves) : PricesPanic(r)
  /\ Panic
  /\ UNCHANGED priceVars

PricesNext ==
  \/ MapReserves
  \/ MapReservesPanics
  \/ StoreReserves
  \/ StorePrices
  \/ StorePricesPanics

-----------------------------------------------------------------------------
(* The reserves store has what the last Sync of a pair said (lib.rs:129-   *)
(* 182), whatever the transactions and blocks in between, and the two      *)
(* prices are inverse to each other - up to the hundred digits to which    *)
(* utils.rs:39 rounds a quotient, which here is exact.                     *)
ReservesAreLastSync ==
  stage \notin {"map_pairs", "store_pairs", "store_pcs_tokens", "map_reserves", "store_reserves"} =>
    \A a \in DOMAIN lastSync :
      LET p == PairAt(a) IN
      /\ GetLast(reserveStore, <<"reserve", a, p.token0, "reserve0">>)
           = ToDecimal(lastSync[a][1], p.token0)
      /\ GetLast(reserveStore, <<"reserve", a, p.token1, "reserve1">>)
           = ToDecimal(lastSync[a][2], p.token1)
      /\ Times(GetLast(reserveStore, <<"price", a, p.token0, "token0">>),
               GetLast(reserveStore, <<"price", a, p.token1, "token1">>)) = One

(* store_prices (lib.rs:185-319) prices WBNB only, at one BNB; the dollar  *)
(* is worth zero and no key in dollars is ever written, because utils.rs   *)
(* reads keys of three parts and store_reserves writes keys of four; the   *)
(* reserves of a pair are multiplied, so that one unpriced token leaves    *)
(* the pair without a total.                                               *)
OnlyBnbPriced ==
  \A k \in DOMAIN priceStore.kv :
    \/ k = <<"dprice", "usd", "bnb">> /\ priceStore.kv[k] = Zero
    \/ k = <<"dprice", WBNB, "bnb">> /\ priceStore.kv[k] = One
    \/ k[1] = "dreserve" /\ k[3] = WBNB /\ k[4] = "bnb"

(* The comment in store_prices (lib.rs:213-221) says that a Sync sets      *)
(* dprice:%s:usd of a token as it sets dprice:%s:bnb, and that the total   *)
(* of a pair's reserves, dreserves:%s:bnb, is the "sum of both token's     *)
(* reserves" (a token without a price has none in bnb).  The first is      *)
(* asked only after a Sync of the pair from which compute_usd_price takes  *)
(* the dollar (utils.rs:49-138).  In the code the dollar is looked up by   *)
(* keys that are never written, and the reserves are multiplied            *)
(* (lib.rs:308).                                                           *)
CommentedKeysSet ==
  stage = "idle" /\ request = "store_prices" /\ BusdWbnb \in DOMAIN lastSync =>
    /\ \A t \in DOMAIN DecimalsOf :
         Has(priceStore, <<"dprice", t, "bnb">>) => Has(priceStore, <<"dprice", t, "usd">>)
    /\ \A a \in DOMAIN lastSync :
         LET p == PairAt(a)
             inBnb(t) == AsDecimal(GetLast(priceStore, <<"dreserve", a, t, "bnb">>))
             sum == Plus(inBnb(p.token0), inBnb(p.token1))
         IN sum # Zero => GetLast(priceStore, <<"dreserves", a, "bnb">>) = sum

=============================================================================
