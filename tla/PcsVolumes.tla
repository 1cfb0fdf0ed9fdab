----------------------------- MODULE PcsVolumes -----------------------------
(***************************************************************************)
(* store_totals and store_volumes (lib.rs): the counters and the volumes   *)
(* that the events of a block are added to, one event at a time.           *)
(***************************************************************************)
EXTENDS PcsEvents

VARIABLES
  totalsStore,  \* the store of store_totals
  volumeStore,  \* the store of store_volumes
  todoEvents    \* the events the loop of either handler has not reached

volumeVars == <<totalsStore, volumeStore, todoEvents>>

VolumesInit ==
  /\ totalsStore = EmptyStore
  /\ volumeStore = EmptyStore
  /\ todoEvents = <<>>

event == Head(todoEvents)
Writes(ord, keys, value) == [i \in DOMAIN keys |-> <<ord, keys[i], value>>]

-----------------------------------------------------------------------------
(* Slips of the code the model can be made to take.                        *)
NothingToCountWithoutEvents == events = <<>>
VolumePrefixesByHourOnly == << <<"pair_hour", hour - 1>> >>
LiquidityOfBurnAdded(e) == e.liquidity
TokenVolumeKeysByHour(e, t) ==
  << <<"pair", e.pair, t>>, <<"pair_day", day, e.pair, t>>, <<"pair_hour", hour, e.pair, t>> >>

NothingToCount == events = <<>> /\ pairs = <<>>

StartTotals ==
  /\ At("store_totals")
  /\ IF NothingToCount
     THEN /\ totalsStore' = NextBlock(totalsStore)
          /\ todoEvents' = <<>>
     ELSE /\ totalsStore' =
               AddAll(NextBlock(totalsStore),
                      [i \in DOMAIN pairs |-> <<pairs[i].ord, <<"global", "pair_count">>, 1>>],
                      "int64")
          /\ todoEvents' = events
  /\ Then("count_events")
  /\ UNCHANGED volumeStore

(* Nothing deletes the counters of a past day.                             *)
TotalKeys(e) ==
  << <<"token", e.token0, "transaction_count">>,
     <<"token", e.token1, "transaction_count">>,
     <<"pair", e.pair, "transaction_count">>,
     <<"global_day", day, "transaction_count">>,
     <<"global", "transaction_count">> >>

KindCount(kind) ==
  CASE kind = "Swap" -> "swap_count" [] kind = "Burn" -> "burn_count" [] kind = "Mint" -> "mint_count"

CountEvent ==
  /\ At("count_events")
  /\ todoEvents # <<>>
  /\ totalsStore' =
       AddAll(totalsStore,
              Writes(event.ord,
                     Append(TotalKeys(event), <<"pair", event.pair, KindCount(event.kind)>>), 1),
              "int64")
  /\ todoEvents' = Tail(todoEvents)
  /\ Then("count_events")
  /\ UNCHANGED volumeStore

EventsCounted ==
  /\ At("count_events")
  /\ todoEvents = <<>>
  /\ Then("store_volumes")
  /\ UNCHANGED volumeVars

-----------------------------------------------------------------------------
(* A block without events returns before it deletes.  The prefix of the    *)
(* day's global keys has no ":" at its end; days have as many digits.      *)
VolumePrefixes ==
  << <<"pair_day", day - 1>>, <<"token_day", day - 1>>, <<"pair_hour", hour - 1>>,
     <<"global_day", day - 1>> >>

StartVolumes ==
  /\ At("store_volumes")
  /\ volumeStore' = IF events = <<>> THEN NextBlock(volumeStore)
                    ELSE DeletePrefixes(NextBlock(volumeStore), VolumePrefixes)
  /\ todoEvents' = events
  /\ Then("add_volumes")
  /\ UNCHANGED totalsStore

(* The liquidity is filed under the receiver as if it were a token.        *)
LiquidityWrites(e, amountUsd, liquidity) ==
  << <<e.ord, <<"global", "liquidity_usd">>, amountUsd>> >> \o
  Writes(e.ord, << <<"token", e.to, "liquidity">>, <<"pair", e.pair, "total_supply">> >>, liquidity)

MintWrites(e) == LiquidityWrites(e, e.amountUsd, e.liquidity)
BurnedLiquidity(e) == Minus(e.liquidity)
BurnWrites(e) == LiquidityWrites(e, Minus(e.amountUsd), BurnedLiquidity(e))

(* The hourly volumes of the two tokens are filed under the day.           *)
TokenVolumeKeys(e, t) ==
  << <<"pair", e.pair, t>>, <<"pair_day", day, e.pair, t>>, <<"pair_hour", day, e.pair, t>> >>

UsdVolumeKeys(e) ==
  << <<"pair", e.pair, "usd">>,
     <<"pair_day", day, e.pair, "usd">>,
     <<"pair_hour", hour, e.pair, "usd">>,
     <<"token_day", day, e.token0, "usd">>,
     <<"token_day", day, e.token1, "usd">>,
     <<"global", "usd">>,
     <<"global_day", day, "usd">> >>

SwapWrites(e) ==
  Writes(e.ord, UsdVolumeKeys(e), e.amountUsd) \o
  Writes(e.ord, << <<"global", "bnb">>, <<"global_day", day, "bnb">> >>, e.amountBnb) \o
  Writes(e.ord, TokenVolumeKeys(e, "token0"), Plus(e.out0, e.in0)) \o
  Writes(e.ord, TokenVolumeKeys(e, "token1"), Plus(e.out1, e.in1)) \o
  << <<e.ord, <<"token", e.token0, "trade">>, e.tradeVolume0>>,
     <<e.ord, <<"token", e.token1, "trade">>, e.tradeVolume1>>,
     <<e.ord, <<"token", e.token0, "trade_usd">>, e.amountUsd>>,
     <<e.ord, <<"token", e.token1, "trade_usd">>, e.amountUsd>> >>

VolumeWrites(e) ==
  IF e.amountUsd = Zero THEN <<>>
  ELSE CASE e.kind = "Mint" -> MintWrites(e)
         [] e.kind = "Burn" -> BurnWrites(e)
         [] e.kind = "Swap" -> SwapWrites(e)

AddVolume ==
  /\ At("add_volumes")
  /\ todoEvents # <<>>
  /\ volumeStore' = AddAll(volumeStore, VolumeWrites(event), "bigfloat")
  /\ todoEvents' = Tail(todoEvents)
  /\ Then("add_volumes")
  /\ UNCHANGED totalsStore

VolumesAdded ==
  /\ At("add_volumes")
  /\ todoEvents = <<>>
  /\ Then("db_out")
  /\ UNCHANGED volumeVars

VolumesNext ==
  \/ StartTotals
  \/ CountEvent
  \/ EventsCounted
  \/ StartVolumes
  \/ AddVolume
  \/ VolumesAdded

-----------------------------------------------------------------------------
(* What the stores should hold, from the history of events.                *)

SumOf(amounts) == FoldLeft(Plus, Zero, amounts)
SumOver(Amount(_)) == SumOf([i \in DOMAIN eventLog |-> Amount(eventLog[i])])
Counted(key) == IF Has(totalsStore, key) THEN totalsStore.kv[key] ELSE 0
Volume(key) == IF Has(volumeStore, key) THEN volumeStore.kv[key] ELSE Zero

(* At db_out the totals are the numbers of events, of each kind, pair,     *)
(* token and day, since the first block (lib.rs:561-618); a pair that was  *)
(* missed counts nowhere.                                                  *)
TotalsCount ==
  stage = "db_out" =>
    LET number_of(Test(_)) == Cardinality({i \in DOMAIN eventLog : Test(eventLog[i])}) IN
    /\ Counted(<<"global", "pair_count">>) = Cardinality(Pairs)
    /\ Counted(<<"global", "transaction_count">>) = Len(eventLog)
    /\ \A e \in ToSet(eventLog) :
         /\ Counted(<<"global_day", e.day, "transaction_count">>) =
              number_of(LAMBDA x : x.day = e.day)
         /\ \A k \in Kinds :
              Counted(<<"pair", e.pair, KindCount(k)>>) =
                number_of(LAMBDA x : x.pair = e.pair /\ x.kind = k)
         /\ \A t \in {e.token0, e.token1} :
              Counted(<<"token", t, "transaction_count">>) =
                number_of(LAMBDA x : x.token0 = t) + number_of(LAMBDA x : x.token1 = t)

(* At db_out the volumes in dollars - of all, of the day, of each pair and *)
(* of the pair in the hour - and the volumes of the first token of a pair  *)
(* are those of the priced swaps since the first block (lib.rs:691-757);   *)
(* the hourly volume in tokens is that of the whole day, filed as an hour  *)
(* with the number of the day.                                             *)
VolumesAddUp ==
  stage = "db_out" =>
    LET swapped(x) == x.kind = "Swap" /\ x.amountUsd # Zero
        usd(Test(_)) == SumOver(LAMBDA x : IF swapped(x) /\ Test(x) THEN x.amountUsd ELSE Zero)
        token0(Test(_)) ==
          SumOver(LAMBDA x : IF swapped(x) /\ Test(x) THEN Plus(x.in0, x.out0) ELSE Zero)
    IN /\ Volume(<<"global", "usd">>) = usd(LAMBDA x : TRUE)
       /\ Volume(<<"global_day", day, "usd">>) = usd(LAMBDA x : x.day = day)
       /\ \A p \in Pairs :
            LET a == p.address IN
            /\ Volume(<<"pair", a, "usd">>) = usd(LAMBDA x : x.pair = a)
            /\ Volume(<<"pair_hour", hour, a, "usd">>) = usd(LAMBDA x : x.pair = a /\ x.hour = hour)
            /\ Volume(<<"pair", a, "token0">>) = token0(LAMBDA x : x.pair = a)
            /\ Volume(<<"pair_day", day, a, "token0">>) = token0(LAMBDA x : x.pair = a /\ x.day = day)
            /\ Volume(<<"pair_hour", day, a, "token0">>) =
                 Volume(<<"pair_day", day, a, "token0">>)

(* The supply of a pair and the liquidity in dollars count the mints and   *)
(* burns that had a price only, each once and with its sign                *)
(* (lib.rs:643-690): what is minted at price zero is never in the supply,  *)
(* even when it is burned at a price later.                                *)
SupplyCountsPricedOnly ==
  stage = "db_out" =>
    LET moved(kind, a) ==
          SumOver(LAMBDA x : IF x.kind = kind /\ x.pair = a /\ x.amountUsd # Zero
                             THEN x.liquidity ELSE Zero)
        dollars(kind) == SumOver(LAMBDA x : IF x.kind = kind THEN x.amountUsd ELSE Zero)
    IN /\ \A p \in Pairs :
            Volume(<<"pair", p.address, "total_supply">>) =
              Plus(moved("Mint", p.address), Minus(moved("Burn", p.address)))
       /\ Volume(<<"global", "liquidity_usd">>) = Plus(dollars("Mint"), Minus(dollars("Burn")))

(* What a block of a period leaves in the stores of reserves and volumes   *)
(* is gone once a later period begins (the calls of delete_prefix,         *)
(* lib.rs:134-135 and 636-639), except where no block came in the next     *)
(* period - for the volumes none with events - and except the hourly       *)
(* volumes of the tokens, whose number is never that of an hour.           *)
OldPeriodsGone ==
  stage = "db_out" =>
    LET eventful(unit) == {IF unit = "day" THEN e.day ELSE e.hour : e \in ToSet(eventLog)}
        visited(unit) == IF unit = "day" THEN {h \div HoursPerDay : h \in blockHours} ELSE blockHours
        unitOf(k) == IF k[1] = "pair_hour" THEN "hour" ELSE "day"
        mayStay(k, seen) == k[2] + 1 \notin seen
    IN /\ \A k \in DOMAIN reserveStore.kv :
            k[1] \in {"pair_day", "pair_hour"} => mayStay(k, visited(unitOf(k)))
       /\ \A k \in DOMAIN volumeStore.kv :
            k[1] \in {"pair_day", "pair_hour", "token_day", "global_day"} =>
              \/ mayStay(k, eventful(unitOf(k)))
              \/ k[1] = "pair_hour" /\ Last(k) # "usd"

=============================================================================
