----------------------------- MODULE PcsEvents -----------------------------
(***************************************************************************)
(* map_burn_swaps_events (lib.rs) and event.rs: the logs of each call of a *)
(* pair are matched against the patterns of a mint, a burn and a swap.     *)
(* The fees of a mint and of a burn reach no table and are left out.       *)
(***************************************************************************)
EXTENDS PcsPrices

CONSTANTS
  Feed,           \* Feed[n]: what a store of prices, if one is wired in, holds
                  \* at block n
  TextAddresses   \* addresses whose 20 bytes happen to be UTF-8

VARIABLES
  callsLeft,   \* the calls of the block the loop has not reached
  counts,      \* mint_count, burn_count and swap_count
  events,      \* the output of map_burn_swaps_events
  eventLog     \* history: the events of all blocks

eventVars == <<callsLeft, counts, events, eventLog>>

Kinds == {"Mint", "Burn", "Swap"}
PairLogs == Kinds \cup {"Sync", "Transfer", "Approval", "PairCreated"}

EventsInit ==
  /\ callsLeft = <<>>
  /\ counts = [k \in Kinds |-> 0]
  /\ events = <<>>
  /\ eventLog = <<>>

-----------------------------------------------------------------------------
(* Slips of the code the model can be made to take.                        *)
ConsideredWhenReverted(call) == call.logs # <<>> /\ KnownPair(call.address)
EventIdOfTransaction(trx, kind) == trx
FedPrices == IF number \in DOMAIN Feed THEN Feed[number] ELSE <<>>
PricesWired == [kv |-> FedPrices, deltas |-> <<>>]

(* decode_event gives nothing for another log.                             *)
Decodable(log) == log.sig \in PairLogs

(* What the last log of a call says it was.                                *)
EventOf(logs) ==
  LET last == logs[Len(logs)].sig IN
  IF \/ Len(logs) \in {3, 4} /\ last \in {"Mint", "Burn"}
     \/ Len(logs) = 2 /\ last = "Swap"
  THEN last ELSE "none"

(* The transfer of liquidity, two logs before the mint or the burn.        *)
Transfer2(logs) == logs[Len(logs) - 2]

(* The logs whose decoding is unwrapped.                                   *)
Inspected(n) ==
  CASE n = 4 -> {1, 2, 4}
    [] n = 3 -> {1, 3}
    [] n = 2 -> {2}
    [] n = 1 -> {1}

PatternPanics(logs) ==
  \/ Len(logs) \notin 1..4
  \/ \E i \in Inspected(Len(logs)) : ~Decodable(logs[i])
  \/ Len(logs) = 1 /\ logs[1].sig \notin {"Transfer", "Approval"}
  \/ EventOf(logs) \in {"Mint", "Burn"} /\ Transfer2(logs).sig # "Transfer"

Considered(call) == ~call.reverted /\ call.logs # <<>> /\ KnownPair(call.address)

(* The logs of a call are a list, the amounts in a log and ten to the power *)
(* of 18 are naturals, the prices are fractions.                           *)
AmountsIn(sig) ==
  IF sig = "Swap" THEN 4 ELSE IF sig \in Kinds THEN 2 ELSE IF sig = "Transfer" THEN 1 ELSE 0

ASSUME EventsAssumption ==
  /\ Units[18] \in Nat \ {0}
  /\ \A n \in DOMAIN Feed : \A k \in DOMAIN Feed[n] :
       Feed[n][k][1] \in Int /\ Feed[n][k][2] \in Nat \ {0}
  /\ \A b \in Blocks : \A i \in DOMAIN b : \A c \in ToSet(b[i].calls) :
       /\ c.logs \in Seq(ToSet(c.logs))
       /\ \A l \in ToSet(c.logs) : \A j \in 1 .. AmountsIn(l.sig) : l.amounts[j] \in Nat

-----------------------------------------------------------------------------
(* event.rs.  The manifest wires store_reserves in where the handler       *)
(* expects the store of prices.                                            *)

PricesStore ==
  IF request = "db_out" THEN reserveStore ELSE [kv |-> FedPrices, deltas |-> <<>>]
DerivedKey(t, unit) == <<"dprice", t, unit>>
DerivedAt(ord, t, unit) == GetAt(PricesStore, ord, DerivedKey(t, unit))

ConvertPrices(ord, amount0, amount1, p) ==
  LET inBnb == Plus(Times(AsDecimal(DerivedAt(ord, p.token0, "bnb")), amount0),
                    Times(AsDecimal(DerivedAt(ord, p.token1, "bnb")), amount1))
  IN Times(inBnb, AsDecimal(DerivedAt(ord, "usd", "bnb")))

(* get_derived_price unwraps a price that may be missing; a zero price     *)
(* counts for nothing in the average.                                      *)
DerivedMissing(ord, p) ==
  \E s \in Sides, unit \in {"bnb", "usd"} : DerivedAt(ord, TokenOf(p, s), unit) = Absent

GetDerivedPrice(ord, unit, amount, t) ==
  IF DerivedAt(ord, t, unit) = Zero THEN <<>> ELSE <<Times(amount, DerivedAt(ord, t, unit))>>

AverageFloats(values) ==
  IF values = <<>> THEN Zero
  ELSE Over(FoldLeft(Plus, Zero, values), Fraction(Len(values), 1))

EventId(trx, kind) == <<trx, counts[kind]>>

(* The fields of a decoded log; those of PairCreated are never read.       *)
Payload(log) ==
  LET word == log.words
      amount == log.amounts
  IN CASE log.sig = "Approval" -> [owner |-> word[1], spender |-> word[2], value |-> amount[1]]
       [] log.sig = "Burn" ->
            [sender |-> word[1], to |-> word[2], amount0 |-> amount[1], amount1 |-> amount[2]]
       [] log.sig = "Mint" -> [sender |-> word[1], amount0 |-> amount[1], amount1 |-> amount[2]]
       [] log.sig = "Swap" ->
            [sender |-> word[1], to |-> word[2], amount0In |-> amount[1], amount1In |-> amount[2],
             amount0Out |-> amount[3], amount1Out |-> amount[4]]
       [] log.sig = "Sync" -> [reserve0 |-> amount[1], reserve1 |-> amount[2]]
       [] log.sig = "Transfer" -> [from |-> word[1], to |-> word[2], value |-> amount[1]]

(* process_mint and process_burn differ in nothing that is kept here; the  *)
(* day and the hour are those of the block.                                *)
ProcessLiquidity(kind, c, p) ==
  LET logs == c.call.logs
      log == logs[Len(logs)]
      transfer == Payload(Transfer2(logs))
      amount0 == ToDecimal(Payload(log).amount0, p.token0)
      amount1 == ToDecimal(Payload(log).amount1, p.token1)
  IN [kind |-> kind, id |-> EventId(c.trx, kind), trx |-> c.trx, ord |-> log.ord,
      day |-> day, hour |-> hour, pair |-> p.address, token0 |-> p.token0, token1 |-> p.token1,
      to |-> transfer.to, amount0 |-> amount0, amount1 |-> amount1,
      amountUsd |-> ConvertPrices(log.ord, amount0, amount1, p),
      liquidity |-> Fraction(transfer.value, Units[18])]

ProcessSwap(c, p) ==
  LET log == c.call.logs[2]
      swap == Payload(log)
      in0 == ToDecimal(swap.amount0In, p.token0)
      in1 == ToDecimal(swap.amount1In, p.token1)
      out0 == ToDecimal(swap.amount0Out, p.token0)
      out1 == ToDecimal(swap.amount1Out, p.token1)
      average(unit) ==
        AverageFloats(GetDerivedPrice(log.ord, unit, Plus(out0, in0), p.token0) \o
                      GetDerivedPrice(log.ord, unit, Plus(out1, in1), p.token1))
  IN [kind |-> "Swap", id |-> EventId(c.trx, "Swap"), trx |-> c.trx, ord |-> log.ord,
      day |-> day, hour |-> hour, pair |-> p.address, token0 |-> p.token0, token1 |-> p.token1,
      from |-> c.from, to |-> swap.to, in0 |-> in0, in1 |-> in1, out0 |-> out0, out1 |-> out1,
      amountBnb |-> average("bnb"), amountUsd |-> average("usd"),
      tradeVolume0 |-> Plus(in1, out0), tradeVolume1 |-> Plus(in0, out1)]

(* The amount in dollars divides nothing, but log_address is raw bytes     *)
(* that String::from_utf8 takes for a text.                                *)
SwapPanics(logs, p) ==
  \/ DerivedMissing(logs[2].ord, p)
  \/ p.address \notin TextAddresses

EventPanics(call) ==
  LET p == PairAt(call.address) IN
  \/ PatternPanics(call.logs)
  \/ /\ EventOf(call.logs) # "none"
     /\ \/ \E s \in Sides : ~HasToken(TokenOf(p, s))
        \/ EventOf(call.logs) = "Swap" /\ SwapPanics(call.logs, p)

-----------------------------------------------------------------------------
called == Head(callsLeft)
AtCall == At("read_calls") /\ callsLeft # <<>>
NextCall == callsLeft' = Tail(callsLeft)

(* The counters and the list are local to the handler.                     *)
StartEvents ==
  /\ At("map_burn_swaps_events")
  /\ callsLeft' =
       FlattenSeq([i \in DOMAIN trxs |->
         [j \in DOMAIN trxs[i].calls |->
            [trx |-> <<number, i>>, from |-> trxs[i].from, call |-> trxs[i].calls[j]]]])
  /\ counts' = [k \in Kinds |-> 0]
  /\ events' = <<>>
  /\ Then("read_calls")
  /\ UNCHANGED eventLog

SkipCall ==
  /\ AtCall
  /\ IF Considered(called.call)
     THEN /\ ~EventPanics(called.call)
          /\ EventOf(called.call.logs) = "none"
     ELSE TRUE
  /\ NextCall
  /\ Then("read_calls")
  /\ UNCHANGED <<counts, events, eventLog>>

AddEvent(kind) ==
  LET p == PairAt(called.call.address) IN
  /\ events' = Append(events, IF kind = "Swap" THEN ProcessSwap(called, p)
                              ELSE ProcessLiquidity(kind, called, p))
  /\ counts' = [counts EXCEPT ![kind] = @ + 1]

CallToEvent ==
  /\ AtCall
  /\ Considered(called.call)
  /\ ~EventPanics(called.call)
  /\ EventOf(called.call.logs) # "none"
  /\ AddEvent(EventOf(called.call.logs))
  /\ NextCall
  /\ Then("read_calls")
  /\ UNCHANGED eventLog

EventsPanic ==
  /\ AtCall
  /\ Considered(called.call)
  /\ EventPanics(called.call)
  /\ Panic
  /\ UNCHANGED eventVars

EventsMapped ==
  /\ At("read_calls")
  /\ callsLeft = <<>>
  /\ eventLog' = eventLog \o events
  /\ Then("store_totals")
  /\ UNCHANGED <<callsLeft, counts, events>>

EventsNext ==
  \/ StartEvents
  \/ SkipCall
  \/ CallToEvent
  \/ EventsPanic
  \/ EventsMapped

-----------------------------------------------------------------------------
(* The events of a block are its Mint, Burn and Swap logs of known pairs,  *)
(* one each, whichever call of whichever transaction wrote them and        *)
(* however the calls are nested (lib.rs:365-558).                          *)
EventsAreLogs ==
  stage = "store_totals" =>
    LET found == SelectSeq(BlockLogs, LAMBDA l : KnownPair(l.address) /\ l.sig \in Kinds) IN
    /\ Len(events) = Len(found)
    /\ {<<e.ord, e.kind, e.pair>> : e \in ToSet(events)} =
         {<<l.ord, l.sig, l.address>> : l \in ToSet(found)}

(* The primary key of an event's row, its transaction and a counter, is    *)
(* used once (lib.rs:368-370).                                             *)
EventIdsUnique ==
  \A i, j \in DOMAIN eventLog :
    eventLog[i].kind = eventLog[j].kind /\ eventLog[i].id = eventLog[j].id => i = j

(* With the stores wired as in substreams.yaml no block with a swap gets   *)
(* past map_burn_swaps_events: get_derived_price (event.rs:336-341)        *)
(* unwraps a key that only store_prices writes.                            *)
NoSwapAsWired == request = "db_out" => \A e \in ToSet(eventLog) : e.kind # "Swap"

=============================================================================
