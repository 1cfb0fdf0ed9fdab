------------------------------ MODULE PcsDbOut ------------------------------
(***************************************************************************)
(* db_out (db.rs): the deltas of five stores and the events of a block,    *)
(* joined by ordinal and turned into the changes of tables; then what      *)
(* Squash of the consumer makes of them.  A change is [table, pk, ord, op, *)
(* fields]; fields maps a column to its old and its new value.             *)
(***************************************************************************)
EXTENDS PcsVolumes, ChangeMerge

VARIABLES
  changes,     \* the output of db_out
  rows,        \* history: the columns after the changes of all blocks
  untrue,      \* history: a change met another value than its old one
  accepted     \* whether Squash took the changes of the last block

dbVars == <<changes, rows, untrue, accepted>>

DbInit ==
  /\ changes = <<>>
  /\ rows = <<>>
  /\ untrue = FALSE
  /\ accepted = TRUE

-----------------------------------------------------------------------------
(* Slips of the code the model can be made to take.                        *)
SortedBackwards(cs) ==
  LET ords == SetToSortSeq({cs[i].ord : i \in DOMAIN cs}, LAMBDA x, y : x > y) IN
  FlattenSeq([i \in DOMAIN ords |-> SelectSeq(cs, LAMBDA c : c.ord = ords[i])])
AcceptsTies(group) == TRUE

(* handle_total_delta, handle_volume_delta and handle_reserves_delta: the  *)
(* column that a key of a store is kept in, <<store, first part of the     *)
(* key, last part, table, column, operation>>.                             *)
TotalColumns ==
  { <<"total", "pair", "transaction_count", "pair", "total_transactions", "delta">>,
    <<"total", "token", "transaction_count", "token", "total_transactions", "delta">>,
    <<"total", "global", "transaction_count", "pancake_factory", "total_transactions", "UPDATE">>,
    <<"total", "global", "pair_count", "pancake_factory", "total_pairs", "delta">>,
    <<"total", "global_day", "transaction_count", "pancake_day_data", "total_transactions", "UPDATE">> }

VolumeColumns ==
  { <<"volume", "pair_day", "usd", "pair_day_data", "daily_volume_usd", "UPDATE">>,
    <<"volume", "pair_day", "token0", "pair_day_data", "daily_volume_token_0", "UPDATE">>,
    <<"volume", "pair_day", "token1", "pair_day_data", "daily_volume_token_1", "UPDATE">>,
    <<"volume", "pair_hour", "usd", "pair_hour_data", "hourly_volume_usd", "UPDATE">>,
    <<"volume", "pair_hour", "token0", "pair_hour_data", "hourly_volume_token_0", "UPDATE">>,
    <<"volume", "pair_hour", "token1", "pair_hour_data", "hourly_volume_token_1", "UPDATE">>,
    <<"volume", "pair", "usd", "pair", "volume_usd", "delta">>,
    <<"volume", "pair", "token0", "pair", "volume_token0", "delta">>,
    <<"volume", "pair", "token1", "pair", "volume_token1", "delta">>,
    <<"volume", "pair", "total_supply", "pair", "total_supply", "delta">>,
    <<"volume", "token_day", "usd", "token_day_data", "daily_volume_usd", "delta">>,
    <<"volume", "token", "trade", "token", "trade_volume", "delta">>,
    <<"volume", "token", "trade_usd", "token", "trade_volume_usd", "delta">>,
    <<"volume", "token", "liquidity", "token", "liquidity", "delta">>,
    <<"volume", "global", "usd", "pancake_factory", "total_volume_usd", "UPDATE">>,
    <<"volume", "global", "bnb", "pancake_factory", "total_volume_bnb", "UPDATE">>,
    <<"volume", "global", "liquidity_usd", "pancake_factory", "total_liquidity_usd", "UPDATE">>,
    <<"volume", "global_day", "usd", "pancake_day_data", "daily_volume_usd", "delta">>,
    <<"volume", "global_day", "bnb", "pancake_day_data", "daily_volume_bnb", "UPDATE">> }

ReserveColumns ==
  { <<"reserve", "pair_day", "reserve0", "pair_day_data", "reserve_0", "delta">>,
    <<"reserve", "pair_day", "reserve1", "pair_day_data", "reserve_1", "UPDATE">>,
    <<"reserve", "pair_hour", "reserve0", "pair_hour_data", "reserve_0", "delta">>,
    <<"reserve", "pair_hour", "reserve1", "pair_hour_data", "reserve_1", "UPDATE">>,
    <<"reserve", "price", "token0", "pair", "token_0_price", "delta">>,
    <<"reserve", "price", "token1", "pair", "token_1_price", "delta">>,
    <<"reserve", "reserve", "reserve0", "pair", "reserve_0", "delta">>,
    <<"reserve", "reserve", "reserve1", "pair", "reserve_1", "delta">> }

Columns == TotalColumns \cup VolumeColumns \cup ReserveColumns

ColumnOf(s, key) ==
  {c \in Columns : c[1] = s /\ c[2] = key[1] /\ c[3] = Last(key)}

Periods == {"pair_day", "pair_hour", "token_day", "global_day"}

PkOf(key) ==
  IF key[1] = "global" THEN Factory
  ELSE IF key[1] \in {"pair_day", "pair_hour", "token_day"} THEN <<key[3], key[2]>>
  ELSE key[2]

(* The deletion of a past period is left out.                              *)
ColumnChanges(s, d) ==
  IF (d.op = "DELETE" /\ d.key[1] \in Periods) \/ ColumnOf(s, d.key) = {} THEN <<>>
  ELSE LET c == CHOOSE x \in ColumnOf(s, d.key) : TRUE IN
       << [table |-> c[4], pk |-> PkOf(d.key), ord |-> d.ord,
           op |-> IF c[6] = "delta" THEN d.op ELSE c[6],
           fields |-> (c[5] :> [old |-> d.old, new |-> d.new])] >>

(* The row of a created pair or token or of an event; the columns that are *)
(* written once and never again are left out.                              *)
Created(table, pk, ord) ==
  << [table |-> table, pk |-> pk, ord |-> ord, op |-> "CREATE",
      fields |-> ("id" :> [old |-> Absent, new |-> pk])] >>

CountsAsCreated(d) == d.op = "CREATE"

(* Both keys of a new pair give the same change.                           *)
PairChanges(d) == IF CountsAsCreated(d) THEN Created("pair", d.new.address, d.ord) ELSE <<>>
TokenChanges(d) == IF CountsAsCreated(d) THEN Created("token", d.new, d.ord) ELSE <<>>

EventTable(kind) == CASE kind = "Swap" -> "swap" [] kind = "Burn" -> "burn" [] kind = "Mint" -> "mint"
EventChanges(e) == Created(EventTable(e.kind), e.id, e.ord)

(* join_sort_deltas sorts the items by ordinal with a stable sort; an item *)
(* and its changes have the same ordinal, so that the changes may be       *)
(* sorted in place of the items.                                           *)
SortByOrdinal(cs) ==
  LET ords == SetToSortSeq({cs[i].ord : i \in DOMAIN cs}, LAMBDA x, y : x < y) IN
  FlattenSeq([i \in DOMAIN ords |-> SelectSeq(cs, LAMBDA c : c.ord = ords[i])])

Process ==
  SortByOrdinal(
    Each(pairStore.deltas, PairChanges) \o
    Each(tokenStore.deltas, TokenChanges) \o
    Each(totalsStore.deltas, LAMBDA d : ColumnChanges("total", d)) \o
    Each(volumeStore.deltas, LAMBDA d : ColumnChanges("volume", d)) \o
    Each(reserveStore.deltas, LAMBDA d : ColumnChanges("reserve", d)) \o
    Each(events, EventChanges))

(* handle_pair_delta unwraps the tokens of a new pair.                     *)
DbOutPanics ==
  \E i \in DOMAIN pairStore.deltas :
    LET d == pairStore.deltas[i] IN
    CountsAsCreated(d) /\ \E s \in Sides : ~HasToken(TokenOf(d.new, s))

-----------------------------------------------------------------------------
(* What the changes do to a table, one column at a time.                   *)
Cell(c, f) == <<c.table, c.pk, f>>
CellsOf(c) == {Cell(c, f) : f \in DOMAIN c.fields}
Value(table, cell) == IF cell \in DOMAIN table THEN table[cell] ELSE Absent

Apply(table, c) ==
  [cell \in DOMAIN table \cup CellsOf(c) |->
     IF cell \in CellsOf(c) THEN c.fields[cell[3]].new ELSE table[cell]]

Meets(table, c) == \A f \in DOMAIN c.fields \ {"id"} : Value(table, Cell(c, f)) = c.fields[f].old

(* The changes one after the other: the table, and whether all met it.     *)
Replay(table, cs) ==
  FoldLeft(LAMBDA r, c : [table |-> Apply(r.table, c), met |-> r.met /\ Meets(r.table, c)],
           [table |-> table, met |-> TRUE], cs)

(* Squash: the changes of each row in the order of their ordinals; a row   *)
(* whose changes cannot be merged fails the block.                         *)
RowOf(c) == <<c.table, c.pk>>
Group(cs, row) == SelectSeq(cs, LAMBDA c : RowOf(c) = row)
RowsOf(cs) == {RowOf(cs[i]) : i \in DOMAIN cs}
AsChange(c) == [op |-> c.op, ord |-> c.ord, fields |-> c.fields]

GroupMerges(group) ==
  FoldLeft(LAMBDA r, c : IF r.ok /\ Mergeable(r.merged, AsChange(c))
                         THEN [merged |-> Merge(r.merged, AsChange(c)), ok |-> TRUE]
                         ELSE [r EXCEPT !.ok = FALSE],
           [merged |-> AsChange(group[1]), ok |-> TRUE], Tail(group)).ok

SquashAccepts(cs) == \A row \in RowsOf(cs) : GroupMerges(Group(cs, row))

-----------------------------------------------------------------------------
DbOut ==
  /\ At("db_out")
  /\ ~DbOutPanics
  /\ changes' = Process
  /\ Then("squash")
  /\ UNCHANGED <<rows, untrue, accepted>>

DbOutPanic ==
  /\ At("db_out")
  /\ DbOutPanics
  /\ Panic
  /\ UNCHANGED dbVars

SquashBlock ==
  /\ At("squash")
  /\ LET replay == Replay(rows, changes) IN
     /\ rows' = replay.table
     /\ untrue' = (untrue \/ ~replay.met)
  /\ accepted' = SquashAccepts(changes)
  /\ Then("idle")
  /\ UNCHANGED changes

DbNext ==
  \/ DbOut
  \/ DbOutPanic
  \/ SquashBlock

-----------------------------------------------------------------------------
(* The stores are written in the order of the calls, the changes are       *)
(* sorted by ordinal: they agree when the events of each block come in the *)
(* order of their logs, which a nested swap breaks.                        *)
EventsInOrder ==
  \A i \in 1 .. Len(eventLog) - 1 :
    eventLog[i].trx[1] = eventLog[i + 1].trx[1] => eventLog[i].ord < eventLog[i + 1].ord

StoredCells(s, store) ==
  {<<CHOOSE c \in ColumnOf(s, k) : TRUE, k>> : k \in {x \in DOMAIN store.kv : ColumnOf(s, x) # {}}}

HeldIn(s, store) ==
  \A ck \in StoredCells(s, store) :
    Value(rows, <<ck[1][4], PkOf(ck[2]), ck[1][5]>>) = store.kv[ck[2]]

(* Carried out in the order of db_out (db.rs:23-62, 510-569), the changes  *)
(* leave in each column what the store has for its key, no two keys get    *)
(* into each other's way, and each change meets the old value it names -   *)
(* unless events came out of the order of their logs.                      *)
RowsMatchStores ==
  EventsInOrder /\ stage = "idle" /\ panic = Absent /\ request # "store_prices" =>
    /\ ~untrue
    /\ HeldIn("total", totalsStore)
    /\ HeldIn("volume", volumeStore)
    /\ HeldIn("reserve", reserveStore)

(* Squash refuses every block that has changes: one log is written under   *)
(* one ordinal to several columns of a row, as changes of their own        *)
(* (db.rs:336-423), and "non-increasing ordinal" is an error.              *)
OnlyEmptyBlocksAccepted == stage = "idle" => (accepted <=> changes = <<>>)

(* Every block's changes are written to the database.                      *)
BlocksAccepted == accepted

=============================================================================
