# Substreams playground in TLA+

This directory models the programs of the repository in TLA+, checks the models
with TLC on small instances, and proves the central facts with TLAPS for every
instance. The reference is the code under `src/`; a definition says what that
code does, also where a comment or a name says something else.

## 1. The system

The repository has two sides. *Substreams modules* (Rust, `src/modules`) turn
blocks of a chain into data; the engine that runs them is elsewhere. *Consumers*
(`src/consumers`) receive a module's output as a stream; the one with state of
its own is `pancakeswap-to-graphnode` (Go), which writes the output of the
PancakeSwap module `db_out` into the Postgres tables of The Graph's graph-node.

```
 Ethereum blocks
   -> map_pairs -> store_pairs, store_pcs_tokens
   -> map_reserves -> store_reserves -> store_prices
   -> map_burn_swaps_events -> store_totals, store_volumes
   -> db_out (joins the stores' deltas and the events by ordinal)
        | DatabaseChanges of one block, unordered, with ordinals
        v
   Squash -> ReturnHandler -> Load / entity cache -> BatchSave -> Postgres
   (database.go) (return_handler.go)  (cache.go)   (postgres.go)  versioned rows
```

| Component | State it keeps | Operations | What is hard | What makes it correct |
|---|---|---|---|---|
| Squash (`pb/pcs/database/v1/database.go`) | the groups of a block's changes, the change merged so far, `createdHere` | group, sort, merge, refuse, drop | unstable sort and random map order; create/update/delete/create chains; equal ordinals | the change that is left does what the sequence did; only what cannot be ordered is refused |
| Loader (`cli/exchange/graphnode/return_handler.go`) | `updates`, `current` of the block | ReturnHandler, load, save, Flush | an error at any change; entities shared by pointer with the cache | a block that fails leaves nothing behind |
| Entity cache (`storage/postgres/cache.go`) | entities by table and id | GetEntity, SetEntity, Invalidate, purgeCache | filled before the commit, never rolled back | it answers as the table would |
| BatchSave (`storage/postgres/postgres.go`) | a goroutine and a transaction per table, a shared `err` | save, roll back, commit in order, panic | races on `err`; a crash between commits; a failing table among others | the cursor passes a block only when all its rows are there |
| Versioned tables (`postgres.go`) | rows with a block range and `_updated_block_number` | close and insert, CleanDataAtBlock, CleanUpFork | each clean-up is two statements committed apart; boundaries at the bad block | at each block one version of an entity, the one that was written |
| Stream loop (`cli/exchange/graphnode.go`) | the position in the stream | receive, handle, print errors | errors are swallowed; restarts begin at `--start-block`, whatever the cursor | what was saved stays served, in every run; one version of an entity is visible |
| PancakeSwap tokens (`src/modules/pancakeswap`: `map_pairs`, `store_pairs`, `store_pcs_tokens`) | pair and token stores, retry flags of a loop | find created pairs, ask contracts for their tokens | flags that outlive a pair; a call that fails between two tokens | every token of a known pair is stored, or it is known why not |
| PancakeSwap prices (`map_reserves`, `store_reserves`, `store_prices`, `utils.rs`) | stores of reserves, of prices | follow Sync logs, weigh stable-coin pairs | reads at an ordinal; keys built in one place and read in another; division by zero | reserves are those of the last Sync |
| PancakeSwap events (`map_burn_swaps_events`, `event.rs`) | counters of a block | match the logs of a call to mint, burn, swap | nested calls; log sequences that fit no pattern; which store is wired in | each event once, ids unique |
| PancakeSwap totals and volumes (`store_totals`, `store_volumes`) | stores that add up | add, delete past periods | roll-over of days and hours; early returns | totals add up; no key of a past period stays |
| `db_out` (`db.rs`) | none | join and convert deltas | several changes of a row from one log; equal ordinals | the changes reproduce the stores, and the consumer takes them |
| SPL tokens (`src/modules/sol-spl-tokens`) | mint and account stores, volumes | decode instructions, follow accounts | accounts that change their mint; inner instructions; decimal scaling | every transfer attributed to the mint of its account |
| ERC-20 metadata, block producers (`eth-token`, `eth-block-producers`) | token and counter stores | rpc calls, counting | responses used by the wrong index | one token per contract; counts equal blocks |
| Uniswap pools, streaming clients | none | map, print | - | - |

How they interact: modules only through stores and map outputs, ordered within
a block by ordinals; the consumer gets one message per block and calls, in one
goroutine, Squash, then Load and the cache for each change, then BatchSave,
which starts the only concurrency of the program.

## 2. The modules

| Module | Models | Notes |
|---|---|---|
| `ChangeMerge` | `TableChange.Merge`: how two changes of a row become one | operators only, shared by `TableChanges` and `PcsDbOut` |
| `TableChanges` | `DatabaseChanges.Squash`, `TableChanges.Merge` | a producer emits the changes of a block against real rows, then the machine groups, sorts, merges |
| `TableChangesProofs` | - | inductive invariant and theorems about `TableChanges` |
| `BlockRanges` | the arithmetic of `int4range` and what the clean-up statements select | operators only, shared by the two next |
| `TemporalTable` | the promise of an entity table | abstract: the value of every entity at every block |
| `VersionedTable` | one table under `batchSave`, `saveCursor`, `CleanDataAtBlock`, `CleanUpFork` | implements `TemporalTable` |
| `VersionedTableProofs` | - | inductive invariant and theorems about `VersionedTable`, and that it implements `TemporalTable` |
| `BatchSave` | `store.BatchSave` with its goroutines, transactions and commits, the stream loop's swallowed errors, restarts | rows abstracted to the blocks they belong to |
| `BatchSaveProofs` | - | inductive invariant and theorems about `BatchSave` |
| `GraphNodeSink` | stream loop, `ReturnHandler`, `Load`, the cache, one save, restarts, end to end | one save is sequential here; its interleavings are in `BatchSave` |
| `GraphNodeSinkProofs`, `GraphNodeSinkFoldProofs` | - | inductive invariants and theorems about `GraphNodeSink`: what holds whatever fails, and what holds while the database answers |
| `SubstreamsStore`, `Decimals` | the engine's stores, decimal numbers | operators only, external; decimals are exact fractions |
| `StoreLemmas` | - | what the stores' folds and the lists of the handlers do, for any number of writes |
| `PcsChain` | blocks, transactions, calls and logs; which handler runs next | the environment of the PancakeSwap modules |
| `Erc20Calls` | the decoding of the answers of an ERC-20 contract | shared by `PcsTokens` and `EthTokens` |
| `PcsTokens`, `PcsPrices`, `PcsEvents`, `PcsVolumes`, `PcsDbOut` | the handlers of `src/modules/pancakeswap` in the order they run | each extends the one before it, adds its variables and its part of the next-state relation |
| `Pancake` | the composition of the six | with `ChangeMerge`, up to what Squash makes of the output |
| `PancakeProofs` | - | inductive invariant and theorems about `Pancake` |
| `SplTokens`, `EthTokens`, `BlockProducers` | the three small packages | each has its chain in it |
| `TokenPackages` | a request to one of the three | a choice at the start, the packages do not interact |
| `TokenPackagesProofs` | - | inductive invariant and theorems about `TokenPackages` |
| `MC*` | TLC instances | constants, block templates and symmetry only |

### TableChanges
A key stands for a pair (Table, Pk). The variables of the code are there by
name: `changes[k]` is `tableMap[Table][Pk]`, `acc` is `currentTableChange`,
`createdHere` is itself, `todo` is the rest of the sorted slice. `sort.Slice` is
not stable, so `IsNext` admits any of the changes with the least ordinal; the
map loops visit groups in any order. `EmitCreate`, `EmitUpdate` and `EmitDelete`
are the environment: a producer whose changes fit the rows as they are, with
ordinals that never decrease but may be equal. `rowAt` remembers what the row
was after each ordinal; it is history and the code does not read it. A group of
one change takes the same path as in `switch len(tableChange)`.

### VersionedTable and BlockRanges
A row is `[id, lo, hi, upd, val]`; `hi = 0` is an open range, as
`BlockRange.EndBlock` has it. The two statements of each clean-up are two
actions, and a stop between them makes the process run the clean-up again.
`CleanDeleted`, `CleanReopen`, `ForkDeleted` and `ForkReopen` are the WHERE and SET clauses
of `postgres.go:518-519` and `747-748`, operator by operator; `upper()` and
`lower()` of an empty range are null. The bounds of `Contains` and the like are
PostgreSQL's and marked external.

### BatchSave
`gpc[t]` is where the goroutine of table `t` is, `tx[t]` what its transaction
holds, `trxs` the slice of the same name (the transaction of
`updateDeploymentHead`, which returns before it does anything, is left out),
`err` the named result that the goroutines share, `groupErr` the error in the
group. `withTransaction` is a flag of the store and is chosen at the start.
Without transactions a statement is committed when it returns. The loop's `BeginTxx`
and the test of its error are two steps (`Begin` or `BeginFails`, then `BeginTested`
or `BeginSeesError`), because the goroutines already running assign the same `err`:
an error can be overwritten, and then the block goes on with a nil transaction, whose
statements go to the database itself (`postgres.go:454`, `478`, `644`) and which
panics when it is rolled back or committed; or a goroutine's error makes BatchSave return
with a transaction that was begun well. A panic of `rollback` or `mustCommit` and a crash
both stop the process, at any step.

`Restart` is what `runLoadGraphnode` does (`graphnode.go:89-100`): the request says
`StartBlockNum: --start-block`, so the stream begins with the first block again, over
what is in the database. `LoadCursor` and `CleanDataAtBlock` exist but are called by
nobody; they are modelled in `VersionedTable` only, as functions of the library.
`cut` are the blocks whose save may have left a part of itself and that have not been
saved completely since, `skipped` those whose last save returned an error,
`everSkipped` those of which some save did, `restarted` is set by a restart. BatchSave
returns at once when its context is done (`postgres.go:213-215`): Flush passes
`context.TODO()` (`return_handler.go:109-111`), which is never done, so that neither this
return nor the grace period is a step of the program.

### GraphNodeSink
An entity is `[exists, vid, lo, val]`; `val` is the set of blocks whose changes
went into it, so a change that is lost, doubled or leaked shows. `shared` are the
ids whose entity in `updates` and in the cache is the same object, which is the
case after a first load (`postgres.go:601` caches the caller's pointer).
Everything that happens to such an entity happens to the cache: `SetExists`,
the fields of a change that fails half-way, `SetVID(0)` and `SetBlockRange` before
an INSERT that fails. `Transactions` are entities whose `SkipDBLookup` is true.
Faults are of six kinds: `refuse` (unmarshal or Squash), `load` (the SELECT),
`apply` (an unknown table, a value that does not parse), `save` (any statement of
BatchSave), `stream` (Recv fails between blocks), `crash`.
`Restart` empties the cache and begins with the first block again; rows, sequences and
cursor stay as they are, and the replay meets the rows of the runs before. `restarted`
remembers it, since some promises hold in the first run only.

### The PancakeSwap modules
A state is the moment between two handlers, or inside the loop of one: `stage` is
the handler that runs next, `panic` the one that trapped, which ends the request.
The engine runs the handlers of a block in the order of their inputs and keeps the
stores. `Each` and `Where` are the loops of the handlers (flat_map and filter); `Logs` puts
the logs of a transaction's calls that were not reverted in the order of their ordinals. A store is `[kv, deltas]`: the values after the block and what the block
did, from which `GetAt` answers for an ordinal as `get_at` does. A key that the code
formats as `a:b:c` is a tuple with the same parts, so that a key built in one file
with four parts and read in another with three does not match here either.

`request` is the output module that was asked for. `"store_prices"` runs the price
store; `"db_out"` runs the events, totals, volumes and `db_out` as the manifest
wires them; `"db_out_priced"` is the same with a store of prices in the place
where the handler expects one (`Feed`, block by block), so that swaps get through and the
handlers after `map_burn_swaps_events` see all three kinds of event, with a price in
dollars and without. It stands for a
corrected manifest, and the properties that only speak of the manifest as it is say
so (`NoSwapAsWired`).

| Code | Model |
|---|---|
| `map_pairs`, `store_pairs` | `MapPairs`, `StorePairs` |
| the loop of `store_pcs_tokens` | one action for each way a token can go: `TokenFound`, `TokenCalled`, `CallFails`, `CallPanics`; `TokensStored` ends it |
| `map_reserves`, `store_reserves`, `store_prices` | `MapReserves`, `StoreReserves`, `StorePrices`, and `...Panics` where one unwraps or divides |
| the loop over calls of `map_burn_swaps_events` | `StartEvents`, then `SkipCall`, `CallToEvent` or `EventsPanic` for each call, `EventsMapped` |
| `store_totals`, `store_volumes` | `StartTotals`, `CountEvent`, `EventsCounted`; `StartVolumes`, `AddVolume`, `VolumesAdded` |
| `db_out`, and Squash in the consumer | `DbOut`, `DbOutPanic`; `SquashBlock` |

Histories that no handler reads are `rpcs`, `blockHours`, `lastSync`, `eventLog`, `rows`,
`untrue` and `accepted`. Left out are columns written once at creation and the fee
fields of mints and burns. `get_last_token` and the decoding of a message are the
record itself; where the code takes an encoded message for a text
(`decode_pair_bytes`, `log_address`), `TextPairs` and `TextAddresses` say for which
addresses the bytes happen to be one.

### SplTokens, EthTokens, BlockProducers
`SplTokens` keeps beside the handlers' stores what the token program itself does
(`Execute`, external): `holding` is the mint of each account, `moved` the transfers as
they were made. Only blocks that the token program could have run are produced: an account
is opened for a mint that exists, only token accounts send, receive and are closed, and so a
mint never goes away. (An earlier `Execute` let any address that holds something send and
close, mints too. The instance has no such block, so TLC was content; the proof of
`SkippedTransfersExplained` was not, and no such block exists on the chain.)
`Unpack` follows `TokenInstruction::unpack` byte count by byte count and tells an
error from a panic (`split_at`). `hidden` are the accounts and mints that an
instruction of another program initialised; no handler looks at those.
`EthTokens` asks one contract after the other; an answer is reduced to whether it
failed, its length and its first two words. `BlockProducers` counts.

## 3. The runs

| Run | Configuration | Checks | Shows |
|---|---|---|---|
| `squash` | two rows, two fields, three ordinals, three changes of one row and one of the other | `TypeOK`, `SquashEquivalent`, `SquashedOldValues`, `OnlyTiesRefused`, `TiesAlwaysRefused` | the merged change is the sequence; exactly ties are refused |
| `versions` | two entities, two values, four blocks | `TypeOK`, `NoOverlap`, `CleanDeletesOnlyBadRange`, `ImplementsTemporalTable` | tables survive saves, restarts, forks and interrupted clean-ups |
| `clean_twice` (violation) | the same with three blocks and `CrashTwice` | `CleanDeletesOnlyBadRange` | a clean-up that is repeated after it completed deletes live versions |
| `save` | two tables, two blocks, two errors, two crashes, with and without transactions | `TypeOK`, `SaveCompletesUnlessErrorLost`, `AllOrNothing`, `ReaderSeesWholeBlocks`, `StreamFinishes` | what a save promises under errors, crashes and replays |
| `lost_error` (violation) | one error, no crash | `SaveCompletes` | without transactions the shared `err` can lose an error |
| `sink` | three entities, three blocks, two faults of any kind | `TypeOK`, `UniqueUnlessDatabaseError`, `ServedIsFold`, `NoChangeLost`, `CacheKnowsItsRow`, `PastStands` | which promise survives which faults and restarts |
| `sink_save_error` (violation) | one failing save | `UniqueVisible` | a rolled-back save leaves the cache ahead of the table |
| `sink_from_start` (violation) | the stream ends once and the program is started again | `UniqueVisible` | replayed blocks leave two visible versions |
| `pancake` | three blocks out of eighteen kinds, three requests | `TypeOK`, `MissingTokensExplained`, `ReservesAreLastSync`, `OnlyBnbPriced`, `EventsAreLogs`, `EventIdsUnique`, `NoSwapAsWired`, `TotalsCount`, `VolumesAddUp`, `SupplyCountsPricedOnly`, `OldPeriodsGone`, `RowsMatchStores`, `OnlyEmptyBlocksAccepted` | what stores, events and changes say about the chain, and where they do not |
| `refused_blocks` (violation) | the same | `BlocksAccepted` | the changes of a block never reach the tables |
| `commented_prices` (violation) | the same | `CommentedKeysSet` | a price in bnb comes without one in dollars, and the total of a pair's reserves is no sum |
| `packages` | SPL tokens, ERC-20 tokens, block producers | `TypeOK`, `TransfersOfTheRightMint`, `SkippedTransfersExplained`, `StoresMatchChain`, `VolumesAgree`, `NoTokenGetsThrough`, `BlocksCounted` | transfers go to the right mint, sums agree, and no ERC-20 token is ever found |

### Bounds, and why they are enough
- `squash`: to create, delete and create again takes three changes; a tie takes
  two, and its third change may come before or after. Two fields
  distinguish "merged", "only in the first" and "only in the second"; one value
  and `Null` make two contents. The second row is there for the loops over groups.
- `versions`: a version, its successor, a block that is cut short and one after a
  fork make four blocks. Two entities, because a block may touch one and not the
  other. A fork point can be at, before and after every boundary of a range.
- `save`: two goroutines are enough to race; two blocks give one before and one after
  the one that goes wrong, in a first run and in the replays of it; two errors make a
  skipped block and another failure, two crashes one in the first run and one in the
  replay. (1.1 million states. `lost_error` has three blocks.)
- `sink`: an entity is written, changed by the block that fails and changed by the
  next: three blocks. Two faults let one kind meet another, or one end the first run
  and the other end the second. (5.0 million states.)
- `pancake`: eighteen block templates - nothing; pairs created through the factory or
  a router; first and later mints, burns, swaps, alone, several in a call's order,
  reverted, nested in one another; a lone Sync, a Sync with a zero; a plain transfer.
  Three blocks create a pair, use it and use it again; two pairs share one token, a
  third one has a token no store knows. A day has two hours (`HoursPerDay = 2`) and
  blocks are zero to two hours apart (`Gaps`), so that periods are continued, followed and
  skipped; the first hour is 11 so that no day has the number of an hour, as it is with
  real clocks (`ClockAssumption`). Four answers of a contract cover good, failed,
  malformed and overflowing ones, with `UsizeModulus = 256` for 2^32.
- `packages`: thirteen SPL blocks, five of them in a row: initialise, transfer, close, open
  again for another mint, by itself or inside another program; failed transactions and
  data that does not unpack. Ten Ethereum blocks, three in a row; five headers of two
  producers, or none.
- `MaxBlocks`, `SplMaxBlocks`, `EthMaxBlocks`, `ProducerMaxBlocks`, `MaxOrdinal`, `MaxChanges`, `MaxBlock`, `MaxFaults`, `MaxCrashes` are the bounds;
  nothing else is cut off. `CHECK_DEADLOCK FALSE` is set where the program ends:
  Squash returns (`squash`), the stream reaches its stop block (`sink*`), a request ends
  with its last block or with a panic (`pancake` with its violations, and `packages`).

### Fairness
The substreams handlers run one after the other and only safety is stated of them.
Only `BatchSave` states a liveness property. It assumes weak fairness of the main
goroutine and of each table's goroutine: Go schedules runnable goroutines and a
statement returns or fails. Crashes and errors are not fair, they may stop. That a
stopped process is started again is part of the main step's fairness, an
assumption about the operator of the program.

### Properties with conditions
`SaveCompletes` and `UniqueVisible` state what the code's comments say, without
conditions, and fail. The passing runs check what is true instead:
`SaveCompletesUnlessErrorLost` (with transactions always, without them until a
database error), `AllOrNothing` (a part of a block is there only if its process died in
the save or lost the error of a begin, and only until the replay is past that block),
`ReaderSeesWholeBlocks` (no readable block disappears before a restart, which takes the
cursor back), `UniqueUnlessDatabaseError` (no database error, no restart), `ServedIsFold`
(the same, and no change applied in part), `NoChangeLost` and `CacheKnowsItsRow` (no
database error, in every run), `PastStands` (in the first run always, in later ones if no
call of a block failed halfway). The last three speak of the blocks before the one in
hand: at the later ones, which the replay has not reached again, the versions of the
earlier run are served.

In `pancake` and `packages` a condition names what the code does not promise:
- `RowsMatchStores` holds while the events of a block are in the order of their logs;
  a swap with another call nested in it is handled before that call, and its delta
  carries the later ordinal.
- `OldPeriodsGone` leaves out periods that were followed by none (for volumes: by none
  with an event), because only the number before the current one is deleted, and the
  hourly volumes of the tokens, which are filed under the day.
- `MissingTokensExplained` says which rpc call lost a token instead of promising the token.
- `SupplyCountsPricedOnly` counts only mints and burns that had a price in dollars.
- `TransfersOfTheRightMint` leaves out an account that is initialised again in the same
  block, `SkippedTransfersExplained` and `StoresMatchChain` what an inner instruction did.
- `OnlyBnbPriced`, `NoSwapAsWired`, `NoTokenGetsThrough` and `OnlyEmptyBlocksAccepted` state
  how far the code gets as it stands; section 4 says why. They would stop holding on the
  day the code is corrected, and the properties they hold the place of would begin to.

## 4. What disagrees with the code's own words

- **Lost error** (`postgres.go:254`): goroutines assign the named result `err` and
  test it afterwards. Without transactions one table's error can be overwritten by
  another's nil, and the cursor is committed. With transactions Postgres refuses to
  commit the aborted transaction and the panic saves the data.
- **Clean-up run twice** (`postgres.go:518`): the UPDATE reopens a row but keeps its
  `_updated_block_number`; a second clean-up takes it for a row of the bad block.
- **Failed save** (`graphnode.go:125`, `postgres.go:464`, `505`): the cache holds
  entities of a rolled-back save; the next block closes a vid that does not exist.
- **Restart** (`graphnode.go:89-95`): neither the cursor nor the clean-up is used. A
  replay saves its versions beside those of the run before, and two are visible.
- A failing SELECT does the same as a failed save, by way of the deferred `SetEntity`
  (`postgres.go:601`); with `Faults = {"stream", "load"}` the model `GraphNodeSink`
  shows it, and `UniqueUnlessDatabaseError` excludes it by name.
- **No block with changes is accepted** (`db.rs:336-423`, `database.go:75`): `db_out` writes
  one log into several columns of a row, as changes of their own with one ordinal, and
  creates a pair's row from both of its keys (`lib.rs:61-82`). Squash wants the ordinals of
  a row to increase strictly and returns an error; the loop goes on with the next block.
- **Total of reserves** (`lib.rs:308`): `reserves_bnb_sum` is a product where the comment
  (`lib.rs:218`) says "sum of both token's reserves"; with one unpriced token there is none.
- **No price in dollars** (`utils.rs:56`): `compute_usd_price` reads keys of three parts,
  `store_reserves` writes keys of four, so that the dollar is worth zero and the keys the
  comment promises (`lib.rs:215`) are never set.
- **Third response** (`eth-token/src/lib.rs:123`): `map_tokens` reads the third answer of
  two calls, so the first contract that answers as a token panics it, where
  `eth-token/substreams.yaml:7` promises to "keep track of all ERC-20 tokens on the chain".
  No run of its own: `NoTokenGetsThrough` states it in `packages`.
- Without a run of their own, but as conditions or parts of checked properties: by the
  same keys of three parts the whitelist is never used; the manifest wires `store_reserves` in as the prices of `map_burn_swaps_events`
  (`substreams.yaml:91`), which then unwraps a missing key; `store_pcs_tokens` keeps its
  retry flags from pair to pair (`lib.rs:772`); a pair that a router creates is never
  seen (`lib.rs:35`); a Sync that is alone in its call panics (`lib.rs:537-551`), and one
  with a zero reserve divides by zero (`utils.rs:39`); hourly volumes of tokens are
  filed under the day (`lib.rs:722`); raw address bytes are read as UTF-8 (`event.rs:272`).

## 5. What is proved

`TableChangesProofs` (with the operators of `ChangeMerge` it speaks about): `IInv` says how `acc`, `todo` and the history of rows fit together
while a group is merged. `SquashEquivalent` alone speaks only of the end and is not
inductive; what makes it so is that `acc` applied to the row before the block gives
the row after the ordinal of `acc`, that its old values are those of that row,
and that the changes in `todo` are later and legal in the order of ordinals. From
`Init => IInv` and one lemma per action follow `TypeCorrect`, `SquashIsEquivalent`,
`SquashKeepsOldValues`, `RefusesOnlyTies` and `RefusesAllTies`, for any keys, fields,
values and bounds. Assumptions: `Null` is not a value, `None` is not a key, a row
or a change, the bounds are naturals.

`VersionedTableProofs`: `IInv` adds to `NoOverlap` what the clean-ups rely on: a closed
row's `_updated_block_number` is its end, an open one's is at least its start, and no row
is of a block after the head. `VersionsNeverOverlap` follows for any entities, values
and number of blocks, with clean-ups repeated at any time; `CleanIsExact` says that a
clean-up which is not repeated after it completed deletes nothing but the bad
block's rows (the violated property of `clean_twice`, under the assumption that
excludes it). `TableIsTemporal` is the refinement: under the same assumption
(`CrashTwice = FALSE`) every behaviour of the table is one of `TemporalTable`. A
saved block maps to one write of the block, the DELETE that begins a clean-up or a
fork to one truncation - while the process runs, the abstract value is that of the
rows, between the two statements it is that of the rows as the second will leave
them - and the second statement, the cursor and a stop map to a stutter.

`BatchSaveProofs`: `IInv` is `TypeOK` with ten parts. `SaveCompletesUnlessErrorLost` and
`AllOrNothing` speak of the moments between two blocks; to carry them through a save
the invariant says that nothing of a call survives it (`QuietInv`), which goroutines are
launched and which are still to be (`CallInv`), what the transaction of each holds and that
a block that goes on without one is in `cut` (`TxInv`), that every transaction in use waits
in `trxs` or is committed, the cursor's being the last (`TrxInv`), and what a table without
transaction holds when its goroutine has got that far (`PlainInv`). Of what is on disk it
says that only tables of a block have torn versions of it (`TornInv`), that a block of this
process was skipped or is not after the cursor (`OrderInv`) and whole (`WholeInv`), that the
rows behind the cursor stay through replays (`BehindInv`), and that only a block in `cut` or
under way is in part of its tables (`CutInv`). It yields `SavesAreComplete`,
`BlocksAreAllOrNothing`, the action property `ReadersSeeWholeBlocks` and
`TransactionsSaveCompletely`: with transactions the comment at `postgres.go:217`
holds as it is written, whatever fails and however often the program is started again.
Assumptions: naturals, and that `cursor` is not the table of an entity.

`GraphNodeSinkProofs` proves what holds whatever fails: types, `VidInv` (a vid is used
once), in the first run `OrderInv` (cursor and block) and `RangeInv` (which block a row is
of, and which closed it), and, while no call of a block failed halfway in a later run
(`Steady`), `KnownInv` (an entity in memory that has the vid of a row has its start, and the
row is open, or was closed by a later block of an earlier run) and `SameInv` (what is about
to be committed shows the past as it is). From them follows `PastIsStable`.

`GraphNodeSinkFoldProofs` has two more invariants, both for the time until a database call
fails. `FoldInv` is about the first run: rows of an entity do not overlap (`ApartInv`,
`GapInv`), the cache agrees with the open row (`AgreeInv`), and the values are the fold of
the changes, for the past (`PastInv`) and for what the handler has in hand (`ValueInv`);
`RowsAreUnique` and `ServedIsTheFold` follow, which do not hold of later runs.
`ReplayInv` is about every run: an entity in memory has a row, which holds no more than it
(`RowInv`); what a row held when it was closed another has held ever since (`ChainInv`), so
that a replay which closes a version early loses nothing; what is about to be committed
shows all that was there (`MoreInv`); what was saved is held by a row (`HeldInv`) and what
this run has passed by the cache (`MemoryInv`). `ChangesAreKept` and `CacheIsCurrent`
follow. All is proved for any entities, blocks and number of faults; beside the bounds being
naturals the only assumption is that `Nothing` is no entity.

`StoreLemmas` is about the operators the Substreams models are built from. A fold over a
list of writes, or over the set of keys that a prefix deletes, is a recursive function
over a finite set or a sequence; that it exists and what a step of it does is proved
by induction over the number of writes, with the well-foundedness of the naturals, one
fold at a time, because an induction principle over an arbitrary operator is not
available. The results: `PutAll`, `AddAll`, `DeletePrefix` and `DeletePrefixes` keep a
store a store, and give its keys and the keys that keep their values; after `PutAll` a key
has the value of its write with the greatest ordinal; `FlattenSeq` has the elements of its
parts in their order, so that `Each` and `Where` have those of their list. Its last part is
about fractions: `gcd` is unfolded once for all (it is written as a function of one number
whose values are functions, so that a recursive call is always at a smaller number), it is
symmetric and at most its arguments, and from that a fraction of zero is `Zero`, one of
equal parts is `One`, and `Over(x, y)` and `Over(y, x)` are inverse (`OverInverse`).
Addition in lowest terms is associative and commutative, so that the `Total` of a list
of numbers does not depend on how it is taken; and what `add_many` leaves under a key is
the number that was there plus the total of the writes of that key (`AddedToKey`,
`KeyGrows`).

`TokenPackagesProofs`: `BlocksAreCounted` (the count of a producer is that of the blocks the
handler has reached), `NoTokenStored` (as long as no token was stored, the first contract
that answers as one panics the map), and what the SPL package promises: `MintsAreRight`,
`SkipsAreExplained`, `StoresAreTheChain` and `VolumesAreTheTransfers`. None of the four is
inductive; for the first three, the invariant `SplChainInv` says of every stage that
- what the chain holds after the block is known (`Holds`): a mint is in its store or an
  instruction of the block initialises it; an account was last initialised in the block, or
  the block did not touch it and the store has it with its mint; and the same of each
  transfer of the block, as it was when it was made. `BlockHolds` proves this by induction
  over the instructions of the block and, inside it, over those an instruction runs itself;
- the transfers of the chain are, one by one, those that `map_transfers` finds
  (`SentMatches`, from the places in the block of what a filter of a filter keeps);
- a map's output lists what the block initialises, and what is listed was stored, the last
  initialisation of an account last (`AccountsStored`).

For the volumes, `SplVolumeInv` says that a volume is the total of the transfers handled so
far, in either unit. It holds because every logged transfer is `Priced` with the decimals
that the store has of its mint, and those never change: the sum of the scaled amounts is
then the sum, scaled.
Assumptions: blocks and instruction lists are sequences, a stored record is not the answer
of a failed read, the absent coinbase is no producer, amounts are naturals and ten to the
power of a mint's decimals is positive.

`PancakeProofs`: one invariant for the whole chain of handlers.
- `ChainInv`, `PairsKnown`: a handler runs on a block of the chain; the pairs of the store
  are those that blocks created, each under its two keys.
- `LoopInv`: each token of a known pair is `Explained` (stored, or lost to a call that is
  in the history) or `Ahead` in the loop; and a retry flag that is set comes from a call of
  this block for a pair before all those ahead (`RetryExplained`). `MissingTokensExplained`
  alone is not inductive: it says nothing inside the loop.
- `ReservesInv`, `VolumesInv`: a key of a day or an hour is of a period whose next one has
  had no block (no event), or whose deletion is the next thing to happen (`OfPeriod`,
  `Pending`).
- `SyncInv`: of a pair with a Sync the store has the last one (`HoldsLastSync`), except
  before `store_reserves` runs, when the reserve it will get is in the output of
  `map_reserves` and no later one of the pair is (`WillHoldLastSync`). It needs that a known
  pair stays what it is (`PairsStand`), that reserves come in the order of their logs, and
  that no two reserves write a key of the store in common unless they are of one pair.
- `PricesInv`: what `store_prices` may leave behind. Every key of the reserves store has
  four parts (`ReserveKeyed`), so that no read of three parts ever finds a value
  (`ThreePartsUnread`); the rest is that a product with zero is zero and that the two
  tokens of a pair differ.
- `EventsInv`: the number in an event's id is below the counter of its kind, its first
  part is the block, and logged events are of earlier blocks until the log is
  written, so that ids differ.
- `PairCountInv`, `EventCountInv`: a counter is the number of places in the log, up to
  `Reached`, whose event is filed under its key (`Tally`, the sum over the six keys an event
  is counted under); what is logged beyond `Reached` is exactly what the loop has ahead of it
  (`Waiting`). The pairs counted and those of this block still to be counted are together
  the known pairs, because `map_pairs` never gives a pair twice (`DistinctList`,
  `PairsGrow`). `TotalsCount` speaks of `db_out` only, where nothing waits.
- `NumbersInv`: the amounts of an event, in tokens and in dollars, are fractions in lowest
  terms (`DecimalEvent`), whatever the calls of the block hold and whatever prices are read.
- `VolumeSumInv`: nine accounts of the store of volumes (`VolumeKeyOf`: in dollars, of all
  time, of a pair, of the day and of the hour; of the first token; the supply and the
  liquidity) each hold the total of what the events up to `Summed` add to them (`Shares`);
  beyond it wait those the loop has ahead of it (`Unadded`). It is stated for the periods
  that may still grow (`Lasts`), which makes it inductive through the deletions of
  `store_volumes`: these name periods that have passed, except that the hour before now may
  be the number of a day to come, of which no event is logged. A handled event writes each
  account at most once (`VolumeBooks`), so that what the store gains is its share.
  `SupplyCountsPricedOnly` then needs that the total of differences is the difference of
  totals (`NetTotal`), for exact fractions.

From it follow `MissingTokens`, `EventRowsAreNew`, `SwapsPanicAsWired` (as the manifest
wires the stores, no swap is ever mapped), `LastSyncIsStored`, `OnlyBnbIsPriced`,
`TotalsAreCounted`, `VolumesAreSums`, `SupplyIsOfPriced`, `PeriodsArePruned` and the types,
for any chain. Its assumptions say that lists are lists,
that ordinals order the logs of a block and that a pair has two different tokens
(`ClockAssumption`, `BlocksAssumption`), whose decimals are known and are no negative powers
of ten (`PricesAssumption`); that the amounts in a log are naturals and the wired prices
fractions (`EventsAssumption`); and that the first block comes after the second hour of
1970, from when no day has the number of its hour or of the one before (`ClockAssumption`).

Only model-checked:
- Liveness (`StreamFinishes`), which is out of TLAPS's reach.
- What is stated or computed with `SelectSeq`, `SortSeq` or `@@`, which the prover cannot
  expand: `EventsAreLogs`, `RowsMatchStores`, `OnlyEmptyBlocksAccepted`.

## 6. What is not modelled, and the plan

Not modelled at all: conversions between Go, SQL, CSV and decimal types, connection
strings, metrics, DDL and TruncateAll, generated code (protobuf, ABI, the entities of
the subgraph), the clients that print a stream, Uniswap's map (a filter of the logs of
one contract, without state). `purgeCache` removes nothing in this program (no
entity of its subgraph is Finalizable); `Invalidate` belongs to CleanUpFork, which
the program never calls. The operation of a change is ignored by ReturnHandler;
db_out produces no DELETE today. Of the decimals only exact values are modelled, not the
100 digits of precision; of `decode_event` the offsets in a log's data are not.

Still to do, in this order:
1. `GraphNodeSink`: the writes that goroutines orphaned by a failing BeginTxx make to the
   cache during the next block; `BlockRange` round trips.
2. `VersionedTable`: a second deletion of an entity (ReturnHandler never deletes today).
