------------------------------ MODULE PcsChain ------------------------------
(***************************************************************************)
(* What the PancakeSwap modules are fed: the blocks of the chain, cut down *)
(* to what the handlers look at, the clock of a block, and the handler     *)
(* that runs next.  The engine runs the handlers of a block in the order   *)
(* of their inputs (substreams.yaml); a handler that panics ends the       *)
(* request.                                                                *)
(*                                                                         *)
(* A transaction is [from, to, calls], a call [address, reverted, logs], a *)
(* log [address, sig, ord, words, amounts]: sig is the event of the log's  *)
(* first topic, words are the addresses in its topics and data, amounts    *)
(* the numbers in its data.                                                *)
(***************************************************************************)
EXTENDS Integers, Sequences, SequencesExt, SubstreamsStore

CONSTANTS
  Blocks,       \* bound: what a block may contain, sequences of transactions
  MaxBlocks,    \* bound: the number of blocks
  Factory,      \* the address of the PancakeSwap factory
  HoursPerDay,  \* 24 in the code: a day is 86400 seconds, an hour 3600
  FirstHour,    \* the hour of the first block
  Gaps          \* by how many hours a block may be later than the one before

(* Hours count from 1970, so none has the number of the day it is in or of *)
(* the day after.                                                          *)
ASSUME ClockAssumption ==
  /\ MaxBlocks \in Nat
  /\ HoursPerDay \in Nat \ {0, 1}
  /\ Gaps \subseteq Nat
  /\ FirstHour \in Nat
  /\ FirstHour > 2

(* Transactions, calls and logs come in lists; the ordinals of the logs    *)
(* grow from one transaction to the next and are never the same twice; and *)
(* a pair has two tokens and is created once.                              *)
LogsOf(trx) == UNION {ToSet(c.logs) : c \in {x \in ToSet(trx.calls) : ~x.reverted}}

ASSUME BlocksAssumption ==
  \A b \in Blocks :
    /\ b \in Seq(ToSet(b))
    /\ \A i \in DOMAIN b :
         /\ b[i].calls \in Seq(ToSet(b[i].calls))
         /\ IsFiniteSet(LogsOf(b[i]))
         /\ \A l \in LogsOf(b[i]) :
              /\ l.ord \in Nat
              /\ l.sig = "PairCreated" => l.words[1] # l.words[2]
              /\ l.sig = "Sync" => l.amounts \in Seq(Nat) /\ Len(l.amounts) = 2
    /\ \A i, j \in DOMAIN b : \A l \in LogsOf(b[i]), m \in LogsOf(b[j]) :
         /\ i < j => l.ord < m.ord
         /\ l # m => l.ord # m.ord
         /\ l # m /\ l.sig = "PairCreated" /\ m.sig = "PairCreated" => l.words[3] # m.words[3]

VARIABLES
  request,  \* the output module: "store_prices", "db_out", or "db_out_priced",
            \* db_out with a store of the prices event.rs reads
  number,   \* the number of blocks so far
  hour,     \* the hour of the current block
  trxs,     \* the transactions of the current block
  onChain,  \* the addresses of the pairs that exist
  stage,    \* the handler that runs next, or "idle" between two blocks
  panic     \* the handler that panicked, or Absent

chainVars == <<request, number, hour, trxs, onChain, stage, panic>>

day == hour \div HoursPerDay

-----------------------------------------------------------------------------
(* The receipt has the logs of the calls that were not reverted, in the    *)
(* order they were written: a nested call may write between two logs of    *)
(* the call it is nested in.                                               *)
Before(ls, l) == {m \in ls : m.ord < l.ord}
Logs(trx) ==
  LET ls == LogsOf(trx) IN
  [i \in 1 .. Cardinality(ls) |-> CHOOSE l \in ls : Cardinality(Before(ls, l)) = i - 1]
BlockLogs == Each(trxs, Logs)

CreatedBy(b) == {l.words[3] : l \in {x \in UNION {ToSet(Logs(b[i])) : i \in DOMAIN b} :
                                       x.sig = "PairCreated"}}
CalledBy(b) == {c.address : c \in UNION {ToSet(b[i].calls) : i \in DOMAIN b}} \ {Factory}

ChainInit ==
  /\ request \in {"store_prices", "db_out", "db_out_priced"}
  /\ number = 0
  /\ hour = FirstHour
  /\ trxs = <<>>
  /\ onChain = {}
  /\ stage = "idle"
  /\ panic = Absent

(* The chain produces a block: a pair is created once and exists before it *)
(* is called.                                                              *)
ProduceBlock ==
  /\ stage = "idle"
  /\ number < MaxBlocks
  /\ \E b \in Blocks :
       /\ CreatedBy(b) \cap onChain = {}
       /\ CalledBy(b) \subseteq onChain \cup CreatedBy(b)
       /\ trxs' = b
       /\ onChain' = onChain \cup CreatedBy(b)
  /\ \E gap \in IF number = 0 THEN {0} ELSE Gaps : hour' = hour + gap
  /\ number' = number + 1
  /\ stage' = "map_pairs"
  /\ UNCHANGED <<request, panic>>

(* A handler returns and the next one runs, or it panics.                  *)
At(handler) == stage = handler /\ panic = Absent
Then(handler) ==
  /\ stage' = handler
  /\ UNCHANGED <<request, number, hour, trxs, onChain, panic>>
Panic ==
  /\ panic' = stage
  /\ UNCHANGED <<request, number, hour, trxs, onChain, stage>>

=============================================================================
