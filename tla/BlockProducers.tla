--------------------------- MODULE BlockProducers ---------------------------
(***************************************************************************)
(* The substreams of block producers (eth-block-producers): how many       *)
(* blocks each coinbase address produced.  A block is the coinbase of its  *)
(* header, or Absent when it comes without a header.                       *)
(***************************************************************************)
EXTENDS Integers, Sequences, SequencesExt, SubstreamsStore

CONSTANTS
  Producers,          \* the addresses of the producers
  ProducerMaxBlocks   \* bound: the number of blocks

ASSUME ProducersAssumption == ProducerMaxBlocks \in Nat /\ Absent \notin Producers

VARIABLES
  produced,       \* history: the coinbases of the blocks so far
  producerStage,  \* "idle", "map_coinbase", "store_coinbase" or "error"
  producerStore   \* the store of store_coinbase

producerVars == <<produced, producerStage, producerStore>>

ProducersInit ==
  /\ produced = <<>>
  /\ producerStage = "idle"
  /\ producerStore = EmptyStore

(* A slip of the code the model can be made to take.                       *)
CountOnce(store, address) == SetIfNotExists(store, 1, address, 1)

CountBlock(store, address) == AddAll(store, << <<1, address, 1>> >>, "int64")

ProduceHeader ==
  /\ producerStage = "idle"
  /\ Len(produced) < ProducerMaxBlocks
  /\ \E address \in Producers \cup {Absent} : produced' = Append(produced, address)
  /\ producerStage' = "map_coinbase"
  /\ UNCHANGED producerStore

MapCoinbase ==
  /\ producerStage = "map_coinbase"
  /\ Last(produced) # Absent
  /\ producerStage' = "store_coinbase"
  /\ UNCHANGED <<produced, producerStore>>

(* Without a header the map returns an error, which ends the request.      *)
MapCoinbaseFails ==
  /\ producerStage = "map_coinbase"
  /\ Last(produced) = Absent
  /\ producerStage' = "error"
  /\ UNCHANGED <<produced, producerStore>>

StoreCoinbase ==
  /\ producerStage = "store_coinbase"
  /\ producerStore' = CountBlock(NextBlock(producerStore), Last(produced))
  /\ producerStage' = "idle"
  /\ UNCHANGED produced

ProducersNext ==
  \/ ProduceHeader
  \/ MapCoinbase
  \/ MapCoinbaseFails
  \/ StoreCoinbase

-----------------------------------------------------------------------------
(* Each producer's number is that of its blocks since the first one, and   *)
(* a request that failed had counted every block before (lib.rs:8-24).     *)
BlocksCounted ==
  producerStage \in {"idle", "error"} =>
    \A address \in Producers :
      (IF Has(producerStore, address) THEN producerStore.kv[address] ELSE 0)
        = Cardinality({i \in DOMAIN produced : produced[i] = address})

=============================================================================
