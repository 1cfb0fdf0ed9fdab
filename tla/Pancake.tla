------------------------------ MODULE Pancake ------------------------------
(***************************************************************************)
(* The PancakeSwap substreams as a whole: the chain produces a block, the  *)
(* handlers run over it one after the other, each reads the stores the     *)
(* earlier ones wrote, and the consumer squashes what db_out returns.  The *)
(* engine needs no fairness here: only safety is stated.                   *)
(***************************************************************************)
EXTENDS PcsDbOut

vars == <<chainVars, tokenVars, priceVars, eventVars, volumeVars, dbVars>>

Init ==
  /\ ChainInit
  /\ TokensInit
  /\ PricesInit
  /\ EventsInit
  /\ VolumesInit
  /\ DbInit

Next ==
  \/ ProduceBlock /\ UNCHANGED <<tokenVars, priceVars, eventVars, volumeVars, dbVars>>
  \/ TokensNext /\ UNCHANGED <<priceVars, eventVars, volumeVars, dbVars>>
  \/ PricesNext /\ UNCHANGED <<tokenVars, eventVars, volumeVars, dbVars>>
  \/ EventsNext /\ UNCHANGED <<tokenVars, priceVars, volumeVars, dbVars>>
  \/ VolumesNext /\ UNCHANGED <<tokenVars, priceVars, eventVars, dbVars>>
  \/ DbNext /\ UNCHANGED <<tokenVars, priceVars, eventVars, volumeVars>>

Spec == Init /\ [][Next]_vars

Handlers ==
  {"map_pairs", "store_pairs", "store_pcs_tokens", "map_reserves", "store_reserves",
   "store_prices", "map_burn_swaps_events", "read_calls", "store_totals", "count_events",
   "store_volumes", "add_volumes", "db_out", "squash"}

(* The stores, the loops and the handlers have the types of their code; a  *)
(* loop is empty unless its handler runs.                                  *)
TypeOK ==
  /\ request \in {"store_prices", "db_out", "db_out_priced"}
  /\ number \in 0 .. MaxBlocks
  /\ hour \in Nat
  /\ stage \in Handlers \cup {"idle"}
  /\ panic \in Handlers \cup {Absent}
  /\ side \in Sides
  /\ retry \in [Sides -> BOOLEAN]
  /\ counts \in [Kinds -> Nat]
  /\ todoPairs # <<>> => stage = "store_pcs_tokens"
  /\ callsLeft # <<>> => stage = "read_calls"
  /\ todoEvents # <<>> => stage \in {"count_events", "add_volumes"}
  /\ DOMAIN pairStore.kv \subseteq
       {PairKey(p.address) : p \in Pairs} \cup {TokensKey(p.token0, p.token1) : p \in Pairs}
  /\ untrue \in BOOLEAN
  /\ accepted \in BOOLEAN

=============================================================================
