--------------------------- MODULE TokenPackages ---------------------------
(***************************************************************************)
(* The three small packages: a request streams the SPL tokens of Solana,   *)
(* the ERC-20 tokens of Ethereum or the block producers of Ethereum.       *)
(***************************************************************************)
EXTENDS SplTokens, EthTokens, BlockProducers

VARIABLE package   \* "spl", "eth" or "producers"

vars == <<package, splVars, ethVars, producerVars>>

Init ==
  /\ package \in {"spl", "eth", "producers"}
  /\ SplInit
  /\ EthInit
  /\ ProducersInit

Next ==
  \/ package = "spl" /\ SplNext /\ UNCHANGED <<package, ethVars, producerVars>>
  \/ package = "eth" /\ EthNext /\ UNCHANGED <<package, splVars, producerVars>>
  \/ package = "producers" /\ ProducersNext /\ UNCHANGED <<package, splVars, ethVars>>

Spec == Init /\ [][Next]_vars

(* The handlers of a block run in order, the loop is empty unless it runs, *)
(* and a transfer always has a mint with known decimals.                   *)
TypeOK ==
  /\ splStage \in {"idle", "map_mints", "store_mints", "map_accounts", "store_accounts",
                   "map_transfers", "store_mint_volumes"}
  /\ splNumber \in 0 .. SplMaxBlocks
  /\ splError \in {"none", "err", "panic"}
  /\ \A t \in ToSet(transferLog) : Has(mintStore, MintKey(t.mint))
  /\ ethStage \in {"idle", "map_tokens", "store_tokens"}
  /\ ethNumber \in 0 .. EthMaxBlocks
  /\ ethCalls # <<>> => ethStage = "map_tokens"
  /\ ethPanic \in BOOLEAN
  /\ producerStage \in {"idle", "map_coinbase", "store_coinbase", "error"}
  /\ DOMAIN producerStore.kv \subseteq Producers

=============================================================================
