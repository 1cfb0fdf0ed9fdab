----------------------------- MODULE EthTokens -----------------------------
(***************************************************************************)
(* The substreams of ERC-20 tokens (eth-token): every contract that is     *)
(* created, or initialised behind a proxy, is asked whether it is a token. *)
(* A call is [address, reverted, type, initializes, codeSize, caller,      *)
(* decimals, name, symbol]; the last three are the contract's answers.     *)
(***************************************************************************)
EXTENDS Integers, Sequences, SequencesExt, SubstreamsStore, Erc20Calls

CONSTANTS
  EthBlocks,     \* bound: what a block may contain, sequences of calls
  EthMaxBlocks,  \* bound: the number of blocks
  KnownCallers   \* two factories whose contracts are skipped

ASSUME EthAssumption ==
  /\ EthMaxBlocks \in Nat
  /\ \A b \in EthBlocks : b \in Seq(ToSet(b))

VARIABLES
  ethNumber,   \* the number of blocks so far
  ethStage,    \* "idle", "map_tokens" or "store_tokens"
  ethCalls,    \* the calls the loop has not reached
  tokens,      \* the tokens found in the block
  ethStore,    \* the store of store_tokens
  ethPanic,    \* whether map_tokens panicked
  seen         \* history: the token contracts the chain made

ethVars == <<ethNumber, ethStage, ethCalls, tokens, ethStore, ethPanic, seen>>

EthInit ==
  /\ ethNumber = 0
  /\ ethStage = "idle"
  /\ ethCalls = <<>>
  /\ tokens = <<>>
  /\ ethStore = EmptyStore
  /\ ethPanic = FALSE
  /\ seen = {}

-----------------------------------------------------------------------------
(* Slips of the code the model can be made to take.                        *)
ResponsesWithDecimals(call) == <<call.decimals, call.name, call.symbol>>

(* The contracts that are not asked.                                       *)
Skipped(call) ==
  \/ call.reverted
  \/ call.type \notin {"Create", "Call"}
  \/ call.type = "Call" /\ ~call.initializes
  \/ call.type = "Create" /\ call.codeSize <= 150
  \/ call.caller \in KnownCallers

(* decimals() is asked alone, name() and symbol() together; their answers  *)
(* are read as if decimals() came first.                                   *)
CreateRpcCalls(call, methods) == [i \in DOMAIN methods |-> call[methods[i]]]
Responses(call) == CreateRpcCalls(call, <<"name", "symbol">>)
ReadResponse(call, i) ==
  IF i \in DOMAIN Responses(call) THEN ReadString(Responses(call)[i]) ELSE "panic"

TokenOutcome(call) ==
  IF call.decimals.failed \/ ReadUint32(call.decimals) # "ok" THEN "err"
  ELSE IF call.name.failed \/ call.symbol.failed THEN "err"
  ELSE IF ReadResponse(call, 2) # "ok" THEN ReadResponse(call, 2)
  ELSE ReadResponse(call, 3)

(* A contract that answers all three questions as a token does.            *)
IsToken(call) ==
  /\ ~Skipped(call)
  /\ RetryRpcCalls(call.decimals, call.name, call.symbol) = "ok"

-----------------------------------------------------------------------------
ProduceEthBlock ==
  /\ ethStage = "idle"
  /\ ethNumber < EthMaxBlocks
  /\ \E b \in EthBlocks :
       /\ ethCalls' = b
       /\ seen' = seen \cup {c.address : c \in {x \in ToSet(b) : IsToken(x)}}
  /\ tokens' = <<>>
  /\ ethNumber' = ethNumber + 1
  /\ ethStage' = "map_tokens"
  /\ UNCHANGED <<ethStore, ethPanic>>

AtEthCall == ethStage = "map_tokens" /\ ~ethPanic /\ ethCalls # <<>>

SkipEthCallBreaks ==
  /\ AtEthCall
  /\ Skipped(Head(ethCalls))
  /\ ethStage' = "store_tokens"
  /\ UNCHANGED <<ethNumber, ethCalls, tokens, ethStore, ethPanic, seen>>

SkipEthCall ==
  /\ AtEthCall
  /\ Skipped(Head(ethCalls))
  /\ ethCalls' = Tail(ethCalls)
  /\ UNCHANGED <<ethNumber, ethStage, tokens, ethStore, ethPanic, seen>>

MapToken ==
  LET call == Head(ethCalls) IN
  /\ AtEthCall
  /\ ~Skipped(call)
  /\ TokenOutcome(call) # "panic"
  /\ tokens' = IF TokenOutcome(call) = "ok" THEN Append(tokens, call.address) ELSE tokens
  /\ ethCalls' = Tail(ethCalls)
  /\ UNCHANGED <<ethNumber, ethStage, ethStore, ethPanic, seen>>

MapTokenPanics ==
  /\ AtEthCall
  /\ ~Skipped(Head(ethCalls))
  /\ TokenOutcome(Head(ethCalls)) = "panic"
  /\ ethPanic' = TRUE
  /\ UNCHANGED <<ethNumber, ethStage, ethCalls, tokens, ethStore, seen>>

TokensMapped ==
  /\ ethStage = "map_tokens"
  /\ ~ethPanic
  /\ ethCalls = <<>>
  /\ ethStage' = "store_tokens"
  /\ UNCHANGED <<ethNumber, ethCalls, tokens, ethStore, ethPanic, seen>>

StoreTokens ==
  /\ ethStage = "store_tokens"
  /\ ethStore' = PutAll(NextBlock(ethStore),
                        [i \in DOMAIN tokens |-> <<1, <<"token", tokens[i]>>, tokens[i]>>])
  /\ ethStage' = "idle"
  /\ UNCHANGED <<ethNumber, ethCalls, tokens, ethPanic, seen>>

EthNext ==
  \/ ProduceEthBlock
  \/ SkipEthCall
  \/ MapToken
  \/ MapTokenPanics
  \/ TokensMapped
  \/ StoreTokens

-----------------------------------------------------------------------------
(* The first token panics (lib.rs:123 reads a third answer of two), so the *)
(* store stays empty; and the blocks before it have no contract that       *)
(* answers as a token.  This is what the code does of the promise in       *)
(* eth-token/substreams.yaml:7, "keep track of all ERC-20 tokens on the    *)
(* chain".                                                                 *)
NoTokenGetsThrough ==
  /\ ethStore.kv = <<>>
  /\ ethStage = "idle" => seen = {}

=============================================================================
