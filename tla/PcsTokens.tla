----------------------------- MODULE PcsTokens -----------------------------
(***************************************************************************)
(* map_pairs, store_pairs and store_pcs_tokens: the pairs a block creates  *)
(* and the tokens of these pairs.  A token is named by its address.        *)
(***************************************************************************)
EXTENDS PcsChain, Erc20Calls

CONSTANTS
  TokenStores,  \* what store_tokens of the imported package may hold
  Answers,      \* bound: the answers of a contract to the three calls
  AddressOrder  \* the addresses in the order of their texts

VARIABLES
  pairs,        \* the output of map_pairs
  pairStore,    \* the store of store_pairs
  ethTokens,    \* the tokens in the store of the imported package
  tokenStore,   \* the store of store_pcs_tokens
  todoPairs,    \* the pairs its loop has not reached
  side,         \* the token of the first of them that is next: 0 or 1
  retry,        \* token0_retry and token1_retry
  token,        \* token0 and token1
  rpcs          \* history: the rpc calls, [block, ord, side, ok]

tokenVars == <<pairs, pairStore, ethTokens, tokenStore, todoPairs, side, retry, token, rpcs>>

Sides == {0, 1}
PairKey(address) == <<"pair", address>>
TokenKey(address) == <<"token", address>>
KnownPair(address) == Has(pairStore, PairKey(address))
HasToken(address) == Has(tokenStore, TokenKey(address))
TokenOf(pair, s) == IF s = 0 THEN pair.token0 ELSE pair.token1

-----------------------------------------------------------------------------
(* Slips of the code the model can be made to take.                        *)
NextPairAtOnce == side' = 0 /\ todoPairs' = Tail(todoPairs)
NextPairWithoutReset == side' = side + 1 /\ todoPairs' = Tail(todoPairs)

TokensInit ==
  /\ pairs = <<>>
  /\ pairStore = EmptyStore
  /\ ethTokens \in TokenStores
  /\ tokenStore = EmptyStore
  /\ todoPairs = <<>>
  /\ side = 0
  /\ retry = [s \in Sides |-> FALSE]
  /\ token = [s \in Sides |-> Absent]
  /\ rpcs = {}

(* Only transactions sent to the factory are looked at: a pair that a      *)
(* router creates is missed.                                               *)
PairsOf(trx) ==
  LET created == Where(Logs(trx), LAMBDA l : l.sig = "PairCreated") IN
  [i \in DOMAIN created |->
     [address |-> created[i].words[3], token0 |-> created[i].words[1],
      token1 |-> created[i].words[2], block |-> number, ord |-> created[i].ord]]

MapPairs ==
  /\ At("map_pairs")
  /\ pairs' = Each(trxs, LAMBDA trx : IF trx.to = Factory THEN PairsOf(trx) ELSE <<>>)
  /\ Then("store_pairs")
  /\ UNCHANGED <<pairStore, ethTokens, tokenStore, todoPairs, side, retry, token, rpcs>>

(* generate_tokens_key puts the lower address first.                       *)
TokensKey(t0, t1) ==
  LET place(t) == CHOOSE i \in DOMAIN AddressOrder : AddressOrder[i] = t IN
  IF place(t0) > place(t1) THEN <<"tokens", t1, t0>> ELSE <<"tokens", t0, t1>>

StorePairs ==
  /\ At("store_pairs")
  /\ pairStore' =
       PutAll(NextBlock(pairStore),
              Each(pairs, LAMBDA p :
                << <<p.ord, PairKey(p.address), p>>,
                   <<p.ord, TokensKey(p.token0, p.token1), p>> >>))
  /\ tokenStore' = NextBlock(tokenStore)
  /\ todoPairs' = pairs
  /\ side' = 0
  /\ retry' = [s \in Sides |-> FALSE]
  /\ token' = [s \in Sides |-> Absent]
  /\ Then("store_pcs_tokens")
  /\ UNCHANGED <<pairs, ethTokens, rpcs>>

-----------------------------------------------------------------------------
(* The loop of store_pcs_tokens, one token of one pair at a time.          *)

pair == Head(todoPairs)
AtToken == At("store_pcs_tokens") /\ todoPairs # <<>>
InEthTokens == TokenOf(pair, side) \in ethTokens
CallRpc(ok) == rpcs' = rpcs \cup {[block |-> number, ord |-> pair.ord, side |-> side, ok |-> ok]}
Outcome(a) == RetryRpcCalls(a.decimals, a.name, a.symbol)

NextPair ==
  /\ side' = 0
  /\ todoPairs' = Tail(todoPairs)
NextToken ==
  IF side = 0 THEN side' = 1 /\ UNCHANGED todoPairs ELSE NextPair
StoreToken(t) ==
  /\ tokenStore' = SetIfNotExists(tokenStore, pair.ord, TokenKey(t), t)
  /\ NextToken
  /\ Then("store_pcs_tokens")
  /\ UNCHANGED <<pairs, pairStore, ethTokens>>

(* The token is in the imported store; but once an rpc call was made for   *)
(* this side of an earlier pair, the flag stands and that token is kept.   *)
TokenKept == IF retry[side] THEN token[side] ELSE TokenOf(pair, side)

TokenFound ==
  /\ AtToken
  /\ InEthTokens
  /\ token' = [token EXCEPT ![side] = TokenKept]
  /\ StoreToken(TokenKept)
  /\ UNCHANGED <<retry, rpcs>>

TokenCalled ==
  /\ AtToken
  /\ ~InEthTokens
  /\ \E a \in Answers : Outcome(a) = "ok"
  /\ token' = [token EXCEPT ![side] = TokenOf(pair, side)]
  /\ retry' = [retry EXCEPT ![side] = TRUE]
  /\ CallRpc(TRUE)
  /\ StoreToken(TokenOf(pair, side))

(* "continue": the other token of the pair is skipped as well.             *)
CallFails ==
  /\ AtToken
  /\ ~InEthTokens
  /\ \E a \in Answers : Outcome(a) = "err"
  /\ CallRpc(FALSE)
  /\ NextPair
  /\ Then("store_pcs_tokens")
  /\ UNCHANGED <<pairs, pairStore, ethTokens, tokenStore, retry, token>>

CallPanics ==
  /\ AtToken
  /\ ~InEthTokens
  /\ \E a \in Answers : Outcome(a) = "panic"
  /\ CallRpc(FALSE)
  /\ Panic
  /\ UNCHANGED <<pairs, pairStore, ethTokens, tokenStore, todoPairs, side, retry, token>>

TokensStored ==
  /\ At("store_pcs_tokens")
  /\ todoPairs = <<>>
  /\ Then("map_reserves")
  /\ UNCHANGED tokenVars

TokensNext ==
  \/ MapPairs
  \/ StorePairs
  \/ TokenFound
  \/ TokenCalled
  \/ CallFails
  \/ CallPanics
  \/ TokensStored

-----------------------------------------------------------------------------
Pairs == {pairStore.kv[k] : k \in {x \in DOMAIN pairStore.kv : x[1] = "pair"}}

(* Every later handler unwraps the tokens of a known pair.  A token that   *)
(* is missing after store_pcs_tokens (lib.rs:787-851) was lost in the      *)
(* block of its pair: a call failed for this pair, or a call for the same  *)
(* side of an earlier pair left its flag set.                              *)
MissingTokensExplained ==
  stage \notin {"store_pairs", "store_pcs_tokens"} =>
    \A p \in Pairs, s \in Sides :
      HasToken(TokenOf(p, s)) \/
      \E r \in rpcs :
        /\ r.block = p.block
        /\ \/ ~r.ok /\ r.ord = p.ord /\ r.side <= s
           \/ r.ok /\ r.ord < p.ord /\ r.side = s

=============================================================================
