----------------------------- MODULE Erc20Calls -----------------------------
(***************************************************************************)
(* The answers of an ERC-20 contract to decimals(), name() and symbol()    *)
(* (eth.rs of pancakeswap and of eth-token, which are the same code).  An  *)
(* answer is [failed, len, offset, size]: whether the call failed, the     *)
(* length of the raw bytes and the first two words in them, which matter   *)
(* for a text only.  Reading ends in "ok", "err" or "panic".               *)
(***************************************************************************)
EXTENDS Integers

CONSTANT UsizeModulus   \* 2^32: usize has 32 bits in WebAssembly

ASSUME UsizeAssumption == UsizeModulus \in Nat /\ UsizeModulus > 96

ReadUint32(raw) == IF raw.len = 32 THEN "ok" ELSE "err"

(* The end of the text wraps around: a size near the modulus passes the    *)
(* test against the length and the slice [64..end] panics.                 *)
ReadString(raw) ==
  LET end == (raw.size + 64) % UsizeModulus IN
  IF raw.len < 96 \/ raw.offset # 32 \/ end > raw.len THEN "err"
  ELSE IF end < 64 THEN "panic"
  ELSE "ok"

(* retry_rpc_calls of pancakeswap: the first of the three that is not "ok" *)
RetryRpcCalls(decimals, name, symbol) ==
  IF decimals.failed \/ name.failed \/ symbol.failed THEN "err"
  ELSE IF ReadUint32(decimals) # "ok" THEN "err"
  ELSE IF ReadString(name) # "ok" THEN ReadString(name)
  ELSE ReadString(symbol)

=============================================================================
