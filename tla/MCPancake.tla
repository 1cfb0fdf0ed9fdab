----------------------------- MODULE MCPancake -----------------------------
EXTENDS Pancake

MCFactory == "factory"
MCUnits == [d \in {6, 18} |-> IF d = 18 THEN 4 ELSE 2]
MCDecimalsOf == [t \in {"WBNB", "BUSD", "T", "X"} |-> IF t = "T" THEN 6 ELSE 18]
MCAddressOrder == <<"BUSD", "T", "USDT", "WBNB", "X">>
MCWhitelist == <<"BUSD", "USDT">>

(* Prices as event.rs reads them: the dollar is known from the second      *)
(* block on, and a dollar price of zero counts for none.                   *)
Prices(usd) ==
  (<<"dprice", "WBNB", "bnb">> :> One) @@ (<<"dprice", "BUSD", "bnb">> :> <<1, 2>>) @@
  (<<"dprice", "T", "bnb">> :> Zero) @@ (<<"dprice", "WBNB", "usd">> :> usd) @@
  (<<"dprice", "BUSD", "usd">> :> Zero) @@ (<<"dprice", "T", "usd">> :> Zero) @@
  (<<"dprice", "usd", "bnb">> :> usd)
MCFeed == <<Prices(Zero), Prices(<<2, 1>>), Prices(<<2, 1>>)>>

Raw(failed, len, size) == [failed |-> failed, len |-> len, offset |-> 32, size |-> size]
Number == Raw(FALSE, 32, 0)
Text == Raw(FALSE, 128, 5)
MCAnswers ==
  { [decimals |-> Number, name |-> Text, symbol |-> Text],
    [decimals |-> Raw(TRUE, 0, 0), name |-> Text, symbol |-> Text],
    [decimals |-> Number, name |-> Text, symbol |-> Raw(FALSE, 128, 96)],
    [decimals |-> Number, name |-> Raw(FALSE, 128, 250), symbol |-> Text] }

-----------------------------------------------------------------------------
Log(a, sig, ord, words, amounts) ==
  [address |-> a, sig |-> sig, ord |-> ord, words |-> words, amounts |-> amounts]
Call(a, logs) == [address |-> a, reverted |-> FALSE, logs |-> logs]
Reverted(call) == [call EXCEPT !.reverted = TRUE]
Trx(to, calls) == [from |-> "u", to |-> to, calls |-> calls]

Create(to, ord, p, t0, t1) ==
  Trx(to, <<Call("factory", <<Log("factory", "PairCreated", ord, <<t0, t1, p>>, <<>>)>>)>>)
CreateA(ord) == Create("factory", ord, "A", "BUSD", "WBNB")
CreateB(ord) == Create("factory", ord, "B", "BUSD", "T")

Sync(a, ord, r0, r1) == Log(a, "Sync", ord, <<>>, <<r0, r1>>)
Moved(a, ord, from, to, value) == Log(a, "Transfer", ord, <<from, to>>, <<value>>)

FirstMint(a, ord) ==
  Call(a, <<Moved(a, ord, "zero", "zero", 1), Moved(a, ord + 1, "zero", "u", 3),
            Sync(a, ord + 2, 8, 4), Log(a, "Mint", ord + 3, <<"r">>, <<8, 4>>)>>)
LaterMint(a, ord) ==
  Call(a, <<Moved(a, ord, "zero", "u", 2), Sync(a, ord + 1, 12, 6),
            Log(a, "Mint", ord + 2, <<"r">>, <<4, 2>>)>>)
BurnOf(a, ord) ==
  Call(a, <<Moved(a, ord, a, "zero", 1), Sync(a, ord + 1, 6, 3),
            Log(a, "Burn", ord + 2, <<"r", "u">>, <<2, 1>>)>>)
SwapLogs(a, ord) ==
  <<Sync(a, ord, 9, 5), Log(a, "Swap", ord + 1, <<"r", "u">>, <<2, 0, 0, 1>>)>>
SwapOf(a, ord) == Call(a, SwapLogs(a, ord))

(* The logs of the nested call lie between the two of the outer one.       *)
Nested(a, b) ==
  Trx("r", <<Call(a, <<Sync(a, 5, 9, 5), Log(a, "Swap", 6, <<"r", "u">>, <<2, 0, 0, 1>>)>>),
             LaterMint(b, 1)>>)

MCBlocks ==
  { <<>>,
    <<CreateA(1)>>,
    <<CreateA(1), CreateB(2)>>,
    <<CreateA(1), Trx("r", <<FirstMint("A", 2)>>)>>,
    <<Create("factory", 1, "C", "BUSD", "X")>>,
    <<Create("r", 1, "B", "BUSD", "T")>>,
    <<Trx("r", <<FirstMint("B", 1)>>)>>,
    <<Trx("r", <<LaterMint("A", 1)>>)>>,
    <<Trx("r", <<FirstMint("C", 1)>>)>>,
    <<Trx("r", <<BurnOf("A", 1)>>)>>,
    <<Trx("r", <<SwapOf("A", 1)>>)>>,
    <<Trx("r", <<SwapOf("B", 1)>>)>>,
    <<Trx("r", <<SwapOf("A", 1), Reverted(SwapOf("A", 0)), SwapOf("A", 3)>>),
      Trx("r", <<SwapOf("A", 5)>>)>>,
    <<Trx("r", <<LaterMint("A", 1), SwapOf("A", 4)>>), Trx("r", <<BurnOf("A", 6)>>)>>,
    <<Trx("u", <<Call("A", <<Moved("A", 1, "u", "v", 1)>>), Reverted(BurnOf("A", 0))>>)>>,
    <<Trx("u", <<Call("A", <<Sync("A", 1, 7, 7)>>)>>)>>,
    <<Trx("u", <<Call("A", <<Sync("A", 1, 7, 0)>>)>>)>>,
    <<Nested("A", "B")>> }

=============================================================================
