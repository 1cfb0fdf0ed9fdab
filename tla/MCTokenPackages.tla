--------------------------- MODULE MCTokenPackages ---------------------------
(* A few mints, accounts and contracts, and the blocks that use them.       *)
EXTENDS TokenPackages

Inst(tag, accs, amount) ==
  [ours |-> TRUE, tag |-> tag, size |-> 40, option |-> 0, authority |-> 0, text |-> TRUE,
   accounts |-> accs, amount |-> amount, decimals |-> 1, inner |-> <<>>]
Running(inst, inner) == [inst EXCEPT !.inner = inner]
Foreign(inner) == [Running(Inst(InitializeMint, <<"p">>, 0), inner) EXCEPT !.ours = FALSE]
Trx(insts) == [failed |-> FALSE, insts |-> insts]
Failed(insts) == [failed |-> TRUE, insts |-> insts]

MCSplBlocks ==
  { \* mints and accounts, in each of the ways to initialise them
    << Trx(<<Inst(InitializeMint, <<"M">>, 0),
             [Inst(InitializeMint2, <<"N">>, 0) EXCEPT !.decimals = 0]>>),
       Trx(<<Inst(InitializeAccount, <<"a", "M">>, 0), Inst(InitializeAccount2, <<"b", "M">>, 0),
             Inst(InitializeAccount3, <<"c", "N">>, 0)>>),
       Failed(<<Inst(InitializeAccount, <<"d", "N">>, 0)>>) >>,
    \* both kinds of transfer, and the instructions no handler uses
    << Trx(<<Inst(Transfer, <<"a", "b">>, 3), Inst(TransferChecked, <<"b", "M", "a">>, 12)>>),
       Trx(<<Inst(Revoke, <<"a">>, 0), Inst(SetAuthority, <<"a">>, 0),
             Inst(SyncNative, <<"a">>, 0), Inst(UiAmountToAmount, <<"a">>, 0)>>) >>,
    \* a failed transaction is not even unpacked
    << Failed(<<Inst(99, <<"a">>, 0)>>) >>,
    << Failed(<<Inst(CloseAccount, <<"a">>, 0), Inst(InitializeAccount3, <<"a", "N">>, 0),
                Inst(Transfer, <<"a", "b">>, 5)>>) >>,
    \* a transfer, then its sender is closed and becomes an account of N
    << Trx(<<Inst(Transfer, <<"a", "b">>, 1), Inst(CloseAccount, <<"a">>, 0),
             Inst(InitializeAccount, <<"a", "N">>, 0)>>) >>,
    << Trx(<<Inst(Transfer, <<"a", "c">>, 2)>>) >>,
    \* another program opens an account of M, which then sends
    << Trx(<<Foreign(<<Inst(InitializeAccount3, <<"e", "M">>, 0)>>), Inst(Transfer, <<"e", "b">>, 4),
             Inst(TransferChecked, <<"e", "M", "b">>, 4)>>) >>,
    \* another program turns a into an account of N, or moves tokens
    << Trx(<<Foreign(<<Inst(CloseAccount, <<"a">>, 0), Inst(InitializeAccount3, <<"a", "N">>, 0)>>)>>),
       Trx(<<Inst(Transfer, <<"a", "c">>, 6)>>) >>,
    << Trx(<<Foreign(<<Inst(Transfer, <<"a", "b">>, 7)>>)>>) >>,
    \* a mint and its accounts from another program
    << Trx(<<Foreign(<<Inst(InitializeMint2, <<"H">>, 0)>>), Inst(InitializeAccount3, <<"g", "H">>, 0),
             Inst(InitializeAccount3, <<"h", "H">>, 0), Inst(TransferChecked, <<"g", "H", "h">>, 8)>>) >>,
    \* an instruction unpack does not know, and data that is too short
    << Trx(<<Inst(38, <<"a">>, 0)>>) >>,
    << Trx(<<[Inst(AmountToUiAmount, <<"a">>, 0) EXCEPT !.size = 3]>>) >>,
    <<>> }

Fails == [failed |-> TRUE, len |-> 0, offset |-> 0, size |-> 0]
Number == [failed |-> FALSE, len |-> 32, offset |-> 0, size |-> 0]
Text   == [failed |-> FALSE, len |-> 96, offset |-> 32, size |-> 4]
Broken == [failed |-> FALSE, len |-> 96, offset |-> 64, size |-> 4]

Contract(address) ==
  [address |-> address, reverted |-> FALSE, type |-> "Create", initializes |-> FALSE,
   codeSize |-> 1000, caller |-> "user", decimals |-> Number, name |-> Text, symbol |-> Text]

MCEthBlocks ==
  LET c == Contract("c")
      d == Contract("d")
  IN { << >>, <<c>>,
       << [c EXCEPT !.reverted = TRUE], [d EXCEPT !.type = "Delegate"] >>,
       << [c EXCEPT !.codeSize = 150], [d EXCEPT !.type = "Call"] >>,
       << [c EXCEPT !.caller = "f1"], [d EXCEPT !.caller = "f2"] >>,
       << [c EXCEPT !.decimals = Fails], [d EXCEPT !.decimals = Text] >>,
       << [c EXCEPT !.name = Fails], [d EXCEPT !.symbol = Fails] >>,
       << [c EXCEPT !.symbol = Broken], d >>,
       << [d EXCEPT !.type = "Call", !.initializes = TRUE, !.codeSize = 0] >>,
       << [c EXCEPT !.name = Broken] >> }

=============================================================================
