----------------------------- MODULE SplTokens -----------------------------
(***************************************************************************)
(* The substreams of SPL token transfers (sol-spl-tokens): mints and token *)
(* accounts are kept in stores, transfers are resolved against them, and   *)
(* the volumes of a mint are added up.  All writes are at ordinal 0.       *)
(*                                                                         *)
(* A block is a sequence of transactions [failed, insts]; an instruction   *)
(* is [ours, tag, size, option, authority, text, accounts, amount,         *)
(* decimals, inner]: whether it is of the token program, its first byte,   *)
(* the number of bytes after it, what else unpack looks at, and the        *)
(* instructions it runs itself, which no handler looks at.                 *)
(***************************************************************************)
EXTENDS Integers, Sequences, SequencesExt, SubstreamsStore, Decimals

CONSTANTS
  SplBlocks,    \* bound: what a block may contain
  SplMaxBlocks  \* bound: the number of blocks

ASSUME SplAssumption ==
  /\ SplMaxBlocks \in Nat
  /\ \A b \in SplBlocks :
       /\ b \in Seq(ToSet(b))
       /\ \A i \in DOMAIN b :
            /\ b[i].insts \in Seq(ToSet(b[i].insts))
            /\ \A inst \in ToSet(b[i].insts) : inst.inner \in Seq(ToSet(inst.inner))

VARIABLES
  splNumber,      \* the number of blocks so far
  splBlock,       \* the current block
  splStage,       \* the handler that runs next, or "idle"
  splError,       \* how unpack ended when it did not succeed, or "none"
  mints, accounts, transfers,            \* the outputs of the three maps
  mintStore, accountStore,               \* the stores of mints and accounts
  nativeVolumes, decimalVolumes,         \* the stores of volumes
  holding,        \* the chain: the mint of each token account, and of each mint itself
  moved,          \* history: the transfers of the block as the chain made them
  hidden,         \* history: accounts and mints an inner instruction ever initialised
  transferLog     \* history: all transfers of map_transfers

splVars == <<splNumber, splBlock, splStage, splError, mints, accounts, transfers, mintStore,
             accountStore, nativeVolumes, decimalVolumes, holding, moved, hidden, transferLog>>

-----------------------------------------------------------------------------
(* The first byte of an instruction: the variants of TokenInstruction.     *)
InitializeMint == 0
InitializeAccount == 1
InitializeMultisig == 2
Transfer == 3
Approve == 4
Revoke == 5
SetAuthority == 6
MintTo == 7
Burn == 8
CloseAccount == 9
FreezeAccount == 10
ThawAccount == 11
TransferChecked == 12
ApproveChecked == 13
MintToChecked == 14
BurnChecked == 15
InitializeAccount2 == 16
SyncNative == 17
InitializeAccount3 == 18
InitializeMultisig2 == 19
InitializeMint2 == 20
GetAccountDataSize == 21
InitializeImmutableOwner == 22
AmountToUiAmount == 23
UiAmountToAmount == 24

InitMintTags == {InitializeMint, InitializeMint2}
InitAccountTags == {InitializeAccount, InitializeAccount2, InitializeAccount3}
TransferTags == {Transfer, TransferChecked}
AmountTags == {Transfer, Approve, MintTo, Burn}
CheckedTags == {TransferChecked, ApproveChecked, MintToChecked, BurnChecked}
AuthorityTypes == 0 .. 3   \* mint tokens, freeze, account owner, close

SplInit ==
  /\ splNumber = 0
  /\ splBlock = <<>>
  /\ splStage = "idle"
  /\ splError = "none"
  /\ mints = <<>> /\ accounts = <<>> /\ transfers = <<>>
  /\ mintStore = EmptyStore /\ accountStore = EmptyStore
  /\ nativeVolumes = EmptyStore /\ decimalVolumes = EmptyStore
  /\ holding = <<>>
  /\ moved = <<>>
  /\ hidden = {}
  /\ transferLog = <<>>

-----------------------------------------------------------------------------
(* Slips of the code the model can be made to take.                        *)
CommittedWithFailed(x) == TRUE
DecimalAmountUnscaled(amount, decimals) == Fraction(amount, 1)

(* unpack: 32 bytes are a public key, 8 an amount; an option is one byte   *)
(* and a key if that byte is 1.  split_at(8) panics on shorter data.       *)
OptionOk(inst, before) ==
  /\ inst.size > before
  /\ \/ inst.option = 0
     \/ inst.option = 1 /\ inst.size >= before + 33

Unpack(inst) ==
  LET short(n) == inst.size < n
      wellFormed ==
        CASE inst.tag \in InitMintTags -> ~short(33) /\ OptionOk(inst, 33)
          [] inst.tag \in {InitializeMultisig, InitializeMultisig2} -> ~short(1)
          [] inst.tag \in AmountTags -> ~short(8)
          [] inst.tag = SetAuthority ->
               ~short(1) /\ inst.authority \in AuthorityTypes /\ OptionOk(inst, 1)
          [] inst.tag \in CheckedTags -> ~short(9)
          [] inst.tag \in {InitializeAccount2, InitializeAccount3} -> ~short(32)
          [] inst.tag = UiAmountToAmount -> inst.text
          [] OTHER -> inst.tag \in 0 .. UiAmountToAmount
  IN IF inst.tag \in CheckedTags \cup {AmountToUiAmount} /\ short(8) THEN "panic"
     ELSE IF wellFormed THEN "ok" ELSE "err"

(* The instructions of a block in the order the loops visit them; a        *)
(* handler looks at those of the token program in transactions that did    *)
(* not fail.                                                               *)
Instructions(block) ==
  FlattenSeq([i \in DOMAIN block |->
    [j \in DOMAIN block[i].insts |->
       [trx |-> i, failed |-> block[i].failed, inst |-> block[i].insts[j]]]])
Committed(x) == ~x.failed
Handled == Where(Instructions(splBlock), LAMBDA x : Committed(x) /\ x.inst.ours)
HandledOf(tags) == Where(Handled, LAMBDA x : x.inst.tag \in tags)

-----------------------------------------------------------------------------
(* What the chain does with an instruction, and whether it can: run is     *)
(* [holding, moved, hidden, ok].  top says that no program called it.  A   *)
(* mint holds itself; only token accounts send, receive and are closed.    *)
IsMint(held, address) == address \in DOMAIN held /\ held[address] = address
IsTokenAccount(held, address) == address \in DOMAIN held /\ held[address] # address

Begin(run, top, address, mint) ==
  [holding |-> [a \in DOMAIN run.holding \cup {address} |->
                  IF a = address THEN mint ELSE run.holding[a]],
   moved |-> run.moved,
   hidden |-> IF top THEN run.hidden ELSE run.hidden \cup {address},
   ok |-> run.ok /\ address \notin DOMAIN run.holding]

Execute(run, inst, top) ==
  LET held == run.holding
      first == inst.accounts[1]
      last == Last(inst.accounts)
  IN CASE inst.tag \in InitMintTags -> Begin(run, top, first, first)
       [] inst.tag \in InitAccountTags ->
            [Begin(run, top, first, inst.accounts[2]) EXCEPT
               !.ok = @ /\ IsMint(held, inst.accounts[2])]
       [] inst.tag = CloseAccount ->
            [run EXCEPT !.holding = [a \in DOMAIN @ \ {first} |-> @[a]],
                        !.ok = @ /\ IsTokenAccount(held, first)]
       [] inst.tag \in TransferTags ->
            [run EXCEPT !.moved = IF top /\ first \in DOMAIN held
                                  THEN Append(@, [from |-> first, amount |-> inst.amount,
                                                  mint |-> held[first],
                                                  checked |-> inst.tag = TransferChecked])
                                  ELSE @,
                        !.ok = @ /\ IsTokenAccount(held, first) /\ IsTokenAccount(held, last)
                                 /\ held[last] = held[first]
                                 /\ (inst.tag = TransferChecked => inst.accounts[2] = held[first])]
       [] OTHER -> run

RunInner(run, inst) == Execute(run, inst, FALSE)
RunInst(run, x) ==
  IF x.failed THEN run
  ELSE FoldLeft(RunInner, IF x.inst.ours THEN Execute(run, x.inst, TRUE) ELSE run, x.inst.inner)
RunBlock(block) ==
  FoldLeft(RunInst, [holding |-> holding, moved |-> <<>>, hidden |-> hidden, ok |-> TRUE],
           Instructions(block))

ProduceSplBlock ==
  /\ splStage = "idle"
  /\ splNumber < SplMaxBlocks
  /\ \E b \in SplBlocks :
       LET run == RunBlock(b) IN
       /\ run.ok
       /\ splBlock' = b
       /\ holding' = run.holding
       /\ moved' = run.moved
       /\ hidden' = run.hidden
  /\ splNumber' = splNumber + 1
  /\ splStage' = "map_mints"
  /\ UNCHANGED <<splError, mints, accounts, transfers, mintStore, accountStore, nativeVolumes,
                 decimalVolumes, transferLog>>

SplAt(handler) == splStage = handler /\ splError = "none"
SplThen(handler) ==
  /\ splStage' = handler
  /\ UNCHANGED <<splNumber, splBlock, splError, holding, moved, hidden>>

(* The "?" of each map: one instruction that does not unpack fails it, and *)
(* with it the request.                                                    *)
FailedUnpacks == {x.inst : x \in {y \in ToSet(Handled) : Unpack(y.inst) # "ok"}}

UnpackFails ==
  /\ splStage \in {"map_mints", "map_accounts", "map_transfers"}
  /\ splError = "none"
  /\ \E inst \in FailedUnpacks : splError' = Unpack(inst)
  /\ UNCHANGED <<splNumber, splBlock, splStage, mints, accounts, transfers, mintStore,
                 accountStore, nativeVolumes, decimalVolumes, holding, moved, hidden, transferLog>>

(* get_mint and get_account; authorities and owners are left out.          *)
NewMint(inst) == [address |-> inst.accounts[1], decimals |-> inst.decimals]
NewAccount(inst) == [address |-> inst.accounts[1], mint |-> inst.accounts[2]]

(* The decimals of a mint are a byte, an amount is an unsigned number.     *)
ASSUME RecordsAssumption ==
  \A b \in SplBlocks : \A x \in ToSet(Instructions(b)) :
    /\ x.inst.tag \in InitMintTags =>
         NewMint(x.inst) # Absent /\ 10 ^ x.inst.decimals \in Nat \ {0}
    /\ x.inst.tag \in InitAccountTags => NewAccount(x.inst) # Absent
    /\ x.inst.tag \in TransferTags => x.inst.amount \in Nat

MapMints ==
  /\ SplAt("map_mints")
  /\ FailedUnpacks = {}
  /\ LET found == HandledOf(InitMintTags) IN
     mints' = [i \in DOMAIN found |-> NewMint(found[i].inst)]
  /\ SplThen("store_mints")
  /\ UNCHANGED <<accounts, transfers, mintStore, accountStore, nativeVolumes, decimalVolumes,
                 transferLog>>

MintKey(address) == <<"mint", address>>
AccountKey(address) == <<"account", address>>
NativeMintVolume(mint) == <<"volume", mint, "native">>
DecimalMintVolume(mint) == <<"volume", mint, "dec">>
GetMint(address) == GetLast(mintStore, MintKey(address))
GetAccount(address) == GetLast(accountStore, AccountKey(address))

StoreMints ==
  /\ SplAt("store_mints")
  /\ mintStore' = PutAll(NextBlock(mintStore),
                         [i \in DOMAIN mints |-> <<0, MintKey(mints[i].address), mints[i]>>])
  /\ SplThen("map_accounts")
  /\ UNCHANGED <<mints, accounts, transfers, accountStore, nativeVolumes, decimalVolumes,
                 transferLog>>

MapAccounts ==
  /\ SplAt("map_accounts")
  /\ FailedUnpacks = {}
  /\ LET found == HandledOf(InitAccountTags) IN
     accounts' = [i \in DOMAIN found |-> NewAccount(found[i].inst)]
  /\ SplThen("store_accounts")
  /\ UNCHANGED <<mints, transfers, mintStore, accountStore, nativeVolumes, decimalVolumes,
                 transferLog>>

WriteAccountsIfNew(store) ==
  FoldLeft(LAMBDA s, a : SetIfNotExists(s, 0, AccountKey(a.address), a), store, accounts)

WriteAccounts(store) ==
  PutAll(store, [i \in DOMAIN accounts |-> <<0, AccountKey(accounts[i].address), accounts[i]>>])

StoreAccounts ==
  /\ SplAt("store_accounts")
  /\ accountStore' = WriteAccounts(NextBlock(accountStore))
  /\ SplThen("map_transfers")
  /\ UNCHANGED <<mints, accounts, transfers, mintStore, nativeVolumes, decimalVolumes,
                 transferLog>>

-----------------------------------------------------------------------------
(* Any other instruction has no sender; the account with the empty name is *)
(* looked up and not found, and it is skipped like a transfer whose        *)
(* account is not known.                                                   *)
Sender(inst) == IF inst.tag \in TransferTags THEN inst.accounts[1] ELSE Absent

MintOf(inst) ==
  IF inst.tag = TransferChecked THEN inst.accounts[2]
  ELSE IF GetAccount(Sender(inst)) = Absent THEN Absent
  ELSE GetAccount(Sender(inst)).mint

ResolvedWithSender(inst) ==
  Has(mintStore, MintKey(MintOf(inst))) /\ Has(accountStore, AccountKey(Sender(inst)))

Resolved(inst) == GetMint(MintOf(inst)) # Absent

ConvertTokenToDecimal(amount, decimals) == Fraction(amount, 10 ^ decimals)

(* at is a mark of the model: which of the block's transfers it was.       *)
MapTransfers ==
  /\ SplAt("map_transfers")
  /\ FailedUnpacks = {}
  /\ LET sent == HandledOf(TransferTags)
         each(i) ==
           LET inst == sent[i].inst IN
           IF ~Resolved(inst) THEN <<>>
           ELSE << [trx |-> <<splNumber, sent[i].trx>>, at |-> i, from |-> Sender(inst),
                    to |-> Last(inst.accounts), mint |-> MintOf(inst), native |-> inst.amount,
                    amount |-> ConvertTokenToDecimal(inst.amount,
                                                     GetMint(MintOf(inst)).decimals)] >>
         found == FlattenSeq([i \in DOMAIN sent |-> each(i)])
     IN /\ transfers' = found
        /\ transferLog' = transferLog \o found
  /\ SplThen("store_mint_volumes")
  /\ UNCHANGED <<mints, accounts, mintStore, accountStore, nativeVolumes, decimalVolumes>>

StoreMintVolumes ==
  /\ SplAt("store_mint_volumes")
  /\ nativeVolumes' =
       AddAll(NextBlock(nativeVolumes),
              [i \in DOMAIN transfers |->
                 <<0, NativeMintVolume(transfers[i].mint), transfers[i].native>>], "bigint")
  /\ decimalVolumes' =
       AddAll(NextBlock(decimalVolumes),
              [i \in DOMAIN transfers |->
                 <<0, DecimalMintVolume(transfers[i].mint), transfers[i].amount>>], "bigfloat")
  /\ SplThen("idle")
  /\ UNCHANGED <<mints, accounts, transfers, mintStore, accountStore, transferLog>>

SplNext ==
  \/ ProduceSplBlock
  \/ UnpackFails
  \/ MapMints
  \/ StoreMints
  \/ MapAccounts
  \/ StoreAccounts
  \/ MapTransfers
  \/ StoreMintVolumes

-----------------------------------------------------------------------------
Mapped == splStage \in {"store_mint_volumes", "idle"} /\ splError = "none"

(* A transfer is booked for the mint the sender's account had when it was  *)
(* made (lib.rs:139-215) - unless the account was initialised again later  *)
(* in the block, because the store already has the end of the block, or an *)
(* inner instruction initialised it, which no map sees.                    *)
TransfersOfTheRightMint ==
  Mapped =>
    \A t \in ToSet(transfers) :
      \/ t.at \in DOMAIN moved /\ t.mint = moved[t.at].mint
      \/ t.from \in hidden
      \/ \E a \in ToSet(accounts) : a.address = t.from /\ a.mint = t.mint

(* The transfers of the block's own instructions all come out, with their  *)
(* amounts.  One is skipped only when its mint was initialised by an inner *)
(* instruction, or its account was and the transfer does not name the mint *)
(* (lib.rs:191-206).                                                       *)
SkippedTransfersExplained ==
  Mapped =>
    \A i \in DOMAIN moved :
      \/ \E t \in ToSet(transfers) :
           t.at = i /\ t.from = moved[i].from /\ t.native = moved[i].amount
      \/ moved[i].mint \in hidden
      \/ ~moved[i].checked /\ moved[i].from \in hidden
      \/ \E a \in ToSet(accounts) : a.address = moved[i].from /\ a.mint \in hidden

(* Between two blocks the stores know every mint and every open account of *)
(* the chain as it is, an account that was closed and initialised again    *)
(* included, except for what inner instructions did (lib.rs:73-148).       *)
StoresMatchChain ==
  splStage = "idle" =>
    \A a \in DOMAIN holding \ hidden :
      IF holding[a] = a THEN Has(mintStore, MintKey(a))
      ELSE Has(accountStore, AccountKey(a)) /\ accountStore.kv[AccountKey(a)].mint = holding[a]

(* Both stores of volumes count every transfer once, the one in units of   *)
(* the other times a power of ten (lib.rs:218-242).                        *)
VolumesAgree ==
  splStage = "idle" =>
    \A m \in {t.mint : t \in ToSet(transferLog)} :
      LET units == FoldLeft(LAMBDA sum, n : sum + n, 0,
                            [i \in DOMAIN transferLog |->
                               IF transferLog[i].mint = m THEN transferLog[i].native ELSE 0])
      IN /\ GetLast(nativeVolumes, NativeMintVolume(m)) = units
         /\ GetLast(decimalVolumes, DecimalMintVolume(m))
              = Fraction(units, 10 ^ GetMint(m).decimals)

=============================================================================
