------------------------------ MODULE BatchSave ------------------------------
(***************************************************************************)
(* store.BatchSave of graph-node/storage/postgres/postgres.go, as the      *)
(* stream loop of cli/exchange/graphnode.go drives it: one goroutine and   *)
(* one transaction per table, an error variable that all goroutines share, *)
(* and commits made one by one with the cursor's transaction last.  An     *)
(* error of a block is printed and the stream goes on with the next block; *)
(* a panic stops the process.  A process that starts again streams from    *)
(* its start block, over what is in the database: it reads no cursor and   *)
(* cleans nothing.                                                         *)
(*                                                                         *)
(* What a table holds is abstracted to the blocks whose rows are in it;    *)
(* GraphNodeSink has the rows, those of a block saved twice included.      *)
(***************************************************************************)
EXTENDS Integers, Sequences, FiniteSets

CONSTANTS
  Tables,       \* the entity tables
  MaxBlock,     \* bound: the stream sends the blocks 1 .. MaxBlock
  MaxFaults,    \* bound: database errors
  MaxCrashes    \* bound: crashes of the process, panics not counted

ASSUME SaveAssumption ==
  /\ MaxBlock \in Nat /\ MaxFaults \in Nat /\ MaxCrashes \in Nat
  /\ "cursor" \notin Tables    \* its table has no entities

VARIABLES
  withTransaction,  \* set when the store is made: not --pg-disable-transactions
  touched,      \* touched[b]: the tables block b updates
  stored,       \* stored[t]: the blocks whose rows are committed in t
  torn,         \* torn[t]: the blocks that closed versions of t, no more
  cursor,       \* the block of the committed cursor
  block,        \* the block being saved, or the last one that was
  pc,           \* where BatchSave is
  unlaunched,   \* tables the loop over updates has still to visit
  gpc,          \* gpc[t]: where the goroutine of t is
  tx,           \* tx[t]: what the transaction of t holds
  trxs,         \* the transactions to commit, in order
  err,          \* the named result err holds an error
  groupErr,     \* the error group holds an error
  skipped,      \* history: blocks whose last save returned an error
  everSkipped,  \* history: blocks of which some save did
  cut,          \* history: blocks whose save stopped short, not completed since
  restarted,    \* history: the program was started again
  faults, crashes

disk == <<stored, torn>>
history == <<skipped, everSkipped, cut, restarted>>
bounds == <<faults, crashes>>
given == <<withTransaction, touched>>
vars == <<given, disk, cursor, block, pc, unlaunched, gpc, tx, trxs, err, groupErr,
          history, bounds>>

Blocks == 1 .. MaxBlock
Cursor == "cursor"

-----------------------------------------------------------------------------
Init ==
  /\ withTransaction \in BOOLEAN
  /\ touched \in [Blocks -> SUBSET Tables]
  /\ stored = [t \in Tables |-> {}]
  /\ torn = [t \in Tables |-> {}]
  /\ cursor = 0
  /\ block = 0
  /\ pc = "idle"
  /\ unlaunched = {}
  /\ gpc = [t \in Tables |-> "none"]
  /\ tx = [t \in Tables |-> "none"]
  /\ trxs = <<>>
  /\ err = FALSE
  /\ groupErr = FALSE
  /\ skipped = {}
  /\ everSkipped = {}
  /\ cut = {}
  /\ restarted = FALSE
  /\ faults = 0
  /\ crashes = 0

Fault == faults < MaxFaults /\ faults' = faults + 1

(* The goroutines of the call and what their transactions held are gone.   *)
Forget ==
  /\ gpc' = [t \in Tables |-> "none"]
  /\ tx' = [t \in Tables |-> "none"]
  /\ unlaunched' = {}
  /\ trxs' = <<>>

(* What the block's save has written so far is visible when it stops here. *)
Exposed == pc = "commit" \/ (~withTransaction /\ pc # "idle")

(* The process ends in the middle of what it does.                         *)
Panic ==
  /\ Forget
  /\ pc' = "stopped"
  /\ cut' = IF Exposed THEN cut \cup {block} ELSE cut
  /\ UNCHANGED <<skipped, everSkipped, restarted>>

(* BatchSave returns an error; runLoadGraphnode prints it and goes on.     *)
ReturnError ==
  /\ Forget
  /\ pc' = "idle"
  /\ skipped' = skipped \cup {block}
  /\ everSkipped' = everSkipped \cup {block}
  /\ UNCHANGED <<cut, restarted>>

(* The loop of runLoadGraphnode receives the next block.  The context that *)
(* Flush hands to BatchSave is context.TODO(), which is never done.        *)
Receive ==
  /\ pc = "idle"
  /\ block < MaxBlock
  /\ block' = block + 1
  /\ pc' = "launch"
  /\ unlaunched' = touched[block + 1]
  /\ err' = FALSE
  /\ groupErr' = FALSE
  /\ UNCHANGED <<given, disk, cursor, gpc, tx, trxs, history, bounds>>

(* Slips the model can be made to take; none of them is the code.          *)
StopWithoutContinue == pc = "launch" /\ groupErr /\ UNCHANGED vars
Untracked(ts, t) == ts
CursorFirst(ts) == <<Cursor>> \o ts
BeforeFirst == 0 - 1
BlockItWasAt == block

(* An iteration of the loop over updates, without transactions.            *)
Launch(t) ==
  /\ pc = "launch" /\ t \in unlaunched /\ ~groupErr /\ ~withTransaction
  /\ unlaunched' = unlaunched \ {t}
  /\ gpc' = [gpc EXCEPT ![t] = "close"]
  /\ UNCHANGED <<given, disk, cursor, block, pc, tx, trxs, err, groupErr, history, bounds>>

(* With transactions BeginTxx comes first; its error goes into the shared  *)
(* err, and there is no transaction when it fails.                         *)
BeginTxx(t, transaction) ==
  /\ pc = "launch" /\ t \in unlaunched /\ ~groupErr /\ withTransaction
  /\ pc' = "begin"
  /\ unlaunched' = unlaunched \ {t}
  /\ gpc' = [gpc EXCEPT ![t] = "begin"]
  /\ tx' = [tx EXCEPT ![t] = transaction]
  /\ err' = (transaction = "nil")
  /\ UNCHANGED <<given, disk, cursor, block, trxs, groupErr, history, crashes>>

Begin(t) == BeginTxx(t, "begun") /\ UNCHANGED faults
BeginFails(t) == BeginTxx(t, "nil") /\ Fault

(* err is read again, and a goroutine may have written it meanwhile: a     *)
(* failed begin can go unnoticed, and the nil transaction is used.         *)
WithTrx(ts, t) == Append(ts, t)

BeginTested(t) ==
  /\ pc = "begin" /\ gpc[t] = "begin" /\ ~err
  /\ pc' = "launch"
  /\ gpc' = [gpc EXCEPT ![t] = "close"]
  /\ trxs' = WithTrx(trxs, t)
  /\ cut' = IF tx[t] = "nil" THEN cut \cup {block} ELSE cut
  /\ UNCHANGED <<given, disk, cursor, block, unlaunched, tx, err, groupErr,
                 skipped, everSkipped, restarted, bounds>>

(* BatchSave returns at once, for an error of BeginTxx or of a goroutine;  *)
(* its deferred cancelSave rolls the begun transactions back under the     *)
(* running goroutines.                                                     *)
BeginSeesError ==
  /\ pc = "begin" /\ err
  /\ ReturnError
  /\ UNCHANGED <<given, disk, cursor, block, err, groupErr, bounds>>

(* eg.Stop(): the rest of the tables is skipped.                           *)
StopLaunching ==
  /\ pc = "launch" /\ groupErr
  /\ unlaunched' = {}
  /\ UNCHANGED <<given, disk, cursor, block, pc, gpc, tx, trxs, err, groupErr, history, bounds>>

Launched ==
  /\ pc = "launch" /\ unlaunched = {}
  /\ pc' = "wait"
  /\ UNCHANGED <<given, disk, cursor, block, unlaunched, gpc, tx, trxs, err, groupErr,
                 history, bounds>>

-----------------------------------------------------------------------------
(* batchSave in the goroutine of table t.  A nil transaction, like none,   *)
(* leaves its statements to the database itself.                           *)
Direct(t) == tx[t] \in {"none", "nil"}

(* UpdateBlockRange closes the replaced versions.                          *)
CloseRows(t) ==
  /\ gpc[t] = "close"
  /\ gpc' = [gpc EXCEPT ![t] = "insert"]
  /\ IF Direct(t)
     THEN /\ torn' = [torn EXCEPT ![t] = @ \cup {block}]
          /\ UNCHANGED <<stored, tx>>
     ELSE tx' = [tx EXCEPT ![t] = "closed"] /\ UNCHANGED disk
  /\ UNCHANGED <<given, cursor, block, pc, unlaunched, trxs, err, groupErr, history, bounds>>

(* The INSERT; batchSave returns nil and the goroutine assigns it to err.  *)
InsertRows(t) ==
  /\ gpc[t] = "insert"
  /\ gpc' = [gpc EXCEPT ![t] = "check"]
  /\ err' = FALSE
  /\ IF Direct(t)
     THEN /\ torn' = [torn EXCEPT ![t] = @ \ {block}]
          /\ stored' = [stored EXCEPT ![t] = @ \cup {block}]
          /\ UNCHANGED tx
     ELSE tx' = [tx EXCEPT ![t] = "written"] /\ UNCHANGED disk
  /\ UNCHANGED <<given, cursor, block, pc, unlaunched, trxs, groupErr, history, bounds>>

(* A statement fails: Postgres aborts its transaction, if there is one,    *)
(* and the goroutine assigns the error to err.                             *)
StatementFails(t) ==
  /\ gpc[t] \in {"close", "insert"}
  /\ Fault
  /\ gpc' = [gpc EXCEPT ![t] = "check"]
  /\ err' = TRUE
  /\ tx' = IF Direct(t) THEN tx ELSE [tx EXCEPT ![t] = "aborted"]
  /\ UNCHANGED <<given, disk, cursor, block, pc, unlaunched, trxs, groupErr, history, crashes>>

(* "if err != nil": the goroutine reads the variable again, whoever wrote  *)
(* it last.                                                                *)
SeesError == err

CheckErr(t) ==
  /\ gpc[t] = "check"
  /\ gpc' = [gpc EXCEPT ![t] = "ended"]
  /\ groupErr' = (groupErr \/ SeesError)
  /\ UNCHANGED <<given, disk, cursor, block, pc, unlaunched, tx, trxs, err, history, bounds>>

-----------------------------------------------------------------------------
AllEnded == \A t \in Tables : gpc[t] \in {"none", "ended"}

Waits(t) == \E i \in DOMAIN trxs : trxs[i] = t
HasNil == \E t \in Tables : tx[t] = "nil" /\ Waits(t)

(* rollback: all transactions are rolled back; a nil one is dereferenced.  *)
RollBack == IF HasNil THEN Panic ELSE ReturnError

(* eg.Wait() returns an error.                                             *)
Rollback ==
  /\ pc = "wait" /\ AllEnded /\ groupErr
  /\ RollBack
  /\ UNCHANGED <<given, disk, cursor, block, err, groupErr, bounds>>

(* depTx, which stays empty, and curTx are begun and the cursor is written *)
(* in curTx, to be committed last.                                         *)
WithCursor(ts) == Append(ts, Cursor)

WriteCursor ==
  /\ pc = "wait" /\ AllEnded /\ ~groupErr
  /\ pc' = "commit"
  /\ trxs' = WithCursor(trxs)
  /\ UNCHANGED <<given, disk, cursor, block, unlaunched, gpc, tx, err, groupErr,
                 history, bounds>>

WriteCursorFails ==
  /\ pc = "wait" /\ AllEnded /\ ~groupErr
  /\ Fault
  /\ RollBack
  /\ UNCHANGED <<given, disk, cursor, block, err, groupErr, crashes>>

(* A transaction cannot be rolled back: the logger panics.                 *)
RollbackFails ==
  /\ pc = "wait" /\ AllEnded /\ groupErr /\ trxs # <<>>
  /\ Fault
  /\ Panic
  /\ UNCHANGED <<given, disk, cursor, block, err, groupErr, crashes>>

(* mustCommit: the next transaction of trxs.  A table of a block that was  *)
(* cut short before is whole now.                                          *)
Commit(t) ==
  /\ pc = "commit" /\ trxs # <<>> /\ Head(trxs) = t /\ t # Cursor
  /\ tx[t] = "written"
  /\ trxs' = Tail(trxs)
  /\ stored' = [stored EXCEPT ![t] = @ \cup {block}]
  /\ torn' = [torn EXCEPT ![t] = @ \ {block}]
  /\ UNCHANGED <<given, cursor, block, pc, unlaunched, gpc, tx, err, groupErr,
                 history, bounds>>

CommitCursor ==
  /\ pc = "commit" /\ trxs # <<>> /\ Head(trxs) = Cursor
  /\ trxs' = Tail(trxs)
  /\ cursor' = block
  /\ skipped' = skipped \ {block}
  /\ cut' = cut \ {block}
  /\ UNCHANGED <<given, disk, block, pc, unlaunched, gpc, tx, err, groupErr, everSkipped,
                 restarted, bounds>>

(* BatchSave returns nil.                                                  *)
SaveReturns ==
  /\ pc = "commit" /\ trxs = <<>>
  /\ pc' = "idle"
  /\ Forget
  /\ UNCHANGED <<given, disk, cursor, block, err, groupErr, history, bounds>>

(* Postgres does not commit an aborted transaction, and a nil one cannot   *)
(* be: mustCommit panics, the transactions before it stay committed.       *)
CommitAborted ==
  /\ pc = "commit" /\ trxs # <<>> /\ Head(trxs) # Cursor
  /\ tx[Head(trxs)] \in {"aborted", "nil"}
  /\ Panic
  /\ UNCHANGED <<given, disk, cursor, block, err, groupErr, bounds>>

CommitFails ==
  /\ pc = "commit" /\ trxs # <<>>
  /\ Fault
  /\ Panic
  /\ UNCHANGED <<given, disk, cursor, block, err, groupErr, crashes>>

Crash ==
  /\ pc # "stopped" /\ crashes < MaxCrashes
  /\ crashes' = crashes + 1
  /\ Panic
  /\ UNCHANGED <<given, disk, cursor, block, err, groupErr, faults>>

(* The request says StartBlockNum is --start-block, whatever the cursor:   *)
(* the first block of the stream comes next.                               *)
BeforeStart == 0

Restart ==
  /\ pc = "stopped"
  /\ block' = BeforeStart
  /\ pc' = "idle"
  /\ restarted' = TRUE
  /\ UNCHANGED <<given, disk, cursor, unlaunched, gpc, tx, trxs, err, groupErr,
                 skipped, everSkipped, cut, bounds>>

(* The stream's stop block is reached and the program ends.                *)
Finished == pc = "idle" /\ block = MaxBlock /\ UNCHANGED vars

MainStep ==
  \/ Receive \/ BeginSeesError \/ StopLaunching \/ Launched
  \/ Rollback \/ WriteCursor \/ CommitCursor \/ SaveReturns \/ CommitAborted \/ Restart
  \/ \E t \in Tables : Launch(t) \/ Begin(t) \/ BeginTested(t) \/ Commit(t)
GoroutineStep(t) == CloseRows(t) \/ InsertRows(t) \/ CheckErr(t)
Failure ==
  \/ WriteCursorFails \/ RollbackFails \/ CommitFails \/ Crash
  \/ \E t \in Tables : BeginFails(t) \/ StatementFails(t)

Next ==
  \/ MainStep
  \/ \E t \in Tables : GoroutineStep(t)
  \/ Failure
  \/ Finished

(* Goroutines run when they can, statements answer, and whoever operates   *)
(* the program starts it again.                                            *)
Fairness == WF_vars(MainStep) /\ \A t \in Tables : WF_vars(GoroutineStep(t))

Spec == Init /\ [][Next]_vars /\ Fairness

-----------------------------------------------------------------------------
(* The variables keep the shape of their declarations.                     *)
TypeOK ==
  /\ withTransaction \in BOOLEAN
  /\ touched \in [Blocks -> SUBSET Tables]
  /\ stored \in [Tables -> SUBSET Blocks]
  /\ torn \in [Tables -> SUBSET Blocks]
  /\ cursor \in 0 .. MaxBlock
  /\ block \in 0 .. MaxBlock
  /\ pc \in {"idle", "launch", "begin", "wait", "commit", "stopped"}
  /\ unlaunched \in SUBSET Tables
  /\ gpc \in [Tables -> {"none", "begin", "close", "insert", "check", "ended"}]
  /\ tx \in [Tables -> {"none", "nil", "begun", "closed", "written", "aborted"}]
  /\ trxs \in Seq(Tables \cup {Cursor})
  /\ err \in BOOLEAN
  /\ groupErr \in BOOLEAN
  /\ skipped \in SUBSET Blocks /\ everSkipped \in SUBSET Blocks /\ cut \in SUBSET Blocks
  /\ restarted \in BOOLEAN
  /\ faults \in 0 .. MaxFaults
  /\ crashes \in 0 .. MaxCrashes

(* "The save operation must complete fully" (postgres.go:217): a block of  *)
(* this process whose save reported no error has its rows committed in all *)
(* its tables, and no table is left with versions only closed.  The same   *)
(* rows are there for every block up to the cursor whose saves never       *)
(* reported an error, also while a process that was started again goes     *)
(* over the blocks once more.                                              *)
Saved == {b \in Blocks \ skipped : b < block \/ (b = block /\ pc = "idle")}
SaveCompletes ==
  /\ \A b \in Saved : \A t \in touched[b] : b \in stored[t] /\ b \notin torn[t]
  /\ \A b \in Blocks \ everSkipped :
       b <= cursor => \A t \in touched[b] : b \in stored[t]

(* With transactions it does, through errors and crashes alike: when the   *)
(* shared err loses an error, Postgres has aborted the transaction, or     *)
(* there is none, and mustCommit panics.  Without transactions it takes a  *)
(* database error to break it; crashes alone do not.                       *)
ErrorMayBeLost == ~withTransaction /\ faults > 0
SaveCompletesUnlessErrorLost == ErrorMayBeLost \/ SaveCompletes

(* Between blocks every block is in all its tables or in none: what a      *)
(* failed save leaves behind is rolled back (postgres.go:262-292).  Only a *)
(* process that dies between two commits (or anywhere, without             *)
(* transactions) and a begin whose error is lost leave a part of a block,  *)
(* and the part stays only until the stream, from its start, is past that  *)
(* block again: then its rows are complete.                                *)
PartlyStored(b) ==
  \/ \E t \in Tables : b \in torn[t]
  \/ \E t, u \in touched[b] : b \in stored[t] /\ b \notin stored[u]
AllOrNothing ==
  (pc = "idle" /\ ~ErrorMayBeLost) =>
    \A b \in Blocks : PartlyStored(b) => b \in cut /\ (b > block \/ b \in skipped)

(* A reader at the cursor sees blocks appear whole, each at the step that  *)
(* moves the cursor to it, and none disappears before the program is       *)
(* started again and the cursor goes back.                                 *)
Readable == {b \in Blocks : b <= cursor /\ touched[b] # {} /\ \A t \in touched[b] : b \in stored[t]}
ReaderSeesWholeBlocks ==
  [][/\ restarted \/ Readable \subseteq Readable'
     /\ ErrorMayBeLost \/ (Readable' \ Readable) \ everSkipped' \subseteq {cursor'} \ {cursor}]_vars

(* No goroutine, error or panic blocks the stream for ever: the last block *)
(* is reached and answered.                                                *)
StreamFinishes == <>[](pc = "idle" /\ block = MaxBlock)
=============================================================================
