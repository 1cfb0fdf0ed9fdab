--------------------------- MODULE BatchSaveProofs ---------------------------
(***************************************************************************)
(* Theorems about BatchSave: what a save promises under database errors,   *)
(* panics, crashes and starts from the first block, for any tables, any    *)
(* number of blocks and any number of faults.                              *)
(***************************************************************************)
EXTENDS BatchSave, SequenceTheorems, TLAPS

Working == {"launch", "begin", "wait", "commit"}

(* Nothing of a call survives it.                                          *)
QuietInv ==
  pc \notin Working =>
    /\ unlaunched = {} /\ trxs = <<>>
    /\ \A t \in Tables : gpc[t] = "none" /\ tx[t] = "none"

(* A table of the block is launched, or still to be, unless an error was   *)
(* seen; none is launched twice, and no other is.                          *)
CallInv ==
  pc \in Working =>
    /\ block \in Blocks
    /\ pc \notin {"launch", "begin"} => unlaunched = {}
    /\ pc = "begin" => withTransaction
    /\ pc = "commit" => AllEnded /\ ~groupErr
    /\ \A t \in unlaunched : t \in touched[block] /\ gpc[t] = "none"
    /\ \A t \in Tables : gpc[t] # "none" => t \in touched[block]
    /\ \A t \in Tables : gpc[t] = "begin" => pc = "begin"
    /\ \A t, u \in Tables : gpc[t] = "begin" /\ gpc[u] = "begin" => t = u
    /\ ~groupErr => \A t \in touched[block] \ unlaunched : gpc[t] # "none"

(* A goroutine that has ended left its transaction written or aborted; a   *)
(* block that goes on without one counts as cut short.                     *)
TxInv ==
  IF withTransaction
  THEN \A t \in Tables :
         /\ tx[t] = "none" <=> gpc[t] = "none"
         /\ gpc[t] \in {"check", "ended"} => tx[t] \in {"written", "aborted", "nil"}
         /\ tx[t] = "nil" /\ gpc[t] # "begin" => block \in cut
  ELSE \A t \in Tables : tx[t] = "none" /\ gpc[t] # "begin"

(* Only a table that a block updates can be left with its versions closed. *)
TornInv == \A t \in Tables : \A b \in torn[t] : t \in touched[b]

(* Every transaction in use is committed or waits to be, and the cursor's  *)
(* is the last.                                                            *)
StoredWell(t, b) == b \in stored[t] /\ b \notin torn[t]
TrxInv ==
  /\ pc # "commit" => trxs \in Seq(Tables)
  /\ pc = "commit" => \A i \in 1 .. Len(trxs) : trxs[i] = Cursor <=> i = Len(trxs)
  /\ \A t \in Tables :
       tx[t] # "none" /\ gpc[t] # "begin" =>
         Waits(t) \/ (pc = "commit" /\ tx[t] = "written" /\ StoredWell(t, block))

(* Until the program is started again the cursor is not ahead of the       *)
(* stream; it never is behind a block that was saved.                      *)
AllCommitted == pc = "commit" /\ trxs = <<>>
Done(b) == b < block \/ (b = block /\ (pc = "idle" \/ AllCommitted))
OrderInv ==
  /\ skipped \subseteq everSkipped
  /\ ~restarted => cursor <= block
  /\ AllCommitted => block \notin skipped
  /\ \A b \in Blocks \ skipped : Done(b) => b <= cursor

(* Without transactions and without errors, where a goroutine is tells     *)
(* what its table holds.                                                   *)
PlainInv ==
  ~withTransaction /\ faults = 0 =>
    /\ ~err /\ ~groupErr
    /\ pc \in Working =>
         \A t \in Tables : gpc[t] \in {"check", "ended"} => StoredWell(t, block)

(* A block of this process that was not skipped is whole.                  *)
Whole(b) == \A t \in Tables : b \notin torn[t] /\ (t \in touched[b] => b \in stored[t])
WholeInv == ~ErrorMayBeLost => \A b \in Blocks \ skipped : Done(b) => Whole(b)

(* The rows of a block that never was stay behind the cursor.              *)
BehindInv ==
  ~ErrorMayBeLost =>
    \A b \in Blocks \ everSkipped :
      b <= cursor => \A t \in Tables : t \in touched[b] => b \in stored[t]

(* Only a save that was cut short left a part of a block, unless it is     *)
(* under way.                                                              *)
InFlight(b) == b = block /\ Exposed /\ pc # "stopped"
CutInv ==
  ~ErrorMayBeLost =>
    \A b \in Blocks : b \notin cut /\ ~InFlight(b) => ~PartlyStored(b)

(* SaveCompletesUnlessErrorLost and AllOrNothing speak of the end of a     *)
(* save; the other parts say where it stands meanwhile.                    *)
CallPart == QuietInv /\ CallInv /\ TxInv /\ TrxInv /\ PlainInv
DiskPart == TornInv /\ OrderInv /\ WholeInv /\ BehindInv /\ CutInv
IInv == TypeOK /\ CallPart /\ DiskPart

-----------------------------------------------------------------------------
(* Append adds its element, Tail loses the head at most.                   *)
LEMMA AppendAdds ==
  ASSUME NEW S, NEW s \in Seq(S), NEW e \in S
  PROVE  Range(Append(s, e)) = Range(s) \cup {e}
<1> DEFINE a == Append(s, e)
<1>1. a \in Seq(S) /\ Len(a) = Len(s) + 1
  BY AppendProperties
<1>2. a[Len(s) + 1] = e /\ \A i \in 1 .. Len(s) : a[i] = s[i]
  BY AppendProperties
<1>3. Len(s) \in Nat /\ DOMAIN s = 1 .. Len(s) /\ DOMAIN a = 1 .. Len(a)
  BY <1>1, LenProperties
<1> HIDE DEF a
<1>4. DOMAIN a = DOMAIN s \cup {Len(s) + 1}
  BY <1>1, <1>3
<1>5. Range(a) = {a[i] : i \in DOMAIN s} \cup {a[Len(s) + 1]}
  BY <1>4 DEF Range
<1>6. {a[i] : i \in DOMAIN s} = {s[i] : i \in DOMAIN s}
  BY <1>2, <1>3
<1>7. Range(a) = Range(s) \cup {e}
  BY <1>2, <1>5, <1>6 DEF Range
<1> QED
  BY <1>7 DEF a

LEMMA TailKeepsRest ==
  ASSUME NEW S, NEW s \in Seq(S), s # <<>>
  PROVE  Range(s) \subseteq {Head(s)} \cup Range(Tail(s))
<1>1. /\ Tail(s) \in Seq(S) /\ Len(Tail(s)) = Len(s) - 1
      /\ \A i \in 1 .. Len(Tail(s)) : Tail(s)[i] = s[i + 1]
  BY HeadTailProperties
<1>2. /\ Len(s) \in Nat /\ DOMAIN s = 1 .. Len(s)
      /\ DOMAIN Tail(s) = 1 .. Len(Tail(s))
  BY <1>1, LenProperties
<1>3. ASSUME NEW i \in 1 .. Len(s), i # 1
      PROVE  s[i] \in Range(Tail(s))
  <2>1. i - 1 \in 1 .. Len(Tail(s)) /\ (i - 1) + 1 = i
    BY <1>1, <1>2, <1>3
  <2>2. Tail(s)[i - 1] = s[i]
    BY <1>1, <2>1
  <2> QED
    BY <1>2, <2>1, <2>2 DEF Range
<1>4. Head(s) = s[1]
  OBVIOUS
<1> QED
  BY <1>2, <1>3, <1>4 DEF Range

(* What waits to be committed is what the sequence holds.                  *)
LEMMA WaitsInRange == \A t : Waits(t) <=> t \in Range(trxs)
  BY DEF Waits, Range

(* Goroutines run only before the commits.                                 *)
LEMMA GoroutinesRunEarly ==
  ASSUME IInv, NEW t \in Tables, gpc[t] \in {"close", "insert", "check"}
  PROVE  pc \in {"launch", "begin", "wait"} /\ block \in Blocks
  BY DEF IInv, CallPart, TypeOK, QuietInv, CallInv, AllEnded, Working

(* The databases' part of the invariant does not depend on where the call  *)
(* is as long as nothing is done, stored, or counted.                      *)
LEMMA DiskUntouched ==
  ASSUME IInv,
         UNCHANGED <<withTransaction, touched, stored, torn, cursor, block,
                     skipped, everSkipped, restarted>>,
         cut \subseteq cut', faults' \in Nat, faults <= faults',
         pc \in {"launch", "begin", "wait"}, pc' \in {"launch", "begin", "wait"}
  PROVE  DiskPart'
<1> USE DEF IInv, TypeOK, DiskPart
<1>1. TornInv'
  BY DEF TornInv
<1>2. OrderInv'
  BY DEF OrderInv, Done, AllCommitted
<1>3. ErrorMayBeLost => ErrorMayBeLost'
  BY SaveAssumption DEF ErrorMayBeLost
<1>4. WholeInv' /\ BehindInv'
  BY <1>3 DEF WholeInv, BehindInv, Whole, Done, AllCommitted
<1>5. CutInv'
  BY <1>3 DEF CutInv, InFlight, Exposed, PartlyStored
<1> QED
  BY <1>1, <1>2, <1>4, <1>5

(* Nothing is saved at the start.                                          *)
LEMMA InitInv == Init => IInv
<1> SUFFICES ASSUME Init  PROVE IInv
  OBVIOUS
<1> USE SaveAssumption DEF Init
<1>1. TypeOK
  <2>1. stored \in [Tables -> SUBSET Blocks] /\ torn \in [Tables -> SUBSET Blocks]
    OBVIOUS
  <2>2. trxs \in Seq(Tables \cup {Cursor})
    BY EmptySeq
  <2>3. 0 \in 0 .. MaxBlock /\ 0 \in 0 .. MaxFaults /\ 0 \in 0 .. MaxCrashes
    OBVIOUS
  <2> QED
    BY <2>1, <2>2, <2>3 DEF TypeOK
<1>2. CallPart
  BY DEF CallPart, QuietInv, CallInv, TxInv, TrxInv, PlainInv, Working
<1>3. TornInv /\ OrderInv /\ WholeInv /\ BehindInv
  BY DEF TornInv, OrderInv, Done, AllCommitted, WholeInv, Whole, BehindInv, Blocks
<1>4. CutInv
  <2>1. \A b \in Blocks : \A t \in Tables : b \notin stored[t] /\ b \notin torn[t]
    OBVIOUS
  <2>2. \A b \in Blocks : touched[b] \subseteq Tables
    OBVIOUS
  <2> QED
    BY <2>1, <2>2 DEF CutInv, PartlyStored
<1> QED
  BY <1>1, <1>2, <1>3, <1>4 DEF IInv, DiskPart

-----------------------------------------------------------------------------
(* The main goroutine up to the commits.                                   *)

(* Blocks done stay so, and the next one is not among them.                *)
LEMMA ReceiveKeeps ==
  ASSUME IInv, Receive
  PROVE  IInv'
<1> USE SaveAssumption DEF Receive, disk, history, bounds, given, IInv, TypeOK
<1>1. TypeOK'
  <2>1. block + 1 \in Blocks
    BY DEF Blocks
  <2>2. touched[block + 1] \subseteq Tables
    BY <2>1
  <2>3. block' \in 0 .. MaxBlock /\ unlaunched' \in SUBSET Tables
    BY <2>1, <2>2 DEF Blocks
  <2> QED
    BY <2>3
<1>2. QuietInv' /\ CallInv' /\ TxInv' /\ TrxInv' /\ PlainInv'
  BY DEF CallPart, QuietInv, CallInv, TxInv, TrxInv, PlainInv, AllEnded, Waits, Blocks, Working
<1>3. TornInv' /\ OrderInv'
  BY DEF DiskPart, TornInv, OrderInv, Done, AllCommitted, Blocks
<1>4. WholeInv' /\ BehindInv'
  BY DEF DiskPart, WholeInv, BehindInv, Whole, Done, AllCommitted, ErrorMayBeLost, Blocks
<1>5. CutInv'
  BY DEF DiskPart, CutInv, InFlight, Exposed, PartlyStored, ErrorMayBeLost
<1> QED
  BY <1>1, <1>2, <1>3, <1>4, <1>5 DEF CallPart, DiskPart

(* Without a transaction there is nothing to commit.                       *)
LEMMA LaunchKeeps ==
  ASSUME IInv, NEW t \in Tables, Launch(t)
  PROVE  IInv'
<1> USE SaveAssumption DEF Launch, disk, history, bounds, given
<1>1. TypeOK'
  BY DEF IInv, TypeOK
<1>2. CallPart'
  BY DEF IInv, TypeOK, CallPart, QuietInv, CallInv, TxInv, TrxInv, PlainInv, AllEnded, Waits,
     StoredWell, Working
<1>3. DiskPart'
  BY DiskUntouched DEF IInv, TypeOK
<1> QED
  BY <1>1, <1>2, <1>3 DEF IInv

(* A transaction is in use only once the error has been looked at.         *)
LEMMA BeginTxxKeeps ==
  ASSUME IInv, NEW t \in Tables, NEW transaction \in {"begun", "nil"},
         BeginTxx(t, transaction), faults' \in 0 .. MaxFaults, faults <= faults'
  PROVE  IInv'
<1> USE SaveAssumption DEF BeginTxx, disk, history, bounds, given
<1>1. TypeOK'
  BY DEF IInv, TypeOK
<1>2. QuietInv' /\ CallInv' /\ TxInv' /\ PlainInv'
  BY DEF IInv, TypeOK, CallPart, QuietInv, CallInv, TxInv, PlainInv, AllEnded, Working
<1>3. TrxInv'
  BY DEF IInv, TypeOK, CallPart, TrxInv, Waits, StoredWell
<1>4. DiskPart'
  BY DiskUntouched DEF IInv, TypeOK
<1> QED
  BY <1>1, <1>2, <1>3, <1>4 DEF IInv, CallPart

(* The new transaction waits to be committed.                              *)
LEMMA BeginTestedKeeps ==
  ASSUME IInv, NEW t \in Tables, BeginTested(t)
  PROVE  IInv'
<1> USE SaveAssumption DEF BeginTested, WithTrx, disk, history, bounds, given
<1>0. block \in Blocks
  BY DEF IInv, CallPart, CallInv, Working
<1>1. TypeOK'
  <2>1. Append(trxs, t) \in Seq(Tables \cup {Cursor})
    BY AppendProperties DEF IInv, TypeOK
  <2> QED
    BY <1>0, <2>1 DEF IInv, TypeOK
<1>2. TrxInv'
  <2>1. trxs \in Seq(Tables) /\ pc # "commit" /\ pc' # "commit"
    BY DEF IInv, CallPart, TrxInv
  <2>2. Append(trxs, t) \in Seq(Tables) /\ Range(Append(trxs, t)) = Range(trxs) \cup {t}
    BY <2>1, AppendProperties, AppendAdds
  <2>3. \A u \in Tables : Waits(u) => Waits(u)'
    BY <2>2, WaitsInRange DEF Waits, Range
  <2>4. Waits(t)'
    BY <2>2 DEF Waits, Range
  <2> QED
    BY <2>1, <2>2, <2>3, <2>4 DEF IInv, TypeOK, CallPart, TrxInv
<1>3. QuietInv' /\ CallInv' /\ TxInv' /\ PlainInv'
  BY DEF IInv, TypeOK, CallPart, QuietInv, CallInv, TxInv, PlainInv, AllEnded, StoredWell,
     Working
<1>4. DiskPart'
  BY DiskUntouched DEF IInv, TypeOK
<1> QED
  BY <1>1, <1>2, <1>3, <1>4 DEF IInv, CallPart

(* Tables are left out only when groupErr is set.                          *)
LEMMA LaunchEndsKeeps ==
  ASSUME IInv, StopLaunching \/ Launched
  PROVE  IInv'
<1> USE SaveAssumption DEF StopLaunching, Launched, disk, history, bounds, given
<1>1. TypeOK'
  BY DEF IInv, TypeOK
<1>2. CallPart'
  BY DEF IInv, TypeOK, CallPart, QuietInv, CallInv, TxInv, TrxInv, PlainInv, AllEnded, Waits,
     StoredWell, Working
<1>3. DiskPart'
  BY DiskUntouched DEF IInv, TypeOK
<1> QED
  BY <1>1, <1>2, <1>3 DEF IInv

-----------------------------------------------------------------------------
(* The goroutines.                                                         *)

(* Rows written outside of a transaction are those of a block that is in   *)
(* flight or counted as cut, and not done.                                 *)
LEMMA DirectWrite ==
  ASSUME IInv, NEW t \in Tables, gpc[t] \in {"close", "insert"}, Direct(t)
  PROVE  /\ ~Done(block)
         /\ block \in cut \/ InFlight(block)
  BY GoroutinesRunEarly DEF IInv, TypeOK, CallPart, CallInv, TxInv, Direct, Done, AllCommitted,
     InFlight, Exposed, Blocks

(* Outside of a transaction the closed rows are visible from now on.       *)
LEMMA CloseRowsKeeps ==
  ASSUME IInv, NEW t \in Tables, CloseRows(t)
  PROVE  IInv'
<1> USE SaveAssumption DEF CloseRows, disk, history, bounds, given
<1>0. pc \in {"launch", "begin", "wait"} /\ block \in Blocks
  BY GoroutinesRunEarly
<1>1. TypeOK'
  BY <1>0 DEF IInv, TypeOK
<1>2. CallPart'
  <2>1. QuietInv' /\ CallInv' /\ TxInv'
    BY <1>0 DEF IInv, TypeOK, CallPart, QuietInv, CallInv, TxInv, AllEnded, Direct, Working
  <2>2. TrxInv' /\ PlainInv'
    BY <1>0 DEF IInv, TypeOK, CallPart, TxInv, TrxInv, PlainInv, StoredWell, Waits, Direct
  <2> QED
    BY <2>1, <2>2 DEF CallPart
<1>3. CASE ~Direct(t)
  BY <1>0, <1>1, <1>2, <1>3, DiskUntouched DEF IInv, TypeOK
<1>4. CASE Direct(t)
  <2>1. torn' = [torn EXCEPT ![t] = @ \cup {block}] /\ stored' = stored
    BY <1>4
  <2>2. \A b \in Blocks, u \in Tables : b # block => (b \in torn'[u] <=> b \in torn[u])
    BY <2>1 DEF IInv, TypeOK
  <2>3. TornInv'
    BY <1>0, <2>1 DEF IInv, TypeOK, CallPart, CallInv, DiskPart, TornInv, Working
  <2>4. OrderInv' /\ BehindInv'
    BY <2>1 DEF IInv, DiskPart, OrderInv, BehindInv, Done, AllCommitted, ErrorMayBeLost
  <2>5. WholeInv'
    BY <1>4, <2>1, <2>2, DirectWrite DEF IInv, DiskPart, WholeInv, Whole, Done, AllCommitted,
       ErrorMayBeLost
  <2>6. CutInv'
    BY <1>4, <2>1, <2>2, DirectWrite DEF IInv, TypeOK, DiskPart, CutInv, InFlight, Exposed,
       PartlyStored, ErrorMayBeLost
  <2> QED
    BY <1>1, <1>2, <2>3, <2>4, <2>5, <2>6 DEF IInv, DiskPart
<1> QED
  BY <1>3, <1>4

(* The table of the goroutine is whole.                                    *)
LEMMA InsertRowsKeeps ==
  ASSUME IInv, NEW t \in Tables, InsertRows(t)
  PROVE  IInv'
<1> USE SaveAssumption DEF InsertRows, disk, history, bounds, given
<1>0. pc \in {"launch", "begin", "wait"} /\ block \in Blocks
  BY GoroutinesRunEarly
<1>1. TypeOK'
  <2>1. /\ torn' \in [Tables -> SUBSET Blocks] /\ stored' \in [Tables -> SUBSET Blocks]
        /\ tx' \in [Tables -> {"none", "nil", "begun", "closed", "written", "aborted"}]
    <3>1. CASE Direct(t)
      BY <1>0, <3>1 DEF IInv, TypeOK
    <3>2. CASE ~Direct(t)
      BY <3>2 DEF IInv, TypeOK
    <3> QED
      BY <3>1, <3>2
  <2>2. gpc' \in [Tables -> {"none", "begin", "close", "insert", "check", "ended"}]
    BY DEF IInv, TypeOK
  <2> QED
    BY <2>1, <2>2 DEF IInv, TypeOK
<1>2. CallPart'
  <2>1. QuietInv' /\ CallInv' /\ TxInv'
    BY <1>0 DEF IInv, TypeOK, CallPart, QuietInv, CallInv, TxInv, AllEnded, Direct, Working
  <2>2. TrxInv' /\ PlainInv'
    BY <1>0 DEF IInv, TypeOK, CallPart, TxInv, TrxInv, PlainInv, StoredWell, Waits, Direct
  <2> QED
    BY <2>1, <2>2 DEF CallPart
<1>3. CASE ~Direct(t)
  BY <1>0, <1>1, <1>2, <1>3, DiskUntouched DEF IInv, TypeOK
<1>4. CASE Direct(t)
  <2>1. /\ torn' = [torn EXCEPT ![t] = @ \ {block}]
        /\ stored' = [stored EXCEPT ![t] = @ \cup {block}]
    BY <1>4
  <2>2. \A b \in Blocks, u \in Tables :
          /\ b # block => /\ b \in torn'[u] <=> b \in torn[u]
                         /\ b \in stored'[u] <=> b \in stored[u]
          /\ b \in torn'[u] => b \in torn[u]
          /\ b \in stored[u] => b \in stored'[u]
    BY <2>1 DEF IInv, TypeOK
  <2>3. TornInv'
    BY <2>1 DEF IInv, TypeOK, DiskPart, TornInv
  <2>4. OrderInv'
    BY DEF IInv, DiskPart, OrderInv, Done, AllCommitted
  <2>5. WholeInv' /\ BehindInv'
    BY <2>2 DEF IInv, DiskPart, WholeInv, BehindInv, Whole, Done, AllCommitted, ErrorMayBeLost
  <2>6. CutInv'
    BY <1>4, <2>2, DirectWrite DEF IInv, TypeOK, DiskPart, CutInv, InFlight, Exposed,
       PartlyStored, ErrorMayBeLost
  <2> QED
    BY <1>1, <1>2, <2>3, <2>4, <2>5, <2>6 DEF IInv, DiskPart
<1> QED
  BY <1>3, <1>4

(* Postgres aborts the transaction, or the error is one that may be lost.  *)
LEMMA StatementFailsKeeps ==
  ASSUME IInv, NEW t \in Tables, StatementFails(t)
  PROVE  IInv'
<1> USE SaveAssumption DEF StatementFails, Fault, disk, history, bounds, given
<1>0. pc \in {"launch", "begin", "wait"}
  BY GoroutinesRunEarly
<1>1. TypeOK'
  BY DEF IInv, TypeOK
<1>2. QuietInv' /\ CallInv' /\ TxInv' /\ TrxInv' /\ PlainInv'
  BY <1>0 DEF IInv, TypeOK, CallPart, QuietInv, CallInv, TxInv, TrxInv, PlainInv, AllEnded,
     StoredWell, Waits, Direct, Working
<1>3. DiskPart'
  BY <1>0, DiskUntouched DEF IInv, TypeOK
<1> QED
  BY <1>1, <1>2, <1>3 DEF IInv, CallPart

(* A goroutine that ends sets groupErr when it sees an error.              *)
LEMMA CheckErrKeeps ==
  ASSUME IInv, NEW t \in Tables, CheckErr(t)
  PROVE  IInv'
<1> USE SaveAssumption DEF CheckErr, SeesError, disk, history, bounds, given
<1>0. pc \in {"launch", "begin", "wait"}
  BY GoroutinesRunEarly
<1>1. TypeOK'
  BY DEF IInv, TypeOK
<1>2. QuietInv' /\ CallInv' /\ TxInv' /\ TrxInv' /\ PlainInv'
  BY <1>0 DEF IInv, TypeOK, CallPart, QuietInv, CallInv, TxInv, TrxInv, PlainInv, AllEnded,
     StoredWell, Waits, Working
<1>3. DiskPart'
  BY <1>0, DiskUntouched DEF IInv, TypeOK
<1> QED
  BY <1>1, <1>2, <1>3 DEF IInv, CallPart

-----------------------------------------------------------------------------
(* The commits.                                                            *)

(* While transactions are committed the cursor's is the last of them.      *)
LEMMA CursorIsLast ==
  ASSUME IInv, pc = "commit"
  PROVE  \A i \in 1 .. Len(trxs) : trxs[i] = Cursor <=> i = Len(trxs)
  BY DEF IInv, CallPart, TrxInv

(* Nothing is done yet: the cursor's transaction is there.                 *)
LEMMA NothingDoneBefore ==
  ASSUME IInv, pc \in {"launch", "begin", "wait"} \/ (pc = "commit" /\ trxs # <<>>)
  PROVE  block \in Blocks /\ ~Done(block)
  BY DEF IInv, TypeOK, CallPart, CallInv, Done, AllCommitted, Blocks, Working

(* The cursor's transaction comes last.                                    *)
LEMMA WriteCursorKeeps ==
  ASSUME IInv, WriteCursor
  PROVE  IInv'
<1> USE SaveAssumption DEF WriteCursor, WithCursor, disk, history, bounds, given
<1>0. trxs \in Seq(Tables) /\ trxs \in Seq(Tables \cup {Cursor}) /\ trxs' = Append(trxs, Cursor)
  BY DEF IInv, TypeOK, CallPart, TrxInv
<1>1. TypeOK'
  <2>1. Append(trxs, Cursor) \in Seq(Tables \cup {Cursor})
    BY <1>0, AppendProperties
  <2> QED
    BY <2>1 DEF IInv, TypeOK
<1>2. Len(trxs') = Len(trxs) + 1 /\ Len(trxs) \in Nat /\ trxs' # <<>>
  BY <1>0, AppendProperties, LenProperties
<1>3. TrxInv'
  <2>1. \A i \in 1 .. Len(trxs) : trxs[i] # Cursor
    BY <1>0, ElementOfSeq, SaveAssumption DEF Cursor
  <2>2. ASSUME NEW i \in 1 .. Len(trxs')
        PROVE  trxs'[i] = Cursor <=> i = Len(trxs')
    <3>1. trxs'[Len(trxs) + 1] = Cursor /\ \A j \in 1 .. Len(trxs) : trxs'[j] = trxs[j]
      BY <1>0, AppendProperties
    <3> QED
      BY <1>2, <2>1, <3>1
  <2>3. Range(trxs') = Range(trxs) \cup {Cursor}
    BY <1>0, AppendAdds
  <2>4. \A t \in Tables : Waits(t) => Waits(t)'
    BY <2>3, WaitsInRange DEF Waits, Range
  <2> QED
    BY <2>2, <2>4 DEF IInv, TypeOK, CallPart, TrxInv
<1>4. QuietInv' /\ CallInv' /\ TxInv' /\ PlainInv'
  BY DEF IInv, CallPart, QuietInv, CallInv, TxInv, PlainInv, AllEnded, StoredWell, Working
<1>5. TornInv' /\ OrderInv' /\ WholeInv' /\ BehindInv'
  BY <1>2 DEF IInv, DiskPart, TornInv, OrderInv, WholeInv, Whole, BehindInv, Done, AllCommitted,
     ErrorMayBeLost
<1>6. CutInv'
  BY DEF IInv, DiskPart, CutInv, InFlight, Exposed, PartlyStored, ErrorMayBeLost
<1> QED
  BY <1>1, <1>3, <1>4, <1>5, <1>6 DEF IInv, CallPart, DiskPart

(* Of the transactions one is gone, and the order of the rest is kept.     *)
LEMMA TailOfTrxs ==
  ASSUME IInv, pc = "commit", trxs # <<>>
  PROVE  /\ Tail(trxs) \in Seq(Tables \cup {Cursor})
         /\ \A i \in 1 .. Len(Tail(trxs)) : Tail(trxs)[i] = Cursor <=> i = Len(Tail(trxs))
         /\ Range(trxs) \subseteq {Head(trxs)} \cup Range(Tail(trxs))
         /\ Tail(trxs) = <<>> <=> Head(trxs) = Cursor
<1>1. trxs \in Seq(Tables \cup {Cursor}) /\ trxs # <<>>
  BY DEF IInv, TypeOK
<1>2. /\ Len(Tail(trxs)) = Len(trxs) - 1 /\ Len(trxs) \in Nat
      /\ Tail(trxs) \in Seq(Tables \cup {Cursor}) /\ Head(trxs) = trxs[1]
      /\ \A i \in 1 .. Len(Tail(trxs)) : Tail(trxs)[i] = trxs[i + 1]
  BY <1>1, HeadTailProperties, LenProperties
<1>3. ASSUME NEW i \in 1 .. Len(Tail(trxs))
      PROVE  Tail(trxs)[i] = Cursor <=> i = Len(Tail(trxs))
  <2>1. i + 1 \in 1 .. Len(trxs) /\ (i + 1 = Len(trxs) <=> i = Len(Tail(trxs)))
    BY <1>2
  <2>2. trxs[i + 1] = Cursor <=> i + 1 = Len(trxs)
    BY <2>1, CursorIsLast
  <2> QED
    BY <1>2, <2>1, <2>2
<1>4. Range(trxs) \subseteq {Head(trxs)} \cup Range(Tail(trxs))
  BY <1>1, TailKeepsRest
<1>5. Len(trxs) # 0
  BY <1>1, EmptySeq
<1>6. trxs[1] = Cursor <=> 1 = Len(trxs)
  <2>1. 1 \in 1 .. Len(trxs)
    BY <1>2, <1>5
  <2> QED
    BY <2>1, CursorIsLast
<1>7. Tail(trxs) = <<>> <=> Len(Tail(trxs)) = 0
  BY <1>2, EmptySeq
<1>8. Tail(trxs) = <<>> <=> Head(trxs) = Cursor
  BY <1>2, <1>6, <1>7
<1> QED
  BY <1>2, <1>3, <1>4, <1>8

(* A table that no longer waits is stored.                                 *)
LEMMA CommitKeeps ==
  ASSUME IInv, NEW t \in Tables, Commit(t)
  PROVE  IInv'
<1> USE SaveAssumption DEF Commit, disk, history, bounds, given
<1>0. block \in Blocks /\ ~Done(block)
  BY NothingDoneBefore
<1>1. TypeOK'
  <2>1. Tail(trxs) \in Seq(Tables \cup {Cursor})
    BY TailOfTrxs
  <2> QED
    BY <1>0, <2>1 DEF IInv, TypeOK
<1>2. \A b \in Blocks, u \in Tables :
        /\ b # block => (b \in torn'[u] <=> b \in torn[u]) /\ (b \in stored'[u] <=> b \in stored[u])
        /\ b \in torn'[u] => b \in torn[u]
        /\ b \in stored[u] => b \in stored'[u]
  BY DEF IInv, TypeOK
<1>3. trxs' # <<>>
  BY TailOfTrxs
<1>4. TrxInv'
  <2>1. ASSUME NEW u \in Tables, tx[u] # "none", gpc[u] # "begin"
        PROVE  Waits(u)' \/ (tx[u] = "written" /\ StoredWell(u, block)')
    <3>1. CASE u = t
      BY <1>0, <3>1 DEF StoredWell, IInv, TypeOK
    <3>2. CASE u # t /\ Waits(u)
      <4>1. u \in Range(Tail(trxs))
        BY <3>2, TailOfTrxs, WaitsInRange
      <4> QED
        BY <4>1 DEF Waits, Range
    <3>3. CASE tx[u] = "written" /\ StoredWell(u, block)
      BY <1>0, <1>2, <3>3 DEF StoredWell
    <3> QED
      BY <2>1, <3>1, <3>2, <3>3 DEF IInv, CallPart, TrxInv
  <2> QED
    BY <2>1, TailOfTrxs DEF TrxInv
<1>5. QuietInv' /\ CallInv' /\ TxInv' /\ PlainInv'
  BY <1>0, <1>2 DEF IInv, CallPart, QuietInv, CallInv, TxInv, PlainInv, AllEnded, StoredWell,
     Working
<1>6. TornInv'
  BY <1>2 DEF IInv, TypeOK, DiskPart, TornInv
<1>7. OrderInv' /\ WholeInv' /\ BehindInv'
  BY <1>0, <1>2, <1>3 DEF IInv, DiskPart, OrderInv, WholeInv, Whole, BehindInv, Done,
     AllCommitted, ErrorMayBeLost
<1>8. CutInv'
  BY <1>2 DEF IInv, TypeOK, DiskPart, CutInv, InFlight, Exposed, PartlyStored, ErrorMayBeLost
<1> QED
  BY <1>1, <1>4, <1>5, <1>6, <1>7, <1>8 DEF IInv, CallPart, DiskPart

(* When the cursor's turn comes every table of the block is stored.        *)
LEMMA BlockIsWhole ==
  ASSUME IInv, CommitCursor, ~ErrorMayBeLost
  PROVE  Whole(block)
<1>1. \A t \in Tables : ~Waits(t)
  <2>1. Range(trxs) \subseteq {Cursor} \cup Range(<<>>)
    BY TailOfTrxs DEF CommitCursor
  <2>2. Range(<<>>) = {}
    BY DEF Range
  <2> QED
    BY <2>1, <2>2, WaitsInRange, SaveAssumption DEF Cursor
<1>2. block \in Blocks /\ touched[block] \subseteq Tables
  BY DEF IInv, TypeOK, CallPart, CallInv, CommitCursor, Working
<1>3. ASSUME NEW t \in Tables, t \in touched[block]  PROVE StoredWell(t, block)
  <2>1. gpc[t] = "ended"
    BY <1>3 DEF IInv, CallPart, CallInv, CommitCursor, AllEnded, Working
  <2>2. CASE withTransaction
    BY <1>1, <2>1, <2>2 DEF IInv, CallPart, TxInv, TrxInv
  <2>3. CASE ~withTransaction
    BY <2>1, <2>3 DEF IInv, TypeOK, CallPart, PlainInv, ErrorMayBeLost, CommitCursor, Working
  <2> QED
    BY <2>2, <2>3
<1>4. ASSUME NEW t \in Tables, t \notin touched[block]  PROVE block \notin torn[t]
  BY <1>4 DEF IInv, DiskPart, TornInv
<1> QED
  BY <1>3, <1>4 DEF Whole, StoredWell

(* The block is done.                                                      *)
LEMMA CommitCursorKeeps ==
  ASSUME IInv, CommitCursor
  PROVE  IInv'
<1> USE SaveAssumption DEF CommitCursor, disk, history, bounds, given
<1>0. block \in Blocks /\ trxs' = <<>>
  BY NothingDoneBefore, TailOfTrxs
<1>1. TypeOK'
  <2>1. Tail(trxs) \in Seq(Tables \cup {Cursor})
    BY TailOfTrxs
  <2> QED
    BY <1>0, <2>1 DEF IInv, TypeOK, Blocks
<1>2. TrxInv'
  <2>1. ASSUME NEW u \in Tables, tx[u] # "none", gpc[u] # "begin"
        PROVE  tx[u] = "written" /\ StoredWell(u, block)'
    <3>1. ~Waits(u)
      <4>1. u # Head(trxs)
        BY DEF Cursor
      <4>2. Range(<<>>) = {}
        BY DEF Range
      <4> QED
        BY <1>0, <4>1, <4>2, TailOfTrxs, WaitsInRange
    <3> QED
      BY <2>1, <3>1 DEF IInv, CallPart, TrxInv, StoredWell
  <2> QED
    BY <2>1, TailOfTrxs DEF TrxInv
<1>3. QuietInv' /\ CallInv' /\ PlainInv'
  BY DEF IInv, CallPart, QuietInv, CallInv, PlainInv, AllEnded, StoredWell, Working
<1>4. TxInv'
  BY <1>2 DEF IInv, CallPart, TxInv, TrxInv, Waits
<1>5. TornInv' /\ OrderInv'
  BY <1>0 DEF IInv, TypeOK, DiskPart, TornInv, OrderInv, Done, AllCommitted, Blocks
<1>6. ASSUME ~ErrorMayBeLost
      PROVE  Whole(block) /\ \A b \in Blocks \ skipped : b < block => Whole(b)
  BY <1>6, BlockIsWhole DEF IInv, DiskPart, WholeInv, Done
<1>7. WholeInv'
  <2>1. \A b \in Blocks : Done(b)' => b < block \/ b = block
    BY DEF Done, AllCommitted
  <2> QED
    BY <1>6, <2>1 DEF WholeInv, Whole, ErrorMayBeLost
<1>8. BehindInv'
  <2>1. \A b \in Blocks : b <= block => b < block \/ b = block
    BY <1>0 DEF Blocks
  <2> QED
    BY <1>6, <2>1 DEF IInv, DiskPart, OrderInv, BehindInv, Whole, ErrorMayBeLost
<1>9. CutInv'
  BY DEF IInv, DiskPart, CutInv, InFlight, Exposed, PartlyStored, ErrorMayBeLost
<1> QED
  BY <1>1, <1>2, <1>3, <1>4, <1>5, <1>7, <1>8, <1>9 DEF IInv, CallPart, DiskPart

-----------------------------------------------------------------------------
(* The ends of a save.                                                     *)

(* BatchSave returns nil.                                                  *)
LEMMA SaveReturnsKeeps ==
  ASSUME IInv, SaveReturns
  PROVE  IInv'
<1> USE SaveAssumption DEF SaveReturns, Forget, disk, history, bounds, given
<1>1. TypeOK'
  BY DEF IInv, TypeOK
<1>2. CallPart'
  BY EmptySeq DEF IInv, CallPart, QuietInv, CallInv, TxInv, TrxInv, PlainInv, AllEnded, Working
<1>3. \A b \in Blocks : Done(b) <=> Done(b)'
  BY DEF Done, AllCommitted
<1>4. TornInv' /\ OrderInv' /\ WholeInv' /\ BehindInv'
  BY <1>3 DEF IInv, DiskPart, TornInv, OrderInv, WholeInv, Whole, BehindInv, AllCommitted,
     ErrorMayBeLost
<1>5. ASSUME ~ErrorMayBeLost  PROVE ~PartlyStored(block)
  <2>1. block \in Blocks \ skipped /\ Done(block)
    BY DEF IInv, CallPart, CallInv, DiskPart, OrderInv, Done, AllCommitted, Working
  <2>2. Whole(block) /\ touched[block] \subseteq Tables
    BY <1>5, <2>1 DEF IInv, TypeOK, DiskPart, WholeInv
  <2> QED
    BY <2>2 DEF Whole, PartlyStored
<1>6. CutInv'
  BY <1>5 DEF IInv, DiskPart, CutInv, InFlight, Exposed, PartlyStored, ErrorMayBeLost
<1> QED
  BY <1>1, <1>2, <1>4, <1>6 DEF IInv, DiskPart

(* The block is skipped, and what was written of it is rolled back, but    *)
(* for what a lost error lets through.                                     *)
LEMMA ReturnErrorKeeps ==
  ASSUME IInv, ReturnError, pc \in {"begin", "wait"},
         UNCHANGED <<given, disk, cursor, block, err, groupErr, crashes>>,
         faults' \in 0 .. MaxFaults, faults <= faults', ~withTransaction => faults' > 0
  PROVE  IInv'
<1> USE SaveAssumption DEF ReturnError, Forget, disk, given
<1>0. block \in Blocks
  BY NothingDoneBefore
<1>1. TypeOK'
  BY <1>0 DEF IInv, TypeOK
<1>2. CallPart'
  BY EmptySeq DEF IInv, TypeOK, CallPart, QuietInv, CallInv, TxInv, TrxInv, PlainInv, AllEnded,
     Working
<1>3. ErrorMayBeLost => ErrorMayBeLost'
  BY DEF IInv, TypeOK, ErrorMayBeLost
<1>4. TornInv' /\ OrderInv'
  BY DEF IInv, DiskPart, TornInv, OrderInv, Done, AllCommitted
<1>5. WholeInv' /\ BehindInv'
  BY <1>3 DEF IInv, DiskPart, WholeInv, Whole, BehindInv, Done, AllCommitted
<1>6. CutInv'
  BY <1>3 DEF IInv, DiskPart, CutInv, InFlight, Exposed, PartlyStored, ErrorMayBeLost
<1> QED
  BY <1>1, <1>2, <1>4, <1>5, <1>6 DEF IInv, DiskPart

(* The process stops; a save under way is cut short.                       *)
LEMMA PanicKeeps ==
  ASSUME IInv, Panic, pc # "stopped",
         UNCHANGED <<given, disk, cursor, block, err, groupErr>>,
         faults' \in 0 .. MaxFaults, faults <= faults', crashes' \in 0 .. MaxCrashes
  PROVE  IInv'
<1> USE SaveAssumption DEF Panic, Forget, disk, given
<1>0. Exposed => block \in Blocks
  BY DEF IInv, TypeOK, CallPart, CallInv, Exposed, Working
<1>1. TypeOK'
  BY <1>0 DEF IInv, TypeOK
<1>2. CallPart'
  BY EmptySeq DEF IInv, TypeOK, CallPart, QuietInv, CallInv, TxInv, TrxInv, PlainInv, AllEnded,
     Working
<1>3. ErrorMayBeLost => ErrorMayBeLost'
  BY DEF IInv, TypeOK, ErrorMayBeLost
<1>4. TornInv' /\ OrderInv'
  BY DEF IInv, DiskPart, TornInv, OrderInv, Done, AllCommitted
<1>5. WholeInv' /\ BehindInv'
  BY <1>3 DEF IInv, DiskPart, WholeInv, Whole, BehindInv, Done, AllCommitted
<1>6. CutInv'
  BY <1>3 DEF IInv, DiskPart, CutInv, InFlight, Exposed, PartlyStored
<1> QED
  BY <1>1, <1>2, <1>4, <1>5, <1>6 DEF IInv, DiskPart

(* One of the two ends of a failed save.                                   *)
LEMMA FailedSaveKeeps ==
  ASSUME IInv,
         BeginSeesError \/ Rollback \/ WriteCursorFails \/ RollbackFails \/ CommitAborted
           \/ CommitFails \/ Crash
  PROVE  IInv'
<1> USE SaveAssumption DEF bounds
<1>0. faults \in 0 .. MaxFaults /\ crashes \in 0 .. MaxCrashes
  BY DEF IInv, TypeOK
<1>1. CASE BeginSeesError
  <2>1. withTransaction
    BY <1>1 DEF BeginSeesError, IInv, CallPart, CallInv, Working
  <2> QED
    BY <1>0, <1>1, <2>1, ReturnErrorKeeps DEF BeginSeesError
<1>2. CASE Rollback
  <2>1. ~withTransaction => faults > 0
    BY <1>0, <1>2 DEF Rollback, IInv, CallPart, PlainInv
  <2> QED
    BY <1>0, <1>2, <2>1, ReturnErrorKeeps, PanicKeeps DEF Rollback, RollBack
<1>3. CASE WriteCursorFails
  BY <1>0, <1>3, ReturnErrorKeeps, PanicKeeps DEF WriteCursorFails, RollBack, Fault
<1>4. CASE RollbackFails \/ CommitAborted \/ CommitFails \/ Crash
  BY <1>0, <1>4, PanicKeeps DEF RollbackFails, CommitAborted, CommitFails, Crash, Fault
<1> QED
  BY <1>1, <1>2, <1>3, <1>4

(* The stream starts again: no block is done yet, and parts of blocks that *)
(* were cut short are still there.                                         *)
LEMMA RestartKeeps ==
  ASSUME IInv, Restart
  PROVE  IInv'
<1> USE SaveAssumption DEF Restart, BeforeStart, disk, history, bounds, given
<1>1. TypeOK'
  BY DEF IInv, TypeOK
<1>2. CallPart'
  BY DEF IInv, CallPart, QuietInv, CallInv, TxInv, TrxInv, PlainInv, AllEnded, Waits, Working
<1>3. \A b \in Blocks : ~Done(b)'
  BY DEF Done, AllCommitted, Blocks
<1>4. TornInv' /\ OrderInv' /\ WholeInv' /\ BehindInv'
  BY <1>3 DEF IInv, DiskPart, TornInv, OrderInv, WholeInv, BehindInv, AllCommitted,
     ErrorMayBeLost
<1>5. CutInv'
  BY DEF IInv, DiskPart, CutInv, InFlight, Exposed, PartlyStored, ErrorMayBeLost
<1> QED
  BY <1>1, <1>2, <1>4, <1>5 DEF IInv, DiskPart

-----------------------------------------------------------------------------
(* IInv is inductive: one lemma above for every step.                      *)
LEMMA StepInv == IInv /\ [Next]_vars => IInv'
<1> SUFFICES ASSUME IInv, [Next]_vars  PROVE IInv'
  OBVIOUS
<1>0. faults \in 0 .. MaxFaults
  BY DEF IInv, TypeOK
<1>1. CASE MainStep
  <2>1. ASSUME NEW t \in Tables, Begin(t)  PROVE IInv'
    BY <1>0, <2>1, BeginTxxKeeps, SaveAssumption DEF Begin
  <2> QED
    BY <1>1, <2>1, ReceiveKeeps, LaunchKeeps, BeginTestedKeeps, LaunchEndsKeeps,
       WriteCursorKeeps, CommitKeeps, CommitCursorKeeps, SaveReturnsKeeps, FailedSaveKeeps,
       RestartKeeps
       DEF MainStep
<1>2. ASSUME NEW t \in Tables, GoroutineStep(t)  PROVE IInv'
  BY <1>2, CloseRowsKeeps, InsertRowsKeeps, CheckErrKeeps DEF GoroutineStep
<1>3. CASE Failure
  <2>1. ASSUME NEW t \in Tables, BeginFails(t)  PROVE IInv'
    BY <1>0, <2>1, BeginTxxKeeps, SaveAssumption DEF BeginFails, Fault
  <2> QED
    BY <1>3, <2>1, FailedSaveKeeps, StatementFailsKeeps DEF Failure
<1>4. CASE UNCHANGED vars
  <2>1. /\ UNCHANGED <<withTransaction, touched, stored, torn, cursor, block, pc, unlaunched>>
        /\ UNCHANGED <<gpc, tx, trxs, err, groupErr, faults, crashes>>
        /\ UNCHANGED <<skipped, everSkipped, cut, restarted>>
    BY <1>4 DEF vars, given, disk, history, bounds
  <2>2. TypeOK'
    BY <2>1 DEF IInv, TypeOK
  <2>3. CallPart'
    BY <2>1 DEF IInv, CallPart, QuietInv, CallInv, AllEnded, TxInv, TrxInv, StoredWell, Waits,
       PlainInv
  <2>4. DiskPart'
    BY <2>1 DEF IInv, DiskPart, TornInv, OrderInv, Done, AllCommitted, WholeInv, Whole,
       BehindInv, CutInv, InFlight, Exposed, PartlyStored, ErrorMayBeLost
  <2> QED
    BY <2>2, <2>3, <2>4 DEF IInv
<1> QED
  BY <1>1, <1>2, <1>3, <1>4 DEF Next, Finished

(* The inductive invariant, from which the theorems follow.                *)
THEOREM Invariance == Spec => []IInv
<1>1. Init => IInv
  BY InitInv
<1>2. IInv /\ [Next]_vars => IInv'
  BY StepInv
<1> QED
  BY <1>1, <1>2, PTL DEF Spec

(* The variables keep their types.                                         *)
THEOREM TypeCorrect == Spec => []TypeOK
<1>1. IInv => TypeOK
  BY DEF IInv
<1> QED
  BY <1>1, Invariance, PTL

(* The parts of the invariant that speak of blocks done.                   *)
LEMMA NoneLost == IInv /\ ~ErrorMayBeLost => SaveCompletes
  BY DEF IInv, TypeOK, DiskPart, WholeInv, Whole, BehindInv, Done, SaveCompletes, Saved

(* A save that reports no error is complete, and the cursor passes only    *)
(* blocks all of whose rows are committed (postgres.go:217), unless an     *)
(* error was lost without transactions.                                    *)
THEOREM SavesAreComplete == Spec => []SaveCompletesUnlessErrorLost
<1>1. IInv => SaveCompletesUnlessErrorLost
  BY NoneLost DEF SaveCompletesUnlessErrorLost
<1> QED
  BY <1>1, Invariance, PTL

(* With transactions the comment at postgres.go:217 holds as it stands,    *)
(* whatever fails and however often the program is started again.          *)
THEOREM TransactionsSaveCompletely == Spec => [](withTransaction => SaveCompletes)
<1>1. IInv => (withTransaction => SaveCompletes)
  BY NoneLost DEF ErrorMayBeLost
<1> QED
  BY <1>1, Invariance, PTL

(* Between blocks a block is in all its tables or in none, as the rollback *)
(* of postgres.go:262-292 wants it, unless its save was cut short, and     *)
(* then only until the stream, started again, is past it.                  *)
THEOREM BlocksAreAllOrNothing == Spec => []AllOrNothing
<1>1. IInv => AllOrNothing
  <2> SUFFICES ASSUME IInv, pc = "idle", ~ErrorMayBeLost, NEW b \in Blocks, PartlyStored(b)
               PROVE  b \in cut /\ (b > block \/ b \in skipped)
    BY DEF AllOrNothing
  <2>1. b \in cut
    BY DEF IInv, DiskPart, CutInv, InFlight, Exposed
  <2>2. ASSUME b \notin skipped, ~(b > block)  PROVE FALSE
    <3>1. Done(b) /\ touched[b] \subseteq Tables
      BY <2>2 DEF IInv, TypeOK, Blocks, Done
    <3>2. Whole(b)
      BY <2>2, <3>1 DEF IInv, DiskPart, WholeInv
    <3> QED
      BY <3>1, <3>2 DEF Whole, PartlyStored
  <2> QED
    BY <2>1, <2>2
<1> QED
  BY <1>1, Invariance, PTL

-----------------------------------------------------------------------------
(* What a reader at the cursor sees.                                       *)

(* What a step that commits nothing leaves alone.                          *)
LEMMA OtherSteps ==
  ASSUME [Next]_vars, ~CommitCursor
  PROVE  /\ touched' = touched /\ cursor' = cursor
         /\ \/ stored' = stored
            \/ \E t \in Tables : Commit(t) \/ (InsertRows(t) /\ Direct(t))
<1> USE DEF disk, given
<1>1. CASE MainStep
  BY <1>1 DEF MainStep, Receive, BeginSeesError, StopLaunching, Launched, Rollback, WriteCursor,
     SaveReturns, CommitAborted, Restart, Launch, Begin, BeginTxx, BeginTested, Commit
<1>2. ASSUME NEW t \in Tables, GoroutineStep(t)
      PROVE  /\ touched' = touched /\ cursor' = cursor
             /\ stored' = stored \/ (InsertRows(t) /\ Direct(t))
  BY <1>2 DEF GoroutineStep, CloseRows, InsertRows, CheckErr
<1>3. CASE Failure
  BY <1>3 DEF Failure, WriteCursorFails, RollbackFails, CommitFails, Crash, StatementFails,
     BeginFails, BeginTxx
<1>4. CASE UNCHANGED vars
  BY <1>4 DEF vars
<1> QED
  BY <1>1, <1>2, <1>3, <1>4 DEF Next, Finished

(* No step removes rows, and only rows of the block being saved are added. *)
LEMMA RowsStay ==
  ASSUME IInv, [Next]_vars
  PROVE  /\ touched' = touched
         /\ \A b \in Blocks, t \in Tables :
              /\ b \in stored[t] => b \in stored'[t]
              /\ b # block => (b \in stored'[t] => b \in stored[t])
<1>1. CASE CommitCursor
  BY <1>1 DEF CommitCursor, disk, given
<1>2. CASE stored' = stored /\ ~CommitCursor
  BY <1>2, OtherSteps
<1>3. CASE \E t \in Tables : Commit(t) \/ (InsertRows(t) /\ Direct(t))
  BY <1>3 DEF Commit, InsertRows, given, IInv, TypeOK
<1> QED
  BY <1>1, <1>2, <1>3, OtherSteps

(* A block that becomes readable, none of its saves ever having failed, is *)
(* the one that the cursor moves to.                                       *)
LEMMA Appears ==
  ASSUME IInv, [Next]_vars, ~ErrorMayBeLost, NEW b \in Blocks, b \in Readable' \ Readable,
         b \notin everSkipped'
  PROVE  b = cursor' /\ b # cursor
<1>1. /\ touched' = touched /\ b <= cursor' /\ touched[b] # {} /\ touched[b] \subseteq Tables
      /\ \A t \in touched[b] : b \in stored'[t]
  BY RowsStay DEF Readable, Blocks, IInv, TypeOK
<1>2. CASE CommitCursor
  <2>1. cursor' = block /\ stored' = stored /\ everSkipped' = everSkipped
    BY <1>2 DEF CommitCursor, disk
  <2>2. ~(b <= cursor) /\ b <= block
    BY <1>1, <2>1 DEF Readable
  <2>3. b \notin skipped
    BY <2>1 DEF IInv, DiskPart, OrderInv
  <2>4. ~Done(b)
    BY <2>2, <2>3 DEF IInv, DiskPart, OrderInv
  <2> QED
    BY <2>1, <2>2, <2>4 DEF IInv, TypeOK, Blocks, Done
<1>3. CASE ~CommitCursor
  <2>1. b <= cursor
    BY <1>1, <1>3, OtherSteps
  <2>2. b \notin everSkipped
    BY <1>3 DEF Next, MainStep, GoroutineStep, Failure, Finished, vars, history, Receive,
       BeginSeesError, StopLaunching, Launched, Rollback, RollBack, ReturnError, Panic,
       WriteCursor, SaveReturns, CommitAborted, Restart, Launch, Begin, BeginTxx, BeginTested,
       Commit, CloseRows, InsertRows, CheckErr, WriteCursorFails, RollbackFails, CommitFails,
       Crash, StatementFails, BeginFails
  <2>3. \A t \in touched[b] : b \in stored[t]
    BY <1>1, <2>1, <2>2 DEF IInv, DiskPart, BehindInv
  <2> QED
    BY <1>1, <2>1, <2>3 DEF Readable
<1> QED
  BY <1>2, <1>3

(* A reader at the cursor sees blocks appear whole, each when the cursor   *)
(* moves to it, and none disappear before the program is started again.    *)
THEOREM ReadersSeeWholeBlocks == Spec => ReaderSeesWholeBlocks
<1> DEFINE Seen ==
      /\ restarted \/ Readable \subseteq Readable'
      /\ ErrorMayBeLost \/ (Readable' \ Readable) \ everSkipped' \subseteq {cursor'} \ {cursor}
<1>1. IInv /\ [Next]_vars => Seen
  <2> SUFFICES ASSUME IInv, [Next]_vars  PROVE Seen
    OBVIOUS
  <2>1. ASSUME ~restarted, NEW b \in Readable  PROVE b \in Readable'
    <3>1. /\ b \in Blocks /\ b <= cursor /\ touched[b] # {} /\ touched[b] \subseteq Tables
          /\ \A t \in touched[b] : b \in stored[t]
      BY <2>1 DEF Readable, IInv, TypeOK
    <3>2. b <= cursor'
      <4>1. CASE CommitCursor
        BY <2>1, <3>1, <4>1 DEF CommitCursor, IInv, TypeOK, DiskPart, OrderInv, Blocks
      <4>2. CASE ~CommitCursor
        BY <3>1, <4>2, OtherSteps
      <4> QED
        BY <4>1, <4>2
    <3> QED
      BY <3>1, <3>2, RowsStay DEF Readable, Blocks
  <2>2. ASSUME ~ErrorMayBeLost, NEW b \in Readable' \ Readable, b \notin everSkipped'
        PROVE  b = cursor' /\ b # cursor
    <3>1. b \in Blocks
      BY <2>2 DEF Readable, Blocks
    <3> QED
      BY <2>2, <3>1, Appears
  <2> QED
    BY <2>1, <2>2
<1> QED
  BY <1>1, Invariance, PTL DEF Spec, ReaderSeesWholeBlocks
=============================================================================
