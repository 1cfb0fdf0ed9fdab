---------------------------- MODULE GraphNodeSink ----------------------------
(***************************************************************************)
(* The load-graphnode process, end to end: the stream loop of              *)
(* cli/exchange/graphnode.go, Loader.ReturnHandler of                      *)
(* cli/exchange/graphnode/return_handler.go, and Load, BatchSave and the   *)
(* persistent entity cache of graph-node/storage/postgres.                 *)
(*                                                                         *)
(* The cache and the handler share entities by pointer: the entity of a    *)
(* block that was read from the database IS the one in the cache, so what  *)
(* the handler and batchSave do to it is done to the cache, and no error   *)
(* path takes it back.                                                     *)
(*                                                                         *)
(* Every entity stands for a table of its own, the case with most room for *)
(* partial saves.  Its content is the set of blocks whose changes went     *)
(* into it: a change sets a field of its own, so that a lost one shows.    *)
(* TableChanges has what is done before, BatchSave what the goroutines of  *)
(* one save do to each other; both are one step here.                      *)
(***************************************************************************)
EXTENDS BlockRanges, FiniteSets

CONSTANTS
  Ids,              \* the entities
  Transactions,     \* those of type Transaction: SkipDBLookup returns true
  Nothing,          \* "not cached" and "not updated"
  MaxBlock,         \* bound: the stream sends the blocks 1 .. MaxBlock
  Faults,           \* the kinds of fault that may happen
  MaxFaults         \* bound: how many of them

FaultKinds == {"refuse", "load", "apply", "save", "stream", "crash"}

ASSUME SinkAssumption ==
  /\ MaxBlock \in Nat /\ MaxFaults \in Nat
  /\ Transactions \subseteq Ids
  /\ Faults \subseteq FaultKinds

VARIABLES
  content,      \* content[b]: the entities the changes of block b are about
  rows,         \* rows[id]: the committed rows of id
  nextVid,      \* nextVid[id]: the sequence of column vid
  cursor,       \* the block of the committed cursor
  block,        \* the block being handled, or the last one that was
  pc,           \* "idle", "handle", "save", "commit" or "stopped"
  todo,         \* the entities of the block not handled, saved or committed
  cache,        \* persistentCache: cache[id] is an entity or Nothing
  updates,      \* Loader.updates: updates[id] is an entity or Nothing
  shared,       \* the ids whose entity in updates is the one in the cache
  work,         \* work[id]: rows[id] as the open transaction of id sees it
  skipped,      \* history: the blocks ReturnHandler returned an error for
  restarted,    \* history: the program was started again
  faults,       \* history: how many faults there were ...
  happened      \* ... and of which kinds

faultVars == <<faults, happened>>
vars == <<content, rows, nextVid, cursor, block, pc, todo, cache, updates, shared, work,
          skipped, restarted, faultVars>>

Blocks == 1 .. MaxBlock

-----------------------------------------------------------------------------
(* Entities: lo is the start of the BlockRange, 0 when that is nil.        *)
Blank == [exists |-> FALSE, vid |-> 0, lo |-> 0, val |-> {}]
FromRow(r) == [exists |-> TRUE, vid |-> r.vid, lo |-> ParseBytes(r).start,
               val |-> r.val]
Cleared == [id \in Ids |-> Nothing]

(* A transaction hash occurs in one block only.                            *)
Init ==
  /\ content \in [Blocks -> SUBSET Ids]
  /\ \A b, c \in Blocks : b # c => content[b] \cap content[c] \cap Transactions = {}
  /\ rows = [id \in Ids |-> {}]
  /\ nextVid = [id \in Ids |-> 1]
  /\ cursor = 0
  /\ block = 0
  /\ pc = "idle"
  /\ todo = {}
  /\ cache = Cleared
  /\ updates = Cleared
  /\ shared = {}
  /\ work = rows
  /\ skipped = {}
  /\ restarted = FALSE
  /\ faults = 0
  /\ happened = {}

Fault(kind) ==
  /\ kind \in Faults /\ faults < MaxFaults
  /\ faults' = faults + 1
  /\ happened' = happened \cup {kind}

(* Slips the model can be made to take; none of them is the code.          *)
DefaultsAlways(e) == {[e EXCEPT !.val = {}]}
ReplacedAfterStamp(e, rs) == {r \in rs : e.lo # 0 /\ r.vid = 0}
CloseReplacedLate(e, rs) ==
  {IF e.lo # 0 /\ r.vid = e.vid THEN Closed(r, block + 1) ELSE r : r \in rs}
NewRowKeepingVid(id, e) ==
  [vid |-> e.vid, lo |-> block, hi |-> Open, upd |-> block, val |-> e.val]
NewRowKeepingStart(id, e) ==
  [vid |-> nextVid[id], lo |-> IF e.lo = 0 THEN block ELSE e.lo, hi |-> Open,
   upd |-> block, val |-> e.val]
StampedKeepingStart(e) == [e EXCEPT !.vid = 0]

(* ReturnHandler returns an error.  runLoadGraphnode prints it, and the    *)
(* next block follows.                                                     *)
ReturnError ==
  /\ pc' = "idle"
  /\ todo' = {}
  /\ skipped' = skipped \cup {block}

Receive ==
  /\ pc = "idle"
  /\ block < MaxBlock
  /\ block' = block + 1
  /\ pc' = "handle"
  /\ todo' = content[block + 1]
  /\ updates' = Cleared
  /\ shared' = {}
  /\ UNCHANGED <<content, restarted, rows, nextVid, cursor, cache, work, skipped, faultVars>>

-----------------------------------------------------------------------------
(* ReturnHandler.                                                          *)

(* store.Load.  Without a row in the cache the SELECT ... LIMIT 1 returns  *)
(* any row that is visible at the block.                                   *)
Visible(id, b) == {r \in rows[id] : Contains(r, b)}
Loads(id) ==
  IF cache[id] # Nothing THEN {cache[id]}
  ELSE IF id \in Transactions \/ Visible(id, block) = {} THEN {Blank}
  ELSE {FromRow(r) : r \in Visible(id, block)}
FirstLoad(id) == updates[id] = Nothing /\ cache[id] = Nothing /\ id \notin Transactions

(* The deferred SetEntity: e is the entity of the handler itself.          *)
CacheLoaded(id, e) ==
  IF FirstLoad(id)
  THEN cache' = [cache EXCEPT ![id] = e] /\ shared' = shared \cup {id}
  ELSE UNCHANGED <<cache, shared>>

(* Loader.load looks into updates first, and Loader.save puts the entity   *)
(* there.  Squash leaves one change of a row, so that neither updates nor  *)
(* current, which repeats what the store gave, ever has the entity.        *)
LoaderLoads(id) == IF updates[id] # Nothing THEN {updates[id]} ELSE Loads(id)
LoaderSave(e) == [e EXCEPT !.exists = TRUE]

(* Default() sets fields of an entity that does not exist to zero; what a  *)
(* failed block left in it is in one of those or not.                      *)
Defaults(e) == IF e.exists THEN {e} ELSE {e, [e EXCEPT !.val = {}]}

ApplyChange(id) ==
  /\ pc = "handle" /\ id \in todo
  /\ \E e \in LoaderLoads(id) : \E d \in Defaults(e) :
       LET applied == LoaderSave([d EXCEPT !.val = @ \cup {block}])
       IN  /\ updates' = [updates EXCEPT ![id] = applied]
           /\ CacheLoaded(id, applied)
  /\ todo' = todo \ {id}
  /\ UNCHANGED <<content, restarted, rows, nextVid, cursor, block, pc, work, skipped, faultVars>>

(* Unmarshal or Squash fails.                                              *)
RefuseBlock ==
  /\ pc = "handle" /\ updates = Cleared
  /\ Fault("refuse")
  /\ ReturnError
  /\ UNCHANGED <<content, restarted, rows, nextVid, cursor, block, cache, updates, shared, work>>

(* The SELECT fails; the deferred SetEntity has cached the entity all the  *)
(* same, as one that does not exist.                                       *)
LoadFails(id) ==
  /\ pc = "handle" /\ id \in todo /\ FirstLoad(id)
  /\ Fault("load")
  /\ CacheLoaded(id, Blank)
  /\ ReturnError
  /\ UNCHANGED <<content, restarted, rows, nextVid, cursor, block, updates, work>>

(* A NewValue does not parse.  Some fields may have been set by then.      *)
ApplyFails(id) ==
  /\ pc = "handle" /\ id \in todo
  /\ Fault("apply")
  /\ \E e \in LoaderLoads(id) : \E d \in Defaults(e) :
       \E v \in {d.val, d.val \cup {block}} : CacheLoaded(id, [d EXCEPT !.val = v])
  /\ ReturnError
  /\ UNCHANGED <<content, restarted, rows, nextVid, cursor, block, updates, work>>

(* A change is of a table that the registry does not know, or has no Pk.   *)
ChangeUnknown ==
  /\ pc = "handle"
  /\ Fault("apply")
  /\ ReturnError
  /\ UNCHANGED <<content, restarted, rows, nextVid, cursor, block, cache, updates, shared, work>>

(* Flush calls BatchSave, which begins a transaction for each table.       *)
Flush ==
  /\ pc = "handle" /\ todo = {}
  /\ pc' = "save"
  /\ todo' = content[block]
  /\ work' = rows
  /\ UNCHANGED <<content, restarted, rows, nextVid, cursor, block, cache, updates, shared, skipped, faultVars>>

-----------------------------------------------------------------------------
(* BatchSave.                                                              *)

(* UpdateBlockRange finds the version an entity was loaded from by its vid.*)
Replaced(e, rs) == {r \in rs : e.lo # 0 /\ r.vid = e.vid}
CloseReplaced(e, rs) ==
  (rs \ Replaced(e, rs)) \cup {Closed([r EXCEPT !.lo = e.lo], block) : r \in Replaced(e, rs)}

NewRow(id, e) ==
  [vid |-> nextVid[id], lo |-> block, hi |-> Open, upd |-> block, val |-> e.val]

(* SetVID(0) and SetBlockRange, before the INSERT is sent.                 *)
Stamped(e) == [e EXCEPT !.vid = 0, !.lo = block]

(* The INSERT returns the vid of the row; the entity goes to the cache     *)
(* before anything is committed.                                           *)
SaveEntity(id) ==
  /\ pc = "save" /\ id \in todo
  /\ LET e == updates[id]
         saved == [Stamped(e) EXCEPT !.vid = nextVid[id]]
     IN  /\ work' = [work EXCEPT ![id] = CloseReplaced(e, @) \cup {NewRow(id, e)}]
         /\ updates' = [updates EXCEPT ![id] = saved]
         /\ cache' = [cache EXCEPT ![id] = saved]
  /\ nextVid' = [nextVid EXCEPT ![id] = @ + 1]
  /\ shared' = shared \cup {id}
  /\ todo' = todo \ {id}
  /\ UNCHANGED <<content, restarted, rows, cursor, block, pc, skipped, faultVars>>

(* The UPDATE or the INSERT for id fails and all transactions are rolled   *)
(* back.  When it was the INSERT the entity has been stamped.              *)
SaveFails(id) ==
  /\ pc = "save" /\ id \in todo
  /\ Fault("save")
  /\ \/ UNCHANGED <<cache, updates>>
     \/ /\ updates' = [updates EXCEPT ![id] = Stamped(@)]
        /\ cache' = IF id \in shared THEN [cache EXCEPT ![id] = Stamped(@)] ELSE cache
  /\ ReturnError
  /\ UNCHANGED <<content, restarted, rows, nextVid, cursor, block, shared, work>>

(* saveCursor fails, or one of the transactions after the tables'.         *)
SaveCursorFails ==
  /\ pc = "save" /\ todo = {}
  /\ Fault("save")
  /\ ReturnError
  /\ UNCHANGED <<content, restarted, rows, nextVid, cursor, block, cache, updates, shared, work>>

SaveCursor ==
  /\ pc = "save" /\ todo = {}
  /\ pc' = "commit"
  /\ todo' = content[block]
  /\ UNCHANGED <<content, restarted, rows, nextVid, cursor, block, cache, updates, shared, work,
                 skipped, faultVars>>

(* mustCommit: the tables in the order they were begun, the cursor last.   *)
Commit(id) ==
  /\ pc = "commit" /\ id \in todo
  /\ rows' = [rows EXCEPT ![id] = work[id]]
  /\ todo' = todo \ {id}
  /\ UNCHANGED <<content, restarted, nextVid, cursor, block, pc, cache, updates, shared, work,
                 skipped, faultVars>>

CommitCursor ==
  /\ pc = "commit" /\ todo = {}
  /\ cursor' = block
  /\ pc' = "idle"
  /\ skipped' = skipped \ {block}
  /\ UNCHANGED <<content, restarted, rows, nextVid, block, todo, cache, updates, shared, work,
                 faultVars>>

-----------------------------------------------------------------------------
(* stream.Recv fails between two blocks: the program ends.                 *)
StreamFails ==
  /\ pc = "idle"
  /\ Fault("stream")
  /\ pc' = "stopped"
  /\ UNCHANGED <<content, restarted, rows, nextVid, cursor, block, todo, cache, updates, shared, work,
                 skipped>>

(* The process dies, or mustCommit panics.                                 *)
Crash ==
  /\ pc # "stopped"
  /\ Fault("crash")
  /\ pc' = "stopped"
  /\ todo' = {}
  /\ UNCHANGED <<content, restarted, rows, nextVid, cursor, block, cache, updates, shared, work, skipped>>

(* The request says StartBlockNum is --start-block: the cursor is not read *)
(* and nothing is cleaned, so the stream runs over the rows that are there.*)
Restart ==
  /\ pc = "stopped"
  /\ pc' = "idle"
  /\ block' = 0
  /\ restarted' = TRUE
  /\ cache' = Cleared
  /\ updates' = Cleared
  /\ shared' = {}
  /\ work' = rows
  /\ UNCHANGED <<content, rows, nextVid, cursor, todo, skipped, faultVars>>

Next ==
  \/ Receive
  \/ \E id \in Ids : ApplyChange(id) \/ LoadFails(id) \/ ApplyFails(id)
  \/ RefuseBlock
  \/ ChangeUnknown
  \/ Flush
  \/ \E id \in Ids : SaveEntity(id) \/ SaveFails(id)
  \/ SaveCursorFails
  \/ SaveCursor
  \/ \E id \in Ids : Commit(id)
  \/ CommitCursor
  \/ StreamFails
  \/ Crash
  \/ Restart

Spec == Init /\ [][Next]_vars

-----------------------------------------------------------------------------
(* The variables keep the shape of their declarations; a committed row has *)
(* a vid and a range.                                                      *)
Entity == [exists : BOOLEAN, vid : Nat, lo : 0 .. MaxBlock, val : SUBSET Blocks]
Row == [vid : Nat \ {0}, lo : Blocks, hi : 0 .. MaxBlock, upd : Blocks, val : SUBSET Blocks]
ASSUME NothingAssumption == Nothing \notin Entity

TypeOK ==
  /\ content \in [Blocks -> SUBSET Ids]
  /\ rows \in [Ids -> SUBSET Row] /\ work \in [Ids -> SUBSET Row]
  /\ nextVid \in [Ids -> Nat \ {0}]
  /\ cursor \in 0 .. MaxBlock /\ block \in 0 .. MaxBlock
  /\ pc \in {"idle", "handle", "save", "commit", "stopped"}
  /\ todo \subseteq Ids /\ shared \subseteq Ids
  /\ cache \in [Ids -> Entity \cup {Nothing}] /\ updates \in [Ids -> Entity \cup {Nothing}]
  /\ skipped \subseteq Blocks /\ restarted \in BOOLEAN
  /\ faults \in 0 .. MaxFaults /\ happened \subseteq Faults

(* Load takes LIMIT 1 because "GIST index is cannot be UNIQUE, but we      *)
(* assume it is" (postgres.go:586): at no block are two rows of an entity  *)
(* visible.                                                                *)
UniqueVisible ==
  \A id \in Ids, b \in Blocks : Cardinality(Visible(id, b)) <= 1

(* The faults that most promises cannot stand.                             *)
NoDatabaseError == {"load", "save"} \cap happened = {}

(* The assumption holds as long as the database answers and the program is *)
(* not started again: a block refused or a change half applied, and what a *)
(* process that dies between two commits leaves, never make two versions   *)
(* of an entity visible.                                                   *)
UniqueUnlessDatabaseError == (NoDatabaseError /\ ~restarted) => UniqueVisible

(* What graph-node serves at a block the cursor has passed is the fold of  *)
(* the changes up to that block: none lost, none twice, none of a block    *)
(* that failed, and no change of a later block.                            *)
ChangesUpTo(id, b) == {c \in Blocks \ skipped : c <= b /\ id \in content[c]}
Served(id, b) == {r.val : r \in Visible(id, b)}
ServedIsFold ==
  (NoDatabaseError /\ "apply" \notin happened /\ ~restarted) =>
    \A id \in Ids, b \in Blocks : b <= cursor =>
      Served(id, b) = IF ChangesUpTo(id, b) = {} THEN {} ELSE {ChangesUpTo(id, b)}

(* When a failing change has been applied in part its block may leak into  *)
(* later versions through the cache, and a stream that starts again leaves *)
(* versions beside those of the first run.  The changes of the blocks that *)
(* were saved are all there nevertheless, in one of the versions.          *)
NoChangeLost ==
  NoDatabaseError =>
    \A id \in Ids, b \in Blocks :
      (b <= cursor /\ ChangesUpTo(id, b) # {}) =>
        \E v \in Served(id, b) : ChangesUpTo(id, b) \subseteq v

(* Between blocks a cached entity knows the row that holds it, in every    *)
(* run of the program: an update made from the cache closes that version.  *)
(* In the first run it is the one version open in the database.            *)
OpenRows(id) == {r \in rows[id] : r.hi = Open}
CacheKnowsItsRow ==
  (pc = "idle" /\ NoDatabaseError) =>
    \A id \in Ids : cache[id] # Nothing =>
      /\ cache[id].lo # 0 =>
          \E r \in rows[id] : r.vid = cache[id].vid /\ r.lo = cache[id].lo
      /\ ("apply" \notin happened \/ ~restarted) /\ cache[id].lo # 0 =>
          \E r \in OpenRows(id) : r.vid = cache[id].vid /\ r.lo = cache[id].lo
      /\ ~restarted =>
          {[vid |-> r.vid, lo |-> r.lo] : r \in OpenRows(id)} =
             IF cache[id].lo = 0 THEN {} ELSE {[vid |-> cache[id].vid, lo |-> cache[id].lo]}

(* A step changes what is served only at the block it saves or at later    *)
(* ones.  In the first run that is so whatever fails; when the program     *)
(* starts again, the blocks it has not come to yet stay as they were       *)
(* served, and so do those it has passed, if no call of a block failed     *)
(* halfway.                                                                *)
PastStands ==
  [][(~restarted' \/ happened' \subseteq {"refuse", "stream", "crash"}) =>
       \A id \in Ids, b \in 1 .. (block - 1) : Served(id, b)' = Served(id, b)]_vars
=============================================================================
