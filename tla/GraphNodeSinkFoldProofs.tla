---------------------- MODULE GraphNodeSinkFoldProofs ----------------------
(***************************************************************************)
(* Theorems about GraphNodeSink while the database answers, for any        *)
(* entities, blocks and other faults.  In the first run of the program     *)
(* rows do not overlap, the cache knows the open one, and what is served   *)
(* is the fold of the changes.  In every run, over the rows that earlier   *)
(* ones left, no change that was saved is lost.                            *)
(***************************************************************************)
EXTENDS GraphNodeSinkProofs, FiniteSetTheorems

FirstRun == ~restarted
Calm == NoDatabaseError
Saving == {"save", "commit"}

(* A transaction is in one block; what lies between the cursor and the     *)
(* block in hand was skipped.                                              *)
StreamInv ==
  /\ \A b, c \in Blocks : b # c => content[b] \cap content[c] \cap Transactions = {}
  /\ \A c \in Blocks : cursor < c /\ (c < block \/ (c = block /\ pc = "idle")) => c \in skipped
  /\ pc = "handle" => \A id \in Ids : updates[id] # Nothing => id \in content[block]

(* A row starts at a block that changes its entity.  The ranges of two     *)
(* rows have no block in common.                                           *)
Apart(r, s) == \/ r.hi # Open /\ r.hi <= s.lo
               \/ s.hi # Open /\ s.hi <= r.lo
Sorted(id, rs) ==
  /\ \A r \in rs : id \in content[r.lo]
  /\ \A r, s \in rs : r # s => Apart(r, s)
ApartInv == \A id \in Ids : Sorted(id, rows[id]) /\ Sorted(id, Unsaved(id))

(* A transaction starts and ends ranges at its own block only, and only    *)
(* for the entities of the block.                                          *)
Bound(id, n) == n <= cursor \/ (n = block /\ id \in content[block])
GapInv == \A id \in Ids : \A r \in Unsaved(id) : Bound(id, r.lo) /\ Bound(id, r.hi)

(* An entity in memory that will be saved, or that was, knows the open row.*)
Agrees(e, rs) ==
  /\ e.lo = 0 => \A r \in rs : r.hi # Open
  /\ e.lo # 0 => e.exists /\ \E r \in rs : r.hi = Open /\ r.vid = e.vid /\ r.lo = e.lo
Seen(id) == IF pc \in Saving THEN work[id] ELSE rows[id]
Unwritten(id) == updates[id] # Nothing /\ (pc = "handle" \/ (pc = "save" /\ id \in todo))
AgreeInv ==
  \A id \in Ids :
    /\ pc # "stopped" /\ cache[id] # Nothing => Agrees(cache[id], Seen(id))
    /\ Unwritten(id) => updates[id].exists /\ Agrees(updates[id], Seen(id))

(* The values: without apply errors they are exact.                        *)
Exact == "apply" \notin happened
Fits(v, C) == C \subseteq v /\ (Exact => v = C)
PastInv ==
  \A id \in Ids, b \in 1 .. cursor :
    IF ChangesUpTo(id, b) = {}
    THEN Exact => Served(id, b) = {}
    ELSE \E v \in Served(id, b) : Fits(v, ChangesUpTo(id, b))

Before(id) == ChangesUpTo(id, cursor)
After(id) == Before(id) \cup {block}
Written(id) == pc \in Saving /\ id \in content[block] /\ (pc = "save" => id \notin todo)
ValueInv ==
  \A id \in Ids :
    /\ /\ cache[id] # Nothing
       /\ pc \in {"idle", "handle"} \/ (pc \in Saving /\ id \notin content[block])
       => \/ Fits(cache[id].val, Before(id))
          \/ pc = "handle" /\ updates[id] # Nothing /\ Fits(cache[id].val, After(id))
    /\ Unwritten(id) => Fits(updates[id].val, After(id))
    /\ Written(id) => /\ cache[id] # Nothing /\ Fits(cache[id].val, After(id))
                      /\ \E r \in work[id] : r.lo = block /\ r.hi = Open /\ Fits(r.val, After(id))

Folded == ApartInv /\ GapInv /\ AgreeInv /\ PastInv /\ ValueInv
FoldInv ==
  /\ IInv
  /\ FirstRun => StreamInv /\ (Calm => Folded)

-----------------------------------------------------------------------------
(* Nothing is in memory or in the database at the start.                   *)
LEMMA InitFolded == Init => FoldInv
<1> SUFFICES ASSUME Init  PROVE FoldInv
  OBVIOUS
<1> USE SinkAssumption DEF Init, Saving, Unsaved, Cleared
<1>1. IInv
  BY InitInv
<1>2. StreamInv
  BY DEF StreamInv, Blocks
<1>3. ApartInv /\ GapInv
  BY DEF ApartInv, Sorted, GapInv
<1>4. AgreeInv /\ ValueInv
  BY DEF AgreeInv, ValueInv, Unwritten, Written
<1>5. PastInv
  BY DEF PastInv
<1> QED
  BY <1>1, <1>2, <1>3, <1>4, <1>5 DEF FoldInv, Folded

(* A block that is given up is skipped, one that is committed is not.      *)
LEMMA StepStream ==
  ASSUME IInv, FirstRun, StreamInv, Next, ~Restart
  PROVE  StreamInv'
<1> USE SinkAssumption DEF StreamInv, FirstRun, faultVars
<1>1. /\ cursor \in Nat /\ block \in Nat /\ cursor <= block /\ \A c \in Blocks : c \in Nat
      /\ pc \in {"idle", "handle", "save", "commit", "stopped"} /\ todo \subseteq Ids
      /\ updates \in [Ids -> Entity \cup {Nothing}]
  BY DEF IInv, TypeInv, TypeOK, OrderInv, Blocks
<1>2. pc = "handle" => todo \subseteq content[block]
  BY DEF IInv, TypeInv, HandlerInv, Active
<1>3. CASE Receive \/ Flush \/ SaveCursor \/ CommitCursor
  BY <1>1, <1>3 DEF Receive, Flush, SaveCursor, CommitCursor, Cleared
<1>4. CASE RefuseBlock \/ ChangeUnknown \/ SaveCursorFails
  BY <1>1, <1>4 DEF RefuseBlock, ChangeUnknown, SaveCursorFails, ReturnError
<1>5. CASE StreamFails \/ Crash
  BY <1>1, <1>5 DEF StreamFails, Crash
<1>6. CASE \E id \in Ids : ApplyChange(id) \/ SaveEntity(id) \/ Commit(id)
  BY <1>1, <1>2, <1>6 DEF ApplyChange, SaveEntity, Commit
<1>7. CASE \E id \in Ids : LoadFails(id) \/ ApplyFails(id) \/ SaveFails(id)
  BY <1>1, <1>7 DEF LoadFails, ApplyFails, SaveFails, ReturnError
<1> QED
  BY <1>3, <1>4, <1>5, <1>6, <1>7 DEF Next

(* The faults only add up.                                                 *)
LEMMA StepCalm ==
  ASSUME Next, Calm'
  PROVE  /\ Calm /\ (Exact' => Exact)
         /\ ~SaveCursorFails /\ \A id \in Ids : ~LoadFails(id) /\ ~SaveFails(id)
<1>1. happened \subseteq happened'
  BY HistoryGrows
<1>2. ~SaveCursorFails /\ \A id \in Ids : ~LoadFails(id) /\ ~SaveFails(id)
  BY DEF Calm, NoDatabaseError, LoadFails, SaveFails, SaveCursorFails, Fault
<1> QED
  BY <1>1, <1>2 DEF Calm, NoDatabaseError, Exact

(* Blocks behind the cursor stay committed or skipped.                     *)
LEMMA StepChanges ==
  ASSUME IInv, FirstRun, StreamInv, Next, NEW id \in Ids, NEW b \in Int, b <= cursor
  PROVE  ChangesUpTo(id, b)' = ChangesUpTo(id, b)
<1>1. content' = content
  BY DEF Next, Receive, ApplyChange, LoadFails, ApplyFails, RefuseBlock,
         ChangeUnknown, Flush, SaveEntity, SaveFails, SaveCursorFails, SaveCursor, Commit,
         CommitCursor, StreamFails, Crash, Restart
<1>2. \/ skipped' = skipped
      \/ pc \in Active /\ skipped' \in {skipped \cup {block}, skipped \ {block}}
  BY DEF Next, Active, Receive, ApplyChange, LoadFails, ApplyFails, RefuseBlock,
         ChangeUnknown, Flush, SaveEntity, SaveFails, SaveCursorFails, SaveCursor, Commit,
         CommitCursor, StreamFails, Crash, Restart, ReturnError
<1>3. cursor \in Nat /\ block \in Nat /\ (pc \in Active => cursor < block)
  BY SinkAssumption DEF IInv, FirstRun, TypeInv, TypeOK, OrderInv
<1> QED
  BY <1>1, <1>2, <1>3 DEF ChangesUpTo, Blocks

(* What is behind the cursor stays the fold.                               *)
LEMMA PastKept ==
  ASSUME IInv, FirstRun, FirstRun', StreamInv, Folded, Next, Calm', cursor' = cursor
  PROVE  PastInv'
<1> SUFFICES ASSUME NEW id \in Ids, NEW b \in 1 .. cursor
             PROVE  IF ChangesUpTo(id, b)' = {}
                    THEN Exact' => Served(id, b)' = {}
                    ELSE \E v \in Served(id, b)' : Fits(v, ChangesUpTo(id, b))'
  BY DEF PastInv
<1>1. Served(id, b)' = Served(id, b)
  <2>1. CASE \E i \in Ids : Commit(i)
    <3>1. b \in 1 .. (block - 1)
      BY <2>1, SinkAssumption DEF Commit, IInv, FirstRun, TypeInv, TypeOK, OrderInv, Active
    <3> QED
      BY <3>1, ServedStays DEF Steady, FirstRun
  <2>2. CASE \A i \in Ids : ~Commit(i)
    BY <2>2, OthersLeaveRows DEF Served, Visible
  <2> QED
    BY <2>1, <2>2
<1>2. ChangesUpTo(id, b)' = ChangesUpTo(id, b)
  BY StepChanges DEF IInv, TypeInv, TypeOK
<1>3. Exact' => Exact
  BY StepCalm
<1> QED
  BY <1>1, <1>2, <1>3 DEF Folded, PastInv, Fits

-----------------------------------------------------------------------------
(* The rows of an entity while nothing is being committed: the open one is *)
(* visible at the cursor and later, a closed one before it only.           *)
Settled == pc \in {"idle", "handle", "save"} /\ Calm /\ FirstRun
LEMMA SettledRows ==
  ASSUME IInv, Settled, NEW id \in Ids, NEW r \in rows[id]
  PROVE  /\ r.lo \in 1 .. cursor /\ r.hi \in 0 .. cursor /\ r \in Row
         /\ \A b \in Nat : cursor <= b => (Contains(r, b) <=> r.hi = Open)
<1>1. Reach = cursor
  BY DEF Settled, Reach
<1>2. r \in Row /\ Ranged(r, cursor)
  BY <1>1 DEF Settled, FirstRun, IInv, TypeInv, TypeOK, RangeInv
<1>3. cursor \in Nat /\ r.lo \in Nat \ {0} /\ r.hi \in Nat
  BY <1>2, SinkAssumption DEF IInv, TypeInv, TypeOK, Row, Blocks
<1>4. r.lo <= cursor /\ r.hi <= cursor
  BY <1>2 DEF Ranged
<1> QED
  BY <1>2, <1>3, <1>4 DEF Contains, Open

(* The open row holds the fold; without one there is nothing to hold.      *)
LEMMA OpenRowFits ==
  ASSUME IInv, Folded, Settled, NEW id \in Ids
  PROVE  /\ (\A r \in rows[id] : r.hi # Open) => Before(id) = {}
         /\ \A r \in rows[id] : r.hi = Open => Fits(r.val, Before(id))
<1>1. cursor \in Nat
  BY DEF IInv, TypeInv, TypeOK
<1>2. \A r \in rows[id] : /\ Contains(r, cursor) <=> r.hi = Open
                          /\ cursor \in 1 .. cursor
  BY <1>1, SettledRows
<1>3. Served(id, cursor) = {r.val : r \in {s \in rows[id] : s.hi = Open}}
  BY <1>2 DEF Served, Visible
<1>4. \A r, s \in rows[id] : r.hi = Open /\ s.hi = Open => r = s
  BY DEF Folded, ApartInv, Sorted, Apart
<1>5. cursor = 0 => Before(id) = {}
  BY <1>1 DEF Before, ChangesUpTo, Blocks
<1>6. cursor # 0 => IF Before(id) = {} THEN Exact => Served(id, cursor) = {}
                    ELSE \E v \in Served(id, cursor) : Fits(v, Before(id))
  BY <1>1 DEF Folded, PastInv, Before
<1>7. ASSUME \A r \in rows[id] : r.hi # Open
      PROVE  Before(id) = {}
  BY <1>3, <1>5, <1>6, <1>7
<1>8. ASSUME NEW r \in rows[id], r.hi = Open
      PROVE  Fits(r.val, Before(id))
  <2>1. cursor # 0
    BY <1>1, <1>2
  <2>2. CASE Before(id) = {}
    <3>1. ~Exact
      BY <1>3, <1>6, <1>8, <2>1, <2>2
    <3> QED
      BY <2>2, <3>1 DEF Fits
  <2>3. CASE Before(id) # {}
    BY <1>3, <1>4, <1>6, <1>8, <2>1, <2>3
  <2> QED
    BY <2>2, <2>3
<1> QED
  BY <1>7, <1>8

(* A transaction has no row before its block.                              *)
LEMMA TransactionIsNew ==
  ASSUME IInv, StreamInv, Folded, Settled, pc = "handle", NEW id \in todo, id \in Transactions
  PROVE  rows[id] = {}
<1> SUFFICES ASSUME NEW r \in rows[id]  PROVE FALSE
  OBVIOUS
<1>1. id \in Ids /\ block \in Blocks /\ id \in content[block] /\ cursor < block
  BY DEF Settled, FirstRun, IInv, TypeInv, TypeOK, HandlerInv, OrderInv, Active
<1>2. r.lo <= cursor /\ r.lo \in Nat /\ r \in Row
  BY <1>1, SettledRows
<1>3. id \in content[r.lo] /\ r.lo \in Blocks
  BY <1>1, <1>2 DEF Folded, ApartInv, Sorted, Row
<1>4. r.lo # block
  BY <1>1, <1>2, SinkAssumption DEF IInv, TypeInv, TypeOK, Blocks
<1> QED
  BY <1>1, <1>3, <1>4 DEF StreamInv

(* What a load gives knows the open row and has the fold.                  *)
LEMMA LoadsFit ==
  ASSUME IInv, FirstRun, StreamInv, Folded, Calm, pc = "handle", NEW id \in todo,
         NEW e \in LoaderLoads(id)
  PROVE  /\ Agrees(e, rows[id])
         /\ Fits(e.val, IF updates[id] = Nothing THEN Before(id) ELSE After(id))
<1> USE DEF Settled, FirstRun
<1>1. /\ id \in Ids /\ Seen(id) = rows[id] /\ rows[id] \subseteq Row /\ Settled
      /\ cursor < block /\ cursor \in Nat /\ block \in Nat
  BY SinkAssumption DEF IInv, TypeInv, TypeOK, OrderInv, Active, Seen, Saving
<1>2. CASE updates[id] # Nothing
  BY <1>1, <1>2 DEF LoaderLoads, Folded, AgreeInv, ValueInv, Unwritten
<1>3. CASE updates[id] = Nothing /\ cache[id] # Nothing
  BY <1>1, <1>3 DEF LoaderLoads, Loads, Folded, AgreeInv, ValueInv
<1>4. CASE updates[id] = Nothing /\ e = Blank /\ (id \in Transactions \/ Visible(id, block) = {})
  <2>1. \A r \in rows[id] : r.hi # Open
    BY <1>1, <1>4, SettledRows, TransactionIsNew DEF Visible
  <2> QED
    BY <1>1, <1>4, <2>1, OpenRowFits, BlankIsEntity DEF Agrees, Fits
<1>5. ASSUME updates[id] = Nothing, NEW r \in Visible(id, block), e = FromRow(r)
      PROVE  Agrees(e, rows[id]) /\ Fits(e.val, Before(id))
  <2>1. r \in rows[id] /\ r \in Row /\ r.hi = Open
    BY <1>1, SettledRows DEF Visible
  <2>2. e.exists /\ e.vid = r.vid /\ e.lo = r.lo /\ e.val = r.val /\ r.lo # 0
    BY <1>5, <2>1, RowIsEntity, SinkAssumption DEF Row, Blocks
  <2> QED
    BY <1>1, <2>1, <2>2, OpenRowFits DEF Agrees
<1> QED
  BY <1>2, <1>3, <1>4, <1>5 DEF LoaderLoads, Loads

(* Defaults clear the fields of an entity without a row only.              *)
LEMMA DefaultsFit ==
  ASSUME IInv, FirstRun, StreamInv, Folded, Calm, pc = "handle", NEW id \in todo,
         NEW e \in LoaderLoads(id), NEW d \in Defaults(e)
  PROVE  /\ d \in Entity /\ Agrees(d, rows[id])
         /\ Fits(d.val \cup {block}, After(id))
         /\ Before(id) \subseteq d.val
<1>1. id \in Ids /\ e \in Entity /\ block \in Blocks
  BY LoadsEntities DEF IInv, TypeInv, TypeOK, HandlerInv, Active
<1>2. d \in Entity /\ d.vid = e.vid /\ d.lo = e.lo /\ d.exists = e.exists
  BY <1>1, Applied DEF Defaults, Entity
<1>3. Agrees(e, rows[id]) /\ Fits(e.val, IF updates[id] = Nothing THEN Before(id) ELSE After(id))
  BY LoadsFit
<1>4. Agrees(d, rows[id])
  BY <1>2, <1>3 DEF Agrees
<1>5. CASE d = e
  BY <1>1, <1>3, <1>5 DEF Fits, After
<1>6. CASE ~e.exists /\ d = [e EXCEPT !.val = {}]
  <2>1. d.val = {}
    BY <1>1, <1>6 DEF Entity
  <2>2. Before(id) = {}
    BY <1>1, <1>3, <1>6, OpenRowFits DEF Agrees, Settled
  <2> QED
    BY <1>2, <1>4, <2>1, <2>2 DEF Fits, After
<1> QED
  BY <1>2, <1>4, <1>5, <1>6 DEF Defaults

-----------------------------------------------------------------------------
(* What a step starts from, and what it is to keep: PastKept has the rest. *)
Ready == IInv /\ FirstRun /\ StreamInv /\ Folded /\ Calm
Kept == ApartInv /\ GapInv /\ AgreeInv /\ ValueInv

(* The fold behind the cursor moves with the cursor only.                  *)
LEMMA StepBefore ==
  ASSUME IInv, FirstRun, StreamInv, Next, cursor' = cursor, NEW id \in Ids
  PROVE  Before(id)' = Before(id)
<1>1. \A b \in Int : b <= cursor => ChangesUpTo(id, b)' = ChangesUpTo(id, b)
  BY StepChanges
<1>2. cursor \in Int /\ cursor <= cursor
  BY DEF IInv, TypeInv, TypeOK
<1> QED
  BY <1>1, <1>2 DEF Before, ChangesUpTo

LEMMA ReceiveFolds ==
  ASSUME Ready, Calm', Receive
  PROVE  Kept'
<1> USE DEF Ready, Folded, Receive, faultVars, Saving, Unsaved, Cleared
<1>1. Next /\ cursor' = cursor
  BY DEF Next
<1>2. \A id \in Ids : Before(id)' = Before(id)
  BY <1>1, StepBefore
<1>3. ApartInv' /\ GapInv'
  BY DEF ApartInv, Sorted, GapInv
<1>4. AgreeInv'
  BY DEF AgreeInv, Seen, Unwritten
<1>5. ValueInv'
  BY <1>2 DEF ValueInv, Unwritten, Written, Fits, Exact
<1> QED
  BY <1>3, <1>4, <1>5 DEF Kept

(* A block is refused before anything of it is applied; later it may leave *)
(* values in the cache that hold too much.                                 *)
LEMMA RefusalFolds ==
  ASSUME Ready, Calm', RefuseBlock \/ ChangeUnknown
  PROVE  Kept'
<1> USE DEF Ready, Folded, ReturnError, Saving, Unsaved
<1>1. /\ Next /\ cursor' = cursor /\ pc = "handle" /\ pc' = "idle"
      /\ UNCHANGED <<content, rows, cache, updates>>
      /\ (RefuseBlock /\ updates = Cleared) \/ ~Exact'
      /\ Exact' => Exact
  BY DEF Next, RefuseBlock, ChangeUnknown, Fault, Exact
<1>2. \A id \in Ids : Before(id)' = Before(id)
  BY <1>1, StepBefore
<1>3. ApartInv' /\ GapInv'
  BY <1>1 DEF ApartInv, Sorted, GapInv
<1>4. AgreeInv'
  BY <1>1 DEF AgreeInv, Seen, Unwritten
<1>5. ValueInv'
  BY <1>1, <1>2 DEF ValueInv, Unwritten, Written, Fits, After, Cleared
<1> QED
  BY <1>3, <1>4, <1>5 DEF Kept

(* The applied entity has the fold and the block.                          *)
LEMMA ApplyChangeFolds ==
  ASSUME Ready, Calm', NEW id \in Ids, ApplyChange(id)
  PROVE  Kept'
<1>1. /\ Next /\ pc = "handle" /\ pc' = "handle" /\ id \in todo
      /\ UNCHANGED <<content, rows, cursor, block, happened>>
  BY DEF Next, ApplyChange, faultVars
<1>2. PICK e \in LoaderLoads(id) : \E d \in Defaults(e) :
        LET applied == LoaderSave([d EXCEPT !.val = @ \cup {block}])
        IN  updates' = [updates EXCEPT ![id] = applied] /\ CacheLoaded(id, applied)
  BY DEF ApplyChange
<1>3. PICK d \in Defaults(e) :
        LET applied == LoaderSave([d EXCEPT !.val = @ \cup {block}])
        IN  updates' = [updates EXCEPT ![id] = applied] /\ CacheLoaded(id, applied)
  BY <1>2
<1> DEFINE applied == LoaderSave([d EXCEPT !.val = @ \cup {block}])
<1>4. /\ d \in Entity /\ Agrees(d, rows[id]) /\ Fits(d.val \cup {block}, After(id))
      /\ applied \in Entity
  <2>1. e \in Entity /\ block \in Blocks
    BY <1>1, LoadsEntities DEF Ready, IInv, TypeInv, HandlerInv, Active
  <2> QED
    BY <1>1, <2>1, DefaultsFit, Applied DEF Ready
<1>5. /\ applied.vid = d.vid /\ applied.lo = d.lo /\ applied.val = d.val \cup {block}
      /\ applied.exists
  BY <1>4 DEF LoaderSave, Entity
<1>6. updates' = [updates EXCEPT ![id] = applied] /\ CacheLoaded(id, applied)
  BY <1>3
<1> HIDE DEF applied
<1>7. applied.exists /\ Agrees(applied, rows[id]) /\ Fits(applied.val, After(id))
  BY <1>4, <1>5 DEF Agrees
<1>8. \A i \in Ids : Before(i)' = Before(i) /\ After(i)' = After(i)
  BY <1>1, StepBefore DEF Ready, After
<1>9. /\ updates'[id] = applied /\ \A i \in Ids \ {id} : updates'[i] = updates[i]
      /\ cache'[id] \in {cache[id], applied} /\ \A i \in Ids \ {id} : cache'[i] = cache[i]
      /\ id \in content[block] /\ applied # Nothing
  BY <1>1, <1>4, <1>5, <1>6, NothingAssumption
     DEF CacheLoaded, Ready, IInv, TypeInv, TypeOK, HandlerInv, Active
<1>10. ApartInv' /\ GapInv'
  BY <1>1 DEF Ready, Folded, ApartInv, Sorted, GapInv, Unsaved, Saving
<1>11. AgreeInv'
  BY <1>1, <1>7, <1>9 DEF Ready, Folded, AgreeInv, Seen, Unwritten, Saving
<1>12. ValueInv'
  BY <1>1, <1>7, <1>8, <1>9 DEF Ready, Folded, ValueInv, Unwritten, Written, Saving, Fits, Exact
<1> QED
  BY <1>10, <1>11, <1>12 DEF Kept

(* What a failing change leaves in the cache is of the same row and holds  *)
(* all that is behind the cursor.                                          *)
LEMMA ApplyFailsFolds ==
  ASSUME Ready, Calm', NEW id \in Ids, ApplyFails(id)
  PROVE  Kept'
<1>1. /\ Next /\ pc = "handle" /\ pc' = "idle" /\ id \in todo /\ ~Exact'
      /\ UNCHANGED <<content, rows, cursor, block, updates>>
  BY DEF Next, ApplyFails, ReturnError, Fault, Exact
<1>2. PICK e \in LoaderLoads(id) : \E d \in Defaults(e) :
        \E v \in {d.val, d.val \cup {block}} : CacheLoaded(id, [d EXCEPT !.val = v])
  BY DEF ApplyFails
<1>3. PICK d \in Defaults(e) :
        \E v \in {d.val, d.val \cup {block}} : CacheLoaded(id, [d EXCEPT !.val = v])
  BY <1>2
<1>4. PICK v \in {d.val, d.val \cup {block}} : CacheLoaded(id, [d EXCEPT !.val = v])
  BY <1>3
<1> DEFINE left == [d EXCEPT !.val = v]
<1>5. d \in Entity /\ Agrees(d, rows[id]) /\ Before(id) \subseteq d.val
  BY <1>1, DefaultsFit DEF Ready
<1>6. left.vid = d.vid /\ left.lo = d.lo /\ left.val = v /\ left.exists = d.exists
  BY <1>5 DEF Entity
<1>7. CacheLoaded(id, left)
  BY <1>4
<1> HIDE DEF left
<1>8. Agrees(left, rows[id]) /\ Before(id) \subseteq left.val
  BY <1>5, <1>6 DEF Agrees
<1>9. \A i \in Ids : Before(i)' = Before(i)
  BY <1>1, StepBefore DEF Ready
<1>10. cache'[id] \in {cache[id], left} /\ \A i \in Ids \ {id} : cache'[i] = cache[i]
  BY <1>7 DEF CacheLoaded, Ready, IInv, TypeInv, TypeOK
<1>11. ApartInv' /\ GapInv'
  BY <1>1 DEF Ready, Folded, ApartInv, Sorted, GapInv, Unsaved, Saving
<1>12. AgreeInv'
  BY <1>1, <1>8, <1>10 DEF Ready, Folded, AgreeInv, Seen, Unwritten, Saving
<1>13. ValueInv'
  BY <1>1, <1>8, <1>9, <1>10
     DEF Ready, Folded, ValueInv, Unwritten, Written, Saving, Fits, After
<1> QED
  BY <1>11, <1>12, <1>13 DEF Kept

(* The transactions begin with the rows as they are.                       *)
LEMMA FlushFolds ==
  ASSUME Ready, Calm', Flush
  PROVE  Kept'
<1> USE DEF Ready, Folded
<1>1. /\ Next /\ pc = "handle" /\ pc' = "save"
      /\ todo = {} /\ todo' = content[block] /\ work' = rows
      /\ UNCHANGED <<content, rows, cursor, block, cache, updates, happened>>
  BY DEF Next, Flush, faultVars
<1>2. \A i \in Ids : Before(i)' = Before(i) /\ After(i)' = After(i)
  BY <1>1, StepBefore DEF After
<1>3. \A i \in Ids : updates[i] # Nothing <=> i \in content[block]
  BY <1>1 DEF StreamInv, IInv, TypeInv, TypeOK, HandlerInv, Active
<1>4. ApartInv'
  BY <1>1 DEF ApartInv, Sorted, Unsaved
<1>5. GapInv'
  BY <1>1, SettledRows DEF GapInv, Bound, Unsaved, Settled
<1>6. AgreeInv'
  BY <1>1, <1>3 DEF AgreeInv, Seen, Unwritten, Saving
<1>7. ValueInv'
  BY <1>1, <1>2, <1>3 DEF ValueInv, Unwritten, Written, Saving, Fits, Exact
<1> QED
  BY <1>4, <1>5, <1>6, <1>7 DEF Kept

(* One entity's row is closed and its new one written: the closed one was  *)
(* the only open one.                                                      *)
LEMMA SaveEntityFolds ==
  ASSUME Ready, Calm', NEW id \in Ids, SaveEntity(id)
  PROVE  Kept'
<1> DEFINE e == updates[id]
           saved == [Stamped(e) EXCEPT !.vid = nextVid[id]]
           new == NewRow(id, e)
           Old(r) == IF r.hi = Open THEN Closed([r EXCEPT !.lo = e.lo], block) ELSE r
           left == CloseReplaced(e, work[id]) \cup {new}
<1>1. /\ Next /\ pc = "save" /\ pc' = "save" /\ id \in todo /\ todo' = todo \ {id}
      /\ work' = [work EXCEPT ![id] = left]
      /\ updates' = [updates EXCEPT ![id] = saved]
      /\ cache' = [cache EXCEPT ![id] = saved]
      /\ UNCHANGED <<content, rows, cursor, block, happened>>
  BY DEF Next, SaveEntity, faultVars
<1>2. /\ e \in Entity /\ e # Nothing /\ block \in Blocks /\ nextVid[id] \in Nat \ {0}
      /\ rows[id] \subseteq Row /\ work[id] = rows[id] /\ id \in content[block] /\ Settled
      /\ saved \in Entity
  BY <1>1, EntityInHand, SavedRows
     DEF Ready, FirstRun, IInv, TypeInv, TypeOK, HandlerInv, Settled
<1>3. saved.vid = nextVid[id] /\ saved.lo = block /\ saved.val = e.val /\ saved.exists = e.exists
  BY <1>2 DEF Stamped, Entity
<1>4. new.vid = nextVid[id] /\ new.lo = block /\ new.hi = Open /\ new.val = e.val
  BY DEF NewRow
<1>5. e.exists /\ Agrees(e, rows[id]) /\ Fits(e.val, After(id))
  BY <1>1, <1>2 DEF Ready, Folded, AgreeInv, ValueInv, Seen, Unwritten, Saving
<1>6. Replaced(e, rows[id]) = {r \in rows[id] : r.hi = Open}
  <2>1. \A r, s \in rows[id] : r.hi = Open /\ s.hi = Open => r = s
    BY DEF Ready, Folded, ApartInv, Sorted, Apart
  <2>2. \A r \in rows[id] : e.lo # 0 /\ r.vid = e.vid => r.hi = Open
    BY <1>2 DEF Ready, FirstRun, Steady, IInv, KnownInv, Knows, Loose
  <2> QED
    BY <1>5, <2>1, <2>2 DEF Replaced, Agrees
<1>7. left = {Old(r) : r \in rows[id]} \cup {new}
  BY <1>2, <1>6 DEF CloseReplaced
<1>8. \A r \in rows[id] : Old(r).lo = r.lo /\ Old(r).hi = (IF r.hi = Open THEN block ELSE r.hi)
  <2>1. \A r \in rows[id] : r.hi = Open => r.lo = e.lo
    BY <1>2, <1>6 DEF Ready, FirstRun, Steady, IInv, KnownInv, Knows, Loose, Replaced
  <2> QED
    BY <1>2, <2>1 DEF Closed, Row
<1>9. \A i \in Ids : Before(i)' = Before(i) /\ After(i)' = After(i)
  BY <1>1, StepBefore DEF Ready, After
<1>10. /\ cursor \in Nat /\ block \in Nat /\ cursor < block /\ block # Open
       /\ \A r \in rows[id] : r.lo \in Nat /\ r.hi \in Nat /\ r.lo <= cursor /\ r.hi <= cursor
  BY <1>1, <1>2, SettledRows, SinkAssumption
     DEF Ready, FirstRun, IInv, TypeInv, TypeOK, OrderInv, Active, Blocks, Open, Row
<1> HIDE DEF e, saved, new, Old, left
<1>11. /\ Unsaved(id)' = left /\ Seen(id)' = left /\ cache'[id] = saved /\ updates'[id] = saved
       /\ rows'[id] = rows[id]
       /\ \A i \in Ids \ {id} : /\ Unsaved(i)' = Unsaved(i) /\ Seen(i)' = Seen(i)
                                /\ cache'[i] = cache[i] /\ updates'[i] = updates[i]
                                /\ rows'[i] = rows[i] /\ work'[i] = work[i]
       /\ work'[id] = left /\ saved # Nothing
  BY <1>1, <1>2, NothingAssumption DEF Unsaved, Seen, Saving, Ready, IInv, TypeInv, TypeOK
<1>12. ApartInv'
  <2>1. \A r, s \in rows[id] : r # s => Apart(r, s)
    BY DEF Ready, Folded, ApartInv, Sorted
  <2>2. \A r, s \in rows[id] : r # s => Apart(Old(r), Old(s))
    BY <1>8, <1>10, <2>1 DEF Apart, Open
  <2>3. \A r \in rows[id] : Apart(Old(r), new) /\ Apart(new, Old(r))
    BY <1>4, <1>8, <1>10 DEF Apart, Open
  <2>4. \A r, s \in left : r # s => Apart(r, s)
    BY <1>7, <2>2, <2>3
  <2>5. \A r \in left : id \in content[r.lo]
    BY <1>2, <1>4, <1>7, <1>8 DEF Ready, Folded, ApartInv, Sorted
  <2> QED
    BY <1>1, <1>11, <2>4, <2>5 DEF Ready, Folded, ApartInv, Sorted
<1>13. GapInv'
  <2>1. \A r \in left : Bound(id, r.lo) /\ Bound(id, r.hi)
    BY <1>2, <1>4, <1>7, <1>8, <1>10 DEF Bound, Open
  <2> QED
    BY <1>1, <1>11, <2>1 DEF Ready, Folded, GapInv, Bound
<1>14. AgreeInv'
  <2>1. Agrees(saved, left)
    BY <1>3, <1>4, <1>5, <1>7, <1>10 DEF Agrees, Open
  <2> QED
    BY <1>1, <1>11, <2>1 DEF Ready, Folded, AgreeInv, Unwritten, Saving
<1>15. ValueInv'
  <2>1. new \in left /\ new.val = e.val /\ saved.val = e.val
    BY <1>3, <1>4, <1>7
  <2> QED
    BY <1>1, <1>2, <1>4, <1>5, <1>9, <1>11, <2>1
       DEF Ready, Folded, ValueInv, Unwritten, Written, Saving, Fits, Exact
<1> QED
  BY <1>12, <1>13, <1>14, <1>15 DEF Kept

(* The cursor is saved when all entities are.                              *)
LEMMA SaveCursorFolds ==
  ASSUME Ready, Calm', SaveCursor
  PROVE  Kept'
<1> USE DEF Ready, Folded
<1>1. /\ Next /\ pc = "save" /\ pc' = "commit" /\ todo = {}
      /\ UNCHANGED <<content, rows, cursor, block, cache, updates, work, happened>>
  BY DEF Next, SaveCursor, faultVars
<1>2. \A i \in Ids : Before(i)' = Before(i) /\ After(i)' = After(i)
  BY <1>1, StepBefore DEF After
<1>3. ApartInv' /\ GapInv'
  BY <1>1 DEF ApartInv, Sorted, GapInv, Bound, Unsaved
<1>4. AgreeInv'
  BY <1>1 DEF AgreeInv, Seen, Unwritten, Saving
<1>5. ValueInv'
  BY <1>1, <1>2 DEF ValueInv, Unwritten, Written, Saving, Fits, Exact
<1> QED
  BY <1>3, <1>4, <1>5 DEF Kept

(* A table's transaction becomes its rows.                                 *)
LEMMA CommitFolds ==
  ASSUME Ready, Calm', NEW id \in Ids, Commit(id)
  PROVE  Kept'
<1> USE DEF Ready, Folded
<1>1. /\ Next /\ pc = "commit" /\ pc' = "commit" /\ rows' = [rows EXCEPT ![id] = work[id]]
      /\ UNCHANGED <<content, cursor, block, cache, updates, work, happened>>
  BY DEF Next, Commit, faultVars
<1>2. \A i \in Ids : Before(i)' = Before(i) /\ After(i)' = After(i)
  BY <1>1, StepBefore DEF After
<1>3. \A i \in Ids : /\ rows'[i] \in {rows[i], work[i]}
                     /\ Unsaved(i) = work[i] /\ Unsaved(i)' = work[i]
  BY <1>1 DEF Unsaved, IInv, TypeInv, TypeOK
<1>4. ApartInv'
  BY <1>1, <1>3 DEF ApartInv, Sorted
<1>5. GapInv'
  BY <1>1, <1>3 DEF GapInv, Bound
<1>6. AgreeInv'
  BY <1>1 DEF AgreeInv, Seen, Unwritten, Saving
<1>7. ValueInv'
  BY <1>1, <1>2 DEF ValueInv, Unwritten, Written, Saving, Fits, Exact
<1> QED
  BY <1>4, <1>5, <1>6, <1>7 DEF Kept

(* The block is now part of the fold.                                      *)
LEMMA BlockJoins ==
  ASSUME Ready, CommitCursor, NEW id \in Ids
  PROVE  /\ Before(id)' = IF id \in content[block] THEN After(id) ELSE Before(id)
         /\ \A b \in Nat : cursor <= b /\ b < block => ChangesUpTo(id, b)' = Before(id)
<1>1. /\ content' = content /\ cursor' = block /\ skipped' = skipped \ {block} /\ block \in Blocks
      /\ cursor < block /\ cursor \in Nat /\ block \in Nat
  BY SinkAssumption
     DEF CommitCursor, Ready, FirstRun, IInv, TypeInv, TypeOK, HandlerInv, OrderInv, Active, Blocks
<1>2. \A c \in Blocks : c \in Nat /\ (cursor < c /\ c < block => c \in skipped)
  BY SinkAssumption DEF Ready, StreamInv, Blocks
<1>3. ASSUME NEW b \in Nat, cursor <= b, b < block
      PROVE  ChangesUpTo(id, b)' = Before(id)
  <2>1. \A c \in Blocks : c \notin skipped' /\ c <= b <=> c \notin skipped /\ c <= cursor
    BY <1>1, <1>2, <1>3
  <2>2. ChangesUpTo(id, b)' = {c \in Blocks : c \notin skipped' /\ c <= b /\ id \in content[c]}
    BY <1>1 DEF ChangesUpTo
  <2>3. Before(id) = {c \in Blocks : c \notin skipped /\ c <= cursor /\ id \in content[c]}
    BY DEF Before, ChangesUpTo
  <2> QED
    BY <2>1, <2>2, <2>3
<1>4. \A c \in Blocks : c \notin skipped' /\ c <= block
                          <=> (c \notin skipped /\ c <= cursor) \/ c = block
  BY <1>1, <1>2
<1>5. Before(id)' = {c \in Blocks : c \notin skipped' /\ c <= block /\ id \in content[c]}
  BY <1>1 DEF Before, ChangesUpTo
<1>6. Before(id) = {c \in Blocks : c \notin skipped /\ c <= cursor /\ id \in content[c]}
  BY DEF Before, ChangesUpTo
<1>7. Before(id)' = IF id \in content[block] THEN After(id) ELSE Before(id)
  BY <1>1, <1>4, <1>5, <1>6 DEF After
<1> QED
  BY <1>3, <1>7

LEMMA CommitCursorFolds ==
  ASSUME Ready, Calm', CommitCursor
  PROVE  Kept'
<1> USE DEF Ready, Folded
<1>1. /\ Next /\ pc = "commit" /\ pc' = "idle" /\ todo = {}
      /\ UNCHANGED <<content, rows, block, cache, updates, work, happened>>
  BY DEF Next, CommitCursor, faultVars
<1>2. \A i \in Ids : work[i] = rows[i]
  BY <1>1 DEF IInv, TypeInv, HandlerInv
<1>3. ApartInv' /\ GapInv'
  BY <1>1 DEF ApartInv, Sorted, GapInv, Unsaved
<1>4. AgreeInv'
  BY <1>1, <1>2 DEF AgreeInv, Seen, Unwritten, Saving
<1>5. ValueInv'
  BY <1>1, BlockJoins DEF ValueInv, Unwritten, Written, Saving, Fits, Exact
<1> QED
  BY <1>3, <1>4, <1>5 DEF Kept

(* Between the old cursor and the block nothing starts or ends; at the     *)
(* block the entities it changes have their new row.                       *)
LEMMA CommitCursorServes ==
  ASSUME Ready, Calm', CommitCursor
  PROVE  PastInv'
<1> SUFFICES ASSUME NEW id \in Ids, NEW b \in 1 .. block
             PROVE  IF ChangesUpTo(id, b)' = {}
                    THEN Exact => Served(id, b) = {}
                    ELSE \E v \in Served(id, b) : Fits(v, ChangesUpTo(id, b)')
  BY DEF CommitCursor, faultVars, PastInv, Served, Visible, Fits, Exact
<1>1. /\ pc = "commit" /\ rows[id] = work[id] /\ work[id] \subseteq Row
      /\ cursor < block /\ cursor \in Nat /\ block \in Nat /\ b \in Nat \ {0}
      /\ \A r \in Row : r.lo \in Nat \ {0} /\ r.hi \in Nat
  BY SinkAssumption
     DEF CommitCursor, Ready, FirstRun, IInv, TypeInv, TypeOK, HandlerInv, OrderInv, Active, Row,
         Blocks
<1>2. \A r \in rows[id] : Bound(id, r.lo) /\ Bound(id, r.hi)
  BY <1>1 DEF Ready, Folded, GapInv, Unsaved
<1>3. CASE b <= cursor
  <2>1. ChangesUpTo(id, b)' = ChangesUpTo(id, b)
    BY <1>1, <1>3, StepChanges DEF Ready, Next
  <2> QED
    BY <1>1, <1>3, <2>1 DEF Ready, Folded, PastInv
<1>4. CASE cursor < b /\ (b < block \/ id \notin content[block])
  <2>1. ChangesUpTo(id, b)' = Before(id)
    <3>1. CASE b < block
      BY <1>1, <1>4, <3>1, BlockJoins
    <3>2. CASE b = block /\ id \notin content[block]
      <4>1. Before(id)' = ChangesUpTo(id, b)'
        BY <3>2 DEF Before, ChangesUpTo, CommitCursor
      <4> QED
        BY <3>2, <4>1, BlockJoins
    <3> QED
      BY <1>1, <1>4, <3>1, <3>2
  <2>2. \A r \in rows[id] : Contains(r, b) <=> Contains(r, cursor)
    BY <1>1, <1>2, <1>4 DEF Contains, Bound, Open
  <2>3. Served(id, b) = Served(id, cursor)
    BY <2>2 DEF Served, Visible
  <2>4. CASE cursor = 0
    <3>1. Before(id) = {}
      BY <2>4 DEF Before, ChangesUpTo, Blocks
    <3>2. Served(id, cursor) = {}
      BY <1>1, <2>4 DEF Served, Visible, Contains
    <3> QED
      BY <2>1, <2>3, <3>1, <3>2
  <2>5. CASE cursor # 0
    BY <1>1, <2>1, <2>3, <2>5 DEF Ready, Folded, PastInv, Before
  <2> QED
    BY <2>4, <2>5
<1>5. CASE b = block /\ id \in content[block]
  <2>1. ChangesUpTo(id, b)' = After(id)
    <3>1. Before(id)' = ChangesUpTo(id, b)'
      BY <1>5 DEF Before, ChangesUpTo, CommitCursor
    <3> QED
      BY <1>5, <3>1, BlockJoins
  <2>2. PICK r \in work[id] : r.lo = block /\ r.hi = Open /\ Fits(r.val, After(id))
    BY <1>1, <1>5 DEF Ready, Folded, ValueInv, Written, Saving
  <2>3. r.val \in Served(id, b)
    BY <1>1, <1>5, <2>2 DEF Served, Visible, Contains
  <2> QED
    BY <2>1, <2>2, <2>3 DEF After
<1> QED
  BY <1>1, <1>3, <1>4, <1>5

(* A process that ends leaves rows of its block at most.                   *)
LEMMA StopFolds ==
  ASSUME Ready, Calm', StreamFails \/ Crash
  PROVE  Kept'
<1> USE DEF Ready, Folded
<1>1. pc' = "stopped" /\ UNCHANGED <<content, rows, cursor, block, cache, updates, work>>
  BY DEF StreamFails, Crash
<1>2. ApartInv' /\ GapInv'
  BY <1>1 DEF ApartInv, Sorted, GapInv, Unsaved
<1>3. AgreeInv' /\ ValueInv'
  BY <1>1 DEF AgreeInv, ValueInv, Unwritten, Written, Saving
<1> QED
  BY <1>2, <1>3 DEF Kept

LEMMA StepFolds ==
  ASSUME Ready, Next, FirstRun', ~Restart, Calm'
  PROVE  Folded'
<1>1. Kept'
  <2>1. CASE Receive \/ RefuseBlock \/ ChangeUnknown \/ Flush
    BY <2>1, ReceiveFolds, RefusalFolds, FlushFolds
  <2>2. CASE SaveCursor \/ CommitCursor \/ StreamFails \/ Crash
    BY <2>2, SaveCursorFolds, CommitCursorFolds, StopFolds
  <2>3. CASE \E id \in Ids : ApplyChange(id) \/ ApplyFails(id)
    BY <2>3, ApplyChangeFolds, ApplyFailsFolds
  <2>4. CASE \E id \in Ids : SaveEntity(id) \/ Commit(id)
    BY <2>4, SaveEntityFolds, CommitFolds
  <2>5. CASE SaveCursorFails \/ \E id \in Ids : LoadFails(id) \/ SaveFails(id)
    BY <2>5, StepCalm DEF Ready
  <2> QED
    BY <2>1, <2>2, <2>3, <2>4, <2>5 DEF Next
<1>2. PastInv'
  <2>1. CASE CommitCursor
    BY <2>1, CommitCursorServes
  <2>2. CASE ~CommitCursor
    <3>1. cursor' = cursor
      BY <2>2 DEF Next, Receive, ApplyChange, LoadFails, ApplyFails, RefuseBlock, ChangeUnknown,
         Flush, SaveEntity, SaveFails, SaveCursorFails, SaveCursor, Commit, StreamFails, Crash,
         Restart
    <3> QED
      BY <3>1, PastKept DEF Ready
  <2> QED
    BY <2>1, <2>2
<1> QED
  BY <1>1, <1>2 DEF Kept, Folded

LEMMA FoldStep == FoldInv /\ [Next]_vars => FoldInv'
<1> SUFFICES ASSUME FoldInv, [Next]_vars  PROVE FoldInv'
  OBVIOUS
<1>1. IInv'
  BY StepInv DEF FoldInv
<1>2. ASSUME FirstRun'
      PROVE  StreamInv' /\ (Calm' => Folded')
  <2>1. FirstRun /\ ~Restart
    BY <1>2, HistoryGrows DEF FirstRun, Restart
  <2>2. CASE UNCHANGED vars
    <3> USE <2>2 DEF vars, faultVars
    <3>1. StreamInv /\ (Calm => Folded)
      BY <2>1 DEF FoldInv
    <3>2. StreamInv' /\ (Calm' => Calm)
      BY <3>1 DEF StreamInv, Calm, NoDatabaseError
    <3>3. Folded => ApartInv' /\ GapInv' /\ AgreeInv'
      BY DEF Folded, ApartInv, Sorted, Unsaved, GapInv, Bound, AgreeInv, Unwritten, Seen, Saving
    <3>4. Folded => PastInv'
      BY DEF Folded, PastInv, ChangesUpTo, Served, Visible, Exact, Fits
    <3>5. Folded => ValueInv'
      BY DEF Folded, ValueInv, Before, After, ChangesUpTo, Unwritten, Written, Saving, Exact, Fits
    <3> QED
      BY <3>1, <3>2, <3>3, <3>4, <3>5 DEF Folded
  <2>3. CASE Next
    <3>1. IInv /\ StreamInv /\ (Calm => Folded)
      BY <2>1 DEF FoldInv
    <3>2. Calm' => Calm
      BY <2>3, StepCalm
    <3> QED
      BY <1>2, <2>1, <2>3, <3>1, <3>2, StepStream, StepFolds DEF Ready
  <2> QED
    BY <2>2, <2>3
<1> QED
  BY <1>1, <1>2 DEF FoldInv

(* Rows, cache and cursor agree with the stream in every state of the      *)
(* first run, and the rows are the fold of the changes while no database   *)
(* call failed.                                                            *)
THEOREM FoldInvariance == Spec => []FoldInv
  BY InitFolded, FoldStep, PTL DEF Spec

-----------------------------------------------------------------------------
(* The later runs, over the rows of the earlier ones.  The blocks of the   *)
(* run that have been saved or skipped, and the changes of those saved.    *)
Done == IF pc \in Active THEN block - 1 ELSE IF pc = "stopped" THEN 0 ELSE block
Saved(id) == ChangesUpTo(id, Done)

(* An entity in memory has a row and what that holds.                      *)
HasRow(e, rs) ==
  e.lo # 0 => e.exists /\ \E r \in rs : r.vid = e.vid /\ r.lo = e.lo /\ r.val \subseteq e.val
RowInv ==
  pc # "stopped" =>
    \A id \in Ids : \A e \in {cache[id], updates[id]} \ {Nothing} : HasRow(e, Seen(id))

(* What a row held when it was closed, another one has held ever since.    *)
Cover(rs, v, b) == \E r \in rs : Contains(r, b) /\ v \subseteq r.val
Chained(rs) == \A r \in rs : r.hi # Open => Cover(rs, r.val, r.hi)
ChainInv == \A id \in Ids : Chained(rows[id]) /\ Chained(Unsaved(id))

(* What is about to be committed shows all that was there.                 *)
MoreInv ==
  pc \in Saving =>
    \A id \in Ids, b \in Nat : \A r \in rows[id] : Contains(r, b) => Cover(work[id], r.val, b)

HeldInv ==
  \A id \in Ids, b \in Blocks :
    (b <= cursor \/ b <= Done) /\ ChangesUpTo(id, b) # {}
      => Cover(rows[id], ChangesUpTo(id, b), b)

(* The run has cached what it has saved.                                   *)
Holds(e, v) == e # Nothing /\ e.exists /\ v \subseteq e.val
MemoryInv ==
  \A id \in Ids :
    /\ Saved(id) # {} => Holds(cache[id], Saved(id))
    /\ Unwritten(id) => Holds(updates[id], Saved(id) \cup {block})
    /\ Written(id) => /\ Holds(cache[id], Saved(id) \cup {block})
                      /\ Cover(work[id], Saved(id) \cup {block}, block)

Replayed == RowInv /\ ChainInv /\ MoreInv /\ HeldInv /\ MemoryInv
ReplayInv == IInv /\ (Calm => Replayed)

LEMMA InitReplayed == Init => ReplayInv
<1> SUFFICES ASSUME Init  PROVE ReplayInv
  OBVIOUS
<1> USE SinkAssumption DEF Init, Saving, Active, Unsaved, Cleared, Done, Blocks
<1>1. IInv
  BY InitInv
<1>2. RowInv /\ ChainInv /\ MoreInv
  BY DEF RowInv, ChainInv, Chained, MoreInv
<1>3. \A id \in Ids : Saved(id) = {}
  BY DEF Saved, ChangesUpTo
<1>4. HeldInv /\ MemoryInv
  BY <1>3 DEF HeldInv, MemoryInv, Unwritten, Written
<1> QED
  BY <1>1, <1>2, <1>4 DEF ReplayInv, Replayed

(* The blocks of the run do not become more or fewer within one; a block   *)
(* that is skipped takes a change away at most.                            *)
LEMMA StepSaved ==
  ASSUME TypeInv, content' = content, NEW id \in Ids,
         \/ skipped' = skipped
         \/ pc \in Active /\ skipped' \in {skipped \cup {block}, skipped \ {block}}
  PROVE  /\ \A b \in Int : b < block => ChangesUpTo(id, b)' = ChangesUpTo(id, b)
         /\ skipped \subseteq skipped' =>
              \A b \in Int : ChangesUpTo(id, b)' \subseteq ChangesUpTo(id, b)
         /\ skipped' = skipped => \A b \in Int : ChangesUpTo(id, b)' = ChangesUpTo(id, b)
<1>1. block \in Int /\ \A c \in Blocks : c \in Int
  BY SinkAssumption DEF TypeInv, TypeOK, Blocks
<1> QED
  BY <1>1 DEF ChangesUpTo

(* What is held at a block is held at the next one.                        *)
LEMMA HeldOn ==
  ASSUME NEW rs, rs \subseteq Row, Chained(rs), NEW v, NEW b \in Nat, Cover(rs, v, b)
  PROVE  Cover(rs, v, b + 1)
<1>1. PICK r \in rs : Contains(r, b) /\ v \subseteq r.val
  BY DEF Cover
<1>2. r.lo \in Nat /\ r.hi \in Nat
  BY SinkAssumption DEF Row, Blocks
<1>3. CASE Contains(r, b + 1)
  BY <1>1, <1>3 DEF Cover
<1>4. CASE ~Contains(r, b + 1)
  <2>1. r.hi # Open /\ r.hi = b + 1
    BY <1>1, <1>2, <1>4 DEF Contains, Open
  <2>2. Cover(rs, r.val, b + 1)
    BY <2>1 DEF Chained
  <2> QED
    BY <1>1, <2>2 DEF Cover
<1> QED
  BY <1>3, <1>4

(* The block in hand is skipped or has become part of what was saved: what *)
(* was saved before it is held at it too.                                  *)
LEMMA HeldAtBlock ==
  ASSUME IInv, Replayed, pc \in Active, NEW id \in Ids, Saved(id) # {}
  PROVE  Cover(rows[id], Saved(id), block)
<1>1. block \in Blocks /\ Done = block - 1 /\ rows[id] \subseteq Row
  BY DEF IInv, TypeInv, TypeOK, HandlerInv, Done
<1>2. block - 1 \in Blocks
  <2>1. PICK c \in Blocks : c <= block - 1
    BY <1>1 DEF Saved, ChangesUpTo
  <2> QED
    BY <1>1, <2>1, SinkAssumption DEF Blocks
<1>3. Cover(rows[id], Saved(id), block - 1)
  BY <1>1, <1>2, SinkAssumption DEF Replayed, HeldInv, Saved, Blocks
<1>4. Cover(rows[id], Saved(id), (block - 1) + 1)
  BY <1>1, <1>2, <1>3, HeldOn, SinkAssumption DEF Replayed, ChainInv, Blocks
<1>5. (block - 1) + 1 = block
  BY <1>1, SinkAssumption DEF Blocks
<1> QED
  BY <1>4, <1>5

(* What a step starts from.                                                *)
Again == IInv /\ Replayed /\ Calm

(* A step that leaves the rows, the cursor and the skipped blocks alone.   *)
LEMMA HeldStays ==
  ASSUME Again, UNCHANGED <<content, rows, cursor, skipped>>, Done' \in {Done, 0}
  PROVE  /\ HeldInv'
         /\ \A id \in Ids : /\ Done' = Done => Saved(id)' = Saved(id)
                            /\ Done' = 0 => Saved(id)' = {}
<1>1. ASSUME NEW id \in Ids
      PROVE  /\ \A b : ChangesUpTo(id, b)' = ChangesUpTo(id, b)
             /\ Done' = Done => Saved(id)' = Saved(id)
             /\ Done' = 0 => Saved(id)' = {}
  <2>1. \A b : ChangesUpTo(id, b)' = ChangesUpTo(id, b)
    BY DEF ChangesUpTo
  <2>2. ChangesUpTo(id, 0) = {}
    BY SinkAssumption DEF ChangesUpTo, Blocks
  <2>3. Saved(id)' = {c \in Blocks \ skipped : c <= Done' /\ id \in content[c]}
    BY DEF Saved, ChangesUpTo
  <2>4. Saved(id) = {c \in Blocks \ skipped : c <= Done /\ id \in content[c]}
    BY DEF Saved, ChangesUpTo
  <2> QED
    BY <2>1, <2>2, <2>3, <2>4 DEF ChangesUpTo
<1>2. ASSUME NEW id \in Ids, NEW b \in Blocks, b <= cursor \/ b <= Done', ChangesUpTo(id, b) # {}
      PROVE  Cover(rows[id], ChangesUpTo(id, b), b)
  <2>1. b <= Done' => b <= Done
    BY SinkAssumption DEF Blocks
  <2> QED
    BY <1>2, <2>1 DEF Again, Replayed, HeldInv
<1>3. HeldInv'
  BY <1>1, <1>2 DEF HeldInv, Cover
<1> QED
  BY <1>1, <1>3

(* Steps of the handler and the stops leave the rows as they are.          *)
LEMMA ReceiveReplays ==
  ASSUME Again, Receive
  PROVE  Replayed'
<1> USE DEF Again, Replayed, Receive, faultVars, Saving, Unsaved, Cleared
<1>1. Done' = Done
  BY SinkAssumption DEF Done, Active, IInv, TypeInv, TypeOK
<1>2. HeldInv' /\ \A id \in Ids : Saved(id)' = Saved(id)
  BY <1>1, HeldStays
<1>3. RowInv'
  BY DEF RowInv, HasRow, Seen
<1>4. ChainInv' /\ MoreInv'
  BY DEF ChainInv, MoreInv
<1>5. MemoryInv'
  BY <1>2 DEF MemoryInv, Unwritten, Written, Holds
<1> QED
  BY <1>2, <1>3, <1>4, <1>5

(* What a load gives has a row, and holds what was saved of it.            *)
LEMMA LoadsHold ==
  ASSUME Again, pc = "handle", NEW id \in Ids, NEW e \in LoaderLoads(id), NEW d \in Defaults(e)
  PROVE  /\ d \in Entity /\ HasRow(d, rows[id])
         /\ Saved(id) \subseteq d.val
<1>1. e \in Entity /\ rows[id] \subseteq Row
  BY LoadsEntities DEF Again, IInv, TypeInv, TypeOK
<1>2. HasRow(e, rows[id])
  <2>1. CASE e \in {cache[id], updates[id]} /\ e # Nothing
    BY <2>1 DEF Again, Replayed, RowInv, Seen, Saving
  <2>2. CASE e = Blank
    BY <2>2, BlankIsEntity DEF HasRow
  <2>3. ASSUME NEW r \in Visible(id, block), e = FromRow(r)
        PROVE  HasRow(e, rows[id])
    BY <1>1, <2>3, RowIsEntity DEF Visible, HasRow
  <2> QED
    BY <2>1, <2>2, <2>3 DEF LoaderLoads, Loads
<1>3. Saved(id) # {} => e.exists /\ Saved(id) \subseteq e.val
  BY DEF Again, Replayed, MemoryInv, Unwritten, Holds, LoaderLoads, Loads
<1>4. CASE d = e
  BY <1>1, <1>2, <1>3, <1>4
<1>5. CASE ~e.exists /\ d = [e EXCEPT !.val = {}]
  <2>1. d \in Entity /\ d.lo = e.lo
    BY <1>1, <1>5 DEF Entity
  <2> QED
    BY <1>2, <1>3, <1>5, <2>1 DEF HasRow
<1> QED
  BY <1>4, <1>5 DEF Defaults

LEMMA ApplyChangeReplays ==
  ASSUME Again, NEW id \in Ids, ApplyChange(id)
  PROVE  Replayed'
<1>1. /\ pc = "handle" /\ pc' = "handle" /\ id \in todo
      /\ UNCHANGED <<content, rows, cursor, block, skipped>>
  BY DEF ApplyChange
<1>2. PICK e \in LoaderLoads(id) : \E d \in Defaults(e) :
        LET applied == LoaderSave([d EXCEPT !.val = @ \cup {block}])
        IN  updates' = [updates EXCEPT ![id] = applied] /\ CacheLoaded(id, applied)
  BY DEF ApplyChange
<1>3. PICK d \in Defaults(e) :
        LET applied == LoaderSave([d EXCEPT !.val = @ \cup {block}])
        IN  updates' = [updates EXCEPT ![id] = applied] /\ CacheLoaded(id, applied)
  BY <1>2
<1> DEFINE applied == LoaderSave([d EXCEPT !.val = @ \cup {block}])
<1>4. d \in Entity /\ HasRow(d, rows[id]) /\ Saved(id) \subseteq d.val
  BY <1>1, LoadsHold
<1>5. /\ applied.vid = d.vid /\ applied.lo = d.lo /\ applied.val = d.val \cup {block}
      /\ applied.exists
  BY <1>4 DEF LoaderSave, Entity
<1>6. applied # Nothing
  <2>1. e \in Entity /\ block \in Blocks
    BY <1>1, LoadsEntities DEF Again, IInv, TypeInv, HandlerInv, Active
  <2> QED
    BY <2>1, Applied, NothingAssumption
<1>7. updates' = [updates EXCEPT ![id] = applied] /\ CacheLoaded(id, applied)
  BY <1>3
<1> HIDE DEF applied
<1>8. HasRow(applied, rows[id]) /\ Holds(applied, Saved(id) \cup {block})
  BY <1>4, <1>5, <1>6 DEF HasRow, Holds
<1>9. /\ updates'[id] = applied /\ \A i \in Ids \ {id} : updates'[i] = updates[i]
      /\ cache'[id] \in {cache[id], applied} /\ \A i \in Ids \ {id} : cache'[i] = cache[i]
      /\ cache[id] # Nothing => cache'[id] = cache[id]
  BY <1>7 DEF CacheLoaded, FirstLoad, Again, IInv, TypeInv, TypeOK
<1>10. Done' = Done
  BY <1>1 DEF Done, Active
<1>11. HeldInv' /\ \A i \in Ids : Saved(i)' = Saved(i)
  BY <1>1, <1>10, HeldStays
<1>12. RowInv'
  BY <1>1, <1>8, <1>9 DEF Again, Replayed, RowInv, Seen, Saving
<1>13. ChainInv' /\ MoreInv'
  BY <1>1 DEF Again, Replayed, ChainInv, MoreInv, Unsaved, Saving
<1>14. MemoryInv'
  BY <1>1, <1>8, <1>9, <1>11 DEF Again, Replayed, MemoryInv, Unwritten, Written, Saving, Holds
<1> QED
  BY <1>11, <1>12, <1>13, <1>14 DEF Replayed

(* The block in hand is skipped.                                           *)
LEMMA SkipReplays ==
  ASSUME Again, pc = "handle", ReturnError, updates' = updates,
         UNCHANGED <<content, rows, cursor, block>>,
         \A id \in Ids : /\ cache[id] # Nothing => cache'[id] = cache[id]
                         /\ cache'[id] \notin {Nothing, cache[id]} => HasRow(cache'[id], rows[id])
  PROVE  Replayed'
<1>1. /\ pc' = "idle" /\ skipped' = skipped \cup {block} /\ block \in Blocks /\ block \in Nat
      /\ Done = block - 1 /\ Done' = block
  BY SinkAssumption
     DEF ReturnError, Done, Active, Again, IInv, TypeInv, TypeOK, HandlerInv, Blocks
<1>2. \A id \in Ids : /\ \A b \in Int : b < block => ChangesUpTo(id, b)' = ChangesUpTo(id, b)
                      /\ \A b \in Int : ChangesUpTo(id, b)' \subseteq ChangesUpTo(id, b)
  BY <1>1, StepSaved DEF Again, IInv, Active
<1>3. \A id \in Ids : ChangesUpTo(id, block)' = Saved(id) /\ Saved(id)' = Saved(id)
  <2>1. \A c \in Blocks : c \in Int /\ (c \notin skipped' /\ c <= block
                                          <=> c \notin skipped /\ c <= block - 1)
    BY <1>1, SinkAssumption DEF Blocks
  <2> QED
    BY <1>1, <2>1 DEF Saved, ChangesUpTo
<1>4. HeldInv'
  <2> SUFFICES ASSUME NEW id \in Ids, NEW b \in Blocks, b <= cursor \/ b <= block,
                      ChangesUpTo(id, b)' # {}
               PROVE  Cover(rows[id], ChangesUpTo(id, b)', b)
    BY <1>1 DEF HeldInv, Cover
  <2>1. b \in Int /\ block \in Int
    BY <1>1, SinkAssumption DEF Blocks
  <2>2. CASE b = block
    BY <1>3, <2>2, HeldAtBlock DEF Again, Active
  <2>3. CASE b <= cursor \/ b < block
    <3>1. ChangesUpTo(id, b)' \subseteq ChangesUpTo(id, b)
      BY <1>2, <2>1
    <3>2. Cover(rows[id], ChangesUpTo(id, b), b)
      BY <1>1, <2>1, <2>3, <3>1 DEF Again, Replayed, HeldInv
    <3> QED
      BY <3>1, <3>2 DEF Cover
  <2> QED
    BY <2>1, <2>2, <2>3
<1>5. RowInv'
  BY <1>1 DEF Again, Replayed, RowInv, Seen, Saving
<1>6. ChainInv' /\ MoreInv'
  BY <1>1 DEF Again, Replayed, ChainInv, MoreInv, Unsaved, Saving
<1>7. MemoryInv'
  BY <1>1, <1>3 DEF Again, Replayed, MemoryInv, Unwritten, Written, Saving, Holds
<1> QED
  BY <1>4, <1>5, <1>6, <1>7 DEF Replayed

LEMMA RefusalReplays ==
  ASSUME Again, RefuseBlock \/ ChangeUnknown
  PROVE  Replayed'
  BY SkipReplays DEF RefuseBlock, ChangeUnknown

LEMMA ApplyFailsReplays ==
  ASSUME Again, NEW id \in Ids, ApplyFails(id)
  PROVE  Replayed'
<1>1. /\ pc = "handle" /\ ReturnError
      /\ UNCHANGED <<content, rows, cursor, block, updates>>
  BY DEF ApplyFails
<1>2. PICK e \in LoaderLoads(id) : \E d \in Defaults(e) :
        \E v \in {d.val, d.val \cup {block}} : CacheLoaded(id, [d EXCEPT !.val = v])
  BY DEF ApplyFails
<1>3. PICK d \in Defaults(e) :
        \E v \in {d.val, d.val \cup {block}} : CacheLoaded(id, [d EXCEPT !.val = v])
  BY <1>2
<1>4. PICK v \in {d.val, d.val \cup {block}} : CacheLoaded(id, [d EXCEPT !.val = v])
  BY <1>3
<1> DEFINE left == [d EXCEPT !.val = v]
<1>5. d \in Entity /\ HasRow(d, rows[id])
  BY <1>1, LoadsHold
<1>6. left.vid = d.vid /\ left.lo = d.lo /\ left.val = v /\ left.exists = d.exists
  BY <1>5 DEF Entity
<1>7. CacheLoaded(id, left)
  BY <1>4
<1> HIDE DEF left
<1>8. HasRow(left, rows[id])
  BY <1>5, <1>6 DEF HasRow
<1>9. /\ cache'[id] \in {cache[id], left} /\ \A i \in Ids \ {id} : cache'[i] = cache[i]
      /\ cache[id] # Nothing => cache'[id] = cache[id]
  BY <1>7 DEF CacheLoaded, FirstLoad, Again, IInv, TypeInv, TypeOK
<1> QED
  BY <1>1, <1>8, <1>9, SkipReplays

(* The transactions begin with the rows as they are.                       *)
LEMMA FlushReplays ==
  ASSUME Again, Flush
  PROVE  Replayed'
<1>1. /\ pc = "handle" /\ pc' = "save" /\ todo' = content[block] /\ work' = rows
      /\ UNCHANGED <<content, rows, cursor, block, cache, updates, skipped>>
  BY DEF Flush
<1>2. Done' = Done
  BY <1>1 DEF Done, Active
<1>3. HeldInv' /\ \A id \in Ids : Saved(id)' = Saved(id)
  BY <1>1, <1>2, HeldStays
<1>4. RowInv'
  BY <1>1 DEF Again, Replayed, RowInv, Seen, Saving
<1>5. ChainInv'
  BY <1>1 DEF Again, Replayed, ChainInv, Unsaved
<1>6. MoreInv'
  BY <1>1 DEF MoreInv, Cover
<1>7. MemoryInv'
  BY <1>1, <1>3 DEF Again, Replayed, MemoryInv, Unwritten, Written, Saving, Holds
<1> QED
  BY <1>3, <1>4, <1>5, <1>6, <1>7 DEF Replayed

(* One entity's row is closed and its new one written, which holds all     *)
(* that the closed one did.                                                *)
LEMMA SaveEntityReplays ==
  ASSUME Again, NEW id \in Ids, SaveEntity(id)
  PROVE  Replayed'
<1> DEFINE e == updates[id]
           saved == [Stamped(e) EXCEPT !.vid = nextVid[id]]
           new == NewRow(id, e)
           Old(r) == IF r \in Replaced(e, rows[id])
                     THEN Closed([r EXCEPT !.lo = e.lo], block) ELSE r
           left == CloseReplaced(e, work[id]) \cup {new}
<1>1. /\ pc = "save" /\ pc' = "save" /\ id \in todo /\ todo' = todo \ {id}
      /\ work' = [work EXCEPT ![id] = left]
      /\ updates' = [updates EXCEPT ![id] = saved]
      /\ cache' = [cache EXCEPT ![id] = saved]
      /\ UNCHANGED <<content, rows, cursor, block, skipped>>
  BY DEF SaveEntity
<1>2. /\ e \in Entity /\ e # Nothing /\ block \in Blocks /\ nextVid[id] \in Nat \ {0}
      /\ rows[id] \subseteq Row /\ work[id] = rows[id] /\ id \in content[block]
      /\ saved \in Entity
  BY <1>1, EntityInHand, SavedRows DEF Again, IInv, TypeInv, TypeOK, HandlerInv
<1>3. saved.vid = nextVid[id] /\ saved.lo = block /\ saved.val = e.val /\ saved.exists = e.exists
  BY <1>2 DEF Stamped, Entity
<1>4. new.vid = nextVid[id] /\ new.lo = block /\ new.hi = Open /\ new.val = e.val
  BY DEF NewRow
<1>5. Holds(e, Saved(id) \cup {block}) /\ HasRow(e, rows[id])
  BY <1>1, <1>2 DEF Again, Replayed, MemoryInv, RowInv, Seen, Unwritten, Saving
<1>6. left = {Old(r) : r \in rows[id]} \cup {new}
  BY <1>2 DEF CloseReplaced, Replaced
<1>7. \A r \in rows[id] : r \in Replaced(e, rows[id])
        => /\ Old(r).lo = r.lo /\ Old(r).hi = block /\ Old(r).val = r.val
           /\ r.val \subseteq e.val
  <2>1. \A r \in Replaced(e, rows[id]) : r.lo = e.lo /\ r.val \subseteq e.val
    BY <1>5 DEF Again, IInv, VidInv, HasRow, Replaced
  <2>2. \A r \in rows[id] : /\ Closed([r EXCEPT !.lo = e.lo], block).lo = e.lo
                            /\ Closed([r EXCEPT !.lo = e.lo], block).hi = block
                            /\ Closed([r EXCEPT !.lo = e.lo], block).val = r.val
    BY <1>2 DEF Closed, Row
  <2> QED
    BY <2>1, <2>2
<1>8. \A r \in rows[id] : r \notin Replaced(e, rows[id]) => Old(r) = r
  OBVIOUS
<1>9. block \in Nat /\ block # Open /\ \A r \in rows[id] : r.lo \in Nat /\ r.hi \in Nat
  BY <1>2, SinkAssumption DEF Blocks, Open, Row
<1> HIDE DEF e, saved, new, Old, left
<1>10. ASSUME NEW r \in rows[id], NEW b \in Nat, Contains(r, b)
       PROVE  Cover(left, r.val, b)
  <2>1. Old(r) \in left /\ new \in left
    BY <1>6
  <2>2. CASE r \notin Replaced(e, rows[id])
    BY <1>8, <1>10, <2>1, <2>2 DEF Cover
  <2>3. CASE r \in Replaced(e, rows[id]) /\ b < block
    <3>1. Contains(Old(r), b) /\ Old(r).val = r.val
      BY <1>7, <1>9, <1>10, <2>3 DEF Contains
    <3> QED
      BY <2>1, <3>1 DEF Cover
  <2>4. CASE r \in Replaced(e, rows[id]) /\ block <= b
    <3>1. Contains(new, b) /\ r.val \subseteq new.val
      BY <1>4, <1>7, <2>4 DEF Contains
    <3> QED
      BY <2>1, <3>1 DEF Cover
  <2> QED
    BY <1>9, <2>2, <2>3, <2>4
<1>11. Chained(left)
  <2> SUFFICES ASSUME NEW s \in left, s.hi # Open  PROVE Cover(left, s.val, s.hi)
    BY DEF Chained
  <2>1. PICK r \in rows[id] : s = Old(r)
    BY <1>4, <1>6
  <2>2. CASE r \in Replaced(e, rows[id])
    <3>1. new \in left /\ Contains(new, s.hi) /\ s.val \subseteq new.val
      BY <1>4, <1>6, <1>7, <1>9, <2>1, <2>2 DEF Contains
    <3> QED
      BY <3>1 DEF Cover
  <2>3. CASE r \notin Replaced(e, rows[id])
    <3>1. PICK t \in rows[id] : Contains(t, r.hi) /\ r.val \subseteq t.val
      BY <1>8, <2>1, <2>3 DEF Again, Replayed, ChainInv, Chained, Cover
    <3>2. Cover(left, t.val, r.hi)
      BY <1>9, <1>10, <3>1
    <3> QED
      BY <1>8, <2>1, <2>3, <3>1, <3>2 DEF Cover
  <2> QED
    BY <2>2, <2>3
<1>12. /\ Unsaved(id)' = left /\ Seen(id)' = left /\ cache'[id] = saved /\ updates'[id] = saved
       /\ work'[id] = left /\ saved # Nothing
       /\ \A i \in Ids \ {id} : /\ Unsaved(i)' = Unsaved(i) /\ Seen(i)' = Seen(i)
                                /\ cache'[i] = cache[i] /\ updates'[i] = updates[i]
                                /\ work'[i] = work[i]
  BY <1>1, <1>2, NothingAssumption DEF Unsaved, Seen, Saving, Again, IInv, TypeInv, TypeOK
<1>13. Done' = Done
  BY <1>1 DEF Done, Active
<1>14. HeldInv' /\ \A i \in Ids : Saved(i)' = Saved(i)
  BY <1>1, <1>13, HeldStays
<1>15. RowInv'
  <2>1. HasRow(saved, left)
    BY <1>3, <1>4, <1>5, <1>6 DEF HasRow, Holds
  <2> QED
    BY <1>1, <1>12, <2>1 DEF Again, Replayed, RowInv
<1>16. ChainInv'
  BY <1>1, <1>11, <1>12 DEF Again, Replayed, ChainInv
<1>17. MoreInv'
  BY <1>1, <1>10, <1>12 DEF Again, Replayed, MoreInv, Saving
<1>18. MemoryInv'
  <2>1. Holds(saved, Saved(id) \cup {block})
    BY <1>3, <1>5, <1>12 DEF Holds
  <2>2. Cover(left, Saved(id) \cup {block}, block)
    BY <1>4, <1>5, <1>6, <1>9 DEF Cover, Contains, Holds
  <2> QED
    BY <1>1, <1>12, <1>14, <2>1, <2>2
       DEF Again, Replayed, MemoryInv, Unwritten, Written, Saving, Holds, Cover
<1> QED
  BY <1>14, <1>15, <1>16, <1>17, <1>18 DEF Replayed

LEMMA SaveCursorReplays ==
  ASSUME Again, SaveCursor
  PROVE  Replayed'
<1>1. /\ pc = "save" /\ pc' = "commit" /\ todo = {}
      /\ UNCHANGED <<content, rows, cursor, block, cache, updates, work, skipped>>
  BY DEF SaveCursor
<1>2. Done' = Done
  BY <1>1 DEF Done, Active
<1>3. HeldInv' /\ \A id \in Ids : Saved(id)' = Saved(id)
  BY <1>1, <1>2, HeldStays
<1>4. RowInv' /\ ChainInv' /\ MoreInv'
  BY <1>1 DEF Again, Replayed, RowInv, HasRow, Seen, ChainInv, MoreInv, Unsaved, Saving
<1>5. MemoryInv'
  BY <1>1, <1>3 DEF Again, Replayed, MemoryInv, Unwritten, Written, Saving, Holds
<1> QED
  BY <1>3, <1>4, <1>5 DEF Replayed

(* A table's transaction becomes its rows, which show more than before.    *)
LEMMA CommitReplays ==
  ASSUME Again, NEW id \in Ids, Commit(id)
  PROVE  Replayed'
<1>1. /\ pc = "commit" /\ pc' = "commit"
      /\ UNCHANGED <<content, cursor, block, cache, updates, work, skipped>>
      /\ \A i \in Ids : rows'[i] \in {rows[i], work[i]}
  BY DEF Commit, Again, IInv, TypeInv, TypeOK
<1>2. Done' = Done /\ \A i \in Ids : Saved(i)' = Saved(i)
  BY <1>1 DEF Done, Active, Saved, ChangesUpTo
<1>3. HeldInv'
  <2> SUFFICES ASSUME NEW i \in Ids, NEW b \in Blocks, b <= cursor \/ b <= Done,
                      ChangesUpTo(i, b) # {}
               PROVE  Cover(rows'[i], ChangesUpTo(i, b), b)
    BY <1>1, <1>2 DEF HeldInv, ChangesUpTo, Cover
  <2>1. PICK r \in rows[i] : Contains(r, b) /\ ChangesUpTo(i, b) \subseteq r.val
    BY DEF Again, Replayed, HeldInv, Cover
  <2>2. Cover(work[i], r.val, b)
    BY <1>1, <2>1, SinkAssumption DEF Again, Replayed, MoreInv, Saving, Blocks
  <2> QED
    BY <1>1, <2>1, <2>2 DEF Cover
<1>4. RowInv'
  BY <1>1 DEF Again, Replayed, RowInv, HasRow, Seen, Saving
<1>5. ChainInv'
  BY <1>1 DEF Again, Replayed, ChainInv, Unsaved
<1>6. MoreInv'
  BY <1>1 DEF Again, Replayed, MoreInv, Saving, Cover
<1>7. MemoryInv'
  BY <1>1, <1>2 DEF Again, Replayed, MemoryInv, Unwritten, Written, Saving, Holds
<1> QED
  BY <1>3, <1>4, <1>5, <1>6, <1>7 DEF Replayed

(* The block in hand is one of those saved.                                *)
LEMMA CommitCursorReplays ==
  ASSUME Again, CommitCursor
  PROVE  Replayed'
<1>1. /\ pc = "commit" /\ pc' = "idle" /\ todo = {} /\ cursor' = block
      /\ skipped' = skipped \ {block} /\ block \in Blocks /\ block \in Nat
      /\ UNCHANGED <<content, rows, block, cache, updates, work>>
      /\ Done = block - 1 /\ Done' = block
  BY SinkAssumption
     DEF CommitCursor, Done, Active, Again, IInv, TypeInv, TypeOK, HandlerInv, Blocks
<1>2. \A i \in Ids : work[i] = rows[i]
  BY <1>1 DEF Again, IInv, TypeInv, HandlerInv
<1>3. \A id \in Ids : \A b \in Int : b < block => ChangesUpTo(id, b)' = ChangesUpTo(id, b)
  BY <1>1, StepSaved DEF Again, IInv, Active
<1>4. ASSUME NEW id \in Ids
      PROVE  /\ \A b : b = block => ChangesUpTo(id, b)' = Saved(id)'
             /\ Saved(id)' = IF id \in content[block] THEN Saved(id) \cup {block} ELSE Saved(id)
  <2>1. \A c \in Blocks : c \in Int /\ (c \notin skipped' /\ c <= block
                                          <=> c = block \/ (c \notin skipped /\ c <= block - 1))
    BY <1>1, SinkAssumption DEF Blocks
  <2>2. Saved(id)' = {c \in Blocks : c \notin skipped' /\ c <= block /\ id \in content[c]}
    BY <1>1 DEF Saved, ChangesUpTo
  <2>3. Saved(id) = {c \in Blocks : c \notin skipped /\ c <= block - 1 /\ id \in content[c]}
    BY <1>1 DEF Saved, ChangesUpTo
  <2>4. \A b : b = block => ChangesUpTo(id, b)' = Saved(id)'
    BY <1>1 DEF Saved, ChangesUpTo
  <2> QED
    BY <1>1, <2>1, <2>2, <2>3, <2>4
<1>5. HeldInv'
  <2> SUFFICES ASSUME NEW id \in Ids, NEW b \in Blocks, b <= block, ChangesUpTo(id, b)' # {}
               PROVE  Cover(rows[id], ChangesUpTo(id, b)', b)
    BY <1>1 DEF HeldInv, Cover
  <2>1. b \in Int /\ block \in Int
    BY <1>1, SinkAssumption DEF Blocks
  <2>2. CASE b = block /\ id \in content[block]
    <3>1. Cover(work[id], Saved(id) \cup {block}, block)
      BY <1>1, <2>2 DEF Again, Replayed, MemoryInv, Written, Saving
    <3> QED
      BY <1>2, <1>4, <2>2, <3>1
  <2>3. CASE b = block /\ id \notin content[block]
    BY <1>1, <1>4, <2>3, HeldAtBlock DEF Again, Active
  <2>4. CASE b < block
    <3>1. ChangesUpTo(id, b)' = ChangesUpTo(id, b)
      BY <1>3, <2>1, <2>4
    <3> QED
      BY <1>1, <2>1, <2>4, <3>1 DEF Again, Replayed, HeldInv
  <2> QED
    BY <2>1, <2>2, <2>3, <2>4
<1>6. RowInv'
  BY <1>1, <1>2 DEF Again, Replayed, RowInv, Seen, Saving
<1>7. ChainInv' /\ MoreInv'
  BY <1>1 DEF Again, Replayed, ChainInv, Chained, MoreInv, Unsaved, Saving
<1>8. MemoryInv'
  BY <1>1, <1>4 DEF Again, Replayed, MemoryInv, Unwritten, Written, Saving, Holds
<1> QED
  BY <1>5, <1>6, <1>7, <1>8 DEF Replayed

(* A program that ends has no blocks, and nor has one that starts again.   *)
LEMMA StopReplays ==
  ASSUME Again, StreamFails \/ Crash \/ Restart
  PROVE  Replayed'
<1>1. /\ pc' = "stopped" \/ (pc = "stopped" /\ pc' = "idle" /\ block' = 0
                             /\ cache' = Cleared /\ updates' = Cleared)
      /\ UNCHANGED <<content, rows, cursor, skipped>>
  BY DEF StreamFails, Crash, Restart
<1>2. Done' = 0
  BY <1>1 DEF Done, Active
<1>3. HeldInv' /\ \A id \in Ids : Saved(id)' = {}
  BY <1>1, <1>2, HeldStays
<1>4. RowInv'
  BY <1>1 DEF RowInv, Cleared
<1>5. ChainInv' /\ MoreInv'
  BY <1>1 DEF Again, Replayed, ChainInv, Chained, MoreInv, Unsaved, Saving
<1>6. MemoryInv'
  BY <1>1, <1>3 DEF MemoryInv, Unwritten, Written, Saving
<1> QED
  BY <1>3, <1>4, <1>5, <1>6 DEF Replayed

LEMMA ReplayStep == ReplayInv /\ [Next]_vars => ReplayInv'
<1> SUFFICES ASSUME ReplayInv, [Next]_vars  PROVE ReplayInv'
  OBVIOUS
<1>1. IInv'
  BY StepInv DEF ReplayInv
<1>2. ASSUME Calm'
      PROVE  Replayed'
  <2>1. CASE UNCHANGED vars
    <3> USE <2>1 DEF vars, faultVars
    <3>1. Replayed
      BY <1>2 DEF ReplayInv, Calm, NoDatabaseError
    <3>2. \A id \in Ids : Done' = Done /\ Saved(id)' = Saved(id)
      BY DEF Done, Saved, ChangesUpTo
    <3>3. RowInv' /\ ChainInv' /\ MoreInv'
      BY <3>1 DEF Replayed, RowInv, Seen, ChainInv, MoreInv, Unsaved
    <3>4. HeldInv'
      BY <3>1, <3>2 DEF Replayed, HeldInv, ChangesUpTo, Cover
    <3>5. MemoryInv'
      BY <3>1, <3>2 DEF Replayed, MemoryInv, Unwritten, Written, Holds
    <3> QED
      BY <3>3, <3>4, <3>5 DEF Replayed
  <2>2. CASE Next
    <3>1. Again /\ ~SaveCursorFails /\ \A id \in Ids : ~LoadFails(id) /\ ~SaveFails(id)
      BY <1>2, <2>2, StepCalm DEF ReplayInv, Again
    <3>2. CASE Receive \/ RefuseBlock \/ ChangeUnknown \/ Flush
      BY <3>1, <3>2, ReceiveReplays, RefusalReplays, FlushReplays
    <3>3. CASE SaveCursor \/ CommitCursor \/ StreamFails \/ Crash \/ Restart
      BY <3>1, <3>3, SaveCursorReplays, CommitCursorReplays, StopReplays
    <3>4. CASE \E id \in Ids : ApplyChange(id) \/ ApplyFails(id)
      BY <3>1, <3>4, ApplyChangeReplays, ApplyFailsReplays
    <3>5. CASE \E id \in Ids : SaveEntity(id) \/ Commit(id)
      BY <3>1, <3>5, SaveEntityReplays, CommitReplays
    <3> QED
      BY <2>2, <3>1, <3>2, <3>3, <3>4, <3>5 DEF Next
  <2> QED
    BY <2>1, <2>2
<1> QED
  BY <1>1, <1>2 DEF ReplayInv

(* Whatever run it is, no change that was saved is overwritten while no    *)
(* database call failed.                                                   *)
THEOREM ReplayInvariance == Spec => []ReplayInv
  BY InitReplayed, ReplayStep, PTL DEF Spec

-----------------------------------------------------------------------------
(* Apart rows have no block in common, so that one of them is visible.     *)
LEMMA OneVisibleRow ==
  ASSUME FoldInv, FirstRun, Calm, NEW id \in Ids, NEW b \in Blocks
  PROVE  \A r, s \in Visible(id, b) : r = s
<1>1. \A r, s \in rows[id] : r # s => Apart(r, s)
  BY DEF FoldInv, Folded, ApartInv, Sorted
<1>2. b \in Nat /\ \A r \in rows[id] : r.lo \in Nat /\ r.hi \in Nat
  BY SinkAssumption DEF FoldInv, IInv, TypeInv, TypeOK, Row, Blocks
<1> QED
  BY <1>1, <1>2 DEF Visible, Contains, Apart

LEMMA UniqueFollows == FoldInv => UniqueUnlessDatabaseError
<1> SUFFICES ASSUME FoldInv, FirstRun, Calm, NEW id \in Ids, NEW b \in Blocks
             PROVE  Cardinality(Visible(id, b)) <= 1
  BY DEF UniqueUnlessDatabaseError, UniqueVisible, Calm, FirstRun
<1>1. CASE Visible(id, b) = {}
  BY <1>1, FS_EmptySet
<1>2. ASSUME NEW r \in Visible(id, b)
      PROVE  Cardinality(Visible(id, b)) <= 1
  <2>1. Visible(id, b) = {r}
    BY <1>2, OneVisibleRow
  <2>2. Cardinality({r}) = 1
    BY FS_Singleton
  <2> QED
    BY <2>1, <2>2
<1> QED
  BY <1>1, <1>2

LEMMA FoldFollows == FoldInv => ServedIsFold
<1> SUFFICES ASSUME FoldInv, FirstRun, Calm, Exact, NEW id \in Ids,
                    NEW b \in Blocks, b <= cursor
             PROVE  Served(id, b) = IF ChangesUpTo(id, b) = {} THEN {} ELSE {ChangesUpTo(id, b)}
  BY DEF ServedIsFold, Calm, Exact, FirstRun
<1>1. b \in 1 .. cursor
  BY SinkAssumption DEF FoldInv, IInv, TypeInv, TypeOK, Blocks
<1>2. \A v, w \in Served(id, b) : v = w
  BY OneVisibleRow DEF Served
<1> QED
  BY <1>1, <1>2 DEF FoldInv, Folded, PastInv, Fits

LEMMA ChangesFollow == ReplayInv => NoChangeLost
<1> SUFFICES ASSUME ReplayInv, Calm, NEW id \in Ids,
                    NEW b \in Blocks, b <= cursor, ChangesUpTo(id, b) # {}
             PROVE  \E v \in Served(id, b) : ChangesUpTo(id, b) \subseteq v
  BY DEF NoChangeLost, Calm
<1>1. Cover(rows[id], ChangesUpTo(id, b), b)
  BY DEF ReplayInv, Replayed, HeldInv
<1> QED
  BY <1>1 DEF Cover, Served, Visible

(* In the first run there is one open row at most; in a later one the row  *)
(* of a cached entity is open unless a block failed halfway.               *)
LEMMA CacheFollows == FoldInv /\ ReplayInv => CacheKnowsItsRow
<1> SUFFICES ASSUME FoldInv, ReplayInv, Calm, pc = "idle", NEW id \in Ids, cache[id] # Nothing
             PROVE  /\ cache[id].lo # 0 =>
                         \E r \in rows[id] : r.vid = cache[id].vid /\ r.lo = cache[id].lo
                    /\ ("apply" \notin happened \/ ~restarted) /\ cache[id].lo # 0 =>
                         \E r \in OpenRows(id) : r.vid = cache[id].vid /\ r.lo = cache[id].lo
                    /\ ~restarted =>
                         {[vid |-> r.vid, lo |-> r.lo] : r \in OpenRows(id)} =
                           IF cache[id].lo = 0 THEN {}
                           ELSE {[vid |-> cache[id].vid, lo |-> cache[id].lo]}
  BY DEF CacheKnowsItsRow, Calm
<1>1. cache[id].lo # 0 => \E r \in rows[id] : r.vid = cache[id].vid /\ r.lo = cache[id].lo
  BY DEF ReplayInv, Replayed, RowInv, HasRow, Seen, Saving
<1>2. ASSUME ~restarted
      PROVE  {[vid |-> r.vid, lo |-> r.lo] : r \in OpenRows(id)} =
               IF cache[id].lo = 0 THEN {}
               ELSE {[vid |-> cache[id].vid, lo |-> cache[id].lo]}
  <2>1. Agrees(cache[id], rows[id])
    BY <1>2 DEF FoldInv, FirstRun, Folded, AgreeInv, Seen, Saving
  <2>2. \A r, s \in OpenRows(id) : r = s
    BY <1>2 DEF FoldInv, FirstRun, Folded, ApartInv, Sorted, Apart, OpenRows
  <2> QED
    BY <2>1, <2>2 DEF Agrees, OpenRows
<1>3. ASSUME "apply" \notin happened \/ ~restarted, cache[id].lo # 0
      PROVE  \E r \in OpenRows(id) : r.vid = cache[id].vid /\ r.lo = cache[id].lo
  <2>1. happened \subseteq FaultKinds
    BY SinkAssumption DEF ReplayInv, IInv, TypeInv, TypeOK
  <2>2. Steady
    BY <1>3, <2>1 DEF Steady, Calm, NoDatabaseError, FaultKinds
  <2>3. Knows(id, cache[id], rows[id]) /\ ~Loose(id)
    BY <2>2 DEF ReplayInv, IInv, KnownInv, Loose
  <2> QED
    BY <1>1, <1>3, <2>3 DEF Knows, OpenRows
<1> QED
  BY <1>1, <1>2, <1>3

(* What the four properties say: in the first run, at no block are two     *)
(* rows of an entity visible ...                                           *)
THEOREM RowsAreUnique == Spec => []UniqueUnlessDatabaseError
  BY FoldInvariance, UniqueFollows, PTL

(* ... and what is served at a block is the fold of the changes up to it;  *)
THEOREM ServedIsTheFold == Spec => []ServedIsFold
  BY FoldInvariance, FoldFollows, PTL

(* in every run all the changes of the blocks that were saved are there,   *)
(* even when changes were applied in part and when the program started     *)
(* over its own rows ...                                                   *)
THEOREM ChangesAreKept == Spec => []NoChangeLost
  BY ReplayInvariance, ChangesFollow, PTL

(* ... and a cached entity knows the row that holds it.                    *)
THEOREM CacheIsCurrent == Spec => []CacheKnowsItsRow
  BY FoldInvariance, ReplayInvariance, CacheFollows, PTL
=============================================================================
