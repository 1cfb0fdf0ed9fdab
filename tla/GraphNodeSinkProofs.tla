------------------------ MODULE GraphNodeSinkProofs ------------------------
(***************************************************************************)
(* Theorems about GraphNodeSink: the types of its state, and what no fault *)
(* of the database, of a handler or of the process takes back, for any     *)
(* entities, blocks and faults.                                            *)
(***************************************************************************)
EXTENDS GraphNodeSink, TLAPS

Active == {"handle", "save", "commit"}

(* Which entities of the block have been applied, saved and committed; the *)
(* shared ones are cached.                                                 *)
HandlerInv ==
  /\ pc \in Active => block \in Blocks /\ todo \subseteq content[block]
  /\ pc = "handle" => \A id \in content[block] \ todo : updates[id] # Nothing
  /\ pc \in {"save", "commit"} => \A id \in content[block] : updates[id] # Nothing
  /\ pc = "save" => \A id \in Ids : id \in todo \/ id \notin content[block] => work[id] = rows[id]
  /\ pc = "commit" => \A id \in Ids \ todo : work[id] = rows[id]
  /\ \A id \in shared : cache[id] # Nothing

TypeInv == TypeOK /\ HandlerInv

-----------------------------------------------------------------------------
(* The first run of the program has the cursor behind the block.           *)
OrderInv == cursor <= block /\ (pc \in Active => cursor < block)

(* A vid is used once, by a row that may be committed or not.              *)
Unsaved(id) == IF pc \in {"save", "commit"} THEN work[id] ELSE {}
VidInv ==
  \A id \in Ids :
    /\ \A r \in rows[id] \cup Unsaved(id) : r.vid < nextVid[id]
    /\ \A e \in {cache[id], updates[id]} \ {Nothing} : e.vid < nextVid[id]
    /\ \A r, s \in rows[id] : r.vid = s.vid => r = s
    /\ \A r, s \in Unsaved(id) : r.vid = s.vid => r = s

(* In the first run a row is of a block that is committed, being committed,*)
(* or was when the process died, and is closed by a later one.             *)
Reach == IF pc \in {"commit", "stopped"} THEN block ELSE cursor
Ranged(r, c) == r.lo <= c /\ r.hi <= c /\ (r.hi # Open => r.lo < r.hi)
RangeInv ==
  \A id \in Ids :
    /\ \A r \in rows[id] : Ranged(r, Reach)
    /\ \A r \in Unsaved(id) : Ranged(r, block)

(* Started again, the program loads versions that a later block of an      *)
(* earlier run has closed; the block in hand closes them earlier.          *)
Loaded(id) == updates[id] # Nothing /\ id \in content[block]
Loose(id) ==
  /\ restarted
  /\ \/ pc = "stopped"
     \/ pc = "handle" /\ Loaded(id)
     \/ pc = "save" /\ Loaded(id) /\ id \in todo

(* An entity in memory that has the vid of a row has its start, and the    *)
(* row is open or loose.                                                   *)
Knows(id, e, rs) ==
  e.lo # 0 => \A r \in rs : r.vid = e.vid =>
    r.lo = e.lo /\ (r.hi = Open \/ (Loose(id) /\ block < r.hi))
KnownInv ==
  \A id \in Ids : \A e \in {cache[id], updates[id]} \ {Nothing} :
    Knows(id, e, rows[id]) /\ Knows(id, e, Unsaved(id))

(* What is about to be committed shows the past as it is.                  *)
Shown(rs, b) == {r.val : r \in {s \in rs : Contains(s, b)}}
SameInv ==
  pc \in {"save", "commit"} =>
    \A id \in Ids, b \in Blocks : b < block => Shown(work[id], b) = Shown(rows[id], b)

(* A block that failed halfway leaves loose versions behind in the cache,  *)
(* if it was not in the first run.                                         *)
Steady == ~restarted \/ happened \subseteq {"refuse", "stream", "crash"}

IInv ==
  /\ TypeInv
  /\ VidInv
  /\ ~restarted => OrderInv /\ RangeInv
  /\ Steady => KnownInv /\ SameInv

-----------------------------------------------------------------------------
(* A row that is read gives an entity, and what a load gives is one.       *)
LEMMA RowIsEntity ==
  ASSUME NEW r \in Row
  PROVE  /\ FromRow(r) \in Entity
         /\ FromRow(r).exists /\ FromRow(r).vid = r.vid /\ FromRow(r).lo = r.lo
         /\ FromRow(r).val = r.val
  BY SinkAssumption DEF FromRow, ParseBytes, Row, Entity, Blocks

LEMMA BlankIsEntity ==
  Blank \in Entity /\ Blank.lo = 0 /\ Blank.vid = 0 /\ Blank.val = {} /\ ~Blank.exists
  BY SinkAssumption DEF Blank, Entity

LEMMA LoadsEntities ==
  ASSUME TypeInv, NEW id \in Ids
  PROVE  LoaderLoads(id) \subseteq Entity
<1>1. /\ rows[id] \subseteq Row
      /\ cache[id] \in Entity \cup {Nothing} /\ updates[id] \in Entity \cup {Nothing}
  BY DEF TypeInv, TypeOK
<1>2. \A r \in Visible(id, block) : FromRow(r) \in Entity
  BY <1>1, RowIsEntity DEF Visible
<1> QED
  BY <1>1, <1>2, BlankIsEntity DEF LoaderLoads, Loads

(* Defaults and the changes of a block keep the row an entity is from.     *)
LEMMA Applied ==
  ASSUME NEW e \in Entity, NEW d \in Defaults(e), block \in Blocks
  PROVE  /\ d \in Entity /\ d.vid = e.vid /\ d.lo = e.lo
         /\ \A v \in {d.val, d.val \cup {block}} :
              /\ [d EXCEPT !.val = v] \in Entity
              /\ [d EXCEPT !.val = v].vid = e.vid /\ [d EXCEPT !.val = v].lo = e.lo
         /\ LoaderSave([d EXCEPT !.val = @ \cup {block}]) \in Entity
         /\ LoaderSave([d EXCEPT !.val = @ \cup {block}]).vid = e.vid
         /\ LoaderSave([d EXCEPT !.val = @ \cup {block}]).lo = e.lo
  BY SinkAssumption DEF Entity, Defaults, LoaderSave, Blocks

(* A row that is closed or written is a row.                               *)
LEMMA SavedRows ==
  ASSUME NEW id \in Ids, NEW e \in Entity, NEW rs, rs \subseteq Row, block \in Blocks,
         nextVid[id] \in Nat \ {0}
  PROVE  /\ CloseReplaced(e, rs) \cup {NewRow(id, e)} \subseteq Row
         /\ [Stamped(e) EXCEPT !.vid = nextVid[id]] \in Entity /\ Stamped(e) \in Entity
<1>1. \A r \in Replaced(e, rs) : Closed([r EXCEPT !.lo = e.lo], block) \in Row
  <2> SUFFICES ASSUME NEW r \in Replaced(e, rs)
               PROVE  Closed([r EXCEPT !.lo = e.lo], block) \in Row
    OBVIOUS
  <2>1. r \in Row /\ e.lo \in Blocks
    BY SinkAssumption DEF Replaced, Entity, Blocks
  <2>2. block \in 0 .. MaxBlock
    BY SinkAssumption DEF Blocks
  <2> QED
    BY <2>1, <2>2 DEF Closed, Row
<1>2. NewRow(id, e) \in Row
  BY SinkAssumption DEF NewRow, Row, Entity, Blocks, Open
<1>3. Stamped(e) \in Entity
  <2>1. block \in 0 .. MaxBlock
    BY SinkAssumption DEF Blocks
  <2> QED
    BY <2>1 DEF Stamped, Entity
<1>4. [Stamped(e) EXCEPT !.vid = nextVid[id]] \in Entity
  <2> HIDE DEF Stamped
  <2> QED
    BY <1>3 DEF Entity
<1> QED
  BY <1>1, <1>2, <1>3, <1>4 DEF CloseReplaced

-----------------------------------------------------------------------------
(* The types, action by action.                                            *)
LEMMA InitTypes == Init => TypeInv
<1> SUFFICES ASSUME Init  PROVE TypeInv
  OBVIOUS
<1>1. TypeOK
  <2>1. cache \in [Ids -> Entity \cup {Nothing}] /\ updates \in [Ids -> Entity \cup {Nothing}]
    BY DEF Init, Cleared
  <2>2. restarted \in BOOLEAN
    BY DEF Init
  <2> QED
    BY <2>1, <2>2, SinkAssumption DEF Init, TypeOK, Blocks
<1>2. HandlerInv
  BY DEF Init, HandlerInv, Active
<1> QED
  BY <1>1, <1>2 DEF TypeInv

(* The block that is received is one of the stream's.                      *)
LEMMA ReceiveTypes ==
  ASSUME TypeInv, Receive
  PROVE  TypeInv'
<1> USE SinkAssumption DEF Receive, faultVars
<1>1. block' \in Blocks /\ block' = block + 1 /\ content[block'] \subseteq Ids
  BY DEF TypeInv, TypeOK, Blocks
<1>2. updates' \in [Ids -> Entity \cup {Nothing}]
  BY DEF Cleared
<1>3. TypeOK'
  BY <1>1, <1>2 DEF TypeInv, TypeOK, Blocks
<1>4. HandlerInv'
  BY <1>1 DEF TypeInv, HandlerInv, Active
<1> QED
  BY <1>3, <1>4 DEF TypeInv

(* The caches take entities.                                               *)
LEMMA CacheLoadedTypes ==
  ASSUME TypeInv, NEW id \in Ids, NEW e \in Entity, CacheLoaded(id, e)
  PROVE  /\ cache' \in [Ids -> Entity \cup {Nothing}] /\ shared' \subseteq Ids
         /\ \A i \in shared' : cache'[i] # Nothing
  BY NothingAssumption DEF TypeInv, TypeOK, HandlerInv, CacheLoaded

LEMMA ApplyChangeTypes ==
  ASSUME TypeInv, NEW id \in Ids, ApplyChange(id)
  PROVE  TypeInv'
<1> USE SinkAssumption DEF ApplyChange, faultVars
<1>1. block \in Blocks
  BY DEF TypeInv, HandlerInv, Active
<1>2. PICK e \in LoaderLoads(id) : \E d \in Defaults(e) :
        LET applied == LoaderSave([d EXCEPT !.val = @ \cup {block}])
        IN  updates' = [updates EXCEPT ![id] = applied] /\ CacheLoaded(id, applied)
  OBVIOUS
<1>3. PICK d \in Defaults(e) :
        LET applied == LoaderSave([d EXCEPT !.val = @ \cup {block}])
        IN  updates' = [updates EXCEPT ![id] = applied] /\ CacheLoaded(id, applied)
  BY <1>2
<1> DEFINE applied == LoaderSave([d EXCEPT !.val = @ \cup {block}])
<1>4. applied \in Entity
  BY <1>1, LoadsEntities, Applied
<1>5. updates' = [updates EXCEPT ![id] = applied] /\ CacheLoaded(id, applied)
  BY <1>3
<1> HIDE DEF applied
<1>6. /\ cache' \in [Ids -> Entity \cup {Nothing}] /\ shared' \subseteq Ids
      /\ \A i \in shared' : cache'[i] # Nothing
  BY <1>4, <1>5, CacheLoadedTypes
<1>7. TypeOK'
  BY <1>4, <1>5, <1>6 DEF TypeInv, TypeOK
<1>8. HandlerInv'
  BY <1>4, <1>5, <1>6, NothingAssumption DEF TypeInv, TypeOK, HandlerInv, Active
<1> QED
  BY <1>7, <1>8 DEF TypeInv

(* A fault is one of those that may happen.                                *)
LEMMA FaultTypes ==
  ASSUME TypeInv, NEW kind, Fault(kind)
  PROVE  faults' \in 0 .. MaxFaults /\ happened' \subseteq Faults /\ faults' = faults + 1
  BY SinkAssumption DEF TypeInv, TypeOK, Fault

(* The skipped block is the one in hand.                                   *)
LEMMA ReturnErrorTypes ==
  ASSUME TypeInv, pc \in Active, ReturnError,
         UNCHANGED <<content, restarted, rows, nextVid, cursor, block, work>>,
         NEW kind, Fault(kind), cache' \in [Ids -> Entity \cup {Nothing}],
         updates' \in [Ids -> Entity \cup {Nothing}], shared' \subseteq Ids,
         \A i \in shared' : cache'[i] # Nothing
  PROVE  TypeInv'
<1>1. TypeOK'
  BY FaultTypes DEF TypeInv, TypeOK, HandlerInv, ReturnError
<1>2. HandlerInv'
  BY DEF HandlerInv, ReturnError, Active
<1> QED
  BY <1>1, <1>2 DEF TypeInv

LEMMA RefusalTypes ==
  ASSUME TypeInv, RefuseBlock \/ ChangeUnknown \/ SaveCursorFails
  PROVE  TypeInv'
  BY ReturnErrorTypes
     DEF RefuseBlock, ChangeUnknown, SaveCursorFails, TypeInv, TypeOK, HandlerInv, Active

LEMMA LoadFailsTypes ==
  ASSUME TypeInv, NEW id \in Ids, LoadFails(id)
  PROVE  TypeInv'
  BY ReturnErrorTypes, CacheLoadedTypes, BlankIsEntity DEF LoadFails, TypeInv, TypeOK, Active

LEMMA ApplyFailsTypes ==
  ASSUME TypeInv, NEW id \in Ids, ApplyFails(id)
  PROVE  TypeInv'
<1>1. block \in Blocks
  BY DEF TypeInv, HandlerInv, Active, ApplyFails
<1>2. PICK e \in LoaderLoads(id) : \E d \in Defaults(e) :
        \E v \in {d.val, d.val \cup {block}} : CacheLoaded(id, [d EXCEPT !.val = v])
  BY DEF ApplyFails
<1>3. /\ cache' \in [Ids -> Entity \cup {Nothing}] /\ shared' \subseteq Ids
      /\ \A i \in shared' : cache'[i] # Nothing
  BY <1>1, <1>2, LoadsEntities, Applied, CacheLoadedTypes
<1> QED
  BY <1>3, ReturnErrorTypes DEF ApplyFails, TypeInv, TypeOK, Active

LEMMA FlushTypes ==
  ASSUME TypeInv, Flush
  PROVE  TypeInv'
<1>1. TypeOK'
  BY DEF Flush, faultVars, TypeInv, TypeOK, HandlerInv, Active
<1>2. HandlerInv'
  BY DEF Flush, TypeInv, TypeOK, HandlerInv, Active
<1> QED
  BY <1>1, <1>2 DEF TypeInv

(* The entity that is saved is in updates.                                 *)
LEMMA EntityInHand ==
  ASSUME TypeInv, pc = "save", NEW id \in todo
  PROVE  /\ updates[id] \in Entity /\ updates[id] # Nothing /\ block \in Blocks
         /\ id \in content[block]
  BY DEF TypeInv, TypeOK, HandlerInv, Active

LEMMA SaveEntityTypes ==
  ASSUME TypeInv, NEW id \in Ids, SaveEntity(id)
  PROVE  TypeInv'
<1> USE DEF SaveEntity, faultVars
<1> DEFINE e == updates[id]
           saved == [Stamped(e) EXCEPT !.vid = nextVid[id]]
           left == CloseReplaced(e, work[id]) \cup {NewRow(id, e)}
<1>1. e \in Entity /\ block \in Blocks /\ work[id] \subseteq Row /\ nextVid[id] \in Nat \ {0}
  BY EntityInHand DEF TypeInv, TypeOK
<1>2. left \subseteq Row /\ saved \in Entity
  BY <1>1, SavedRows
<1>3. /\ work' = [work EXCEPT ![id] = left]
      /\ updates' = [updates EXCEPT ![id] = saved]
      /\ cache' = [cache EXCEPT ![id] = saved]
  OBVIOUS
<1> HIDE DEF left, saved, e
<1>4. TypeOK'
  BY <1>1, <1>2, <1>3 DEF TypeInv, TypeOK
<1>5. HandlerInv'
  BY <1>1, <1>2, <1>3, NothingAssumption DEF TypeInv, TypeOK, HandlerInv, Active
<1> QED
  BY <1>4, <1>5 DEF TypeInv

LEMMA SaveFailsTypes ==
  ASSUME TypeInv, NEW id \in Ids, SaveFails(id)
  PROVE  TypeInv'
<1>1. updates[id] \in Entity /\ block \in Blocks
  BY EntityInHand DEF SaveFails
<1>2. CASE UNCHANGED <<cache, updates>>
  BY <1>2, ReturnErrorTypes DEF SaveFails, TypeInv, TypeOK, HandlerInv, Active
<1>3. CASE /\ updates' = [updates EXCEPT ![id] = Stamped(@)]
           /\ cache' = IF id \in shared THEN [cache EXCEPT ![id] = Stamped(@)] ELSE cache
  <2>1. Stamped(updates[id]) \in Entity
    BY <1>1, SavedRows DEF TypeInv, TypeOK
  <2>2. id \in shared => cache[id] \in Entity /\ Stamped(cache[id]) \in Entity
    BY <1>1, SavedRows DEF TypeInv, TypeOK, HandlerInv
  <2>3. updates' \in [Ids -> Entity \cup {Nothing}]
    BY <1>3, <2>1 DEF TypeInv, TypeOK
  <2>4. /\ cache' \in [Ids -> Entity \cup {Nothing}]
        /\ \A i \in shared : cache'[i] # Nothing
    BY <1>3, <2>2, NothingAssumption DEF TypeInv, TypeOK, HandlerInv
  <2> QED
    BY <2>3, <2>4, ReturnErrorTypes DEF SaveFails, TypeInv, TypeOK, Active
<1> QED
  BY <1>2, <1>3 DEF SaveFails

LEMMA SaveCursorTypes ==
  ASSUME TypeInv, SaveCursor
  PROVE  TypeInv'
<1>1. TypeOK'
  BY DEF SaveCursor, faultVars, TypeInv, TypeOK, HandlerInv, Active
<1>2. HandlerInv'
  BY DEF SaveCursor, TypeInv, TypeOK, HandlerInv, Active
<1> QED
  BY <1>1, <1>2 DEF TypeInv

LEMMA CommitTypes ==
  ASSUME TypeInv, NEW id \in Ids, Commit(id)
  PROVE  TypeInv'
<1>1. TypeOK'
  BY DEF Commit, faultVars, TypeInv, TypeOK
<1>2. HandlerInv'
  BY DEF Commit, TypeInv, TypeOK, HandlerInv, Active
<1> QED
  BY <1>1, <1>2 DEF TypeInv

LEMMA CommitCursorTypes ==
  ASSUME TypeInv, CommitCursor
  PROVE  TypeInv'
<1>1. TypeOK'
  BY DEF CommitCursor, faultVars, TypeInv, TypeOK
<1>2. HandlerInv'
  BY DEF CommitCursor, TypeInv, HandlerInv, Active
<1> QED
  BY <1>1, <1>2 DEF TypeInv

LEMMA StopTypes ==
  ASSUME TypeInv, StreamFails \/ Crash
  PROVE  TypeInv'
<1>1. TypeOK'
  BY FaultTypes DEF StreamFails, Crash, TypeInv, TypeOK
<1>2. HandlerInv'
  BY DEF StreamFails, Crash, TypeInv, HandlerInv, Active
<1> QED
  BY <1>1, <1>2 DEF TypeInv

LEMMA RestartTypes ==
  ASSUME TypeInv, Restart
  PROVE  TypeInv'
<1>1. cache' \in [Ids -> Entity \cup {Nothing}] /\ updates' \in [Ids -> Entity \cup {Nothing}]
  BY DEF Restart, Cleared
<1>2. TypeOK'
  BY <1>1, SinkAssumption DEF Restart, faultVars, TypeInv, TypeOK
<1>3. HandlerInv'
  BY DEF Restart, HandlerInv, Active
<1> QED
  BY <1>2, <1>3 DEF TypeInv

LEMMA StepTypes == TypeInv /\ [Next]_vars => TypeInv'
<1> SUFFICES ASSUME TypeInv, [Next]_vars  PROVE TypeInv'
  OBVIOUS
<1>1. CASE UNCHANGED vars
  BY <1>1 DEF vars, faultVars, TypeInv, TypeOK, HandlerInv
<1>2. CASE Receive \/ Flush \/ SaveCursor \/ CommitCursor \/ Restart
  BY <1>2, ReceiveTypes, FlushTypes, SaveCursorTypes, CommitCursorTypes, RestartTypes
<1>3. CASE \/ RefuseBlock \/ ChangeUnknown \/ SaveCursorFails
           \/ StreamFails \/ Crash
  BY <1>3, RefusalTypes, StopTypes
<1>4. CASE \E id \in Ids : ApplyChange(id) \/ LoadFails(id) \/ ApplyFails(id)
  BY <1>4, ApplyChangeTypes, LoadFailsTypes, ApplyFailsTypes
<1>5. CASE \E id \in Ids : SaveEntity(id) \/ SaveFails(id) \/ Commit(id)
  BY <1>5, SaveEntityTypes, SaveFailsTypes, CommitTypes
<1> QED
  BY <1>1, <1>2, <1>3, <1>4, <1>5 DEF Next

(* The variables keep their types.                                         *)
THEOREM TypeCorrect == Spec => []TypeOK
<1>1. Spec => []TypeInv
  BY InitTypes, StepTypes, PTL DEF Spec
<1>2. TypeInv => TypeOK
  BY DEF TypeInv
<1> QED
  BY <1>1, <1>2, PTL

-----------------------------------------------------------------------------
(* What the program remembers of the rows, action by action.               *)
LEMMA InitInv == Init => IInv
<1> SUFFICES ASSUME Init  PROVE IInv
  OBVIOUS
<1>1. OrderInv
  BY SinkAssumption DEF Init, OrderInv, Active
<1>2. VidInv
  BY DEF Init, VidInv, Unsaved, Cleared
<1>3. RangeInv /\ KnownInv /\ SameInv
  BY DEF Init, RangeInv, KnownInv, SameInv, Unsaved, Cleared
<1> QED
  BY <1>1, <1>2, <1>3, InitTypes DEF IInv

(* What has happened has happened.                                         *)
LEMMA HistoryGrows ==
  ASSUME [Next]_vars
  PROVE  /\ happened \subseteq happened' /\ (restarted => restarted')
         /\ restarted' # restarted => Restart
  BY DEF Next, vars, faultVars, Receive, ApplyChange, LoadFails, ApplyFails, RefuseBlock,
         ChangeUnknown, Flush, SaveEntity, SaveFails, SaveCursorFails, SaveCursor, Commit,
         CommitCursor, StreamFails, Crash, Restart, ReturnError, Fault

LEMMA StillSteady == [Next]_vars /\ Steady' => Steady
  BY HistoryGrows DEF Steady

(* A call of a block fails halfway in the first run only, where nothing is *)
(* loose.                                                                  *)
LEMMA HalfwayInFirstRun ==
  ASSUME Steady', NEW id \in Ids,
         \/ LoadFails(id) \/ ApplyFails(id) \/ SaveFails(id)
         \/ ChangeUnknown \/ SaveCursorFails
  PROVE  ~restarted /\ ~restarted'
  BY DEF Steady, LoadFails, ApplyFails, SaveFails, ChangeUnknown, SaveCursorFails, Fault

(* The numbers of the first run only move where a step moves them.         *)
LEMMA StepOrder ==
  ASSUME TypeInv, OrderInv, Next, ~Restart
  PROVE  OrderInv'
<1> USE SinkAssumption DEF OrderInv, Active, faultVars
<1>1. /\ cursor \in Nat /\ block \in Nat
      /\ pc \in {"idle", "handle", "save", "commit", "stopped"}
  BY DEF TypeInv, TypeOK
<1>2. CASE Receive \/ Flush \/ SaveCursor \/ CommitCursor
  BY <1>1, <1>2 DEF Receive, Flush, SaveCursor, CommitCursor
<1>3. CASE RefuseBlock \/ ChangeUnknown \/ SaveCursorFails
  BY <1>1, <1>3 DEF RefuseBlock, ChangeUnknown, SaveCursorFails, ReturnError
<1>4. CASE StreamFails \/ Crash
  BY <1>1, <1>4 DEF StreamFails, Crash
<1>5. CASE \E id \in Ids : ApplyChange(id) \/ SaveEntity(id) \/ Commit(id)
  BY <1>1, <1>5 DEF ApplyChange, SaveEntity, Commit
<1>6. CASE \E id \in Ids : LoadFails(id) \/ ApplyFails(id) \/ SaveFails(id)
  BY <1>1, <1>6 DEF LoadFails, ApplyFails, SaveFails, ReturnError
<1> QED
  BY <1>2, <1>3, <1>4, <1>5, <1>6 DEF Next

(* What the lemmas about the steps of a run conclude.                      *)
Keeps == VidInv' /\ (~restarted => RangeInv)' /\ (Steady => KnownInv /\ SameInv)'

(* The entities the program holds in memory after the step know the rows.  *)
MindInv ==
  \A i \in Ids : \A e \in {cache[i], updates[i]} \ {Nothing} :
    e.vid < nextVid[i] /\ (Steady => Knows(i, e, rows[i]))

(* No row changes, and no transaction is left open.                        *)
LEMMA RowsUnchanged ==
  ASSUME IInv, pc \notin {"commit", "stopped"}, pc' \notin {"save", "commit", "stopped"},
         UNCHANGED <<rows, nextVid, cursor>>, restarted' = restarted, MindInv'
  PROVE  Keeps
<1>1. VidInv'
  BY DEF IInv, VidInv, Unsaved, MindInv
<1>2. ASSUME ~restarted'
      PROVE  RangeInv'
  BY <1>2 DEF IInv, RangeInv, Ranged, Reach, Unsaved
<1>3. ASSUME Steady'
      PROVE  KnownInv' /\ SameInv'
  BY <1>3 DEF KnownInv, SameInv, Unsaved, MindInv, Knows
<1> QED
  BY <1>1, <1>2, <1>3 DEF Keeps

(* What a load gives knows the rows, but for later versions of an earlier  *)
(* run.                                                                    *)
KnowsLoaded(id, e) ==
  e.lo # 0 => \A r \in rows[id] : r.vid = e.vid =>
    r.lo = e.lo /\ (r.hi = Open \/ (restarted /\ block < r.hi))

LEMMA LoadsKnow ==
  ASSUME IInv, pc = "handle", NEW id \in Ids, NEW e \in LoaderLoads(id)
  PROVE  e.vid < nextVid[id] /\ (Steady => KnowsLoaded(id, e))
<1> USE DEF IInv
<1>1. CASE e \in {cache[id], updates[id]} /\ e # Nothing
  BY <1>1 DEF VidInv, KnownInv, Knows, KnowsLoaded, Loose
<1>2. CASE e = Blank
  BY <1>2, BlankIsEntity DEF TypeInv, TypeOK, KnowsLoaded
<1>3. ASSUME NEW r \in Visible(id, block), e = FromRow(r)
      PROVE  e.vid < nextVid[id] /\ KnowsLoaded(id, e)
  <2>1. r \in rows[id] /\ r \in Row /\ r.vid < nextVid[id]
    BY DEF Visible, TypeInv, TypeOK, VidInv
  <2>2. e.vid = r.vid /\ e.lo = r.lo
    BY <1>3, <2>1, RowIsEntity
  <2>3. r.hi = Open \/ block < r.hi
    BY DEF Visible, Contains
  <2>4. ~restarted => r.hi = Open
    <3>1. ~restarted => r.hi <= cursor
      BY <2>1 DEF RangeInv, Ranged, Reach
    <3>2. /\ ~restarted => cursor < block
          /\ cursor \in Nat /\ block \in Nat /\ r.hi \in Nat
      BY <2>1, SinkAssumption DEF OrderInv, Active, TypeInv, TypeOK, Row
    <3> QED
      BY <2>3, <3>1, <3>2
  <2>5. \A s \in rows[id] : s.vid = r.vid => s = r
    BY <2>1 DEF VidInv
  <2> QED
    BY <2>1, <2>2, <2>3, <2>4, <2>5 DEF KnowsLoaded, TypeInv, TypeOK
<1> QED
  BY <1>1, <1>2, <1>3 DEF LoaderLoads, Loads

(* The entities of the other ids stay as they are, and no looser.          *)
LEMMA OthersRemembered ==
  ASSUME IInv, Steady' => Steady, NEW id \in Ids, UNCHANGED <<rows, nextVid, block>>,
         \A i \in Ids \ {id} : /\ cache'[i] = cache[i] /\ updates'[i] = updates[i]
                               /\ Steady' => (Loose(i) => Loose(i)')
  PROVE  \A i \in Ids \ {id} : \A e \in {cache[i], updates[i]}' \ {Nothing} :
           e.vid < nextVid'[i] /\ (Steady' => Knows(i, e, rows[i])')
<1> SUFFICES ASSUME NEW i \in Ids \ {id}, NEW e \in {cache[i], updates[i]} \ {Nothing}
             PROVE  e.vid < nextVid[i] /\ (Steady' => Knows(i, e, rows[i])')
  OBVIOUS
<1>1. e.vid < nextVid[i]
  BY DEF IInv, VidInv
<1>2. ASSUME Steady'
      PROVE  Knows(i, e, rows[i])'
  <2>1. Knows(i, e, rows[i]) /\ (Loose(i) => Loose(i)')
    BY <1>2 DEF IInv, KnownInv
  <2> QED
    BY <2>1 DEF Knows
<1> QED
  BY <1>1, <1>2

(* Whatever is done to the entity that was loaded, it is of the same row.  *)
LEMMA HandledKeeps ==
  ASSUME IInv, Steady' => Steady, pc = "handle", NEW id \in Ids,
         UNCHANGED <<content, rows, nextVid, cursor, block>>, restarted' = restarted,
         NEW e \in LoaderLoads(id), NEW d, d.vid = e.vid, d.lo = e.lo, CacheLoaded(id, d),
         \/ /\ pc' = "handle" /\ updates' = [updates EXCEPT ![id] = d]
            /\ d # Nothing /\ id \in content[block]
         \/ /\ pc' = "idle" /\ updates' = updates /\ (Steady' => ~restarted)
  PROVE  Keeps
<1>1. \A i \in Ids \ {id} : /\ cache'[i] = cache[i] /\ updates'[i] = updates[i]
                            /\ Steady' => (Loose(i) => Loose(i)')
  BY DEF CacheLoaded, IInv, TypeInv, TypeOK, Loose, Loaded
<1>2. \A i \in Ids \ {id} : \A f \in {cache[i], updates[i]}' \ {Nothing} :
        f.vid < nextVid'[i] /\ (Steady' => Knows(i, f, rows[i])')
  BY <1>1, OthersRemembered
<1>3. ASSUME NEW f \in {cache[id], updates[id]}' \ {Nothing}
      PROVE  f.vid < nextVid'[id] /\ (Steady' => Knows(id, f, rows[id])')
  <2>1. CASE f = d
    <3>1. d.vid < nextVid[id] /\ (Steady => KnowsLoaded(id, d))
      BY LoadsKnow DEF KnowsLoaded
    <3>2. Steady' /\ restarted => Loose(id)'
      BY DEF Loose, Loaded, IInv, TypeInv, TypeOK
    <3> QED
      BY <2>1, <3>1, <3>2 DEF KnowsLoaded, Knows
  <2>2. CASE f \in {cache[id], updates[id]}
    <3>1. f.vid < nextVid[id] /\ (Steady => Knows(id, f, rows[id]))
      BY <2>2 DEF IInv, VidInv, KnownInv
    <3>2. Steady' /\ Loose(id) => Loose(id)'
      BY DEF Loose, Loaded, IInv, TypeInv, TypeOK
    <3> QED
      BY <3>1, <3>2 DEF Knows
  <2> QED
    BY <1>3, <2>1, <2>2 DEF CacheLoaded, IInv, TypeInv, TypeOK
<1>4. MindInv'
  BY <1>2, <1>3 DEF MindInv
<1> QED
  BY <1>4, RowsUnchanged

LEMMA HandlerKeeps ==
  ASSUME IInv, Steady' => Steady, NEW id \in Ids,
         ApplyChange(id) \/ LoadFails(id) \/ ApplyFails(id)
  PROVE  Keeps
<1>1. LoaderLoads(id) \subseteq Entity
  BY LoadsEntities DEF IInv
<1>2. block \in Blocks /\ todo \subseteq content[block]
  BY DEF IInv, TypeInv, HandlerInv, Active, ApplyChange, LoadFails, ApplyFails
<1>3. CASE ApplyChange(id)
  <2>1. PICK e \in LoaderLoads(id) : \E d \in Defaults(e) :
          LET applied == LoaderSave([d EXCEPT !.val = @ \cup {block}])
          IN  updates' = [updates EXCEPT ![id] = applied] /\ CacheLoaded(id, applied)
    BY <1>3 DEF ApplyChange
  <2>2. PICK d \in Defaults(e) :
          LET applied == LoaderSave([d EXCEPT !.val = @ \cup {block}])
          IN  updates' = [updates EXCEPT ![id] = applied] /\ CacheLoaded(id, applied)
    BY <2>1
  <2> DEFINE applied == LoaderSave([d EXCEPT !.val = @ \cup {block}])
  <2>3. applied.vid = e.vid /\ applied.lo = e.lo /\ applied # Nothing
    BY <1>1, <1>2, Applied, NothingAssumption
  <2>4. updates' = [updates EXCEPT ![id] = applied] /\ CacheLoaded(id, applied)
    BY <2>2
  <2> HIDE DEF applied
  <2>5. /\ pc = "handle" /\ pc' = "handle" /\ restarted' = restarted /\ id \in content[block]
        /\ UNCHANGED <<content, rows, nextVid, cursor, block>>
    BY <1>2, <1>3 DEF ApplyChange, faultVars
  <2> QED
    BY <2>3, <2>4, <2>5, HandledKeeps
<1>4. CASE LoadFails(id)
  <2>1. Steady' => ~restarted
    BY <1>4, HalfwayInFirstRun
  <2>2. /\ pc = "handle" /\ pc' = "idle" /\ updates' = updates /\ restarted' = restarted
        /\ UNCHANGED <<content, rows, nextVid, cursor, block>> /\ CacheLoaded(id, Blank)
    BY <1>4 DEF LoadFails, ReturnError
  <2>3. \A f \in {cache[id], updates[id]}' \ {Nothing} : f = Blank \/ f \in {cache[id], updates[id]}
    BY <2>2 DEF CacheLoaded, IInv, TypeInv, TypeOK
  <2>4. \A f \in {cache[id], updates[id]}' \ {Nothing} :
          f.vid < nextVid'[id] /\ (Steady' => Knows(id, f, rows[id])')
    BY <2>1, <2>2, <2>3, BlankIsEntity DEF IInv, TypeInv, TypeOK, VidInv, KnownInv, Knows, Loose
  <2>5. \A i \in Ids \ {id} : /\ cache'[i] = cache[i] /\ updates'[i] = updates[i]
                              /\ Steady' => (Loose(i) => Loose(i)')
    BY <2>1, <2>2 DEF CacheLoaded, IInv, TypeInv, TypeOK, Loose
  <2>6. MindInv'
    BY <2>2, <2>4, <2>5, OthersRemembered DEF MindInv
  <2> QED
    BY <2>2, <2>6, RowsUnchanged
<1>5. CASE ApplyFails(id)
  <2>1. PICK e \in LoaderLoads(id) : \E d \in Defaults(e) :
          \E v \in {d.val, d.val \cup {block}} : CacheLoaded(id, [d EXCEPT !.val = v])
    BY <1>5 DEF ApplyFails
  <2>2. PICK d \in Defaults(e) :
          \E v \in {d.val, d.val \cup {block}} : CacheLoaded(id, [d EXCEPT !.val = v])
    BY <2>1
  <2>3. PICK v \in {d.val, d.val \cup {block}} : CacheLoaded(id, [d EXCEPT !.val = v])
    BY <2>2
  <2> DEFINE left == [d EXCEPT !.val = v]
  <2>4. left.vid = e.vid /\ left.lo = e.lo /\ CacheLoaded(id, left)
    <3>1. e \in Entity /\ block \in Blocks
      BY <1>1, <1>2
    <3> QED
      BY <2>3, <3>1, Applied
  <2> HIDE DEF left
  <2>5. /\ pc = "handle" /\ pc' = "idle" /\ restarted' = restarted /\ updates' = updates
        /\ UNCHANGED <<content, rows, nextVid, cursor, block>>
    BY <1>5 DEF ApplyFails, ReturnError
  <2>6. Steady' => ~restarted
    BY <1>5, HalfwayInFirstRun
  <2> QED
    BY <2>4, <2>5, <2>6, HandledKeeps
<1> QED
  BY <1>3, <1>4, <1>5

(* A block that is received or given up leaves the rows as they are, and   *)
(* nothing is loose.                                                       *)
LEMMA BetweenBlocksKeeps ==
  ASSUME IInv, Steady' => Steady, Receive \/ RefuseBlock \/ ChangeUnknown \/ SaveCursorFails
  PROVE  Keeps
<1>1. /\ pc \notin {"commit", "stopped"} /\ pc' \notin {"save", "commit", "stopped"}
      /\ UNCHANGED <<rows, nextVid, cursor>> /\ restarted' = restarted
      /\ cache' = cache /\ updates' \in {updates, Cleared}
  BY DEF Receive, RefuseBlock, ChangeUnknown, SaveCursorFails, ReturnError
<1>2. \A i \in Ids : Steady' => ~Loose(i)
  BY HalfwayInFirstRun DEF Receive, RefuseBlock, Loose, Loaded, Cleared
<1>3. MindInv'
  BY <1>1, <1>2 DEF MindInv, IInv, VidInv, KnownInv, Knows, Cleared
<1> QED
  BY <1>1, <1>3, RowsUnchanged

(* What is stamped has no vid.                                             *)
LEMMA SaveFailsKeeps ==
  ASSUME IInv, Steady' => Steady, NEW id \in Ids, SaveFails(id)
  PROVE  Keeps
<1>1. \A i \in Ids : \A f \in {cache[i], updates[i]} \ {Nothing} :
        f.vid < nextVid[i] /\ (Steady' => Knows(i, f, rows[i])')
  <2>1. Steady' => ~restarted
    BY HalfwayInFirstRun
  <2> QED
    BY <2>1 DEF IInv, VidInv, KnownInv, Knows, Loose, SaveFails
<1>2. updates[id] \in Entity /\ (id \in shared => cache[id] \in Entity)
  BY EntityInHand DEF SaveFails, IInv, TypeInv, TypeOK, HandlerInv
<1>3. ASSUME NEW f, f \in {Stamped(g) : g \in Entity}
      PROVE  f.vid < nextVid[id] /\ Knows(id, f, rows[id])'
  <2>1. f.vid = 0
    BY <1>3 DEF Stamped, Entity
  <2>2. nextVid[id] > 0 /\ rows' = rows /\ \A r \in rows[id] : r.vid # 0
    BY DEF IInv, TypeInv, TypeOK, Row, SaveFails
  <2> QED
    BY <2>1, <2>2 DEF Knows
<1>4. MindInv'
  <2>1. ASSUME NEW i \in Ids, NEW f \in {cache[i], updates[i]}' \ {Nothing}
        PROVE  \/ f \in {cache[i], updates[i]}
               \/ i = id /\ f \in {Stamped(g) : g \in Entity}
    BY <1>2, <2>1 DEF SaveFails, IInv, TypeInv, TypeOK
  <2>2. nextVid' = nextVid
    BY DEF SaveFails
  <2> QED
    BY <1>1, <1>3, <2>1, <2>2 DEF MindInv
<1> QED
  BY <1>4, RowsUnchanged DEF SaveFails, ReturnError, Fault

(* The transactions begin with the rows as they are.                       *)
LEMMA FlushKeeps ==
  ASSUME IInv, Steady' => Steady, Flush
  PROVE  Keeps
<1> USE DEF IInv, Flush, faultVars, Unsaved
<1>1. VidInv'
  BY DEF VidInv
<1>2. ASSUME ~restarted'
      PROVE  RangeInv'
  <2>1. cursor \in Nat /\ block \in Nat /\ cursor <= block
    BY <1>2, SinkAssumption DEF TypeInv, TypeOK, OrderInv
  <2>2. \A i \in Ids : \A r \in rows[i] : r.lo \in Nat /\ r.hi \in Nat
    BY SinkAssumption DEF TypeInv, TypeOK, Row, Blocks
  <2> QED
    BY <1>2, <2>1, <2>2 DEF RangeInv, Ranged, Reach
<1>3. \A i \in Ids : Loose(i) => Loose(i)'
  BY DEF Loose, Loaded
<1>4. ASSUME Steady'
      PROVE  KnownInv' /\ SameInv'
  BY <1>3, <1>4 DEF KnownInv, SameInv, Knows, Shown
<1> QED
  BY <1>1, <1>2, <1>4 DEF Keeps

(* The cursor is saved with what is about to be committed, and committed   *)
(* when all rows are those of the transactions.                            *)
LEMMA SaveCursorKeeps ==
  ASSUME IInv, Steady' => Steady, SaveCursor
  PROVE  Keeps
<1> USE DEF IInv, SaveCursor, faultVars, Unsaved
<1>1. VidInv'
  BY DEF VidInv
<1>2. ASSUME ~restarted'
      PROVE  RangeInv'
  <2>1. cursor \in Nat /\ block \in Nat /\ cursor <= block
    BY <1>2, SinkAssumption DEF TypeInv, TypeOK, OrderInv
  <2>2. \A i \in Ids : \A r \in rows[i] : r.lo \in Nat /\ r.hi \in Nat
    BY SinkAssumption DEF TypeInv, TypeOK, Row, Blocks
  <2> QED
    BY <1>2, <2>1, <2>2 DEF RangeInv, Ranged, Reach
<1>3. \A i \in Ids : ~Loose(i)
  BY DEF Loose
<1>4. ASSUME Steady'
      PROVE  KnownInv' /\ SameInv'
  BY <1>3, <1>4 DEF KnownInv, SameInv, Knows, Shown
<1> QED
  BY <1>1, <1>2, <1>4 DEF Keeps

LEMMA CommitCursorKeeps ==
  ASSUME IInv, Steady' => Steady, CommitCursor
  PROVE  Keeps
<1> USE DEF IInv, CommitCursor, faultVars, Unsaved
<1>1. VidInv'
  BY DEF VidInv
<1>2. ASSUME ~restarted'
      PROVE  RangeInv'
  BY <1>2 DEF RangeInv, Ranged, Reach
<1>3. \A i \in Ids : ~Loose(i)
  BY DEF Loose
<1>4. ASSUME Steady'
      PROVE  KnownInv' /\ SameInv'
  BY <1>3, <1>4 DEF KnownInv, SameInv, Knows
<1> QED
  BY <1>1, <1>2, <1>4 DEF Keeps

(* One entity's row is closed and its new one written.                     *)
LEMMA SaveEntityKeeps ==
  ASSUME IInv, Steady' => Steady, NEW id \in Ids, SaveEntity(id)
  PROVE  Keeps
<1> DEFINE e == updates[id]
           saved == [Stamped(e) EXCEPT !.vid = nextVid[id]]
           new == NewRow(id, e)
           Old(r) == IF r \in Replaced(e, rows[id])
                     THEN Closed([r EXCEPT !.lo = e.lo], block) ELSE r
           left == CloseReplaced(e, work[id]) \cup {new}
<1>1. /\ pc = "save" /\ pc' = "save" /\ id \in todo /\ todo' = todo \ {id}
      /\ work' = [work EXCEPT ![id] = left]
      /\ updates' = [updates EXCEPT ![id] = saved]
      /\ cache' = [cache EXCEPT ![id] = saved]
      /\ nextVid' = [nextVid EXCEPT ![id] = @ + 1]
      /\ UNCHANGED <<content, restarted, rows, cursor, block>>
  BY DEF SaveEntity, faultVars
<1>2. /\ e \in Entity /\ e # Nothing /\ block \in Blocks /\ nextVid[id] \in Nat \ {0}
      /\ rows[id] \subseteq Row /\ work[id] = rows[id]
  BY <1>1, EntityInHand DEF IInv, TypeInv, TypeOK, HandlerInv
<1>3. saved.vid = nextVid[id] /\ saved.lo = block
  BY <1>2 DEF Stamped, Entity
<1>4. new.vid = nextVid[id] /\ new.lo = block /\ new.hi = Open
  BY DEF NewRow
<1>5. left = {Old(r) : r \in rows[id]} \cup {new}
  BY <1>2 DEF CloseReplaced, Replaced
<1>6. \A r \in rows[id] : Old(r).vid = r.vid /\ Old(r).val = r.val
  BY <1>2 DEF Closed, Row
<1>7. \A r \in rows[id] : (r \in Replaced(e, rows[id]) /\ Steady)
        => /\ Old(r).lo = r.lo /\ Old(r).hi = block
           /\ r.hi = Open \/ (restarted /\ block < r.hi)
  <2>1. \A r \in Replaced(e, rows[id]) :
          Steady => r.lo = e.lo /\ (r.hi = Open \/ (restarted /\ block < r.hi))
    BY <1>2 DEF IInv, KnownInv, Knows, Loose, Replaced
  <2>2. \A r \in rows[id] : Closed([r EXCEPT !.lo = e.lo], block).lo = e.lo
          /\ Closed([r EXCEPT !.lo = e.lo], block).hi = block
    BY <1>2 DEF Closed, Row
  <2> QED
    BY <2>1, <2>2
<1>8. \A r \in rows[id] : r \notin Replaced(e, rows[id]) => Old(r) = r
  OBVIOUS
<1>9. \A r \in rows[id] : r.vid < nextVid[id] /\ r.vid \in Nat
  BY <1>2 DEF IInv, VidInv, Row
<1>10. \A i \in Ids \ {id} : /\ rows'[i] = rows[i] /\ Unsaved(i)' = Unsaved(i)
                             /\ cache'[i] = cache[i] /\ updates'[i] = updates[i]
                             /\ nextVid'[i] = nextVid[i]
  BY <1>1 DEF Unsaved, IInv, TypeInv, TypeOK
<1>11. /\ rows'[id] = rows[id] /\ Unsaved(id)' = left /\ cache'[id] = saved
       /\ updates'[id] = saved /\ nextVid'[id] = nextVid[id] + 1
  BY <1>1 DEF Unsaved, IInv, TypeInv, TypeOK
<1> HIDE DEF e, saved, new, Old, left
<1>12. VidInv'
  <2>1. \A r \in left : r.vid < nextVid[id] + 1
    BY <1>2, <1>4, <1>5, <1>6, <1>9
  <2>2. \A r, s \in left : r.vid = s.vid => r = s
    BY <1>2, <1>4, <1>5, <1>6, <1>9 DEF IInv, VidInv
  <2>3. saved.vid < nextVid[id] + 1 /\ \A r \in rows[id] : r.vid < nextVid[id] + 1
    BY <1>2, <1>3, <1>9
  <2> QED
    BY <1>10, <1>11, <2>1, <2>2, <2>3 DEF IInv, VidInv
<1>13. ASSUME ~restarted'
       PROVE  RangeInv'
  <2>1. ~restarted /\ Steady /\ Reach = cursor /\ Reach' = cursor
    BY <1>1, <1>13 DEF Steady, Reach
  <2>2. \A r \in rows[id] : Ranged(r, cursor)
    BY <2>1 DEF IInv, RangeInv
  <2>3. cursor \in Nat /\ block \in Nat /\ cursor < block /\ block # Open
    BY <1>1, <1>2, <2>1, SinkAssumption
       DEF IInv, TypeInv, TypeOK, OrderInv, Active, Blocks, Open
  <2>4. \A r \in rows[id] : r.lo \in Nat /\ r.hi \in Nat
    BY <1>2, SinkAssumption DEF Row, Blocks
  <2>5. \A r \in rows[id] : Ranged(Old(r), block)
    BY <1>7, <1>8, <2>1, <2>2, <2>3, <2>4 DEF Ranged
  <2>6. Ranged(new, block)
    BY <1>4, <2>3 DEF Ranged, Open
  <2>7. \A r \in left : Ranged(r, block)
    BY <1>5, <2>5, <2>6
  <2> QED
    BY <1>1, <1>10, <1>11, <2>1, <2>7 DEF IInv, RangeInv
<1>14. ASSUME Steady'
       PROVE  KnownInv'
  <2>1. \A i \in Ids \ {id} : Loose(i)' <=> Loose(i)
    BY <1>1, <1>10 DEF Loose, Loaded
  <2>2. ASSUME NEW f, f.vid = nextVid[id], f.lo = block
        PROVE  Knows(id, f, rows[id])' /\ Knows(id, f, Unsaved(id))'
    BY <1>2, <1>4, <1>5, <1>6, <1>9, <1>11, <2>2 DEF Knows
  <2>3. \A f \in {cache[id], updates[id]}' : f.vid = nextVid[id] /\ f.lo = block
    BY <1>3, <1>11
  <2>4. ASSUME NEW i \in Ids \ {id}, NEW f \in {cache[i], updates[i]} \ {Nothing}
        PROVE  Knows(i, f, rows[i])' /\ Knows(i, f, Unsaved(i))'
    <3>1. Knows(i, f, rows[i]) /\ Knows(i, f, Unsaved(i))
      BY <1>14 DEF IInv, KnownInv
    <3> QED
      BY <1>1, <1>10, <2>1, <3>1 DEF Knows
  <2> QED
    BY <1>10, <2>2, <2>3, <2>4 DEF KnownInv
<1>15. ASSUME Steady'
       PROVE  SameInv'
  <2>1. ASSUME NEW b \in Blocks, b < block
        PROVE  Shown(left, b) = Shown(rows[id], b)
    <3>1. b \in Nat /\ block \in Nat /\ block # Open
      BY <1>2, SinkAssumption DEF Blocks, Open
    <3>2. ~Contains(new, b)
      BY <1>4, <2>1, <3>1 DEF Contains
    <3>3. \A r \in rows[id] : r.hi \in Nat
      BY <1>2, SinkAssumption DEF Row
    <3>4. \A r \in rows[id] : Contains(Old(r), b) <=> Contains(r, b)
      BY <1>7, <1>8, <1>15, <2>1, <3>1, <3>3 DEF Contains
    <3> QED
      BY <1>5, <1>6, <3>2, <3>4 DEF Shown
  <2>2. work'[id] = left /\ \A i \in Ids \ {id} : work'[i] = work[i]
    BY <1>1 DEF IInv, TypeInv, TypeOK
  <2> QED
    BY <1>1, <1>15, <2>1, <2>2 DEF IInv, SameInv
<1> QED
  BY <1>12, <1>13, <1>14, <1>15 DEF Keeps

(* A table's transaction becomes its rows.                                 *)
LEMMA CommitKeeps ==
  ASSUME IInv, Steady' => Steady, NEW id \in Ids, Commit(id)
  PROVE  Keeps
<1>1. /\ pc = "commit" /\ pc' = "commit"
      /\ UNCHANGED <<restarted, nextVid, cursor, block, cache, updates, work>>
  BY DEF Commit
<1>2. rows'[id] = work[id] /\ \A i \in Ids \ {id} : rows'[i] = rows[i]
  BY DEF Commit, IInv, TypeInv, TypeOK
<1>3. \A i \in Ids : Unsaved(i) = work[i] /\ Unsaved(i)' = work[i] /\ ~Loose(i)
  BY <1>1 DEF Unsaved, Loose
<1>4. VidInv'
  BY <1>1, <1>2, <1>3 DEF IInv, VidInv
<1>5. ASSUME ~restarted'
      PROVE  RangeInv'
  BY <1>1, <1>2, <1>3, <1>5 DEF IInv, RangeInv, Ranged, Reach
<1>6. ASSUME Steady'
      PROVE  KnownInv'
  BY <1>1, <1>2, <1>3, <1>6 DEF IInv, KnownInv, Knows
<1>7. ASSUME Steady'
      PROVE  SameInv'
  BY <1>1, <1>2, <1>7 DEF IInv, SameInv
<1> QED
  BY <1>4, <1>5, <1>6, <1>7 DEF Keeps

(* A process that ends takes what it did not commit with it; a crash in    *)
(* the middle of the commits leaves rows of the block behind the cursor.   *)
LEMMA StopKeeps ==
  ASSUME IInv, Steady' => Steady, StreamFails \/ Crash
  PROVE  Keeps
<1>1. /\ pc' = "stopped" /\ pc # "stopped"
      /\ UNCHANGED <<content, restarted, rows, nextVid, cursor, block, cache, updates, work>>
  BY DEF StreamFails, Crash
<1>2. \A i \in Ids : Unsaved(i)' = {}
  BY <1>1 DEF Unsaved
<1>3. VidInv'
  BY <1>1, <1>2 DEF IInv, VidInv
<1>4. ASSUME ~restarted'
      PROVE  RangeInv'
  <2>1. Reach <= Reach' /\ Reach \in Nat /\ Reach' \in Nat
    BY <1>1, <1>4, SinkAssumption DEF IInv, TypeInv, TypeOK, OrderInv, Reach
  <2>2. \A i \in Ids : \A r \in rows[i] : r.lo \in Nat /\ r.hi \in Nat
    BY SinkAssumption DEF IInv, TypeInv, TypeOK, Row, Blocks
  <2>3. \A i \in Ids : \A r \in rows[i] : Ranged(r, Reach)
    BY <1>1, <1>4 DEF IInv, RangeInv
  <2>4. ASSUME NEW i \in Ids, NEW r \in rows[i]
        PROVE  Ranged(r, Reach')
    BY <2>1, <2>2, <2>3 DEF Ranged
  <2> QED
    BY <1>1, <1>2, <2>4 DEF RangeInv, Ranged
<1>5. ASSUME Steady'
      PROVE  KnownInv' /\ SameInv'
  <2>1. \A i \in Ids : Loose(i) => Loose(i)'
    BY <1>1 DEF Loose
  <2> QED
    BY <1>1, <1>2, <1>5, <2>1 DEF IInv, KnownInv, SameInv, Knows
<1> QED
  BY <1>3, <1>4, <1>5 DEF Keeps

(* A process that starts again remembers nothing.                          *)
LEMMA RestartKeeps ==
  ASSUME IInv, Restart
  PROVE  Keeps
<1>1. /\ pc = "stopped" /\ pc' = "idle" /\ cache' = Cleared /\ updates' = Cleared
      /\ restarted' /\ UNCHANGED <<rows, nextVid>>
  BY DEF Restart
<1>2. \A i \in Ids : Unsaved(i)' = {} /\ {cache[i], updates[i]}' \ {Nothing} = {}
  BY <1>1 DEF Unsaved, Cleared
<1>3. VidInv'
  BY <1>1, <1>2 DEF IInv, VidInv
<1>4. KnownInv' /\ SameInv'
  BY <1>1, <1>2 DEF KnownInv, SameInv
<1> QED
  BY <1>1, <1>3, <1>4 DEF Keeps

LEMMA StepInv ==
  ASSUME IInv, [Next]_vars
  PROVE  IInv'
<1>1. TypeInv' /\ (Steady' => Steady)
  BY StepTypes, StillSteady DEF IInv
<1>2. CASE UNCHANGED vars
  <2>1. VidInv' /\ (~restarted => OrderInv /\ RangeInv)'
    BY <1>2 DEF vars, IInv, VidInv, OrderInv, RangeInv, Ranged, Reach, Unsaved
  <2>2. (Steady => KnownInv /\ SameInv)'
    BY <1>1, <1>2 DEF vars, IInv, KnownInv, Knows, Loose, Loaded, SameInv, Unsaved
  <2> QED
    BY <1>1, <2>1, <2>2 DEF IInv
<1>3. CASE Next
  <2>1. (~restarted => OrderInv)'
    BY <1>3, StepOrder, HistoryGrows DEF IInv, Restart
  <2>2. Keeps
    <3>1. CASE Receive \/ RefuseBlock \/ ChangeUnknown \/ SaveCursorFails
      BY <1>1, <3>1, BetweenBlocksKeeps
    <3>2. CASE Flush \/ SaveCursor \/ CommitCursor
      BY <1>1, <3>2, FlushKeeps, SaveCursorKeeps, CommitCursorKeeps
    <3>3. CASE StreamFails \/ Crash \/ Restart
      BY <1>1, <3>3, StopKeeps, RestartKeeps
    <3>4. CASE \E id \in Ids : ApplyChange(id) \/ LoadFails(id) \/ ApplyFails(id)
      BY <1>1, <3>4, HandlerKeeps
    <3>5. CASE \E id \in Ids : SaveEntity(id) \/ SaveFails(id) \/ Commit(id)
      BY <1>1, <3>5, SaveEntityKeeps, SaveFailsKeeps, CommitKeeps
    <3> QED
      BY <1>3, <3>1, <3>2, <3>3, <3>4, <3>5 DEF Next
  <2> QED
    BY <1>1, <2>1, <2>2 DEF IInv, Keeps
<1> QED
  BY <1>2, <1>3

(* The strengthening holds in every state, whatever fails and however      *)
(* often the program is started.                                           *)
THEOREM Invariance == Spec => []IInv
  BY InitInv, StepInv, PTL DEF Spec

-----------------------------------------------------------------------------
(* Only a commit touches the rows.                                         *)
LEMMA OthersLeaveRows ==
  ASSUME [Next]_vars, \A id \in Ids : ~Commit(id)
  PROVE  rows' = rows
  BY DEF Next, vars, Receive, ApplyChange, LoadFails, ApplyFails, RefuseBlock, ChangeUnknown,
         Flush, SaveEntity, SaveFails, SaveCursorFails, SaveCursor, CommitCursor, StreamFails,
         Crash, Restart

(* A commit adds what SameInv says is the same at the blocks before.       *)
LEMMA ServedStays ==
  ASSUME IInv, [Next]_vars, Steady', NEW id \in Ids, NEW b \in 1 .. (block - 1)
  PROVE  Served(id, b)' = Served(id, b)
<1>1. Served(id, b) = Shown(rows[id], b) /\ Served(id, b)' = Shown(rows'[id], b)
  BY DEF Served, Visible, Shown
<1>2. CASE \E i \in Ids : Commit(i)
  <2>1. PICK i \in Ids : Commit(i)
    BY <1>2
  <2>2. pc = "commit" /\ SameInv
    BY <2>1, StillSteady DEF Commit, IInv
  <2>3. b \in Blocks /\ b < block
    BY SinkAssumption DEF IInv, TypeInv, TypeOK, Blocks
  <2>4. rows'[id] \in {rows[id], work[id]}
    BY <2>1 DEF Commit, IInv, TypeInv, TypeOK
  <2> QED
    BY <1>1, <2>2, <2>3, <2>4 DEF SameInv
<1>3. CASE \A i \in Ids : ~Commit(i)
  BY <1>1, <1>3, OthersLeaveRows
<1> QED
  BY <1>2, <1>3

(* No step changes what an entity was before the block in hand: in the     *)
(* first run whatever fails, and in the later ones, which start at         *)
(* --start-block again, if no call of a block failed halfway.              *)
THEOREM PastIsStable == Spec => PastStands
<1>1. IInv /\ [Next]_vars
      => [(~restarted' \/ happened' \subseteq {"refuse", "stream", "crash"}) =>
            \A id \in Ids, b \in 1 .. (block - 1) : Served(id, b)' = Served(id, b)]_vars
  BY ServedStays DEF Steady
<1> QED
  BY <1>1, Invariance, PTL DEF Spec, PastStands
=============================================================================
