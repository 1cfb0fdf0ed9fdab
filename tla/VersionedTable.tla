--------------------------- MODULE VersionedTable ---------------------------
(***************************************************************************)
(* One entity table of graph-node/storage/postgres/postgres.go: every      *)
(* version of every entity is a row with a block range.  A block closes    *)
(* the versions it replaces and inserts the new ones (batchSave); the      *)
(* cursor is committed after the table; a process that restarts calls      *)
(* CleanDataAtBlock with the block of the cursor; a fork calls CleanUpFork.*)
(* Each clean-up is two statements committed on their own, so a crash may  *)
(* separate them and the clean-up is run again.                            *)
(***************************************************************************)
EXTENDS BlockRanges

CONSTANTS
  Ids,          \* the entities of the table
  Values,       \* the values an entity may have
  Absent,       \* the value of an entity that does not exist
  MaxBlock,     \* bound: the blocks are 1 .. MaxBlock
  CrashTwice    \* may the process be restarted again before the cursor moves?

ASSUME TableAssumption ==
  /\ MaxBlock \in Nat
  /\ Absent \notin Values
  /\ CrashTwice \in BOOLEAN

VARIABLES
  rows,         \* the rows of the table
  head,         \* the last block saved in the table
  cursor,       \* the block of the committed cursor
  mode,         \* "running", or between two statements: "cleaning", "forking"
  forkAt,       \* the argument of CleanUpFork
  cleaned       \* CleanDataAtBlock ran since the cursor last moved

vars == <<rows, head, cursor, mode, forkAt, cleaned>>

Blocks == 1 .. MaxBlock
Row == [id : Ids, lo : Blocks, hi : 0 .. MaxBlock, upd : Blocks, val : Values]

-----------------------------------------------------------------------------
Init ==
  /\ rows = {}
  /\ head = 0
  /\ cursor = 0
  /\ mode = "running"
  /\ forkAt = 0
  /\ cleaned = FALSE

(* Load: the version of id that is visible at the block, as the handler of *)
(* that block reads it.                                                    *)
Visible(id, b) == {r \in rows : r.id = id /\ Contains(r, b)}

(* Slips the model can be made to take; none of them is the code.          *)
NothingReplaced(touched, b) == {}
InsertedBefore(new, b) ==
  {[id |-> id, lo |-> b - 1, hi |-> Open, upd |-> b, val |-> new[id]] : id \in DOMAIN new}

(* batchSave: the loaded versions of the entities in DOMAIN new and dels   *)
(* are closed at b, then one open row is inserted for each in DOMAIN new.  *)
Replaced(touched, b) == {r \in rows : r.id \in touched /\ Contains(r, b)}
Inserted(new, b) ==
  {[id |-> id, lo |-> b, hi |-> Open, upd |-> b, val |-> new[id]] : id \in DOMAIN new}

BatchSave(b, new, dels) ==
  LET replaced == Replaced(DOMAIN new \cup dels, b)
  IN  rows' = (rows \ replaced) \cup {Closed(r, b) : r \in replaced} \cup Inserted(new, b)

(* The block after the head is saved and the table committed.  A deletion  *)
(* is of an entity that exists.                                            *)
SaveBlock ==
  /\ mode = "running"
  /\ head = cursor
  /\ head < MaxBlock
  /\ \E touched \in SUBSET Ids : \E dels \in SUBSET (Ids \ touched) :
       \E new \in [touched -> Values] :
         /\ \A id \in dels : Visible(id, head + 1) # {}
         /\ BatchSave(head + 1, new, dels)
  /\ head' = head + 1
  /\ UNCHANGED <<cursor, mode, forkAt, cleaned>>

(* mustCommit commits the cursor's transaction last.                       *)
SaveCursor ==
  /\ mode = "running"
  /\ cursor < head
  /\ cursor' = head
  /\ cleaned' = FALSE
  /\ UNCHANGED <<rows, head, mode, forkAt>>

(* A restarted process runs CleanDataAtBlock(cursor); when it was stopped  *)
(* between the two statements it starts over.                              *)
CleanDelete ==
  /\ mode \in {"running", "cleaning"}
  /\ cleaned => mode = "cleaning" \/ CrashTwice
  /\ rows' = rows \ CleanDeleted(rows, cursor + 1)
  /\ mode' = "cleaning"
  /\ cleaned' = TRUE
  /\ UNCHANGED <<head, cursor, forkAt>>

CleanUpdate ==
  /\ mode = "cleaning"
  /\ rows' = CleanReopen(rows, cursor + 1)
  /\ head' = cursor
  /\ mode' = "running"
  /\ UNCHANGED <<cursor, forkAt, cleaned>>

(* CleanUpFork(l): l is the first block of the chain that now stands.  It  *)
(* may be stopped between its statements and run again.                    *)
ForkDelete(l) ==
  /\ \/ mode = "running" /\ head = cursor /\ l <= head
     \/ mode = "forking" /\ l = forkAt
  /\ rows' = rows \ ForkDeleted(rows, l)
  /\ mode' = "forking"
  /\ forkAt' = l
  /\ UNCHANGED <<head, cursor, cleaned>>

(* From here on the stream is at block l - 1.  The cursor row still names  *)
(* the abandoned block, but a stream resumed there is sent the fork again. *)
ForkUpdate ==
  /\ mode = "forking"
  /\ rows' = ForkReopen(rows, forkAt)
  /\ head' = forkAt - 1
  /\ cursor' = forkAt - 1
  /\ mode' = "running"
  /\ forkAt' = 0
  /\ cleaned' = FALSE

Next ==
  \/ SaveBlock
  \/ SaveCursor
  \/ CleanDelete
  \/ CleanUpdate
  \/ \E l \in Blocks : ForkDelete(l)
  \/ ForkUpdate

Spec == Init /\ [][Next]_vars

-----------------------------------------------------------------------------
(* The variables keep their shape; a row's range is never empty.           *)
TypeOK ==
  /\ rows \subseteq Row
  /\ head \in 0 .. MaxBlock
  /\ cursor \in 0 .. MaxBlock
  /\ mode \in {"running", "cleaning", "forking"}
  /\ forkAt \in 0 .. MaxBlock
  /\ cleaned \in BOOLEAN

(* Load takes LIMIT 1 because "GIST index is cannot be UNIQUE, but we      *)
(* assume it is" (postgres.go:586): no two versions of an entity are       *)
(* visible at one block, whatever was saved, cleaned and forked before.    *)
NoOverlap ==
  \A r, s \in rows : (r # s /\ r.id = s.id) => ~Overlap(r, s)

(* What CleanDataAtBlock says it deletes (postgres.go:524): "rows of table *)
(* where range is [bad, ]", and so no version an earlier block inserted.   *)
CleanDeletesOnlyBadRange ==
  [][CleanDelete => \A r \in rows \ rows' : r.lo = cursor + 1]_vars

(* The table implements TemporalTable.  Between the two statements of a    *)
(* clean-up it already counts as cleaned.                                  *)
Settled ==
  CASE mode = "running"  -> rows
    [] mode = "cleaning" -> CleanReopen(rows, cursor + 1)
    [] mode = "forking"  -> ForkReopen(rows, forkAt)
ValueAt(rs, id, b) ==
  LET seen == {r \in rs : r.id = id /\ Contains(r, b)}
  IN  IF seen = {} THEN Absent ELSE (CHOOSE r \in seen : TRUE).val

Temporal == INSTANCE TemporalTable WITH
  hist <- [id \in Ids |-> [b \in 0 .. MaxBlock |-> ValueAt(Settled, id, b)]],
  top  <- CASE mode = "running"  -> head
            [] mode = "cleaning" -> cursor
            [] mode = "forking"  -> forkAt - 1
ImplementsTemporalTable == Temporal!Spec
=============================================================================
