----------------------------- MODULE BlockRanges -----------------------------
(***************************************************************************)
(* The block ranges of graph-node's entity tables, and what the two        *)
(* clean-up statements of postgres.go select.  A row has at least the      *)
(* fields lo, hi and upd: its block_range is [lo, hi), or [lo, ) when hi   *)
(* is Open, and upd is its _updated_block_number.                          *)
(***************************************************************************)
EXTENDS Integers

(* BlockRange.EndBlock 0 is printed as the open range "[lo,)".             *)
Open == 0

(* ParseBytes reads both bounds of a range from its first one.             *)
ParseBytes(r) == [start |-> r.lo, end |-> IF r.hi = Open THEN 0 ELSE r.lo]

(* Postgres normalises [n, n) to the range 'empty', whose bounds are null. *)
IsEmpty(r) == r.hi # Open /\ r.hi = r.lo
Contains(r, b) == r.lo <= b /\ (r.hi = Open \/ b < r.hi)
UpperIsNull(r) == r.hi = Open \/ IsEmpty(r)
UpperIs(r, b) == r.hi = b /\ r.hi # Open /\ ~IsEmpty(r)
LowerIs(r, b) == r.lo = b /\ ~IsEmpty(r)

Overlap(r, s) ==
  /\ ~IsEmpty(r) /\ ~IsEmpty(s)
  /\ s.hi = Open \/ r.lo < s.hi
  /\ r.hi = Open \/ s.lo < r.hi

-----------------------------------------------------------------------------
(* UPDATE ... SET _updated_block_number = b, block_range = [lo, b) closes  *)
(* the version that block b replaces.                                      *)
Closed(r, b) == [r EXCEPT !.hi = b, !.upd = b]

(* Slips the model can be made to take; none of them is the code.          *)
CleanDeletedFrom(rows, bad) == {r \in rows : r.upd >= bad - 1 /\ UpperIsNull(r)}
ForkDeletedAfter(rows, l) == {r \in rows : r.upd > l /\ ~Contains(r, l)}

(* cleanDBAboveBlockNum(bad - 1): a DELETE, then an UPDATE that leaves     *)
(* _updated_block_number alone.                                            *)
CleanDeleted(rows, bad) == {r \in rows : r.upd = bad /\ UpperIsNull(r)}
CleanReopened(rows, bad) ==
  {r \in rows : Contains(r, bad - 1) /\ UpperIs(r, bad) /\ r.upd = bad}
CleanReopen(rows, bad) ==
  LET Selected == CleanReopened(rows, bad)
  IN  (rows \ Selected) \cup {[r EXCEPT !.hi = Open] : r \in Selected}

(* CleanUpFork(l): a DELETE, then an UPDATE that also sets                 *)
(* _updated_block_number to lower(block_range).                            *)
ForkDeleted(rows, l) ==
  {r \in rows : \/ r.upd > l /\ ~Contains(r, l)
                \/ r.upd >= l /\ Contains(r, l) /\ LowerIs(r, l)}
ForkReopened(rows, l) == {r \in rows : r.upd >= l /\ (Contains(r, l) \/ UpperIs(r, l))}
ForkReopen(rows, l) ==
  LET Selected == ForkReopened(rows, l)
  IN  (rows \ Selected) \cup {[r EXCEPT !.hi = Open, !.upd = r.lo] : r \in Selected}
=============================================================================
