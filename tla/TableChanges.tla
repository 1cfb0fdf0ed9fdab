---------------------------- MODULE TableChanges ----------------------------
(***************************************************************************)
(* DatabaseChanges.Squash of pb/pcs/database/v1/database.go: the table     *)
(* changes of one block are grouped by key, each group is sorted by        *)
(* ordinal and folded into at most one change.                             *)
(*                                                                         *)
(* A key stands for a pair (Table, Pk).  The producer side is the history  *)
(* of a well-behaved producer: it creates a row only when there is none,   *)
(* updates or deletes only a row that exists, and puts the current content *)
(* in OldValue.  Its ordinals never decrease, but two changes of one key   *)
(* may carry the same ordinal.  The changes are then delivered unordered.  *)
(***************************************************************************)
EXTENDS Integers, FiniteSets, ChangeMerge

CONSTANTS
  Keys,         \* the (Table, Pk) pairs a block may touch
  Fields,       \* the field names of a row
  Values,       \* the values of a field
  Null,         \* the value of a field nobody wrote
  None,         \* "no change", "no row" and "no group is being merged"
  MaxOrdinal,   \* bound: the ordinals of the block are 1 .. MaxOrdinal
  MaxChanges    \* bound: MaxChanges[k] changes of k in the block

ASSUME ConstAssumption ==
  /\ Null \notin Values
  /\ None \notin Keys
  /\ MaxOrdinal \in Nat
  /\ MaxChanges \in [Keys -> Nat]

VARIABLES
  start,        \* the rows before the block
  rowAt,        \* history: rowAt[k][o] is the row of k after ordinal o
  changes,      \* changes[k]: the group tableMap[Table][Pk] of Merge
  clock,        \* the last ordinal the producer used
  phase,        \* "emit", "merge", "done" or "failed"
  visited,      \* the keys whose group has been merged
  current,      \* the key of the group being merged, or None
  acc,          \* currentTableChange
  createdHere,  \* the flag of the same name
  todo,         \* the changes of the current group not merged yet
  result        \* result[k]: the squashed change of k, or None

mergeVars == <<visited, current, acc, createdHere, todo, result>>
vars == <<start, rowAt, changes, clock, phase, mergeVars>>

-----------------------------------------------------------------------------
(* Rows and changes.                                                       *)

FieldValues == Values \cup {Null}
Row == [Fields -> FieldValues]
MaybeRow == Row \cup {None}
Field == [old : FieldValues, new : FieldValues]
FieldMap == UNION {[fs -> Field] : fs \in SUBSET Fields}
Ordinals == 0 .. MaxOrdinal
Change == [op : {"CREATE", "UPDATE", "DELETE"}, ord : Ordinals, fields : FieldMap]
ASSUME NoneAssumption == None \notin Row /\ None \notin Change
NoFields == [f \in {} |-> [old |-> Null, new |-> Null]]

(* What a change does to the row it names.                                 *)
Apply(c, row) ==
  IF c.op = "DELETE" THEN None
  ELSE [f \in Fields |-> IF f \in DOMAIN c.fields THEN c.fields[f].new
                         ELSE IF c.op = "CREATE" THEN Null ELSE row[f]]

(* The changes a producer may make to a row: `new' gives the fields.       *)
CreateChange(new, o) ==
  [op |-> "CREATE", ord |-> o,
   fields |-> [f \in DOMAIN new |-> [old |-> Null, new |-> new[f]]]]
UpdateChange(row, new, o) ==
  [op |-> "UPDATE", ord |-> o,
   fields |-> [f \in DOMAIN new |-> [old |-> row[f], new |-> new[f]]]]
DeleteChange(o) == [op |-> "DELETE", ord |-> o, fields |-> NoFields]

NewValues == UNION {[fs -> Values] : fs \in SUBSET Fields}

Final(k) == rowAt[k][MaxOrdinal]

-----------------------------------------------------------------------------
Init ==
  /\ start \in [Keys -> MaybeRow]
  /\ rowAt = [k \in Keys |-> [o \in Ordinals |-> start[k]]]
  /\ changes = [k \in Keys |-> {}]
  /\ clock = 0
  /\ phase = "emit"
  /\ visited = {}
  /\ current = None
  /\ acc = None
  /\ createdHere = FALSE
  /\ todo = {}
  /\ result = [k \in Keys |-> None]

(* One more change c of key k, which leaves the row `row'.                 *)
Record(k, c) ==
  /\ phase = "emit"
  /\ Cardinality(changes[k]) < MaxChanges[k]
  /\ c \notin changes[k]
  /\ c.ord >= clock
  /\ changes' = [changes EXCEPT ![k] = @ \cup {c}]
  /\ rowAt' = [rowAt EXCEPT ![k] =
       [o \in Ordinals |-> IF o < c.ord THEN rowAt[k][o] ELSE Apply(c, Final(k))]]
  /\ clock' = c.ord
  /\ UNCHANGED <<start, phase, mergeVars>>

EmitCreate(k) ==
  /\ Final(k) = None
  /\ \E new \in NewValues, o \in Ordinals \ {0} : Record(k, CreateChange(new, o))

EmitUpdate(k) ==
  /\ Final(k) # None
  /\ \E new \in NewValues, o \in Ordinals \ {0} :
       Record(k, UpdateChange(Final(k), new, o))

EmitDelete(k) ==
  /\ Final(k) # None
  /\ \E o \in Ordinals \ {0} : Record(k, DeleteChange(o))

(* The block is complete: ReturnHandler calls Squash.                      *)
Squash ==
  /\ phase = "emit"
  /\ phase' = "merge"
  /\ UNCHANGED <<start, rowAt, changes, clock, mergeVars>>

(* The loops over tableMap visit the groups in any order.                  *)
StartGroup(k) ==
  /\ phase = "merge"
  /\ current = None
  /\ k \notin visited
  /\ changes[k] # {}
  /\ \E c \in changes[k] :
       /\ IsNext(c, changes[k])
       /\ acc' = c
       /\ createdHere' = (c.op = "CREATE")
       /\ todo' = changes[k] \ {c}
  /\ current' = k
  /\ UNCHANGED <<start, rowAt, changes, clock, phase, visited, result>>

MergeNext ==
  /\ phase = "merge"
  /\ current # None
  /\ \E c \in todo :
       /\ IsNext(c, todo)
       /\ Mergeable(acc, c)
       /\ acc' = Merge(acc, c)
       /\ todo' = todo \ {c}
  /\ UNCHANGED <<start, rowAt, changes, clock, phase, visited, current, createdHere, result>>

(* An error of any group makes Squash return it: nothing is saved.         *)
RefuseNext ==
  /\ phase = "merge"
  /\ current # None
  /\ \E c \in todo : IsNext(c, todo) /\ ~Mergeable(acc, c)
  /\ phase' = "failed"
  /\ UNCHANGED <<start, rowAt, changes, clock, mergeVars>>

FinishGroup ==
  /\ phase = "merge"
  /\ current # None
  /\ todo = {}
  /\ result' = [result EXCEPT ![current] = IF Dropped(createdHere, acc) THEN None ELSE acc]
  /\ visited' = visited \cup {current}
  /\ current' = None
  /\ acc' = None
  /\ createdHere' = FALSE
  /\ UNCHANGED <<start, rowAt, changes, clock, phase, todo>>

Return ==
  /\ phase = "merge"
  /\ current = None
  /\ \A k \in Keys : changes[k] # {} => k \in visited
  /\ phase' = "done"
  /\ UNCHANGED <<start, rowAt, changes, clock, mergeVars>>

Next ==
  \/ \E k \in Keys : EmitCreate(k) \/ EmitUpdate(k) \/ EmitDelete(k)
  \/ Squash
  \/ \E k \in Keys : StartGroup(k)
  \/ MergeNext
  \/ RefuseNext
  \/ FinishGroup
  \/ Return

Spec == Init /\ [][Next]_vars

-----------------------------------------------------------------------------
(* Every variable keeps the shape the Go declarations give it.             *)
TypeOK ==
  /\ start \in [Keys -> MaybeRow]
  /\ rowAt \in [Keys -> [Ordinals -> MaybeRow]]
  /\ changes \in [Keys -> SUBSET Change]
  /\ clock \in Ordinals
  /\ phase \in {"emit", "merge", "done", "failed"}
  /\ visited \in SUBSET Keys
  /\ current \in Keys \cup {None}
  /\ acc \in Change \cup {None}
  /\ createdHere \in BOOLEAN
  /\ todo \in SUBSET Change
  /\ result \in [Keys -> Change \cup {None}]

(* Two changes of k carry the same ordinal.                                *)
Tied(k) == \E c, d \in changes[k] : c # d /\ c.ord = d.ord

(* The squashed changes of Merge (database.go:22-68) have the effect of    *)
(* the whole sequence: applied to the rows before the block, the one       *)
(* change left of each key gives the row the sequence gave.                *)
SquashEquivalent ==
  phase = "done" =>
    \A k \in Keys :
      Final(k) = IF result[k] = None THEN start[k] ELSE Apply(result[k], start[k])

(* A squashed UPDATE still tells where the row came from: the OldValue it  *)
(* keeps (database.go:111-115) is the content before the block, whatever   *)
(* the changes in between wrote.                                           *)
SquashedOldValues ==
  phase = "done" =>
    \A k \in Keys :
      (result[k] # None /\ result[k].op = "UPDATE") =>
        \A f \in DOMAIN result[k].fields : result[k].fields[f].old = start[k][f]

(* The producer's ordinals are what can make Squash fail: the checks of    *)
(* Merge (database.go:75, 84, 107) refuse a block of a well-behaved        *)
(* producer only when two changes of a key have the same ordinal ...       *)
OnlyTiesRefused == phase = "failed" => \E k \in Keys : Tied(k)

(* ... and such a block is never let through, in whatever order the        *)
(* unstable sort leaves the two changes.                                   *)
TiesAlwaysRefused == phase = "done" => \A k \in Keys : ~Tied(k)

=============================================================================
