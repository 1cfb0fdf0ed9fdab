----------------------------- MODULE ChangeMerge -----------------------------
(***************************************************************************)
(* TableChange.Merge of pb/pcs/database/v1/database.go, and what Merge of  *)
(* TableChanges decides around it: the order of a group and the rows that  *)
(* need no change.  A change is a record [op, ord, fields]; fields maps    *)
(* the name of a field to its old and its new value.                       *)
(***************************************************************************)
EXTENDS Integers

(* Slips of Merge the model can be made to take; none of them is the code. *)
UnsortedNext(c, cs) == c \in cs
DroppedWheneverDeleted(created, c) == c.op = "DELETE"
MergeableWithoutTieCheck(x, next) ==
  /\ next.op = "CREATE" => x.op = "DELETE"
  /\ next.op = "UPDATE" =>
       \A f \in DOMAIN x.fields \cap DOMAIN next.fields :
         next.fields[f].old = x.fields[f].new
MergeFieldsLastOldValue(x, next) ==
  [f \in DOMAIN x.fields \cup DOMAIN next.fields |->
     IF f \in DOMAIN next.fields THEN next.fields[f] ELSE x.fields[f]]
MergeFieldsNoOldValue(x, next) ==
  [f \in DOMAIN x.fields \cup DOMAIN next.fields |->
     IF f \in DOMAIN next.fields THEN [new |-> next.fields[f].new] ELSE x.fields[f]]

(* The UPDATE branch refuses a change whose OldValue is not the value the  *)
(* merged change leaves in the field.                                      *)
OldValuesMatch(x, next) ==
  \A f \in DOMAIN x.fields \cap DOMAIN next.fields :
    next.fields[f].old = x.fields[f].new

MergeFields(x, next) ==
  [f \in DOMAIN x.fields \cup DOMAIN next.fields |->
     IF f \notin DOMAIN next.fields THEN x.fields[f]
     ELSE IF f \notin DOMAIN x.fields THEN next.fields[f]
     ELSE [old |-> x.fields[f].old, new |-> next.fields[f].new]]

Mergeable(x, next) ==
  /\ x.ord < next.ord
  /\ next.op = "CREATE" => x.op = "DELETE"
  /\ next.op = "UPDATE" => OldValuesMatch(x, next)

(* A DELETE or CREATE replaces the operation and the fields; an UPDATE     *)
(* keeps the operation and folds the fields.                               *)
Merge(x, next) ==
  IF next.op = "UPDATE"
  THEN [op |-> x.op, ord |-> next.ord, fields |-> MergeFields(x, next)]
  ELSE next

(* After sort.Slice the head of what is left has the least ordinal; the    *)
(* sort is not stable, so any of the changes with that ordinal may come.   *)
IsNext(c, cs) == c \in cs /\ \A d \in cs : c.ord <= d.ord

(* A row created and deleted in the same block yields no change.           *)
Dropped(created, c) == created /\ c.op = "DELETE"

=============================================================================
