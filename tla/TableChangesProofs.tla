------------------------- MODULE TableChangesProofs -------------------------
(***************************************************************************)
(* Squash is correct for every set of keys, fields and values and for      *)
(* every number of changes: the inductive invariant of TableChanges, and   *)
(* the theorems that follow from it.                                       *)
(***************************************************************************)
EXTENDS TableChanges, TLAPS

(* Nothing is merged before the block is complete.                         *)
NotStarted ==
  phase = "emit" => /\ visited = {}
                    /\ current = None
                    /\ result = [k \in Keys |-> None]

(* The rows between two ordinals of a key differ only if a change of the   *)
(* key lies between them.                                                  *)
NoChangeBetween(k, o, p) == \A c \in changes[k] : c.ord <= o \/ p < c.ord
History ==
  /\ \A k \in Keys : rowAt[k][0] = start[k]
  /\ \A k \in Keys : \A c \in changes[k] : c.ord \in 1 .. clock
  /\ \A k \in Keys : \A o, p \in Ordinals :
       (o <= p /\ NoChangeBetween(k, o, p)) => rowAt[k][o] = rowAt[k][p]

(* An untied change was legal when it was made, and rowAt shows its effect.*)
Legal(c, pre) ==
  /\ c.op = "CREATE" <=> pre = None
  /\ c.op = "UPDATE" => \A f \in DOMAIN c.fields : c.fields[f].old = pre[f]
Happened(k, c) ==
  /\ Legal(c, rowAt[k][c.ord - 1])
  /\ rowAt[k][c.ord] = Apply(c, rowAt[k][c.ord - 1])
Chain == \A k \in Keys : ~Tied(k) => \A c \in changes[k] : Happened(k, c)

(* What a merged change says of the row it is applied to.                  *)
Faithful(k, c, created) ==
  /\ created <=> start[k] = None
  /\ created => c.op # "UPDATE"
  /\ rowAt[k][c.ord] = Apply(c, start[k])
  /\ c.op = "UPDATE" => \A f \in DOMAIN c.fields : c.fields[f].old = start[k][f]

(* The changes merged so far are those up to acc's ordinal, no two of them *)
(* tied, and acc stands for all of them.                                   *)
Merging ==
  current # None =>
    /\ phase # "emit"
    /\ acc \in Change
    /\ todo \subseteq changes[current]
    /\ \E m \in changes[current] \ todo : m.ord = acc.ord
    /\ \A c \in changes[current] \ todo : c.ord <= acc.ord
    /\ \A c \in todo : acc.ord <= c.ord
    /\ \A c, d \in changes[current] \ todo : c # d => c.ord # d.ord
    /\ ~Tied(current) => Faithful(current, acc, createdHere)

(* The result of a group that has been merged.                             *)
Merged(k) ==
  /\ ~Tied(k)
  /\ Final(k) = IF result[k] = None THEN start[k] ELSE Apply(result[k], start[k])
  /\ (result[k] # None /\ result[k].op = "UPDATE") =>
       \A f \in DOMAIN result[k].fields : result[k].fields[f].old = start[k][f]
Results ==
  /\ \A k \in visited : Merged(k)
  /\ \A k \in Keys \ visited : result[k] = None
  /\ phase = "done" => \A k \in Keys : changes[k] # {} => k \in visited

IInv ==
  /\ TypeOK
  /\ NotStarted
  /\ History
  /\ Chain
  /\ Merging
  /\ Results
  /\ OnlyTiesRefused
-----------------------------------------------------------------------------
(* Lemmas on the operators.                                                *)

(* A field map is a function from some of the fields to pairs.             *)
LEMMA FieldMapType ==
  \A x : x \in FieldMap <=> DOMAIN x \subseteq Fields /\ x \in [DOMAIN x -> Field]
BY DEF FieldMap

(* The changes a producer makes are well-formed.                           *)
LEMMA ProducerChangeType ==
  ASSUME NEW new \in NewValues, NEW o \in Ordinals, NEW row \in Row
  PROVE  /\ CreateChange(new, o) \in Change
         /\ UpdateChange(row, new, o) \in Change
         /\ DeleteChange(o) \in Change
<1>1. DOMAIN new \subseteq Fields /\ \A f \in DOMAIN new : new[f] \in Values
  BY DEF NewValues
<1>2. [f \in DOMAIN new |-> [old |-> Null, new |-> new[f]]] \in FieldMap
  BY <1>1, FieldMapType DEF Field, FieldValues
<1>3. [f \in DOMAIN new |-> [old |-> row[f], new |-> new[f]]] \in FieldMap
  BY <1>1, FieldMapType DEF Field, FieldValues, Row
<1>4. NoFields \in FieldMap
  BY FieldMapType DEF NoFields
<1> QED
  BY <1>2, <1>3, <1>4 DEF CreateChange, UpdateChange, DeleteChange, Change

(* A change leaves a row, and a DELETE leaves none.                        *)
LEMMA ApplyType ==
  ASSUME NEW c \in Change, NEW row \in MaybeRow, c.op = "UPDATE" => row # None
  PROVE  /\ Apply(c, row) \in MaybeRow
         /\ Apply(c, row) = None <=> c.op = "DELETE"
         /\ c.op # "DELETE" => Apply(c, row) \in Row
<1>1. None \notin Row
  BY NoneAssumption
<1>2. /\ DOMAIN c.fields \subseteq Fields
      /\ \A f \in DOMAIN c.fields : c.fields[f].new \in FieldValues
  BY FieldMapType DEF Change, Field
<1>3. CASE c.op = "DELETE"
  BY <1>3 DEF Apply, MaybeRow
<1>4. CASE c.op = "CREATE"
  <2>1. Apply(c, row) \in Row
    BY <1>2, <1>4 DEF Apply, Row, FieldValues
  <2> QED
    BY <2>1, <1>1, <1>4 DEF MaybeRow
<1>5. CASE c.op = "UPDATE"
  <2>1. row \in Row
    BY <1>5 DEF MaybeRow
  <2>2. Apply(c, row) \in Row
    BY <1>2, <1>5, <2>1 DEF Apply, Row
  <2> QED
    BY <2>2, <1>1, <1>5 DEF MaybeRow
<1> QED
  BY <1>3, <1>4, <1>5 DEF Change

(* Merging two changes gives a change with the later ordinal.              *)
LEMMA MergeType ==
  ASSUME NEW x \in Change, NEW next \in Change
  PROVE  Merge(x, next) \in Change /\ Merge(x, next).ord = next.ord
<1>1. CASE next.op # "UPDATE"
  BY <1>1 DEF Merge
<1>2. CASE next.op = "UPDATE"
  <2>1. /\ DOMAIN x.fields \subseteq Fields /\ DOMAIN next.fields \subseteq Fields
        /\ \A f \in DOMAIN x.fields : x.fields[f] \in Field
        /\ \A f \in DOMAIN next.fields : next.fields[f] \in Field
    BY FieldMapType DEF Change
  <2>2. MergeFields(x, next) \in FieldMap
    BY <2>1, FieldMapType DEF MergeFields, Field
  <2> QED
    BY <1>2, <2>2 DEF Merge, Change
<1> QED
  BY <1>1, <1>2

(* The heart of Merge: the merged change does what the two did in turn,    *)
(* and it still knows the content before the first of them.                *)
LEMMA MergeComposes ==
  ASSUME NEW x \in Change, NEW next \in Change, NEW row \in MaybeRow,
         x.op = "UPDATE" => row # None,
         x.op = "UPDATE" => \A f \in DOMAIN x.fields : x.fields[f].old = row[f],
         Legal(next, Apply(x, row))
  PROVE  /\ Apply(Merge(x, next), row) = Apply(next, Apply(x, row))
         /\ Merge(x, next).op = "UPDATE" =>
              /\ x.op = "UPDATE"
              /\ \A f \in DOMAIN Merge(x, next).fields :
                   Merge(x, next).fields[f].old = row[f]
<1>0. /\ next.op \in {"CREATE", "UPDATE", "DELETE"}
      /\ x.op \in {"CREATE", "UPDATE", "DELETE"}
  BY DEF Change
<1>1. CASE next.op = "DELETE"
  BY <1>1 DEF Merge, Apply
<1>2. CASE next.op = "CREATE"
  BY <1>2 DEF Merge, Apply
<1>3. CASE next.op = "UPDATE"
  <2> DEFINE m == Merge(x, next)
  <2>1. /\ m.op = x.op
        /\ m.fields = MergeFields(x, next)
        /\ DOMAIN m.fields = DOMAIN x.fields \cup DOMAIN next.fields
    BY <1>3 DEF Merge, MergeFields
  <2>2. \A f \in DOMAIN m.fields :
          /\ f \in DOMAIN next.fields => m.fields[f].new = next.fields[f].new
          /\ f \notin DOMAIN next.fields => m.fields[f] = x.fields[f]
          /\ f \in DOMAIN x.fields => m.fields[f].old = x.fields[f].old
          /\ f \notin DOMAIN x.fields => m.fields[f] = next.fields[f]
    BY <2>1 DEF MergeFields
  <2>3. x.op # "DELETE"
    <3>1. Apply(x, row) # None
      BY <1>3 DEF Legal
    <3> QED
      BY <3>1 DEF Apply
  <2>4. CASE x.op = "CREATE"
    <3>1. Apply(m, row) = [f \in Fields |-> IF f \in DOMAIN m.fields THEN m.fields[f].new ELSE Null]
      BY <2>1, <2>4 DEF Apply
    <3>2. Apply(x, row) = [f \in Fields |-> IF f \in DOMAIN x.fields THEN x.fields[f].new ELSE Null]
      BY <2>4 DEF Apply
    <3>3. Apply(next, Apply(x, row)) =
            [f \in Fields |-> IF f \in DOMAIN next.fields THEN next.fields[f].new
                              ELSE IF f \in DOMAIN x.fields THEN x.fields[f].new ELSE Null]
      BY <1>3, <3>2 DEF Apply
    <3> QED
      BY <2>1, <2>2, <2>4, <3>1, <3>3
  <2>5. CASE x.op = "UPDATE"
    <3>1. Apply(m, row) = [f \in Fields |-> IF f \in DOMAIN m.fields THEN m.fields[f].new ELSE row[f]]
      BY <2>1, <2>5 DEF Apply
    <3>2. Apply(x, row) = [f \in Fields |-> IF f \in DOMAIN x.fields THEN x.fields[f].new ELSE row[f]]
      BY <2>5 DEF Apply
    <3>3. Apply(next, Apply(x, row)) =
            [f \in Fields |-> IF f \in DOMAIN next.fields THEN next.fields[f].new
                              ELSE IF f \in DOMAIN x.fields THEN x.fields[f].new ELSE row[f]]
      BY <1>3, <3>2 DEF Apply
    <3>4. Apply(m, row) = Apply(next, Apply(x, row))
      BY <2>1, <2>2, <3>1, <3>3
    <3>5. \A f \in DOMAIN m.fields : m.fields[f].old = row[f]
      <4> SUFFICES ASSUME NEW f \in DOMAIN m.fields
                   PROVE  m.fields[f].old = row[f]
        OBVIOUS
      <4>1. CASE f \in DOMAIN x.fields
        BY <2>2, <2>5, <4>1
      <4>2. CASE f \notin DOMAIN x.fields
        <5>1. f \in DOMAIN next.fields /\ f \in Fields
          BY <2>1, <4>2, FieldMapType DEF Change
        <5>2. next.fields[f].old = Apply(x, row)[f]
          BY <1>3, <5>1 DEF Legal
        <5> QED
          BY <2>2, <3>2, <4>2, <5>1, <5>2
      <4> QED
        BY <4>1, <4>2
    <3> QED
      BY <2>5, <3>4, <3>5
  <2> QED
    BY <1>0, <2>3, <2>4, <2>5
<1> QED
  BY <1>0, <1>1, <1>2, <1>3
-----------------------------------------------------------------------------
(* The invariant holds initially.                                          *)
LEMMA InitInvariant == Init => IInv
<1> SUFFICES ASSUME Init PROVE IInv
  OBVIOUS
<1> USE ConstAssumption
<1>1. TypeOK
  <2>0. createdHere \in BOOLEAN
    BY DEF Init
  <2>1. 0 \in Ordinals /\ todo \in SUBSET Change
    BY DEF Init, Ordinals
  <2>2. rowAt \in [Keys -> [Ordinals -> MaybeRow]]
    BY DEF Init
  <2>3. changes \in [Keys -> SUBSET Change] /\ result \in [Keys -> Change \cup {None}]
    BY DEF Init
  <2> QED
    <3>1. /\ start \in [Keys -> MaybeRow] /\ clock \in Ordinals
          /\ visited \in SUBSET Keys /\ current \in Keys \cup {None}
          /\ acc \in Change \cup {None}
      BY <2>1 DEF Init
    <3>2. phase \in {"emit", "merge", "done", "failed"}
      BY DEF Init
    <3> QED
      BY <2>0, <2>1, <2>2, <2>3, <3>1, <3>2 DEF TypeOK
<1>2. NotStarted /\ Merging /\ OnlyTiesRefused
  BY DEF Init, NotStarted, Merging, OnlyTiesRefused
<1>3. History /\ Chain
  BY DEF Init, History, Chain, Ordinals
<1>4. Results
  BY DEF Init, Results
<1> QED
  BY <1>1, <1>2, <1>3, <1>4 DEF IInv

(* The last row of a key is the one after any ordinal no change follows.   *)
LEMMA FinalRow ==
  ASSUME TypeOK, History, NEW k \in Keys, NEW o \in Ordinals,
         \A c \in changes[k] : c.ord <= o
  PROVE  rowAt[k][o] = Final(k)
BY ConstAssumption DEF TypeOK, History, NoChangeBetween, Final, Ordinals

(* The producer extends the history of one key at its end.                 *)
LEMMA RecordInvariant ==
  ASSUME IInv, NEW k \in Keys, NEW c \in Change, c.ord \in 1 .. MaxOrdinal,
         Legal(c, Final(k)), Record(k, c)
  PROVE  IInv'
<1> USE ConstAssumption
<1> USE DEF Ordinals
<1>0. /\ TypeOK /\ History /\ Chain
      /\ phase = "emit" /\ phase' = "emit"
      /\ c.ord >= clock
      /\ c \notin changes[k]
      /\ changes' = [changes EXCEPT ![k] = @ \cup {c}]
      /\ rowAt' = [rowAt EXCEPT ![k] =
           [o \in Ordinals |-> IF o < c.ord THEN rowAt[k][o] ELSE Apply(c, Final(k))]]
      /\ clock' = c.ord
      /\ UNCHANGED <<start, visited, current, acc, createdHere, todo, result>>
  BY DEF IInv, Record, mergeVars
<1>1. Final(k) \in MaybeRow /\ (c.op = "UPDATE" => Final(k) # None)
  BY <1>0 DEF TypeOK, Final, Legal, Change
<1>2. Apply(c, Final(k)) \in MaybeRow
  BY <1>1, ApplyType
<1>3. TypeOK'
  <2>1. rowAt' \in [Keys -> [Ordinals -> MaybeRow]]
    BY <1>0, <1>2 DEF TypeOK
  <2>2. changes' \in [Keys -> SUBSET Change] /\ clock' \in Ordinals
    BY <1>0 DEF TypeOK, Change
  <2> QED
    BY <1>0, <2>1, <2>2 DEF TypeOK
<1>4. (NotStarted /\ Merging /\ OnlyTiesRefused)'
  BY <1>0 DEF IInv, NotStarted, Merging, OnlyTiesRefused
<1>5. Results'
  BY <1>0 DEF IInv, NotStarted, Results, TypeOK
<1>6. /\ \A j \in Keys \ {k} : rowAt'[j] = rowAt[j] /\ changes'[j] = changes[j]
      /\ changes'[k] = changes[k] \cup {c}
      /\ \A o \in Ordinals : rowAt'[k][o] = IF o < c.ord THEN rowAt[k][o] ELSE Apply(c, Final(k))
  BY <1>0 DEF TypeOK
<1>7. \A d \in changes[k] : d.ord \in 1 .. clock /\ d.ord <= c.ord
  BY <1>0 DEF TypeOK, History
<1>8. History'
  <2>1. \A j \in Keys : rowAt'[j][0] = start'[j]
    <3> TAKE j \in Keys
    <3>1. rowAt[j][0] = start[j]
      BY <1>0 DEF History
    <3>2. CASE j = k
      BY <1>0, <1>6, <3>1, <3>2
    <3>3. CASE j # k
      BY <1>0, <1>6, <3>1, <3>3
    <3> QED
      BY <3>2, <3>3
  <2>2. \A j \in Keys : \A d \in changes'[j] : d.ord \in 1 .. clock'
    BY <1>0, <1>6 DEF History, TypeOK
  <2>3. \A j \in Keys : \A o, p \in Ordinals :
          (o <= p /\ NoChangeBetween(j, o, p)') => rowAt'[j][o] = rowAt'[j][p]
    <3> TAKE j \in Keys
    <3> TAKE o, p \in Ordinals
    <3> HAVE o <= p /\ NoChangeBetween(j, o, p)'
    <3>1. NoChangeBetween(j, o, p)
      BY <1>6 DEF NoChangeBetween
    <3>2. rowAt[j][o] = rowAt[j][p]
      BY <1>0, <3>1 DEF History
    <3>3. CASE j = k
      <4>1. c.ord <= o \/ p < c.ord
        BY <1>6, <3>3 DEF NoChangeBetween
      <4> QED
        BY <1>6, <3>2, <3>3, <4>1
    <3>4. CASE j # k
      BY <1>6, <3>2, <3>4
    <3> QED
      BY <3>3, <3>4
  <2> QED
    BY <2>1, <2>2, <2>3 DEF History
<1>9. Chain'
  <2> SUFFICES ASSUME NEW j \in Keys, ~Tied(j)', NEW d \in changes'[j]
               PROVE  Happened(j, d)'
    BY DEF Chain
  <2>1. CASE j # k
    BY <1>0, <1>6, <2>1 DEF Chain, Tied, Happened
  <2>2. CASE j = k /\ d # c
    <3>1. d \in changes[k] /\ ~Tied(k)
      BY <1>6, <2>2 DEF Tied
    <3>2. d.ord < c.ord /\ d.ord \in Ordinals \ {0} /\ d.ord - 1 \in Ordinals
      BY <1>0, <1>6, <1>7, <2>2, <3>1 DEF Tied, TypeOK, Change
    <3>3. rowAt'[k][d.ord] = rowAt[k][d.ord] /\ rowAt'[k][d.ord - 1] = rowAt[k][d.ord - 1]
      BY <1>6, <3>2
    <3> QED
      BY <1>0, <2>2, <3>1, <3>3 DEF Chain, Happened
  <2>3. CASE j = k /\ d = c
    <3>1. \A e \in changes[k] : e.ord <= c.ord - 1
      <4> SUFFICES ASSUME NEW e \in changes[k] PROVE e.ord <= c.ord - 1
        OBVIOUS
      <4>1. e.ord # c.ord
        BY <1>0, <1>6, <2>3 DEF Tied
      <4> QED
        BY <1>7, <4>1 DEF TypeOK
    <3>2. c.ord - 1 \in Ordinals /\ c.ord \in Ordinals
      OBVIOUS
    <3>3. rowAt[k][c.ord - 1] = Final(k)
      BY <1>0, <3>1, <3>2, FinalRow
    <3>4. rowAt'[k][c.ord - 1] = Final(k) /\ rowAt'[k][c.ord] = Apply(c, Final(k))
      BY <1>6, <3>2, <3>3
    <3> QED
      BY <2>3, <3>4 DEF Happened
  <2> QED
    BY <2>1, <2>2, <2>3
<1> QED
  BY <1>3, <1>4, <1>5, <1>8, <1>9 DEF IInv

(* Each of the three emissions records a legal change.                     *)
LEMMA EmitInvariant ==
  ASSUME IInv, NEW k \in Keys, EmitCreate(k) \/ EmitUpdate(k) \/ EmitDelete(k)
  PROVE  IInv'
<1> USE ConstAssumption
<1>0. Final(k) \in MaybeRow
  BY DEF IInv, TypeOK, Final, Ordinals
<1>1. CASE EmitCreate(k)
  <2>1. PICK new \in NewValues, o \in Ordinals \ {0} : Record(k, CreateChange(new, o))
    BY <1>1 DEF EmitCreate
  <2>2. [f \in Fields |-> Null] \in Row
    BY DEF Row, FieldValues
  <2>3. CreateChange(new, o) \in Change
    BY <2>2, ProducerChangeType
  <2>4. Legal(CreateChange(new, o), Final(k)) /\ CreateChange(new, o).ord \in 1 .. MaxOrdinal
    BY <1>1 DEF EmitCreate, Legal, CreateChange, Ordinals
  <2> QED
    BY <2>1, <2>3, <2>4, RecordInvariant
<1>2. CASE EmitUpdate(k)
  <2>1. PICK new \in NewValues, o \in Ordinals \ {0} : Record(k, UpdateChange(Final(k), new, o))
    BY <1>2 DEF EmitUpdate
  <2>2. Final(k) \in Row
    BY <1>0, <1>2 DEF EmitUpdate, MaybeRow
  <2>3. UpdateChange(Final(k), new, o) \in Change
    BY <2>2, ProducerChangeType
  <2>4. /\ Legal(UpdateChange(Final(k), new, o), Final(k))
        /\ UpdateChange(Final(k), new, o).ord \in 1 .. MaxOrdinal
    BY <1>2 DEF EmitUpdate, Legal, UpdateChange, Ordinals
  <2> QED
    BY <2>1, <2>3, <2>4, RecordInvariant
<1>3. CASE EmitDelete(k)
  <2>1. PICK o \in Ordinals \ {0} : Record(k, DeleteChange(o))
    BY <1>3 DEF EmitDelete
  <2>2. DeleteChange(o) \in Change
    BY FieldMapType DEF DeleteChange, Change, NoFields
  <2>3. Legal(DeleteChange(o), Final(k)) /\ DeleteChange(o).ord \in 1 .. MaxOrdinal
    BY <1>3 DEF EmitDelete, Legal, DeleteChange, Ordinals
  <2> QED
    BY <2>1, <2>2, <2>3, RecordInvariant
<1> QED
  BY <1>1, <1>2, <1>3

(* The first change of an untied group tells whether the row is new, and   *)
(* it starts from the row before the block.                                *)
LEMMA StartGroupInvariant ==
  ASSUME IInv, NEW k \in Keys, StartGroup(k)
  PROVE  IInv'
<1> USE ConstAssumption
<1> USE DEF Ordinals
<1>0. PICK c \in changes[k] :
        /\ IsNext(c, changes[k])
        /\ acc' = c
        /\ createdHere' = (c.op = "CREATE")
        /\ todo' = changes[k] \ {c}
  BY DEF StartGroup
<1>1. /\ TypeOK /\ History /\ Chain /\ Results /\ NotStarted /\ OnlyTiesRefused
      /\ phase = "merge" /\ k \notin visited /\ current' = k /\ k # None
      /\ UNCHANGED <<start, rowAt, changes, clock, phase, visited, result>>
  BY DEF IInv, StartGroup
<1>2. c \in Change /\ c.ord \in 1 .. MaxOrdinal
  BY <1>1 DEF TypeOK, History, Change
<1>3. TypeOK'
  BY <1>0, <1>1, <1>2 DEF TypeOK
<1>4. (NotStarted /\ OnlyTiesRefused)'
  BY <1>1 DEF NotStarted, OnlyTiesRefused, Tied
<1>5. History'
  BY <1>1 DEF History, NoChangeBetween
<1>6. Chain'
  BY <1>1 DEF Chain, Tied, Happened
<1>7. Results'
  BY <1>1 DEF Results, Merged, Tied, Final
<1>8. Merging'
  <2>1. ~Tied(k) => Faithful(k, c, c.op = "CREATE")
    <3> SUFFICES ASSUME ~Tied(k) PROVE Faithful(k, c, c.op = "CREATE")
      OBVIOUS
    <3>1. NoChangeBetween(k, 0, c.ord - 1)
      BY <1>0, <1>1, <1>2 DEF NoChangeBetween, IsNext, TypeOK, Change
    <3>2. rowAt[k][c.ord - 1] = start[k]
      BY <1>1, <1>2, <3>1 DEF History
    <3> QED
      BY <1>1, <3>2 DEF Chain, Happened, Legal, Faithful
  <2>2. Faithful(k, c, c.op = "CREATE") => Faithful(k, acc, createdHere)'
    BY <1>0, <1>1 DEF Faithful
  <2>3. changes[k] \ todo' = {c}
    BY <1>0
  <2>4. c.ord <= c.ord /\ \A d \in todo' : c.ord <= d.ord
    BY <1>0, <1>2 DEF IsNext
  <2> QED
    BY <1>0, <1>1, <1>2, <2>1, <2>2, <2>3, <2>4 DEF Merging, Tied
<1> QED
  BY <1>3, <1>4, <1>5, <1>6, <1>7, <1>8 DEF IInv

(* What the next change of an untied group meets: a later ordinal, and the *)
(* row the merged change leaves.                                           *)
LEMMA NextChangeLegal ==
  ASSUME IInv, current # None, NEW c \in todo, IsNext(c, todo), ~Tied(current)
  PROVE  /\ acc.ord < c.ord
         /\ Legal(c, Apply(acc, start[current]))
         /\ rowAt[current][c.ord] = Apply(c, Apply(acc, start[current]))
<1> USE ConstAssumption
<1> USE DEF Ordinals
<1> DEFINE k == current
<1>1. /\ TypeOK /\ History /\ Chain /\ Merging
      /\ k \in Keys
  BY DEF IInv, TypeOK
<1>2. /\ acc \in Change /\ c \in Change /\ c \in changes[k]
      /\ \A d \in changes[k] : d \in Change
  BY <1>1 DEF Merging, TypeOK
<1>3. acc.ord < c.ord
  <2>1. PICK m \in changes[k] \ todo : m.ord = acc.ord
    BY <1>1 DEF Merging
  <2>2. c.ord # m.ord
    BY <1>2, <2>1 DEF Tied
  <2>3. acc.ord <= c.ord
    BY <1>1 DEF Merging
  <2> QED
    BY <1>2, <2>1, <2>2, <2>3 DEF Change
<1>4. NoChangeBetween(k, acc.ord, c.ord - 1)
  <2> SUFFICES ASSUME NEW d \in changes[k] PROVE d.ord <= acc.ord \/ c.ord - 1 < d.ord
    BY DEF NoChangeBetween
  <2>1. CASE d \in todo
    BY <1>2, <2>1 DEF IsNext, Change
  <2>2. CASE d \notin todo
    BY <1>1, <2>2 DEF Merging
  <2> QED
    BY <2>1, <2>2
<1>5. rowAt[k][c.ord - 1] = rowAt[k][acc.ord]
  <2>1. acc.ord \in Ordinals /\ c.ord - 1 \in Ordinals /\ acc.ord <= c.ord - 1
    BY <1>2, <1>3 DEF Change
  <2> QED
    BY <1>1, <1>4, <2>1 DEF History
<1>6. rowAt[k][acc.ord] = Apply(acc, start[k])
  BY <1>1 DEF Merging, Faithful
<1>7. Happened(k, c)
  BY <1>1, <1>2 DEF Chain
<1> QED
  BY <1>3, <1>5, <1>6, <1>7 DEF Happened

(* Merging the next change keeps acc equivalent to all the merged ones.    *)
LEMMA MergeNextInvariant ==
  ASSUME IInv, MergeNext
  PROVE  IInv'
<1> USE ConstAssumption
<1> DEFINE k == current
<1>0. PICK c \in todo :
        /\ IsNext(c, todo)
        /\ Mergeable(acc, c)
        /\ acc' = Merge(acc, c)
        /\ todo' = todo \ {c}
  BY DEF MergeNext
<1>1. /\ TypeOK /\ History /\ Chain /\ Results /\ NotStarted /\ OnlyTiesRefused /\ Merging
      /\ phase = "merge" /\ k # None /\ k \in Keys
      /\ UNCHANGED <<start, rowAt, changes, clock, phase, visited, current, createdHere, result>>
  BY DEF IInv, MergeNext, TypeOK
<1>2. acc \in Change /\ c \in Change /\ c \in changes[k]
  BY <1>1 DEF Merging, TypeOK
<1>3. Merge(acc, c) \in Change /\ Merge(acc, c).ord = c.ord
  BY <1>2, MergeType
<1>4. TypeOK'
  BY <1>0, <1>1, <1>3 DEF TypeOK
<1>5. (NotStarted /\ OnlyTiesRefused)'
  BY <1>1 DEF NotStarted, OnlyTiesRefused, Tied
<1>6. History'
  BY <1>1 DEF History, NoChangeBetween
<1>7. Chain'
  BY <1>1 DEF Chain, Tied, Happened
<1>8. Results'
  BY <1>1 DEF Results, Merged, Tied, Final
<1>9. Merging'
  <2>1. changes[k] \ todo' = (changes[k] \ todo) \cup {c}
    BY <1>0, <1>2
  <2>2. \A d \in changes[k] \ todo : d \in Change /\ d.ord <= acc.ord
    BY <1>1 DEF Merging, TypeOK
  <2>3. acc.ord < c.ord
    BY <1>0 DEF Mergeable
  <2>4. \A d \in changes[k] \ todo : d.ord < c.ord
    BY <1>2, <2>2, <2>3 DEF Change, Ordinals
  <2>5. \A d \in changes[k] \ todo' : d.ord <= c.ord
    BY <1>2, <2>1, <2>2, <2>4 DEF Change, Ordinals
  <2>6. \A d, e \in changes[k] \ todo' : d # e => d.ord # e.ord
    <3> SUFFICES ASSUME NEW d \in changes[k] \ todo', NEW e \in changes[k] \ todo', d # e
                 PROVE  d.ord # e.ord
      OBVIOUS
    <3>1. CASE d = c \/ e = c
      BY <1>2, <2>1, <2>2, <2>4, <3>1 DEF Change, Ordinals
    <3>2. CASE d # c /\ e # c
      BY <1>1, <2>1, <3>2 DEF Merging
    <3> QED
      BY <3>1, <3>2
  <2>7. ~Tied(k) => Faithful(k, Merge(acc, c), createdHere)
    <3> SUFFICES ASSUME ~Tied(k) PROVE Faithful(k, Merge(acc, c), createdHere)
      OBVIOUS
    <3>1. /\ Legal(c, Apply(acc, start[k]))
          /\ rowAt[k][c.ord] = Apply(c, Apply(acc, start[k]))
      BY <1>0, <1>1, NextChangeLegal
    <3>2. Faithful(k, acc, createdHere)
      BY <1>1 DEF Merging
    <3>3. start[k] \in MaybeRow
      BY <1>1 DEF TypeOK
    <3>4. acc.op = "UPDATE" => start[k] # None
      BY <1>1, <3>2 DEF Faithful, TypeOK
    <3>5. /\ Apply(Merge(acc, c), start[k]) = Apply(c, Apply(acc, start[k]))
          /\ Merge(acc, c).op = "UPDATE" =>
               /\ acc.op = "UPDATE"
               /\ \A f \in DOMAIN Merge(acc, c).fields :
                    Merge(acc, c).fields[f].old = start[k][f]
      BY <1>2, <3>1, <3>2, <3>3, <3>4, MergeComposes DEF Faithful
    <3> QED
      BY <1>3, <3>1, <3>2, <3>5 DEF Faithful
  <2>8. Faithful(k, Merge(acc, c), createdHere) => Faithful(k, acc, createdHere)'
    BY <1>0, <1>1 DEF Faithful
  <2>9. c \in changes[k] \ todo' /\ \A d \in todo' : c.ord <= d.ord
    BY <1>0, <1>2 DEF IsNext
  <2> QED
    BY <1>0, <1>1, <1>3, <2>5, <2>6, <2>7, <2>8, <2>9 DEF Merging, Tied
<1> QED
  BY <1>4, <1>5, <1>6, <1>7, <1>8, <1>9 DEF IInv

(* Merge refuses a change only if it ties with one already merged.         *)
LEMMA RefuseNextInvariant ==
  ASSUME IInv, RefuseNext
  PROVE  IInv'
<1> USE ConstAssumption
<1>0. PICK c \in todo : IsNext(c, todo) /\ ~Mergeable(acc, c)
  BY DEF RefuseNext
<1>1. /\ TypeOK /\ History /\ Chain /\ Results /\ NotStarted /\ Merging
      /\ current # None /\ current \in Keys
      /\ phase = "merge" /\ phase' = "failed"
      /\ UNCHANGED <<start, rowAt, changes, clock, mergeVars>>
  BY DEF IInv, RefuseNext, TypeOK
<1>2. Tied(current)
  <2> SUFFICES ASSUME ~Tied(current) PROVE FALSE
    OBVIOUS
  <2>1. acc.ord < c.ord /\ Legal(c, Apply(acc, start[current]))
    BY <1>0, <1>1, NextChangeLegal
  <2>2. /\ acc \in Change /\ start[current] \in MaybeRow
        /\ Faithful(current, acc, createdHere)
    BY <1>1 DEF Merging, TypeOK
  <2>3. acc.op = "UPDATE" => start[current] # None
    BY <1>1, <2>2 DEF Faithful, TypeOK
  <2>4. Apply(acc, start[current]) = None <=> acc.op = "DELETE"
    BY <2>2, <2>3, ApplyType
  <2>5. c.op = "CREATE" => acc.op = "DELETE"
    BY <2>1, <2>4 DEF Legal
  <2>6. c.op = "UPDATE" => OldValuesMatch(acc, c)
    <3> SUFFICES ASSUME c.op = "UPDATE",
                        NEW f \in DOMAIN acc.fields \cap DOMAIN c.fields
                 PROVE  c.fields[f].old = acc.fields[f].new
      BY DEF OldValuesMatch
    <3>1. acc.op # "DELETE" /\ f \in Fields
      BY <2>1, <2>2, <2>4, FieldMapType DEF Legal, Change
    <3> QED
      BY <2>1, <3>1 DEF Legal, Apply
  <2> QED
    BY <1>0, <2>1, <2>5, <2>6 DEF Mergeable
<1>3. OnlyTiesRefused'
  BY <1>1, <1>2 DEF OnlyTiesRefused, Tied
<1>4. (TypeOK /\ NotStarted /\ History /\ Chain)'
  BY <1>1 DEF TypeOK, NotStarted, History, Chain, NoChangeBetween, Tied, Happened, mergeVars
<1>5. Merging'
  BY <1>1 DEF Merging, Faithful, Tied, mergeVars
<1>6. Results'
  BY <1>1 DEF Results, Merged, Tied, Final, mergeVars
<1> QED
  BY <1>3, <1>4, <1>5, <1>6 DEF IInv

(* A group that is merged to its end has no tie, and its change, or none,  *)
(* does what the group did.                                                *)
LEMMA FinishGroupInvariant ==
  ASSUME IInv, FinishGroup
  PROVE  IInv'
<1> USE ConstAssumption
<1> USE DEF Ordinals
<1>0. PICK k \in Keys : k = current
  BY DEF IInv, FinishGroup, TypeOK
<1>a. PICK kept : kept = IF Dropped(createdHere, acc) THEN None ELSE acc
  OBVIOUS
<1>1. /\ TypeOK /\ History /\ Chain /\ Results /\ NotStarted /\ OnlyTiesRefused /\ Merging
      /\ phase = "merge" /\ k = current /\ k # None /\ todo = {}
      /\ result' = [result EXCEPT ![k] = kept]
      /\ visited' = visited \cup {k}
      /\ current' = None /\ acc' = None /\ createdHere' = FALSE
      /\ UNCHANGED <<start, rowAt, changes, clock, phase, todo>>
  BY <1>0, <1>a DEF IInv, FinishGroup
<1>2. acc \in Change /\ kept \in Change \cup {None}
  BY <1>1, <1>a DEF Merging
<1>3. ~Tied(k)
  BY <1>1 DEF Merging, Tied
<1>4. Faithful(k, acc, createdHere)
  BY <1>1, <1>3 DEF Merging
<1>5. rowAt[k][acc.ord] = Final(k)
  <2>1. acc.ord \in Ordinals /\ \A c \in changes[k] : c.ord <= acc.ord
    BY <1>1, <1>2 DEF Merging, Change
  <2> QED
    BY <1>1, <2>1, FinalRow
<1>6. Final(k) = IF kept = None THEN start[k] ELSE Apply(kept, start[k])
  <2>1. CASE Dropped(createdHere, acc)
    BY <1>a, <1>4, <1>5, <2>1 DEF Dropped, Faithful, Apply
  <2>2. CASE ~Dropped(createdHere, acc)
    BY <1>a, <1>2, <1>4, <1>5, <2>2, NoneAssumption DEF Faithful
  <2> QED
    BY <2>1, <2>2
<1>7. (kept # None /\ kept.op = "UPDATE") =>
        \A f \in DOMAIN kept.fields : kept.fields[f].old = start[k][f]
  BY <1>a, <1>4 DEF Faithful
<1>8. Results'
  <2>1. result'[k] = kept /\ \A j \in Keys \ {k} : result'[j] = result[j]
    BY <1>1 DEF TypeOK
  <2>2. Merged(k)'
    BY <1>1, <1>3, <1>6, <1>7, <2>1 DEF Merged, Tied, Final
  <2>3. \A j \in visited \ {k} : Merged(j)'
    BY <1>1, <2>1 DEF Results, Merged, Tied, Final, TypeOK
  <2>4. \A j \in Keys \ visited' : result'[j] = None
    BY <1>1, <2>1 DEF Results
  <2>5. phase' # "done"
    BY <1>1
  <2> QED
    BY <1>1, <2>2, <2>3, <2>4, <2>5 DEF Results
<1>9. TypeOK'
  <2>1. createdHere' \in BOOLEAN
    BY <1>1
  <2> QED
    BY <1>1, <1>2, <2>1 DEF TypeOK
<1>10. (NotStarted /\ OnlyTiesRefused /\ Merging)'
  BY <1>1 DEF NotStarted, OnlyTiesRefused, Merging, Tied
<1>11. (History /\ Chain)'
  BY <1>1 DEF History, Chain, NoChangeBetween, Tied, Happened
<1> QED
  BY <1>8, <1>9, <1>10, <1>11 DEF IInv

(* Every step keeps the invariant.                                         *)
LEMMA NextInvariant == IInv /\ [Next]_vars => IInv'
<1> SUFFICES ASSUME IInv, [Next]_vars PROVE IInv'
  OBVIOUS
<1> USE DEF mergeVars
<1>1. ASSUME NEW k \in Keys, EmitCreate(k) \/ EmitUpdate(k) \/ EmitDelete(k) PROVE IInv'
  BY <1>1, EmitInvariant
<1>2. CASE Squash
  <2>1. (TypeOK /\ NotStarted /\ History /\ Chain)'
    BY <1>2 DEF Squash, IInv, TypeOK, NotStarted, History, Chain, NoChangeBetween, Tied, Happened
  <2>2. (Merging /\ Results /\ OnlyTiesRefused)'
    BY <1>2 DEF Squash, IInv, NotStarted, Merging, Results, Merged, Final, Tied, OnlyTiesRefused
  <2> QED
    BY <2>1, <2>2 DEF IInv
<1>3. ASSUME NEW k \in Keys, StartGroup(k) PROVE IInv'
  BY <1>3, StartGroupInvariant
<1>4. CASE MergeNext
  BY <1>4, MergeNextInvariant
<1>5. CASE RefuseNext
  BY <1>5, RefuseNextInvariant
<1>6. CASE FinishGroup
  BY <1>6, FinishGroupInvariant
<1>7. CASE Return
  <2>1. (TypeOK /\ NotStarted /\ History /\ Chain)'
    BY <1>7 DEF Return, IInv, TypeOK, NotStarted, History, Chain, NoChangeBetween, Tied, Happened
  <2>2. (Merging /\ OnlyTiesRefused)'
    BY <1>7 DEF Return, IInv, Merging, Faithful, OnlyTiesRefused
  <2>3. Results'
    BY <1>7 DEF Return, IInv, Results, Merged, Final, Tied
  <2> QED
    BY <2>1, <2>2, <2>3 DEF IInv
<1>8. CASE UNCHANGED vars
  <2>1. (TypeOK /\ NotStarted /\ History /\ Chain)'
    BY <1>8 DEF vars, IInv, TypeOK, NotStarted, History, Chain, NoChangeBetween, Tied, Happened
  <2>2. (Merging /\ Results /\ OnlyTiesRefused)'
    BY <1>8 DEF vars, IInv, Merging, Faithful, Results, Merged, Final, Tied, OnlyTiesRefused
  <2> QED
    BY <2>1, <2>2 DEF IInv
<1> QED
  BY <1>1, <1>2, <1>3, <1>4, <1>5, <1>6, <1>7, <1>8 DEF Next

(* The inductive invariant holds in every state.                           *)
THEOREM Invariance == Spec => []IInv
BY InitInvariant, NextInvariant, PTL DEF Spec

-----------------------------------------------------------------------------
(* The variables keep their shape through every squash.                    *)
THEOREM TypeCorrect == Spec => []TypeOK
<1>1. IInv => TypeOK
  BY DEF IInv
<1> QED
  BY <1>1, Invariance, PTL

(* For any number of keys, fields, values and changes, what Squash returns *)
(* has the effect of the changes it was given (database.go:22-68).         *)
THEOREM SquashIsEquivalent == Spec => []SquashEquivalent
<1>1. IInv => SquashEquivalent
  <2> SUFFICES ASSUME IInv, phase = "done", NEW k \in Keys
               PROVE  Final(k) = IF result[k] = None THEN start[k] ELSE Apply(result[k], start[k])
    BY DEF SquashEquivalent
  <2>1. CASE k \in visited
    BY <2>1 DEF IInv, Results, Merged
  <2>2. CASE k \notin visited
    <3>1. changes[k] = {} /\ result[k] = None
      BY <2>2 DEF IInv, Results
    <3>2. rowAt[k][0] = Final(k)
      BY <3>1, FinalRow, ConstAssumption DEF IInv, Ordinals
    <3> QED
      BY <3>1, <3>2 DEF IInv, History
  <2> QED
    BY <2>1, <2>2
<1> QED
  BY <1>1, Invariance, PTL

(* A squashed UPDATE carries the field contents from before the block.     *)
THEOREM SquashKeepsOldValues == Spec => []SquashedOldValues
<1>1. IInv => SquashedOldValues
  BY DEF IInv, SquashedOldValues, Results, Merged
<1> QED
  BY <1>1, Invariance, PTL

(* Squash refuses a well-behaved producer's block exactly when two changes *)
(* of one key share an ordinal: it fails only then ...                     *)
THEOREM RefusesOnlyTies == Spec => []OnlyTiesRefused
<1>1. IInv => OnlyTiesRefused
  BY DEF IInv
<1> QED
  BY <1>1, Invariance, PTL

(* ... and it never succeeds then.                                         *)
THEOREM RefusesAllTies == Spec => []TiesAlwaysRefused
<1>1. IInv => TiesAlwaysRefused
  <2> SUFFICES ASSUME IInv, phase = "done", NEW k \in Keys PROVE ~Tied(k)
    BY DEF TiesAlwaysRefused
  <2>1. CASE k \in visited
    BY <2>1 DEF IInv, Results, Merged
  <2>2. CASE k \notin visited
    BY <2>2 DEF IInv, Results, Tied
  <2> QED
    BY <2>1, <2>2
<1> QED
  BY <1>1, Invariance, PTL
=============================================================================
