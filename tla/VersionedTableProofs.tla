------------------------ MODULE VersionedTableProofs ------------------------
(***************************************************************************)
(* The versions of an entity never overlap, for every set of entities and  *)
(* values and every number of blocks, whatever is saved, cleaned and       *)
(* forked; and CleanDataAtBlock deletes only versions of the bad block, if *)
(* it is not run twice for one cursor; the table then implements           *)
(* TemporalTable.                                                          *)
(***************************************************************************)
EXTENDS VersionedTable, TLAPS

(* A closed version was updated by the block that closed it; no version    *)
(* reaches past the head, and none was updated past the block in progress. *)
Versions ==
  \A r \in rows :
    /\ r.lo <= head /\ r.hi <= head
    /\ r.hi # Open => r.lo < r.hi /\ r.upd = r.hi
    /\ r.lo <= r.upd /\ r.upd <= cursor + 1

(* An open version carries its own block, unless CleanDataAtBlock reopened *)
(* it and the cursor has not moved since.                                  *)
OpenVersions ==
  ~cleaned => \A r \in rows : r.hi = Open => r.upd = r.lo \/ r.upd <= cursor

(* The table is at most one block ahead of the cursor, and between the two *)
(* statements of a clean-up the first has done its part.                   *)
Stages ==
  /\ head \in {cursor, cursor + 1}
  /\ mode = "cleaning" => /\ cleaned
                          /\ \A r \in rows : ~(r.hi = Open /\ r.upd = cursor + 1)
  /\ mode = "forking" => /\ forkAt \in 1 .. head
                         /\ head = cursor
                         /\ \A r \in rows : r.lo < forkAt

IInv == TypeOK /\ NoOverlap /\ Versions /\ OpenVersions /\ Stages

-----------------------------------------------------------------------------
LEMMA InitInvariant == Init => IInv
<1> SUFFICES ASSUME Init PROVE IInv
  OBVIOUS
<1> USE TableAssumption
<1>1. cleaned \in BOOLEAN
  BY DEF Init
<1>2. TypeOK
  BY <1>1 DEF Init, TypeOK
<1>3. NoOverlap /\ Versions /\ OpenVersions /\ Stages
  BY DEF Init, NoOverlap, Versions, OpenVersions, Stages
<1> QED
  BY <1>2, <1>3 DEF IInv

(* Closing a version at the block after the head shortens it.              *)
LEMMA ClosedVersion ==
  ASSUME NEW r \in Row, NEW n \in Blocks, r.lo < n, r.hi = Open \/ r.hi < n
  PROVE  /\ Closed(r, n) \in Row
         /\ Closed(r, n).id = r.id /\ Closed(r, n).lo = r.lo
         /\ Closed(r, n).hi = n /\ Closed(r, n).upd = n
         /\ n # Open
<1>1. n \in Nat /\ n # Open /\ n \in 0 .. MaxBlock
  BY TableAssumption DEF Blocks, Open
<1>2. Closed(r, n) \in Row
  BY <1>1 DEF Closed, Row
<1>3. /\ Closed(r, n).id = r.id /\ Closed(r, n).lo = r.lo
      /\ Closed(r, n).hi = n /\ Closed(r, n).upd = n
  BY DEF Closed, Row
<1> QED
  BY <1>1, <1>2, <1>3

LEMMA SaveBlockInvariant ==
  ASSUME IInv, SaveBlock
  PROVE  IInv'
<1> USE TableAssumption
<1> USE DEF Blocks
<1> DEFINE n == head + 1
<1>0. PICK touched \in SUBSET Ids : \E dels \in SUBSET (Ids \ touched) :
        \E new \in [touched -> Values] : BatchSave(n, new, dels)
  BY DEF SaveBlock
<1>1. PICK dels \in SUBSET (Ids \ touched), new \in [touched -> Values] : BatchSave(n, new, dels)
  BY <1>0
<1>2. PICK replaced : replaced = Replaced(touched \cup dels, n)
  OBVIOUS
<1>3. /\ rows' = (rows \ replaced) \cup {Closed(r, n) : r \in replaced} \cup Inserted(new, n)
      /\ DOMAIN new = touched
      /\ replaced \subseteq rows
  BY <1>1, <1>2 DEF BatchSave, Replaced
<1>4. /\ TypeOK /\ NoOverlap /\ Versions /\ OpenVersions /\ Stages
      /\ mode = "running" /\ head = cursor /\ head < MaxBlock
      /\ n \in Blocks /\ head \in Nat /\ n > head
      /\ head' = n
      /\ UNCHANGED <<cursor, mode, forkAt, cleaned>>
  BY DEF IInv, SaveBlock, TypeOK
<1>5. \A r \in rows : /\ r \in Row /\ r.lo < n /\ r.lo \in Nat
                      /\ r.hi \in Nat /\ r.hi <= head /\ (r.hi = Open \/ r.hi < n)
  BY <1>4 DEF TypeOK, Versions, Row, Open
<1>6. \A r \in replaced : /\ Closed(r, n) \in Row
                          /\ Closed(r, n).id = r.id /\ Closed(r, n).lo = r.lo
                          /\ Closed(r, n).hi = n /\ Closed(r, n).upd = n
                          /\ n # Open
  BY <1>3, <1>4, <1>5, ClosedVersion
<1>7. \A r \in Inserted(new, n) : /\ r \in Row /\ r.id \in touched
                                  /\ r.lo = n /\ r.hi = Open /\ r.upd = n
                                  /\ r.val = new[r.id]
  BY <1>3, <1>4 DEF Inserted, Row, Open
<1>8. TypeOK'
  <2>1. rows' \subseteq Row
    BY <1>3, <1>5, <1>6, <1>7
  <2> QED
    BY <1>4, <2>1 DEF TypeOK
<1>9. (Versions /\ Stages)'
  <2>1. \A r \in rows' : /\ r.lo <= n /\ r.hi <= n
                         /\ r.hi # Open => r.lo < r.hi /\ r.upd = r.hi
                         /\ r.lo <= r.upd /\ r.upd <= cursor + 1
    <3> SUFFICES ASSUME NEW r \in rows'
                 PROVE  /\ r.lo <= n /\ r.hi <= n
                        /\ r.hi # Open => r.lo < r.hi /\ r.upd = r.hi
                        /\ r.lo <= r.upd /\ r.upd <= cursor + 1
      OBVIOUS
    <3>1. CASE r \in rows
      BY <1>4, <1>5, <3>1 DEF Versions
    <3>2. CASE r \in {Closed(q, n) : q \in replaced}
      <4>1. PICK q \in replaced : r = Closed(q, n)
        BY <3>2
      <4> QED
        BY <1>3, <1>4, <1>5, <1>6, <4>1
    <3>3. CASE r \in Inserted(new, n)
      BY <1>4, <1>7, <3>3 DEF Open
    <3> QED
      BY <1>3, <3>1, <3>2, <3>3
  <2> QED
    BY <1>4, <2>1 DEF Versions, Stages
<1>10. OpenVersions'
  <2> SUFFICES ASSUME ~cleaned, NEW r \in rows', r.hi = Open
               PROVE  r.upd = r.lo \/ r.upd <= cursor
    BY <1>4 DEF OpenVersions
  <2>1. r \in rows \/ r \in Inserted(new, n)
    BY <1>3, <1>6
  <2> QED
    BY <1>4, <1>7, <2>1 DEF OpenVersions
<1>11. NoOverlap'
  <2> SUFFICES ASSUME NEW r \in rows', NEW s \in rows', r # s, r.id = s.id, Overlap(r, s)
               PROVE  FALSE
    BY DEF NoOverlap
  <2>0. ASSUME NEW p \in rows', p \notin Inserted(new, n)
        PROVE  \E q \in rows : /\ q.id = p.id /\ q.lo = p.lo
                               /\ q \in replaced => p = Closed(q, n) /\ p.hi = n
                               /\ q \notin replaced => p = q
    BY <1>3, <1>6, <2>0
  <2>1. CASE r \in Inserted(new, n) /\ s \in Inserted(new, n)
    BY <1>7, <2>1 DEF Inserted
  <2>2. ASSUME NEW p \in Inserted(new, n), NEW q \in rows', q \notin Inserted(new, n), p.id = q.id
        PROVE  ~Overlap(p, q) /\ ~Overlap(q, p)
    <3>1. PICK o \in rows : /\ o.id = q.id /\ o.lo = q.lo
                            /\ o \in replaced => q = Closed(o, n) /\ q.hi = n
                            /\ o \notin replaced => q = o
      BY <2>0, <2>2
    <3>2. CASE o \in replaced
      BY <1>4, <1>6, <1>7, <2>2, <3>1, <3>2 DEF Overlap
    <3>3. CASE o \notin replaced
      <4>1. ~Contains(o, n)
        BY <1>2, <1>7, <2>2, <3>1, <3>3 DEF Replaced
      <4>2. o.hi # Open /\ o.hi <= n
        BY <1>4, <1>5, <4>1 DEF Contains
      <4> QED
        BY <1>4, <1>5, <1>7, <2>2, <3>1, <3>3, <4>2 DEF Overlap
    <3> QED
      BY <3>2, <3>3
  <2>3. CASE r \notin Inserted(new, n) /\ s \notin Inserted(new, n)
    <3>1. PICK p \in rows : /\ p.id = r.id /\ p.lo = r.lo
                            /\ p \in replaced => r = Closed(p, n) /\ r.hi = n
                            /\ p \notin replaced => r = p
      BY <2>0, <2>3
    <3>2. PICK q \in rows : /\ q.id = s.id /\ q.lo = s.lo
                            /\ q \in replaced => s = Closed(q, n) /\ s.hi = n
                            /\ q \notin replaced => s = q
      BY <2>0, <2>3
    <3>3. p # q
      BY <3>1, <3>2
    <3>4. ~Overlap(p, q)
      BY <1>4, <3>1, <3>2, <3>3 DEF NoOverlap
    <3>5. /\ p \in replaced => p.hi = Open \/ n < p.hi
          /\ q \in replaced => q.hi = Open \/ n < q.hi
      BY <1>2 DEF Replaced, Contains
    <3>6. Overlap(p, q)
      BY <1>4, <1>5, <3>1, <3>2, <3>5 DEF Overlap, IsEmpty, Versions, Open
    <3> QED
      BY <3>4, <3>6
  <2> QED
    BY <2>1, <2>2, <2>3
<1> QED
  BY <1>8, <1>9, <1>10, <1>11 DEF IInv

(* Removing rows disturbs nothing.                                         *)
LEMMA FewerRows ==
  ASSUME NEW some, NEW all, some \subseteq all,
         \A r, s \in all : (r # s /\ r.id = s.id) => ~Overlap(r, s)
  PROVE  \A r, s \in some : (r # s /\ r.id = s.id) => ~Overlap(r, s)
OBVIOUS

LEMMA CleanDeleteInvariant ==
  ASSUME IInv, CleanDelete
  PROVE  IInv'
<1> USE TableAssumption
<1>1. /\ TypeOK /\ NoOverlap /\ Versions /\ OpenVersions /\ Stages
      /\ rows' = rows \ CleanDeleted(rows, cursor + 1)
      /\ mode' = "cleaning" /\ cleaned' = TRUE
      /\ UNCHANGED <<head, cursor, forkAt>>
  BY DEF IInv, CleanDelete
<1>2. rows' \subseteq rows
  BY <1>1
<1>3. TypeOK' /\ NoOverlap' /\ Versions' /\ OpenVersions'
  BY <1>1, <1>2 DEF TypeOK, NoOverlap, Versions, OpenVersions
<1>4. \A r \in rows' : ~(r.hi = Open /\ r.upd = cursor + 1)
  BY <1>1 DEF CleanDeleted, UpperIsNull
<1> QED
  BY <1>1, <1>3, <1>4 DEF Stages, IInv

(* After the first statement a version that block cursor + 1 closed is the *)
(* last one of its entity, so opening it again overlaps nothing.           *)
LEMMA CleanUpdateInvariant ==
  ASSUME IInv, CleanUpdate
  PROVE  IInv'
<1> USE TableAssumption
<1> USE DEF Blocks
<1>1. PICK sel : sel = CleanReopened(rows, cursor + 1)
  OBVIOUS
<1>2. /\ TypeOK /\ NoOverlap /\ Versions /\ OpenVersions /\ Stages
      /\ mode = "cleaning" /\ cleaned
      /\ rows' = (rows \ sel) \cup {[r EXCEPT !.hi = Open] : r \in sel}
      /\ head' = cursor /\ mode' = "running"
      /\ UNCHANGED <<cursor, forkAt, cleaned>>
      /\ sel \subseteq rows
  BY <1>1 DEF IInv, CleanUpdate, Stages, CleanReopen, CleanReopened
<1>3. \A r \in rows : /\ r \in Row /\ r.lo \in Nat /\ r.hi \in Nat /\ r.upd \in Nat
                      /\ r.lo <= cursor
                      /\ r.hi <= cursor + 1
                      /\ r.hi # Open => r.lo < r.hi /\ r.upd = r.hi
  <2> SUFFICES ASSUME NEW r \in rows
               PROVE  /\ r \in Row /\ r.lo \in Nat /\ r.hi \in Nat /\ r.upd \in Nat
                      /\ r.lo <= cursor
                      /\ r.hi <= cursor + 1
                      /\ r.hi # Open => r.lo < r.hi /\ r.upd = r.hi
    OBVIOUS
  <2>1. r \in Row /\ r.lo \in Nat /\ r.hi \in Nat /\ r.upd \in Nat /\ cursor \in Nat /\ head \in Nat
    BY <1>2 DEF TypeOK, Row
  <2>2. /\ r.lo <= head /\ r.hi <= head /\ head <= cursor + 1
        /\ r.hi # Open => r.lo < r.hi /\ r.upd = r.hi
        /\ r.lo <= r.upd /\ r.upd <= cursor + 1
        /\ ~(r.hi = Open /\ r.upd = cursor + 1)
    BY <1>2, <2>1 DEF Versions, Stages
  <2> QED
    BY <2>1, <2>2
<1>4. \A r \in rows : r \in sel <=> r.hi = cursor + 1
  BY <1>1, <1>2, <1>3 DEF CleanReopened, Contains, UpperIs, IsEmpty, Open, TypeOK
<1>5. \A r \in sel : LET q == [r EXCEPT !.hi = Open] IN
        /\ q \in Row /\ q.id = r.id /\ q.lo = r.lo /\ q.hi = Open /\ q.upd = r.upd
  BY <1>2, <1>3 DEF Row, Open
<1>6. ASSUME NEW p \in rows'
      PROVE  \E q \in rows : /\ q.id = p.id /\ q.lo = p.lo /\ q.upd = p.upd /\ p \in Row
                             /\ q \in sel => p = [q EXCEPT !.hi = Open] /\ p.hi = Open
                             /\ q \notin sel => p = q
  BY <1>2, <1>3, <1>5, <1>6
<1>7. TypeOK'
  BY <1>2, <1>6 DEF TypeOK
<1>8. (Versions /\ OpenVersions /\ Stages)'
  <2>1. \A p \in rows' : /\ p.lo <= cursor /\ p.hi <= cursor
                         /\ p.hi # Open => p.lo < p.hi /\ p.upd = p.hi
                         /\ p.lo <= p.upd /\ p.upd <= cursor + 1
    <3> SUFFICES ASSUME NEW p \in rows'
                 PROVE  /\ p.lo <= cursor /\ p.hi <= cursor
                        /\ p.hi # Open => p.lo < p.hi /\ p.upd = p.hi
                        /\ p.lo <= p.upd /\ p.upd <= cursor + 1
      OBVIOUS
    <3>1. PICK q \in rows : /\ q.id = p.id /\ q.lo = p.lo /\ q.upd = p.upd
                            /\ q \in sel => p.hi = Open
                            /\ q \notin sel => p = q
      BY <1>6
    <3> QED
      BY <1>2, <1>3, <1>4, <3>1 DEF Versions, TypeOK, Open
  <2> QED
    BY <1>2, <2>1 DEF Versions, OpenVersions, Stages
<1>9. NoOverlap'
  <2> SUFFICES ASSUME NEW r \in rows', NEW s \in rows', r # s, r.id = s.id, Overlap(r, s)
               PROVE  FALSE
    BY DEF NoOverlap
  <2>1. PICK p \in rows : /\ p.id = r.id /\ p.lo = r.lo
                          /\ p \in sel => r = [p EXCEPT !.hi = Open] /\ r.hi = Open
                          /\ p \notin sel => r = p
    BY <1>6
  <2>2. PICK q \in rows : /\ q.id = s.id /\ q.lo = s.lo
                          /\ q \in sel => s = [q EXCEPT !.hi = Open] /\ s.hi = Open
                          /\ q \notin sel => s = q
    BY <1>6
  <2>3. ~Overlap(p, q)
    BY <1>2, <2>1, <2>2 DEF NoOverlap
  <2>4. Overlap(p, q)
    BY <1>2, <1>3, <1>4, <2>1, <2>2 DEF Overlap, IsEmpty, Open, TypeOK
  <2> QED
    BY <2>3, <2>4
<1> QED
  BY <1>7, <1>8, <1>9 DEF IInv

LEMMA ForkDeleteInvariant ==
  ASSUME IInv, NEW l \in Blocks, ForkDelete(l)
  PROVE  IInv'
<1> USE TableAssumption
<1> USE DEF Blocks
<1>1. /\ TypeOK /\ NoOverlap /\ Versions /\ OpenVersions /\ Stages
      /\ rows' = rows \ ForkDeleted(rows, l)
      /\ mode' = "forking" /\ forkAt' = l
      /\ UNCHANGED <<head, cursor, cleaned>>
      /\ head = cursor /\ l <= head
  BY DEF IInv, ForkDelete, Stages
<1>2. rows' \subseteq rows
  BY <1>1
<1>3. TypeOK' /\ NoOverlap' /\ Versions' /\ OpenVersions'
  BY <1>1, <1>2 DEF TypeOK, NoOverlap, Versions, OpenVersions
<1>4. \A r \in rows' : r.lo < l
  <2> SUFFICES ASSUME NEW r \in rows, r \notin ForkDeleted(rows, l), ~(r.lo < l) PROVE FALSE
    BY <1>1
  <2>1. /\ r.lo \in Nat /\ r.hi \in Nat /\ r.upd \in Nat
        /\ r.hi # Open => r.lo < r.hi /\ r.upd = r.hi
        /\ r.lo <= r.upd
    BY <1>1 DEF TypeOK, Row, Versions
  <2>2. CASE r.lo = l
    BY <2>1, <2>2 DEF ForkDeleted, Contains, LowerIs, IsEmpty, Open
  <2>3. CASE r.lo > l
    BY <2>1, <2>3 DEF ForkDeleted, Contains, Open
  <2> QED
    BY <2>1, <2>2, <2>3
<1> QED
  BY <1>1, <1>3, <1>4 DEF Stages, IInv

(* After the first statement every version starts before l, so at most one *)
(* of each entity reaches l - 1, and that is the one opened again.         *)
LEMMA ForkUpdateInvariant ==
  ASSUME IInv, ForkUpdate
  PROVE  IInv'
<1> USE TableAssumption
<1> USE DEF Blocks
<1>1. PICK sel : sel = ForkReopened(rows, forkAt)
  OBVIOUS
<1>2. /\ TypeOK /\ NoOverlap /\ Versions /\ OpenVersions /\ Stages
      /\ mode = "forking" /\ forkAt \in 1 .. head /\ head = cursor
      /\ head' = forkAt - 1 /\ cursor' = forkAt - 1 /\ mode' = "running"
      /\ forkAt' = 0
      /\ sel \subseteq rows
  BY <1>1 DEF IInv, ForkUpdate, Stages, ForkReopen, ForkReopened
<1>12. rows' = (rows \ sel) \cup {[r EXCEPT !.hi = Open, !.upd = r.lo] : r \in sel}
  BY <1>1 DEF ForkUpdate, ForkReopen
<1>11. cleaned' \in BOOLEAN
  BY DEF ForkUpdate
<1>10. /\ \A r \in rows : r \in Row /\ r.lo \in Nat /\ r.hi \in Nat /\ r.upd \in Nat
      /\ forkAt \in Nat /\ forkAt >= 1 /\ forkAt <= cursor
      /\ cursor \in Nat /\ cursor <= MaxBlock
  BY <1>2 DEF TypeOK, Row
<1>3. \A r \in rows : /\ r \in Row /\ r.lo \in Nat /\ r.hi \in Nat /\ r.upd \in Nat
                      /\ r.lo < forkAt
                      /\ r.hi # Open => r.lo < r.hi /\ r.upd = r.hi
                      /\ r.lo <= r.upd
  BY <1>2, <1>10 DEF Versions, Stages
<1>4. \A r \in rows : r \in sel <=> r.upd >= forkAt
  BY <1>1, <1>2, <1>10, <1>3 DEF ForkReopened, Contains, UpperIs, IsEmpty, Open
<1>5. \A r \in sel : LET q == [r EXCEPT !.hi = Open, !.upd = r.lo] IN
        /\ q \in Row /\ q.id = r.id /\ q.lo = r.lo /\ q.hi = Open /\ q.upd = r.lo
  <2> SUFFICES ASSUME NEW r \in sel
               PROVE  LET q == [r EXCEPT !.hi = Open, !.upd = r.lo] IN
                      /\ q \in Row /\ q.id = r.id /\ q.lo = r.lo /\ q.hi = Open /\ q.upd = r.lo
    OBVIOUS
  <2>1. r \in Row
    BY <1>2, <1>3
  <2>2. Open \in 0 .. MaxBlock /\ r.lo \in Blocks
    BY <2>1 DEF Row, Open
  <2>3. [r EXCEPT !.hi = Open, !.upd = r.lo] \in Row
    BY <2>1, <2>2 DEF Row
  <2> QED
    BY <2>1, <2>3 DEF Row
<1>6. ASSUME NEW p \in rows'
      PROVE  \E q \in rows : /\ q.id = p.id /\ q.lo = p.lo /\ p \in Row
                             /\ q \in sel => /\ p = [q EXCEPT !.hi = Open, !.upd = q.lo]
                                             /\ p.hi = Open /\ p.upd = p.lo
                             /\ q \notin sel => p = q
  BY <1>2, <1>12, <1>3, <1>5, <1>6
<1>7. TypeOK'
  <2>1. rows' \subseteq Row
    BY <1>6
  <2>3. head' \in 0 .. MaxBlock /\ cursor' \in 0 .. MaxBlock /\ forkAt' \in 0 .. MaxBlock
    BY <1>2, <1>10
  <2> QED
    BY <1>2, <1>11, <2>1, <2>3 DEF TypeOK
<1>8. (Versions /\ OpenVersions /\ Stages)'
  <2>1. \A p \in rows' : /\ p.lo <= forkAt - 1 /\ p.hi <= forkAt - 1
                         /\ p.hi # Open => p.lo < p.hi /\ p.upd = p.hi
                         /\ p.lo <= p.upd /\ p.upd <= forkAt - 1
    <3> SUFFICES ASSUME NEW p \in rows'
                 PROVE  /\ p.lo <= forkAt - 1 /\ p.hi <= forkAt - 1
                        /\ p.hi # Open => p.lo < p.hi /\ p.upd = p.hi
                        /\ p.lo <= p.upd /\ p.upd <= forkAt - 1
      OBVIOUS
    <3>1. PICK q \in rows : /\ q.id = p.id /\ q.lo = p.lo
                            /\ q \in sel => p.hi = Open /\ p.upd = p.lo
                            /\ q \notin sel => p = q
      BY <1>6
    <3> QED
      BY <1>2, <1>10, <1>3, <1>4, <3>1 DEF Open
  <2>2. Versions'
    <3>1. head' = forkAt - 1 /\ cursor' + 1 = forkAt
      BY <1>2, <1>10
    <3>2. \A p \in rows' : p.upd <= forkAt
      <4> TAKE p \in rows'
      <4>0. p \in Row
        BY <1>6
      <4>1. p.upd \in Nat
        BY <4>0 DEF Row
      <4> QED
        BY <2>1, <1>10, <4>1
    <3> QED
      BY <2>1, <3>1, <3>2 DEF Versions
  <2>3. OpenVersions'
    BY <1>2, <1>10, <2>1 DEF OpenVersions
  <2>4. Stages'
    BY <1>2, <1>10 DEF Stages
  <2> QED
    BY <2>2, <2>3, <2>4
<1>9. NoOverlap'
  <2> SUFFICES ASSUME NEW r \in rows', NEW s \in rows', r # s, r.id = s.id, Overlap(r, s)
               PROVE  FALSE
    BY DEF NoOverlap
  <2>1. PICK p \in rows : /\ p.id = r.id /\ p.lo = r.lo
                          /\ p \in sel => r = [p EXCEPT !.hi = Open, !.upd = p.lo] /\ r.hi = Open
                          /\ p \notin sel => r = p
    BY <1>6
  <2>2. PICK q \in rows : /\ q.id = s.id /\ q.lo = s.lo
                          /\ q \in sel => s = [q EXCEPT !.hi = Open, !.upd = q.lo] /\ s.hi = Open
                          /\ q \notin sel => s = q
    BY <1>6
  <2>3. ~Overlap(p, q)
    BY <1>2, <2>1, <2>2 DEF NoOverlap
  <2>4. Overlap(p, q)
    BY <1>2, <1>10, <1>3, <1>4, <2>1, <2>2 DEF Overlap, IsEmpty, Open
  <2> QED
    BY <2>3, <2>4
<1> QED
  BY <1>7, <1>8, <1>9 DEF IInv

LEMMA NextInvariant == IInv /\ [Next]_vars => IInv'
<1> SUFFICES ASSUME IInv, [Next]_vars PROVE IInv'
  OBVIOUS
<1>1. CASE SaveBlock
  BY <1>1, SaveBlockInvariant
<1>2. CASE SaveCursor
  <2>1. /\ TypeOK /\ NoOverlap /\ Versions /\ OpenVersions /\ Stages
        /\ mode = "running" /\ cursor < head /\ cursor' = head /\ cleaned' = FALSE
        /\ UNCHANGED <<rows, head, mode, forkAt>>
    BY <1>2 DEF IInv, SaveCursor
  <2>2. head = cursor + 1 /\ \A r \in rows : r.lo \in Nat /\ r.upd \in Nat
    BY <2>1 DEF TypeOK, Stages, Row, Blocks
  <2>3. TypeOK' /\ NoOverlap'
    BY <2>1 DEF TypeOK, NoOverlap
  <2>4. Versions' /\ OpenVersions' /\ Stages'
    BY <2>1, <2>2 DEF Versions, OpenVersions, Stages, TypeOK
  <2> QED
    BY <2>3, <2>4 DEF IInv
<1>3. CASE CleanDelete
  BY <1>3, CleanDeleteInvariant
<1>4. CASE CleanUpdate
  BY <1>4, CleanUpdateInvariant
<1>5. ASSUME NEW l \in Blocks, ForkDelete(l) PROVE IInv'
  BY <1>5, ForkDeleteInvariant
<1>6. CASE ForkUpdate
  BY <1>6, ForkUpdateInvariant
<1>7. CASE UNCHANGED vars
  BY <1>7 DEF vars, IInv, TypeOK, NoOverlap, Versions, OpenVersions, Stages
<1> QED
  BY <1>1, <1>2, <1>3, <1>4, <1>5, <1>6, <1>7 DEF Next

(* The inductive invariant holds in every state.                           *)
THEOREM Invariance == Spec => []IInv
BY InitInvariant, NextInvariant, PTL DEF Spec

-----------------------------------------------------------------------------
(* The rows keep their shape; no saved range is empty.                     *)
THEOREM TypeCorrect == Spec => []TypeOK
<1>1. IInv => TypeOK
  BY DEF IInv
<1> QED
  BY <1>1, Invariance, PTL

(* The uniqueness Load relies on (postgres.go:586) holds for a table that  *)
(* is written through batchSave from its own visible rows, whatever        *)
(* clean-ups are run, repeated or cut short in between.                    *)
THEOREM VersionsNeverOverlap == Spec => []NoOverlap
<1>1. IInv => NoOverlap
  BY DEF IInv
<1> QED
  BY <1>1, Invariance, PTL

(* CleanDataAtBlock deletes only what the bad block inserted, provided no  *)
(* second restart runs it again before the cursor moves.                   *)
THEOREM CleanIsExact ==
  ASSUME CrashTwice = FALSE
  PROVE  Spec => CleanDeletesOnlyBadRange
<1>1. IInv /\ [Next]_vars => [CleanDelete => \A r \in rows \ rows' : r.lo = cursor + 1]_vars
  <2> SUFFICES ASSUME IInv, CleanDelete, NEW r \in rows \ rows'
               PROVE  r.lo = cursor + 1
    OBVIOUS
  <2>1. r.hi = Open /\ r.upd = cursor + 1
    BY DEF CleanDelete, CleanDeleted, UpperIsNull, IsEmpty, IInv, Versions, TypeOK, Row, Blocks
  <2>2. ~cleaned
    BY <2>1 DEF CleanDelete, IInv, Stages
  <2> QED
    BY <2>1, <2>2 DEF IInv, OpenVersions, TypeOK
<1> QED
  BY <1>1, Invariance, PTL DEF Spec, CleanDeletesOnlyBadRange

-----------------------------------------------------------------------------
(* VersionedTable implements TemporalTable: a block saved is one write of  *)
(* the present, a clean-up or a fork is one truncation that takes effect   *)
(* with its first statement, and every other step changes nothing that a   *)
(* query can see.                                                          *)

(* The rows that a query for entity id at block b finds.                   *)
Seen(rs, id, b) == {r \in rs : r.id = id /\ Contains(r, b)}

(* The state of TemporalTable as the refinement mapping gives it.          *)
History == [id \in Ids |-> [b \in 0 .. MaxBlock |-> ValueAt(Settled, id, b)]]
Top ==
  CASE mode = "running"  -> head
    [] mode = "cleaning" -> cursor
    [] mode = "forking"  -> forkAt - 1

-----------------------------------------------------------------------------
(* The fields of a row and what the invariant says of them.                *)
LEMMA RowFields ==
  ASSUME IInv, NEW r \in rows
  PROVE  /\ r \in Row /\ r.lo \in Nat /\ r.hi \in Nat /\ r.upd \in Nat /\ r.val \in Values
         /\ r.lo >= 1 /\ r.lo <= head /\ r.hi <= head
         /\ r.hi # Open => r.lo < r.hi /\ r.upd = r.hi
         /\ r.lo <= r.upd /\ r.upd <= cursor + 1
  BY TableAssumption DEF IInv, TypeOK, Versions, Row, Blocks

(* At most one version is visible at a block: where two overlap, there is  *)
(* a block both contain, and conversely.                                   *)
LEMMA OneVisible ==
  ASSUME IInv, NEW r \in rows, NEW s \in rows, r.id = s.id,
         NEW b \in Int, Contains(r, b), Contains(s, b)
  PROVE  r = s
<1>1. /\ r.lo \in Int /\ r.hi \in Int /\ s.lo \in Int /\ s.hi \in Int
      /\ r.hi # Open => r.lo < r.hi
      /\ s.hi # Open => s.lo < s.hi
  BY RowFields
<1>2. /\ r.lo <= b /\ (r.hi = Open \/ b < r.hi)
      /\ s.lo <= b /\ (s.hi = Open \/ b < s.hi)
  BY DEF Contains
<1>3. Overlap(r, s)
  BY <1>1, <1>2 DEF Overlap, IsEmpty
<1> QED
  BY <1>3 DEF IInv, NoOverlap

(* The value that is read is the one of a row that is seen.                *)
LEMMA ValueOfSeen ==
  ASSUME NEW rs, NEW id, NEW b
  PROVE  /\ Seen(rs, id, b) = {} => ValueAt(rs, id, b) = Absent
         /\ Seen(rs, id, b) # {} => \E r \in Seen(rs, id, b) : ValueAt(rs, id, b) = r.val
<1> DEFINE seen == {r \in rs : r.id = id /\ Contains(r, b)}
<1>1. ValueAt(rs, id, b) = IF seen = {} THEN Absent ELSE (CHOOSE r \in seen : TRUE).val
  BY DEF ValueAt
<1>2. seen # {} => (CHOOSE r \in seen : TRUE) \in seen
  OBVIOUS
<1> QED
  BY <1>1, <1>2 DEF Seen

(* Rows that show the same values show the same value: what is seen in ss  *)
(* at c has its value in the table at b, and something is seen there if    *)
(* something is seen here.                                                 *)
LEMMA SameValue ==
  ASSUME IInv, NEW id, NEW b \in Int, NEW ss, NEW c,
         \A s \in Seen(ss, id, c) : \E r \in Seen(rows, id, b) : r.val = s.val,
         Seen(rows, id, b) # {} => Seen(ss, id, c) # {}
  PROVE  ValueAt(ss, id, c) = ValueAt(rows, id, b)
<1>1. CASE Seen(rows, id, b) = {}
  BY <1>1, ValueOfSeen
<1>2. CASE Seen(rows, id, b) # {}
  <2>1. PICK r \in Seen(rows, id, b) : ValueAt(rows, id, b) = r.val
    BY <1>2, ValueOfSeen
  <2>2. PICK s \in Seen(ss, id, c) : ValueAt(ss, id, c) = s.val
    BY <1>2, ValueOfSeen
  <2>3. PICK q \in Seen(rows, id, b) : q.val = s.val
    BY <2>2
  <2>4. q = r
    BY <2>1, <2>3, OneVisible DEF Seen
  <2> QED
    BY <2>1, <2>2, <2>3, <2>4
<1> QED
  BY <1>1, <1>2

-----------------------------------------------------------------------------
(* An empty table has every entity absent at every block.                  *)
LEMMA InitMaps == Init => Temporal!Init
<1> SUFFICES ASSUME Init  PROVE Temporal!Init
  OBVIOUS
<1>1. Settled = {} /\ Top = 0
  BY DEF Init, Settled, Top
<1>2. \A id \in Ids : \A b \in 0 .. MaxBlock : ValueAt(Settled, id, b) = Absent
  BY <1>1, ValueOfSeen DEF Seen
<1>3. History = [id \in Ids |-> [b \in 0 .. MaxBlock |-> Absent]]
  BY <1>2 DEF History
<1> QED
  BY <1>1, <1>3 DEF Temporal!Init, History, Top

(* A saved block gives its entities new values from that block on; an      *)
(* entity it deletes has none.                                             *)
LEMMA SaveBlockWrites ==
  ASSUME IInv, SaveBlock
  PROVE  Temporal!Write
<1> DEFINE n == head + 1
<1>1. PICK touched \in SUBSET Ids : \E dels \in SUBSET (Ids \ touched) :
        \E new \in [touched -> Values] : BatchSave(n, new, dels)
  BY DEF SaveBlock
<1>2. PICK dels \in SUBSET (Ids \ touched), new \in [touched -> Values] : BatchSave(n, new, dels)
  BY <1>1
<1>3. /\ mode = "running" /\ mode' = "running" /\ head' = n /\ head < MaxBlock
      /\ head \in Nat /\ MaxBlock \in Nat /\ n \in Blocks
  BY TableAssumption DEF SaveBlock, IInv, TypeOK, Blocks
<1>4. Settled = rows /\ Settled' = rows' /\ Top = head /\ Top' = n
  BY <1>3 DEF Settled, Top
<1> DEFINE replaced == Replaced(touched \cup dels, n)
           given == [id \in Ids |-> IF id \in touched THEN new[id] ELSE Absent]
<1>5. /\ rows' = (rows \ replaced) \cup {Closed(r, n) : r \in replaced} \cup Inserted(new, n)
      /\ DOMAIN new = touched
  BY <1>2 DEF BatchSave
<1>6. \A r \in replaced : /\ r \in rows /\ r.id \in touched \cup dels /\ r.lo < n
                          /\ r.hi = Open \/ n < r.hi
                          /\ Closed(r, n).id = r.id /\ Closed(r, n).lo = r.lo
                          /\ Closed(r, n).hi = n /\ Closed(r, n).val = r.val
  BY <1>3, RowFields DEF Replaced, Contains, Closed, Row
<1>7. \A r \in rows \ replaced :
        r.id \in touched \cup dels => r.hi # Open /\ r.hi <= head
  BY <1>3, RowFields DEF Replaced, Contains
<1>8. \A r \in Inserted(new, n) : /\ r.id \in touched /\ r.lo = n /\ r.hi = Open
                                  /\ r.val = new[r.id]
  BY <1>5 DEF Inserted
<1>9. ASSUME NEW id \in touched
      PROVE  [id |-> id, lo |-> n, hi |-> Open, upd |-> n, val |-> new[id]] \in rows'
  BY <1>5, <1>9 DEF Inserted
<1> HIDE DEF n, replaced
<1>10. ASSUME NEW id \in Ids, NEW b \in 0 .. MaxBlock
       PROVE  ValueAt(rows', id, b) =
                IF id \in touched \cup dels /\ b > head THEN given[id] ELSE ValueAt(rows, id, b)
  <2>0. b \in Nat /\ n = head + 1
    BY DEF n
  <2>1. CASE id \in touched \cup dels /\ b > head
    <3>1. \A r \in Seen(rows', id, b) : r \in Inserted(new, n)
      BY <1>3, <1>5, <1>6, <1>7, <2>0, <2>1, RowFields DEF Seen, Contains, Open
    <3>2. CASE id \in touched
      <4> DEFINE r == [id |-> id, lo |-> n, hi |-> Open, upd |-> n, val |-> new[id]]
      <4>0. r.id = id /\ n <= b /\ Contains(r, b)
        BY <1>3, <2>0, <2>1 DEF Contains
      <4>1. Seen(rows', id, b) # {}
        BY <1>9, <3>2, <4>0 DEF Seen
      <4> QED
        BY <1>8, <2>1, <3>1, <3>2, <4>1, ValueOfSeen DEF Seen
    <3>3. CASE id \notin touched
      <4>1. Seen(rows', id, b) = {}
        BY <1>8, <3>1, <3>3 DEF Seen
      <4> QED
        BY <2>1, <3>3, <4>1, ValueOfSeen
    <3> QED
      BY <3>2, <3>3
  <2>2. CASE ~(id \in touched \cup dels /\ b > head)
    <3>1. ASSUME NEW s \in Seen(rows', id, b)
          PROVE  \E r \in Seen(rows, id, b) : r.val = s.val
      <4>1. CASE s \in rows \ replaced
        BY <3>1, <4>1 DEF Seen
      <4>2. CASE s \in {Closed(r, n) : r \in replaced}
        <5>1. PICK r \in replaced : s = Closed(r, n)
          BY <4>2
        <5>2. r.id = id /\ r.val = s.val /\ r.lo <= b /\ b < n /\ r \in rows
          BY <1>3, <1>6, <2>0, <3>1, <5>1 DEF Seen, Contains, Open
        <5>3. Contains(r, b)
          BY <1>3, <1>6, <2>0, <5>1, <5>2, RowFields DEF Contains
        <5> QED
          BY <5>2, <5>3 DEF Seen
      <4>3. CASE s \in Inserted(new, n)
        BY <1>3, <1>8, <2>0, <2>2, <3>1, <4>3 DEF Seen, Contains
      <4> QED
        BY <1>5, <3>1, <4>1, <4>2, <4>3 DEF Seen
    <3>2. ASSUME NEW r \in Seen(rows, id, b)
          PROVE  Seen(rows', id, b) # {}
      <4>1. CASE r \in replaced
        <5>1. Closed(r, n) \in rows'
          BY <1>5, <4>1
        <5>2. b < n
          BY <1>3, <1>6, <2>0, <2>2, <3>2, <4>1 DEF Seen
        <5>3. Contains(Closed(r, n), b)
          BY <1>6, <3>2, <4>1, <5>2 DEF Seen, Contains
        <5> QED
          BY <1>6, <3>2, <4>1, <5>1, <5>3 DEF Seen
      <4>2. CASE r \notin replaced
        BY <1>5, <3>2, <4>2 DEF Seen
      <4> QED
        BY <4>1, <4>2
    <3>3. ValueAt(rows', id, b) = ValueAt(rows, id, b)
      BY <2>0, <3>1, <3>2, SameValue
    <3> QED
      BY <2>2, <3>3
  <2> QED
    BY <2>1, <2>2
<1>11. History' = [id \in Ids |-> [b \in 0 .. MaxBlock |->
                     IF id \in touched \cup dels /\ b > Top THEN given[id] ELSE History[id][b]]]
  BY <1>4, <1>10 DEF History
<1>12. given \in [Ids -> Values \cup {Absent}] /\ touched \cup dels \in SUBSET Ids
  OBVIOUS
<1>13. Top < MaxBlock /\ Top' = Top + 1
  BY <1>3, <1>4 DEF n
<1> QED
  BY <1>11, <1>12, <1>13 DEF Temporal!Write, History, Top

-----------------------------------------------------------------------------
(* What the clean-up of block cursor + 1 leaves, counted as settled from   *)
(* its first statement on: versions of earlier blocks, open again where    *)
(* that block had closed them.                                             *)
LEMMA CleanDeleteTruncates ==
  ASSUME IInv, CrashTwice = FALSE, CleanDelete, mode = "running"
  PROVE  Temporal!Truncate(cursor + 1) \/ (History' = History /\ Top' = Top)
<1> DEFINE bad == cursor + 1
<1>1. /\ ~cleaned /\ mode' = "cleaning" /\ cursor' = cursor
      /\ rows' = rows \ CleanDeleted(rows, bad)
      /\ cursor \in Nat /\ head \in {cursor, bad} /\ head <= MaxBlock /\ MaxBlock \in Nat
  BY TableAssumption DEF CleanDelete, IInv, TypeOK, Stages
<1>2. Settled = rows /\ Settled' = CleanReopen(rows', bad) /\ Top = head /\ Top' = cursor
  BY <1>1 DEF Settled, Top
<1>3. ASSUME NEW r \in rows
      PROVE  /\ r \in CleanDeleted(rows, bad) <=> r.lo = bad
             /\ r \in CleanReopened(rows, bad) <=> r.hi = bad
             /\ r.hi # Open => r.hi <= bad
             /\ r.lo <= bad /\ r.lo \in Nat /\ r.hi \in Nat /\ (r.hi # Open => r.lo < r.hi)
  <2>1. /\ r.lo \in Nat /\ r.hi \in Nat /\ r.upd \in Nat /\ r.lo <= head /\ r.hi <= head
        /\ r.hi # Open => r.lo < r.hi /\ r.upd = r.hi
        /\ r.lo <= r.upd /\ r.upd <= bad
    BY RowFields
  <2>2. r.hi = Open => r.upd = r.lo \/ r.upd <= cursor
    BY <1>1 DEF IInv, OpenVersions
  <2>3. r \in CleanDeleted(rows, bad) <=> r.lo = bad
    BY <1>1, <2>1, <2>2 DEF CleanDeleted, UpperIsNull, IsEmpty
  <2>4. r \in CleanReopened(rows, bad) <=> r.hi = bad
    BY <1>1, <2>1 DEF CleanReopened, Contains, UpperIs, IsEmpty, Open
  <2> QED
    BY <1>1, <2>1, <2>3, <2>4
<1> DEFINE Reopened(r) == [r EXCEPT !.hi = Open]
<1>4. \A r \in rows : Reopened(r).id = r.id /\ Reopened(r).lo = r.lo
                     /\ Reopened(r).hi = Open /\ Reopened(r).val = r.val
  BY RowFields DEF Row
<1>5. \A r \in rows' : r \in rows /\ r.lo # bad
                      /\ (r \in CleanReopened(rows', bad) <=> r.hi = bad)
  BY <1>1, <1>3 DEF CleanReopened
<1>6. \A r \in rows : r.lo # bad => r \in rows'
  BY <1>1, <1>3
<1>7. Settled' = (rows' \ CleanReopened(rows', bad))
                    \cup {Reopened(r) : r \in CleanReopened(rows', bad)}
  BY <1>2 DEF CleanReopen
<1>8. CleanReopened(rows', bad) \subseteq rows'
  BY DEF CleanReopened
<1> HIDE DEF bad, Reopened
<1>9. ASSUME NEW s \in Settled'
      PROVE  \E r \in rows : /\ r.lo # bad /\ s.id = r.id /\ s.lo = r.lo /\ s.val = r.val
                             /\ r.hi = bad => s.hi = Open
                             /\ r.hi # bad => s.hi = r.hi
  BY <1>4, <1>5, <1>9, <1>7, <1>8
<1>10. ASSUME NEW r \in rows, r.lo # bad
      PROVE  \E s \in Settled' : /\ s.id = r.id /\ s.lo = r.lo /\ s.val = r.val
                                 /\ r.hi = bad => s.hi = Open
                                 /\ r.hi # bad => s.hi = r.hi
  <2>1. r \in rows'
    BY <1>6, <1>10
  <2>2. CASE r.hi = bad
    <3>1. Reopened(r) \in Settled'
      BY <1>5, <1>7, <2>1, <2>2
    <3> QED
      BY <1>4, <2>2, <3>1
  <2>3. CASE r.hi # bad
    <3>1. r \in Settled'
      BY <1>5, <1>7, <2>1, <2>3
    <3> QED
      BY <2>3, <3>1
  <2> QED
    BY <2>2, <2>3
<1>11. ASSUME NEW id \in Ids, NEW b \in 0 .. MaxBlock, NEW c \in 0 .. MaxBlock,
             (b < bad /\ c = b) \/ (b = cursor /\ c >= bad)
      PROVE  ValueAt(Settled', id, c) = ValueAt(rows, id, b)
  <2>0. b \in Nat /\ c \in Nat /\ bad = cursor + 1 /\ bad # Open
    BY <1>1 DEF bad, Open
  <2>1. ASSUME NEW s \in Seen(Settled', id, c)
        PROVE  \E r \in Seen(rows, id, b) : r.val = s.val
    <3>1. PICK r \in rows : /\ r.lo # bad /\ s.id = r.id /\ s.lo = r.lo /\ s.val = r.val
                            /\ r.hi = bad => s.hi = Open
                            /\ r.hi # bad => s.hi = r.hi
      BY <1>9, <2>1 DEF Seen
    <3>2. Contains(r, b)
      BY <1>1, <1>3, <1>11, <2>0, <2>1, <3>1 DEF Seen, Contains
    <3> QED
      BY <2>1, <3>1, <3>2 DEF Seen
  <2>2. ASSUME NEW r \in Seen(rows, id, b)
        PROVE  Seen(Settled', id, c) # {}
    <3>1. r \in rows /\ r.id = id /\ r.lo <= b /\ (r.hi = Open \/ b < r.hi) /\ r.lo # bad
      BY <1>1, <1>11, <2>0 DEF Seen, Contains
    <3>2. PICK s \in Settled' : /\ s.id = r.id /\ s.lo = r.lo
                                /\ r.hi = bad => s.hi = Open
                                /\ r.hi # bad => s.hi = r.hi
      BY <1>10, <3>1
    <3>3. Contains(s, c)
      BY <1>1, <1>3, <1>11, <2>0, <3>1, <3>2 DEF Contains
    <3> QED
      BY <3>1, <3>2, <3>3 DEF Seen
  <2> QED
    BY <2>0, <2>1, <2>2, SameValue
<1>12. CASE head = bad
  <2>1. bad \in 1 .. MaxBlock /\ cursor \in 0 .. MaxBlock /\ bad - 1 = cursor
    BY <1>1, <1>12 DEF bad
  <2>2. History' = [id \in Ids |-> [b \in 0 .. MaxBlock |->
                      IF b < bad THEN History[id][b] ELSE History[id][bad - 1]]]
    <3>1. ASSUME NEW id \in Ids, NEW b \in 0 .. MaxBlock
          PROVE  ValueAt(Settled', id, b) = IF b < bad THEN ValueAt(Settled, id, b)
                                                       ELSE ValueAt(Settled, id, bad - 1)
      BY <1>1, <1>2, <1>11, <2>1
    <3> QED
      BY <2>1, <3>1 DEF History
  <2>3. bad <= Top /\ Top' = bad - 1
    BY <1>1, <1>2, <1>12, <2>1
  <2> QED
    BY <2>2, <2>3 DEF Temporal!Truncate, History, Top, bad
<1>13. CASE head = cursor
  <2>1. \A r \in rows : r.lo # bad /\ r.hi # bad
    BY <1>1, <1>13, RowFields DEF bad
  <2>2. CleanDeleted(rows, bad) = {}
    BY <1>3, <2>1 DEF CleanDeleted, bad
  <2>3. rows' = rows
    BY <1>1, <2>2 DEF bad
  <2>4. CleanReopened(rows, bad) = {}
    BY <1>3, <2>1 DEF CleanReopened, bad
  <2>5. Settled' = rows
    BY <1>2, <2>3, <2>4 DEF CleanReopen
  <2> QED
    BY <1>2, <1>13, <2>5 DEF History
<1> QED
  BY <1>1, <1>12, <1>13 DEF bad

(* A fork at l drops the versions from l on and opens again those that     *)
(* reached l.                                                              *)
LEMMA ForkDeleteTruncates ==
  ASSUME IInv, NEW l \in Blocks, ForkDelete(l), mode = "running"
  PROVE  Temporal!Truncate(l)
<1>1. /\ mode' = "forking" /\ forkAt' = l /\ l <= head /\ head = cursor
      /\ rows' = rows \ ForkDeleted(rows, l)
      /\ l \in Nat /\ l >= 1 /\ l <= MaxBlock /\ head \in Nat
  BY TableAssumption DEF ForkDelete, IInv, TypeOK, Blocks
<1>2. Settled = rows /\ Settled' = ForkReopen(rows', l) /\ Top = head /\ Top' = l - 1
  BY <1>1 DEF Settled, Top
<1>3. ASSUME NEW r \in rows
      PROVE  /\ r \in ForkDeleted(rows, l) <=> r.lo >= l
             /\ r.lo < l => (r \in ForkReopened(rows, l) <=> r.upd >= l)
             /\ r.lo \in Nat /\ r.hi \in Nat /\ r.upd \in Nat
             /\ r.hi # Open => r.lo < r.hi /\ r.upd = r.hi
  <2>1. /\ r.lo \in Nat /\ r.hi \in Nat /\ r.upd \in Nat
        /\ r.hi # Open => r.lo < r.hi /\ r.upd = r.hi
        /\ r.lo <= r.upd
    BY RowFields
  <2>2. r \in ForkDeleted(rows, l) <=> r.lo >= l
    BY <1>1, <2>1 DEF ForkDeleted, Contains, LowerIs, IsEmpty, Open
  <2>3. r.lo < l => (r \in ForkReopened(rows, l) <=> r.upd >= l)
    BY <1>1, <2>1 DEF ForkReopened, Contains, UpperIs, IsEmpty, Open
  <2> QED
    BY <2>1, <2>2, <2>3
<1> DEFINE Reopened(r) == [r EXCEPT !.hi = Open, !.upd = r.lo]
<1>4. \A r \in rows : Reopened(r).id = r.id /\ Reopened(r).lo = r.lo
                     /\ Reopened(r).hi = Open /\ Reopened(r).val = r.val
  BY RowFields DEF Row
<1>5. \A r \in rows' : r \in rows /\ r.lo < l
                      /\ (r \in ForkReopened(rows', l) <=> r.upd >= l)
  BY <1>1, <1>3 DEF ForkReopened
<1>6. \A r \in rows : r.lo < l => r \in rows'
  BY <1>1, <1>3
<1>7. Settled' = (rows' \ ForkReopened(rows', l)) \cup {Reopened(r) : r \in ForkReopened(rows', l)}
  BY <1>2 DEF ForkReopen
<1>8. ForkReopened(rows', l) \subseteq rows'
  BY DEF ForkReopened
<1> HIDE DEF Reopened
<1>9. ASSUME NEW s \in Settled'
      PROVE  \E r \in rows : /\ r.lo < l /\ s.id = r.id /\ s.lo = r.lo /\ s.val = r.val
                             /\ r.upd >= l => s.hi = Open
                             /\ ~(r.upd >= l) => s.hi = r.hi
  BY <1>4, <1>5, <1>7, <1>8, <1>9
<1>10. ASSUME NEW r \in rows, r.lo < l
       PROVE  \E s \in Settled' : /\ s.id = r.id /\ s.lo = r.lo /\ s.val = r.val
                                  /\ r.upd >= l => s.hi = Open
                                  /\ ~(r.upd >= l) => s.hi = r.hi
  <2>1. r \in rows'
    BY <1>6, <1>10
  <2>2. CASE r.upd >= l
    <3>1. Reopened(r) \in Settled'
      BY <1>5, <1>7, <2>1, <2>2
    <3> QED
      BY <1>4, <2>2, <3>1
  <2>3. CASE ~(r.upd >= l)
    <3>1. r \in Settled'
      BY <1>5, <1>7, <2>1, <2>3
    <3> QED
      BY <2>3, <3>1
  <2> QED
    BY <2>2, <2>3
<1>11. ASSUME NEW id \in Ids, NEW b \in 0 .. MaxBlock, NEW c \in 0 .. MaxBlock,
              (b < l /\ c = b) \/ (b = l - 1 /\ c >= l)
       PROVE  ValueAt(Settled', id, c) = ValueAt(rows, id, b)
  <2>0. b \in Nat /\ c \in Nat /\ b < l
    BY <1>1, <1>11
  <2>1. ASSUME NEW s \in Seen(Settled', id, c)
        PROVE  \E r \in Seen(rows, id, b) : r.val = s.val
    <3>1. PICK r \in rows : /\ r.lo < l /\ s.id = r.id /\ s.lo = r.lo /\ s.val = r.val
                            /\ r.upd >= l => s.hi = Open
                            /\ ~(r.upd >= l) => s.hi = r.hi
      BY <1>9, <2>1 DEF Seen
    <3>2. Contains(r, b)
      BY <1>1, <1>3, <1>11, <2>0, <2>1, <3>1 DEF Seen, Contains
    <3> QED
      BY <2>1, <3>1, <3>2 DEF Seen
  <2>2. ASSUME NEW r \in Seen(rows, id, b)
        PROVE  Seen(Settled', id, c) # {}
    <3>1. r \in rows /\ r.id = id /\ r.lo <= b /\ (r.hi = Open \/ b < r.hi) /\ r.lo < l
      BY <1>1, <1>3, <2>0 DEF Seen, Contains
    <3>2. PICK s \in Settled' : /\ s.id = r.id /\ s.lo = r.lo
                                /\ r.upd >= l => s.hi = Open
                                /\ ~(r.upd >= l) => s.hi = r.hi
      BY <1>10, <3>1
    <3>3. Contains(s, c)
      BY <1>1, <1>3, <1>11, <2>0, <3>1, <3>2 DEF Contains
    <3> QED
      BY <3>1, <3>2, <3>3 DEF Seen
  <2> QED
    BY <2>0, <2>1, <2>2, SameValue
<1>12. l - 1 \in 0 .. MaxBlock
  BY <1>1, TableAssumption
<1>13. History' = [id \in Ids |-> [b \in 0 .. MaxBlock |->
                    IF b < l THEN History[id][b] ELSE History[id][l - 1]]]
  <2>1. ASSUME NEW id \in Ids, NEW b \in 0 .. MaxBlock
        PROVE  ValueAt(Settled', id, b) = IF b < l THEN ValueAt(Settled, id, b)
                                                   ELSE ValueAt(Settled, id, l - 1)
    BY <1>1, <1>2, <1>11, <1>12
  <2> QED
    BY <1>12, <2>1 DEF History
<1> QED
  BY <1>1, <1>2, <1>13 DEF Temporal!Truncate, History, Top

-----------------------------------------------------------------------------
(* A clean-up or a fork that is taken up again, its second statement and   *)
(* the commit of the cursor change nothing that a query sees.              *)
LEMMA OtherStepsStutter ==
  ASSUME IInv,
         \/ SaveCursor \/ CleanUpdate \/ ForkUpdate
         \/ CleanDelete /\ mode = "cleaning"
         \/ \E l \in Blocks : ForkDelete(l) /\ mode = "forking"
  PROVE  History' = History /\ Top' = Top
<1>1. CASE SaveCursor
  BY <1>1 DEF SaveCursor, Settled, History, Top
<1>2. CASE CleanUpdate
  BY <1>2 DEF CleanUpdate, Settled, History, Top
<1>3. CASE ForkUpdate
  BY <1>3 DEF ForkUpdate, Settled, History, Top
<1>4. CASE CleanDelete /\ mode = "cleaning"
  <2>1. \A r \in rows : ~(UpperIsNull(r) /\ r.upd = cursor + 1)
    BY <1>4, RowFields DEF IInv, Stages, UpperIsNull, IsEmpty
  <2>2. rows' = rows
    BY <1>4, <2>1 DEF CleanDelete, CleanDeleted
  <2> QED
    BY <1>4, <2>2 DEF CleanDelete, Settled, History, Top
<1>5. ASSUME NEW l \in Blocks, ForkDelete(l), mode = "forking"
      PROVE  History' = History /\ Top' = Top
  <2>1. l = forkAt /\ mode' = mode /\ forkAt' = forkAt /\ l \in Nat
    BY <1>5, TableAssumption DEF ForkDelete, Blocks
  <2>2. \A r \in rows : r \notin ForkDeleted(rows, l)
    <3> SUFFICES ASSUME NEW r \in rows  PROVE r \notin ForkDeleted(rows, l)
      OBVIOUS
    <3>1. /\ r.lo < l /\ r.lo \in Nat /\ r.hi \in Nat /\ r.upd \in Nat
          /\ r.hi # Open => r.upd = r.hi
      BY <1>5, <2>1, RowFields DEF IInv, Stages
    <3> QED
      BY <2>1, <3>1 DEF ForkDeleted, Contains, LowerIs
  <2>3. rows' = rows
    BY <1>5, <2>2 DEF ForkDelete, ForkDeleted
  <2> QED
    BY <1>5, <2>1, <2>3 DEF Settled, History, Top
<1> QED
  BY <1>1, <1>2, <1>3, <1>4, <1>5

(* Every step writes, truncates or stutters.                               *)
LEMMA StepMaps ==
  ASSUME IInv, CrashTwice = FALSE, [Next]_vars
  PROVE  Temporal!Next \/ (History' = History /\ Top' = Top)
<1>1. CASE SaveBlock
  BY <1>1, SaveBlockWrites DEF Temporal!Next
<1>2. CASE CleanDelete /\ mode = "running"
  <2>1. ASSUME Temporal!Truncate(cursor + 1)  PROVE cursor + 1 \in 1 .. MaxBlock
    <3>1. cursor + 1 <= Top /\ Top = head
      BY <1>2, <2>1 DEF Temporal!Truncate, Top
    <3> QED
      BY <3>1, TableAssumption DEF IInv, TypeOK
  <2> QED
    BY <1>2, <2>1, CleanDeleteTruncates DEF Temporal!Next
<1>3. ASSUME NEW l \in Blocks, ForkDelete(l), mode = "running"
      PROVE  Temporal!Next
  BY <1>3, ForkDeleteTruncates DEF Temporal!Next, Blocks
<1>4. CASE UNCHANGED vars
  BY <1>4 DEF vars, Settled, History, Top
<1>5. CASE SaveCursor \/ CleanUpdate \/ ForkUpdate
  BY <1>5, OtherStepsStutter
<1>6. CASE CleanDelete /\ mode # "running"
  BY <1>6, OtherStepsStutter DEF CleanDelete
<1>7. ASSUME NEW l \in Blocks, ForkDelete(l), mode # "running"
      PROVE  History' = History /\ Top' = Top
  BY <1>7, OtherStepsStutter DEF ForkDelete
<1> QED
  BY <1>1, <1>2, <1>3, <1>4, <1>5, <1>6, <1>7 DEF Next

(* The table keeps what TemporalTable promises, provided no second restart *)
(* runs CleanDataAtBlock again before the cursor moves.                    *)
THEOREM TableIsTemporal ==
  ASSUME CrashTwice = FALSE
  PROVE  Spec => ImplementsTemporalTable
<1>1. Init => Temporal!Init
  BY InitMaps
<1>2. IInv /\ [Next]_vars => [Temporal!Next]_<<History, Top>>
  BY StepMaps
<1> QED
  BY <1>1, <1>2, Invariance, PTL DEF Spec, ImplementsTemporalTable, Temporal!Spec, History, Top
=============================================================================
