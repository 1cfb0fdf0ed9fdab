---------------------------- MODULE TemporalTable ----------------------------
(***************************************************************************)
(* What an entity table of graph-node promises to whoever queries it: the  *)
(* value of every entity at every block.  A block writes the present and   *)
(* never the past; undoing blocks restores the value of the last block     *)
(* that stands.                                                            *)
(***************************************************************************)
EXTENDS Integers

CONSTANTS
  Ids,          \* the entities of the table
  Values,       \* the values an entity may have
  Absent,       \* the value of an entity that does not exist
  MaxBlock      \* bound: the blocks are 1 .. MaxBlock

VARIABLES
  hist,         \* hist[id][b]: the value of id as of block b
  top           \* the last block written

Init ==
  /\ hist = [id \in Ids |-> [b \in 0 .. MaxBlock |-> Absent]]
  /\ top = 0

(* Block top + 1 gives some entities new values, from that block on.       *)
Write ==
  /\ top < MaxBlock
  /\ top' = top + 1
  /\ \E new \in [Ids -> Values \cup {Absent}], touched \in SUBSET Ids :
       hist' = [id \in Ids |-> [b \in 0 .. MaxBlock |->
                  IF id \in touched /\ b > top THEN new[id] ELSE hist[id][b]]]

(* The blocks from l on are undone.                                        *)
Truncate(l) ==
  /\ l <= top
  /\ top' = l - 1
  /\ hist' = [id \in Ids |-> [b \in 0 .. MaxBlock |->
                IF b < l THEN hist[id][b] ELSE hist[id][l - 1]]]

Next == Write \/ \E l \in 1 .. MaxBlock : Truncate(l)

Spec == Init /\ [][Next]_<<hist, top>>
=============================================================================
