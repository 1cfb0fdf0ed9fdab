-------------------------- MODULE SubstreamsStore --------------------------
(***************************************************************************)
(* The key-value stores of the Substreams engine, as the handlers use      *)
(* them.  A store is a record: kv maps a key to its value after the        *)
(* current block, deltas lists what the block did to it.  A key that the   *)
(* code formats as "a:b:c" is the tuple <<"a", b, c>>.                     *)
(***************************************************************************)
EXTENDS Integers, Sequences, SequencesExt, Decimals

CONSTANT Absent   \* what a read of a missing key returns, and an empty text

(* The loops of the handlers: what each element of a list is turned into,  *)
(* one after the other.  Where is SelectSeq in a form proofs can unfold.   *)
Each(seq, Convert(_)) == FlattenSeq([i \in DOMAIN seq |-> Convert(seq[i])])
Where(seq, Test(_)) == Each(seq, LAMBDA x : IF Test(x) THEN <<x>> ELSE <<>>)

EmptyStore == [kv |-> <<>>, deltas |-> <<>>]

(* The engine drops the deltas of the block before.                        *)
NextBlock(store) == [store EXCEPT !.deltas = <<>>]

Has(store, key) == key \in DOMAIN store.kv
GetLast(store, key) == IF Has(store, key) THEN store.kv[key] ELSE Absent

(* The value at an ordinal: the first later delta of the key is undone.    *)
GetAt(store, ord, key) ==
  LET later == {i \in DOMAIN store.deltas :
                  store.deltas[i].key = key /\ store.deltas[i].ord > ord}
  IN IF later = {} THEN GetLast(store, key) ELSE store.deltas[Min(later)].old

Put(store, ord, key, value) ==
  [kv |-> [k \in DOMAIN store.kv \cup {key} |-> IF k = key THEN value ELSE store.kv[k]],
   deltas |-> Append(store.deltas,
                [op |-> IF Has(store, key) THEN "UPDATE" ELSE "CREATE", ord |-> ord,
                 key |-> key, old |-> GetLast(store, key), new |-> value])]

SetIfNotExists(store, ord, key, value) ==
  IF Has(store, key) THEN store ELSE Put(store, ord, key, value)

(* writes is a sequence of <<ordinal, key, value>>.                        *)
PutAll(store, writes) ==
  FoldLeft(LAMBDA s, w : Put(s, w[1], w[2], w[3]), store, writes)

(* add: how two values add up is the store's valueType in the manifest.    *)
AddValues(valueType, x, y) == IF valueType = "bigfloat" THEN Plus(x, y) ELSE x + y
Added(store, valueType, key, value) ==
  IF Has(store, key) THEN AddValues(valueType, store.kv[key], value) ELSE value
AddAll(store, writes, valueType) ==
  FoldLeft(LAMBDA s, w : Put(s, w[1], w[2], Added(s, valueType, w[2], w[3])), store, writes)

(* delete_prefix of "first:second:" at ordinal 0.                          *)
DeleteKey(key, store) ==
  [kv |-> [k \in DOMAIN store.kv \ {key} |-> store.kv[k]],
   deltas |-> Append(store.deltas,
     [op |-> "DELETE", ord |-> 0, key |-> key, old |-> store.kv[key], new |-> Absent])]
DeletePrefix(store, first, second) ==
  FoldSet(DeleteKey, store, {k \in DOMAIN store.kv : k[1] = first /\ k[2] = second})

(* Several prefixes <<first, second>>.                                     *)
DeletePrefixes(store, prefixes) ==
  FoldLeft(LAMBDA s, p : DeletePrefix(s, p[1], p[2]), store, prefixes)

=============================================================================
