------------------------------ MODULE HashMap ------------------------------
(***************************************************************************)
(* The HashMap<str, i64> of src/stdlib/runtime/nucleor_llvm_rt.c: open     *)
(* addressing with linear probing, in a table that doubles when it would   *)
(* be more than half full, and from which a removal lifts out and puts     *)
(* back the run of pairs that follows.  A key is any value with a hash;    *)
(* allocation succeeds.                                                    *)
(***************************************************************************)
EXTENDS Integers, FiniteSets, SequencesExt, TLC

CONSTANTS Keys, Values,
          Hashes,      \* what the hash function may be
          LeastCap,    \* 16 in the code: the slots of a new map
          Vacant       \* a slot that is not occupied

HashMapAssumption ==
  /\ Hashes \subseteq [Keys -> Nat]
  /\ LeastCap \in Nat \ {0, 1}

VARIABLES hash, slots, len,
          dict           \* not in the code: the pairs that operations put and did not remove

vars == <<hash, slots, len, dict>>

\* The map as one value, for the operations that are built from others.
Table == [slots |-> slots, len |-> len]
CapOf(t) == Cardinality(DOMAIN t.slots)
Empty(cap) == [slots |-> [i \in 0 .. cap - 1 |-> Vacant], len |-> 0]

Pair(k, v) == [key |-> k, val |-> v]
Occupied(t, i) == t.slots[i] # Vacant
Probe(t, i, n) == (i + n) % CapOf(t)

\* The search for k ends at the first slot that is free or has k.
Ends(t, k, i) == t.slots[i] = Vacant \/ t.slots[i].key = k
Place(t, k) ==
  LET n == CHOOSE n \in 0 .. CapOf(t) - 1 :
             /\ Ends(t, k, Probe(t, hash[k], n))
             /\ \A m \in 0 .. n - 1 : ~Ends(t, k, Probe(t, hash[k], m))
  IN Probe(t, hash[k], n)

Stored(t, p) ==
  LET i == Place(t, p.key)
  IN [slots |-> [t.slots EXCEPT ![i] = p], len |-> IF Occupied(t, i) THEN t.len ELSE t.len + 1]

\* The pairs of a table, in the order of its slots.
Listed(t) == SelectSeq([i \in 1 .. CapOf(t) |-> t.slots[i - 1]], LAMBDA p : p # Vacant)

Grown(t) == FoldLeft(Stored, Empty(2 * CapOf(t)), Listed(t))

Inserted(t, p) == Stored(IF (t.len + 1) * 2 > CapOf(t) THEN Grown(t) ELSE t, p)

\* The slots of the run of occupied slots behind i.
RunBehind(t, i) ==
  {j \in DOMAIN t.slots : \E n \in 1 .. CapOf(t) - 1 :
     /\ j = Probe(t, i, n)
     /\ \A m \in 1 .. n : Occupied(t, Probe(t, i, m))}

\* Mutant: the pairs behind stay where they are.
RemovedAlone(t, k) ==
  LET i == Place(t, k) IN [slots |-> [t.slots EXCEPT ![i] = Vacant], len |-> t.len - 1]

\* The slot and the run behind it are emptied, and the run put back in order.
Removed(t, k) ==
  LET i == Place(t, k)
      run == RunBehind(t, i)
      stash == [n \in 1 .. Cardinality(run) |-> t.slots[Probe(t, i, n)]]
      left == [slots |-> [j \in run \cup {i} |-> Vacant] @@ t.slots, len |-> t.len - 1 - Cardinality(run)]
  IN FoldLeft(Inserted, left, stash)

RECURSIVE Roomy(_, _)
Roomy(cap, n) == IF cap \div 2 < n THEN Roomy(2 * cap, n) ELSE cap
Cloned(t) == FoldLeft(Inserted, Empty(Roomy(LeastCap, t.len)), Listed(t))

-----------------------------------------------------------------------------
Has(k) == Occupied(Table, Place(Table, k))
Get(k) == slots[Place(Table, k)].val

Become(t) == slots' = t.slots /\ len' = t.len /\ UNCHANGED hash

Init ==
  /\ hash \in Hashes
  /\ slots = Empty(LeastCap).slots /\ len = 0
  /\ dict = <<>>

Insert(k, v) ==
  /\ Become(Inserted(Table, Pair(k, v)))
  /\ dict' = (k :> v) @@ dict

RemoveKey(k) ==
  /\ Become(IF Has(k) THEN Removed(Table, k) ELSE Table)
  /\ dict' = [l \in DOMAIN dict \ {k} |-> dict[l]]

Clear ==
  /\ Become(Empty(CapOf(Table)))
  /\ dict' = <<>>

\* The caller goes on with the clone.
Clone ==
  /\ Become(Cloned(Table))
  /\ UNCHANGED dict

\* The map takes in the pairs of a new map with the keys k and l.
Merge(k, l, v) ==
  LET source == Inserted(Inserted(Empty(LeastCap), Pair(k, v)), Pair(l, v))
  IN /\ Become(FoldLeft(Inserted, Table, Listed(source)))
     /\ dict' = (k :> v) @@ (l :> v) @@ dict

Next ==
  \/ \E k \in Keys, v \in Values : Insert(k, v)
  \/ \E k \in Keys : RemoveKey(k)
  \/ \E k, l \in Keys, v \in Values : Merge(k, l, v)
  \/ Clear \/ Clone

Spec == Init /\ [][Next]_vars

-----------------------------------------------------------------------------
(***************************************************************************)
(* Whatever collides, grows or was removed, every key is found with the    *)
(* value last put under it exactly if it was not removed since, len counts *)
(* them, and at least half of the slots are free, so a search ends.        *)
(***************************************************************************)
MapAnswersRight ==
  /\ len = Cardinality(DOMAIN dict) /\ len = Len(Listed(Table))
  /\ 2 * len <= CapOf(Table)
  /\ \A k \in Keys : IF k \in DOMAIN dict THEN Has(k) /\ Get(k) = dict[k] ELSE ~Has(k)
=============================================================================
