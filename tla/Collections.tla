---------------------------- MODULE Collections ----------------------------
(***************************************************************************)
(* The VecDeque<i64> and the BTreeMap<str, i64> of                         *)
(* src/stdlib/runtime/nucleor_llvm_rt.c.  The deque is a ring that moves   *)
(* into a larger one when it is full; the map is an array kept in the      *)
(* order of its keys, searched by halving.  Keys are integers, in the      *)
(* order strcmp gives strings; positions are from 0 as in the code.        *)
(***************************************************************************)
EXTENDS Integers, FiniteSets, Sequences, SequencesExt

CONSTANTS Items,       \* what the deque holds
          Keys, Values,
          LeastCap,    \* 16 in the code: the slots of a new deque
          Junk,        \* a slot that was never written
          MaxLen       \* bound on the deque

CollectionsAssumption == LeastCap \in Nat \ {0} /\ Keys \subseteq Int

VARIABLES data, head, len,   \* NVecDeque; its cap is the size of data
          keys, vals,        \* NBTreeMap, as two sequences
          queued, mapped     \* not in the code: what should be in the deque and in the map

deque == <<data, head, len, queued>>
map == <<keys, vals, mapped>>
vars == <<deque, map>>

Init ==
  /\ data = [i \in 0 .. LeastCap - 1 |-> Junk] /\ head = 0 /\ len = 0
  /\ queued = <<>>
  /\ keys = <<>> /\ vals = <<>>
  /\ mapped = {}

-----------------------------------------------------------------------------
(* The deque *)

Ring == [data |-> data, head |-> head, len |-> len]
CapOf(r) == Cardinality(DOMAIN r.data)
Nth(r, i) == r.data[(r.head + i) % CapOf(r)]

Grown(r) ==
  [data |-> [i \in 0 .. 2 * CapOf(r) - 1 |-> IF i < r.len THEN Nth(r, i) ELSE Junk], head |-> 0, len |-> r.len]

Roomy(r) == IF r.len >= CapOf(r) THEN Grown(r) ELSE r

Become(r) == data' = r.data /\ head' = r.head /\ len' = r.len /\ UNCHANGED map

PushBack(x) ==
  LET r == Roomy(Ring)
  IN /\ len < MaxLen
     /\ Become([r EXCEPT !.data[(r.head + r.len) % CapOf(r)] = x, !.len = @ + 1])
     /\ queued' = Append(queued, x)

PushFront(x) ==
  LET r == Roomy(Ring)
      before == (r.head + CapOf(r) - 1) % CapOf(r)
  IN /\ len < MaxLen
     /\ Become([data |-> [r.data EXCEPT ![before] = x], head |-> before, len |-> r.len + 1])
     /\ queued' = <<x>> \o queued

PopFront ==
  /\ len > 0
  /\ Become([Ring EXCEPT !.head = (head + 1) % CapOf(Ring), !.len = @ - 1])
  /\ queued' = Tail(queued)

PopBack ==
  /\ len > 0
  /\ Become([Ring EXCEPT !.len = @ - 1])
  /\ queued' = Front(queued)

SetItem(i, x) ==
  /\ Become([Ring EXCEPT !.data[(head + i) % CapOf(Ring)] = x])
  /\ queued' = [queued EXCEPT ![i + 1] = x]

ClearDeque ==
  /\ Become([Ring EXCEPT !.head = 0, !.len = 0])
  /\ queued' = <<>>

-----------------------------------------------------------------------------
(* The sorted map *)

\* The position of k, or -(p + 1) for the position p where it belongs.
BSearch(k) ==
  LET from[r \in (0 .. Len(keys)) \X (-1 .. Len(keys) - 1)] ==
        LET lo == r[1]
            hi == r[2]
            mid == (lo + hi) \div 2
        IN IF lo > hi THEN -(lo + 1)
           ELSE IF keys[mid + 1] = k THEN mid
           ELSE IF keys[mid + 1] < k THEN from[<<mid + 1, hi>>] ELSE from[<<lo, mid - 1>>]
  IN from[<<0, Len(keys) - 1>>]

MapInsert(k, v) ==
  LET at == BSearch(k)
  IN /\ IF at >= 0
        THEN /\ vals' = [vals EXCEPT ![at + 1] = v]
             /\ UNCHANGED keys
        ELSE /\ keys' = InsertAt(keys, -at, k)
             /\ vals' = InsertAt(vals, -at, v)
     /\ mapped' = {p \in mapped : p[1] # k} \cup {<<k, v>>}
     /\ UNCHANGED deque

MapRemove(k) ==
  LET at == BSearch(k)
  IN /\ keys' = IF at < 0 THEN keys ELSE RemoveAt(keys, at + 1)
     /\ vals' = IF at < 0 THEN vals ELSE RemoveAt(vals, at + 1)
     /\ mapped' = {p \in mapped : p[1] # k}
     /\ UNCHANGED deque

MapClear ==
  /\ keys' = <<>> /\ vals' = <<>> /\ mapped' = {}
  /\ UNCHANGED deque

Next ==
  \/ \E x \in Items : PushBack(x) \/ PushFront(x)
  \/ PopFront \/ PopBack \/ ClearDeque
  \/ \E i \in 0 .. len - 1, x \in Items : SetItem(i, x)
  \/ \E k \in Keys, v \in Values : MapInsert(k, v)
  \/ \E k \in Keys : MapRemove(k)
  \/ MapClear

Spec == Init /\ [][Next]_vars

-----------------------------------------------------------------------------
(***************************************************************************)
(* Read by position, the deque has the items pushed and not yet popped, in *)
(* order, wherever the ring wrapped and however often it moved.            *)
(***************************************************************************)
DequeInOrder == len = Len(queued) /\ \A i \in 0 .. len - 1 : Nth(Ring, i) = queued[i + 1]

(***************************************************************************)
(* By position the map has its pairs in the order of the keys, and the     *)
(* search finds those keys and no other.                                   *)
(***************************************************************************)
MapInOrder ==
  /\ {<<keys[i], vals[i]>> : i \in DOMAIN keys} = mapped
  /\ \A i \in 1 .. Len(keys) - 1 : keys[i] < keys[i + 1]
  /\ \A k \in Keys : BSearch(k) >= 0 <=> \E p \in mapped : p[1] = k
=============================================================================
