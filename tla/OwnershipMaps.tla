--------------------------- MODULE OwnershipMaps ---------------------------
(***************************************************************************)
(* The ownership map of a function under check_stmt of                     *)
(* src/compiler/s1/check_own.nr, and the warm indices that sym_get and     *)
(* own_put_i_full keep of long maps (src/stdlib/runtime/nucleor_llvm_rt.c).*)
(*                                                                         *)
(* A map is a vector of pairs [key, val], named by its address.  A branch  *)
(* takes snapshots of the map, restores it, joins what its arms left and   *)
(* frees the snapshots, whose addresses later vectors may get.  A few      *)
(* recently used maps have an index from key to position, found by the     *)
(* address.  Keys are pairs of a family ("os", "freed", ...) and a name.   *)
(***************************************************************************)
EXTENDS Integers, Sequences, SequencesExt, FiniteSetsExt

CONSTANTS Writes,      \* what statements put: pairs of a key and a value
          Ways,        \* NUC_SYM_AUX_WAYS
          WarmFrom,    \* maps of so many pairs get an index
          HashFrom,    \* and of so many, a table of their own in a join
          Reuse,       \* malloc gives freed addresses out again
          MaxBranches, MaxDepth, MaxWrites   \* bounds

OwnershipAssumption ==
  /\ Ways \in Nat \ {0} /\ WarmFrom \in Nat \ {0} /\ HashFrom \in Nat
  /\ MaxBranches \in Nat /\ \A w \in Writes : w[2] \in Int

VARIABLES vec,       \* address -> pairs of the vector there
          warm,      \* g_sym_aux_slots, least recently used first: [map, index, built]
          taken,     \* addresses ever handed out: 1 .. taken
          branches,  \* open branches, innermost last: [kind, at, snap, other, joined]
          opened, writes,  \* branches and writes so far
          misfiled  \* addresses given to a map while an index was filed under them;
                    \* no step reads it

vars == <<vec, warm, taken, branches, opened, writes, misfiled>>

Own == 1           \* the map of the function
Addresses == 1 .. 1 + 3 * MaxBranches
Keys == {w[1] : w \in Writes}
Missing == -1

-----------------------------------------------------------------------------
(* Lookup without an index: the last pair with the key. *)

Places(v, k) == {i \in DOMAIN v : v[i].key = k}
Scan(v, k) == IF Places(v, k) = {} THEN Missing ELSE v[Max(Places(v, k))].val

(* The warm indices; s stands for vec and warm. *)

SlotOf(s, m) == {i \in DOMAIN s.warm : s.warm[i].map = m}
IsWarm(s, m) == SlotOf(s, m) # {}
PlaceOf(s, m) == CHOOSE i \in SlotOf(s, m) : TRUE
Slot(s, m) == s.warm[PlaceOf(s, m)]
Used(s, slot) == Append(RemoveAt(s.warm, PlaceOf(s, slot.map)), slot)

\* The pairs beyond built enter the index, later ones over earlier ones.
CaughtUp(slot, v) ==
  LET new == {v[i].key : i \in slot.built + 1 .. Len(v)}
      index == [k \in new \cup DOMAIN slot.index |->
                  IF k \in new THEN Max(Places(v, k)) ELSE slot.index[k]]
  IN [slot EXCEPT !.index = index, !.built = Len(v)]

\* __nucleor_hashmap_insert(h, key, at)
Inserted(slot, key, at) ==
  [slot EXCEPT !.index =
     [k \in {key} \cup DOMAIN slot.index |-> IF k = key THEN at ELSE slot.index[k]]]

\* Mutant: the index is emptied, but not how far it was built.
CreatedUnreset(s, m) ==
  IF IsWarm(s, m) THEN s
  ELSE [s EXCEPT !.warm = Append(IF Len(@) = Ways THEN Tail(@) ELSE @,
                                 [map |-> m, index |-> <<>>, built |-> IF Len(@) = Ways THEN Head(@).built ELSE 0])]

\* A map without a slot takes the place of the least recently used one.
Created(s, m) ==
  IF IsWarm(s, m) THEN s
  ELSE [s EXCEPT !.warm = Append(IF Len(@) = Ways THEN Tail(@) ELSE @, [map |-> m, index |-> <<>>, built |-> 0])]

\* What sym_get leaves of the indices, and what it answers.
AfterGet(s, m) ==
  LET t == Created(s, m)
  IN IF Len(s.vec[m]) < WarmFrom THEN s ELSE [t EXCEPT !.warm = Used(t, CaughtUp(Slot(t, m), t.vec[m]))]

IndexHolds(slot, v, k) == slot.index[k] <= Len(v) /\ v[slot.index[k]].key = k

Lookup(s, m, k) ==
  LET v == s.vec[m]
      slot == Slot(AfterGet(s, m), m)
  IN IF Len(v) < WarmFrom THEN Scan(v, k)
     ELSE IF k \notin DOMAIN slot.index THEN Missing
     ELSE IF IndexHolds(slot, v, k) THEN v[slot.index[k]].val ELSE Scan(v, k)

Push(s, m, k, val) == [s EXCEPT !.vec[m] = Append(@, [key |-> k, val |-> val])]

Put(s, m, k, val) ==
  LET v == s.vec[m]
      slot == CaughtUp(Slot(s, m), v)
      at == IF IsWarm(s, m) /\ k \in DOMAIN slot.index /\ IndexHolds(slot, v, k)
            THEN slot.index[k] ELSE Max(Places(v, k))
      known == IF IsWarm(s, m) /\ k \notin DOMAIN slot.index THEN FALSE ELSE Places(v, k) # {}
      t == IF known THEN [s EXCEPT !.vec[m][at].val = val] ELSE Push(s, m, k, val)
      kept == IF known THEN Inserted(slot, k, at)
              ELSE IF k \in DOMAIN slot.index THEN slot
              ELSE [Inserted(slot, k, Len(v) + 1) EXCEPT !.built = Len(v) + 1]
  IN IF IsWarm(s, m) THEN [t EXCEPT !.warm = Used(s, kept)] ELSE t

Restore(s, m, snap) ==
  LET t == [s EXCEPT !.vec[m] = s.vec[snap]]
  IN IF IsWarm(s, m) THEN [t EXCEPT !.warm = Used(s, [map |-> m, index |-> <<>>, built |-> 0])] ELSE t

-----------------------------------------------------------------------------
(* The join of two arms a and b into the map m *)

\* What the join of one key puts, from its values in the arms.
Joined(k, va, vb) ==
  CASE k[1] = "os"    -> IF va = 2 /\ vb = 2 THEN <<<<k, 2>>>>
                         ELSE IF 2 \in {va, vb}
                         THEN <<<<k, IF va = 2 THEN vb ELSE va>>, <<<<"cond", k[2]>>, 1>>>> ELSE <<>>
    [] k[1] = "cond"  -> IF 1 \in {va, vb} THEN <<<<k, 1>>>> ELSE <<>>
    [] k[1] = "freed" -> IF va = 1 /\ vb = 1 THEN <<<<k, 1>>>>
                         ELSE IF va > 0 \/ vb > 0 THEN <<<<k, 2>>>> ELSE <<>>
    [] k[1] = "init"  -> <<<<k, IF va = 1 /\ vb = 1 THEN 1 ELSE 0>>>>
    [] k[1] = "by"    -> <<>>
    [] OTHER          -> IF 2 \in {va, vb} THEN <<<<k, 2>>>> ELSE <<>>

State(k) == k[1] \in {"os", "cond", "freed", "by", "init"}
AtLeast0(n) == IF n < 0 THEN 0 ELSE n

\* Both arms are asked who freed the name, and the first answer is put.
JoinFreedBy(s, m, a, b, by) ==
  LET t == AfterGet(s, a)
      byA == Lookup(s, a, by)
      byB == Lookup(t, b, by)
      u == AfterGet(t, b)
  IN IF byA > 0 THEN Put(u, m, by, byA) ELSE IF byB > 0 THEN Put(u, m, by, byB) ELSE u

JoinKey(s, m, a, b, k, va, vb) ==
  LET puts == Joined(k, AtLeast0(va), AtLeast0(vb))
      first == Put(s, m, puts[1][1], puts[1][2])
      both == IF Len(puts) = 1 THEN first ELSE Put(first, m, puts[2][1], puts[2][2])
  IN IF puts = <<>> THEN s
     ELSE IF k[1] = "freed" THEN JoinFreedBy(both, m, a, b, <<"by", k[2]>>) ELSE both

\* One pair of the arm a, whose key is looked up in the other arm.
JoinPair(s, m, a, b, p) == JoinKey(AfterGet(s, b), m, a, b, p.key, p.val, Lookup(s, b, p.key))

\* One pair of the arm b.  Its key was joined already when the arm a has it; long
\* arms have a table of their keys for this question.
JoinMissing(s, m, a, b, p) ==
  LET hashed == Len(s.vec[a]) >= HashFrom
      t == IF hashed THEN s ELSE AfterGet(s, a)
      inA == IF hashed THEN Places(s.vec[a], p.key) # {} ELSE Lookup(s, a, p.key) >= 0
  IN IF ~State(p.key) THEN s ELSE IF inA THEN t ELSE JoinKey(t, m, a, b, p.key, 0, p.val)

-----------------------------------------------------------------------------
Maps == [vec |-> vec, warm |-> warm]
Become(s) == vec' = s.vec /\ warm' = s.warm

Init ==
  /\ vec = [m \in Addresses |-> <<>>]
  /\ taken = 1
  /\ warm = <<>> /\ branches = <<>>
  /\ opened = 0 /\ writes = 0
  /\ misfiled = {}

Held == {Own} \cup UNION {{b.snap, b.other} : b \in Range(branches)}

\* The next vector goes to an address never used, or to a freed one.
Allocate(m) ==
  /\ m \in {taken + 1} \cup (IF Reuse THEN 1 .. taken \ Held ELSE {})
  /\ taken' = Max({taken, m})
  /\ misfiled' = IF IsWarm(Maps, m) THEN misfiled \cup {m} ELSE misfiled \ {m}

Inner == branches[Len(branches)]
At(step) == branches # <<>> /\ Inner.at = step
Running == branches # <<>> => Inner.at # "join"
Advance(branch) == branches' = [branches EXCEPT ![Len(branches)] = branch]
Copied(m) == [Maps EXCEPT !.vec[m] = vec[Own]]
Freed(s, ms) == [s EXCEPT !.vec = [m \in Addresses |-> IF m \in ms THEN <<>> ELSE @[m]]]

Write(w) ==
  /\ Running
  /\ writes < MaxWrites
  /\ Become(Put(Maps, Own, w[1], w[2]))
  /\ writes' = writes + 1
  /\ UNCHANGED <<taken, branches, opened, misfiled>>

\* own_get and its like look one key up.
Read ==
  /\ Running
  /\ Become(AfterGet(Maps, Own))
  /\ UNCHANGED <<taken, branches, opened, writes, misfiled>>

Open(kind) ==
  /\ Running
  /\ opened < MaxBranches /\ Len(branches) < MaxDepth
  /\ \E m \in Addresses :
       /\ Allocate(m)
       /\ Become(Copied(m))
       /\ branches' = Append(branches, [kind |-> kind, at |-> "first", snap |-> m, other |-> Own, joined |-> 0])
  /\ opened' = opened + 1
  /\ UNCHANGED writes

\* The then arm ends: its snapshot is taken, the first one restored and freed.
Else ==
  /\ At("first") /\ Inner.kind = "if"
  /\ \E m \in Addresses :
       /\ Allocate(m)
       /\ Become(Freed(Restore(Copied(m), Own, Inner.snap), {Inner.snap}))
       /\ Advance([Inner EXCEPT !.at = "second", !.snap = m])
  /\ UNCHANGED <<opened, writes>>

EndIf ==
  /\ At("second")
  /\ \E m \in Addresses :
       /\ Allocate(m)
       /\ Become(Copied(m))
       /\ Advance([Inner EXCEPT !.at = "join", !.other = m])
  /\ UNCHANGED <<opened, writes>>

\* The body of a loop joins the state before it.
EndLoop ==
  /\ At("first") /\ Inner.kind = "loop"
  /\ \E m \in Addresses :
       /\ Allocate(m)
       /\ Become(Restore(Copied(m), Own, Inner.snap))
       /\ Advance([Inner EXCEPT !.at = "join", !.other = m])
  /\ UNCHANGED <<opened, writes>>

\* The two loops of own_merge_moved, a pair at a time.
JoinFirst ==
  /\ At("join") /\ Inner.joined < Len(vec[Inner.snap])
  /\ Become(JoinPair(Maps, Own, Inner.snap, Inner.other, vec[Inner.snap][Inner.joined + 1]))
  /\ Advance([Inner EXCEPT !.joined = @ + 1])
  /\ UNCHANGED <<taken, opened, writes, misfiled>>

JoinSecond ==
  LET done == Inner.joined - Len(vec[Inner.snap])
  IN /\ At("join") /\ done \in 0 .. Len(vec[Inner.other]) - 1
     /\ Become(JoinMissing(Maps, Own, Inner.snap, Inner.other, vec[Inner.other][done + 1]))
     /\ Advance([Inner EXCEPT !.joined = @ + 1])
     /\ UNCHANGED <<taken, opened, writes, misfiled>>

\* The two snapshots are freed.
EndJoin ==
  /\ At("join") /\ Inner.joined = Len(vec[Inner.snap]) + Len(vec[Inner.other])
  /\ Become(Freed(Maps, {Inner.snap, Inner.other}))
  /\ branches' = Front(branches)
  /\ UNCHANGED <<taken, opened, writes, misfiled>>

Next ==
  \/ \E w \in Writes : Write(w)
  \/ Read
  \/ \E kind \in {"if", "loop"} : Open(kind)
  \/ Else \/ EndIf \/ EndLoop
  \/ JoinFirst \/ JoinSecond \/ EndJoin

Spec == Init /\ [][Next]_vars

-----------------------------------------------------------------------------
\* The maps the next lookup may be in: that of the function, and the arms of a join;
\* a long first arm is asked only who freed a name.
LookedUp ==
  LET pairs == Range(vec[Inner.snap]) \cup Range(vec[Inner.other])
      asked == Len(vec[Inner.snap]) < HashFrom \/ \E p \in pairs : p.key[1] = "freed"
  IN {Own} \cup (IF At("join") THEN {Inner.other} ELSE {})
           \cup (IF At("join") /\ asked THEN {Inner.snap} ELSE {})
Authoritative(m) == \A k \in Keys : Lookup(Maps, m, k) = Scan(vec[m], k)

(***************************************************************************)
(* "the lookup below is authoritative" (nucleor_llvm_rt.c:2841): whatever  *)
(* was written, restored, joined or freed before, a lookup by index in the *)
(* map of the function, or in the arms of the join that comes next, gives  *)
(* what a scan of the map gives.                                           *)
(***************************************************************************)
LookupsAreAuthoritative == \A m \in LookedUp : Authoritative(m)

(***************************************************************************)
(* However malloc chooses, that is so of the map of the function, and of   *)
(* every arm whose address carried no index when the arm got it: no write, *)
(* join, restore or free, of this map or of another, and no eviction by    *)
(* the maps that compete for the slots spoils an index rightly filed.      *)
(***************************************************************************)
RightlyFiledAreAuthoritative == \A m \in {Own} \cup (LookedUp \ misfiled) : Authoritative(m)
=============================================================================
