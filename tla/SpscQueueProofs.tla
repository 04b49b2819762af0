--------------------------- MODULE SpscQueueProofs ---------------------------
(***************************************************************************)
(* Proofs about SpscQueue for every value set, capacity and bound.         *)
(***************************************************************************)
EXTENDS SpscQueue, SequenceTheorems, TLAPS

-----------------------------------------------------------------------------
(* The arithmetic of the ring: counter c lives in slot c % capacity.       *)

\* A counter has a slot of the ring.
LEMMA SlotInRing ==
    ASSUME NEW cap \in Nat \ {0}, NEW c \in Nat
    PROVE  c % cap \in 0 .. cap - 1
  OBVIOUS

\* Counters less than one lap apart live in different slots, so a slot is
\* never shared by two counters of one window of the ring.
LEMMA SlotsDistinct ==
    ASSUME NEW cap \in Nat \ {0}, NEW i \in Nat, NEW j \in Nat,
           i < j, j < i + cap
    PROVE  i % cap # j % cap
<1> SUFFICES ASSUME i % cap = j % cap PROVE FALSE
  OBVIOUS
<1>1. /\ i = cap * (i \div cap) + (i % cap)
      /\ j = cap * (j \div cap) + (j % cap)
      /\ i \div cap \in Int /\ j \div cap \in Int
      /\ i % cap \in Int /\ j % cap \in Int
  OBVIOUS
<1> DEFINE k == j \div cap - i \div cap
<1>2. k \in Int /\ cap * k = j - i
  BY <1>1
<1>3. CASE k <= 0
  <2>1. cap * k <= 0
    BY <1>2, <1>3
  <2> QED BY <2>1, <1>2
<1>4. CASE k >= 1
  <2>1. cap * k >= cap
    BY <1>2, <1>4
  <2> QED BY <2>1, <1>2
<1> QED BY <1>2, <1>3, <1>4

(* The window h+1 .. t of a history is what a ring holds when h items were *)
(* taken out of t put in.                                                  *)

\* Extending the history extends the window at its end.
LEMMA WindowAppend ==
    ASSUME NEW S, NEW s \in Seq(S), NEW v \in S, NEW h \in 0 .. Len(s)
    PROVE  SubSeq(Append(s, v), h + 1, Len(s) + 1)
             = Append(SubSeq(s, h + 1, Len(s)), v)
<1> DEFINE w == SubSeq(s, h + 1, Len(s))
           x == SubSeq(Append(s, v), h + 1, Len(s) + 1)
<1>1. /\ Append(s, v) \in Seq(S) /\ Len(Append(s, v)) = Len(s) + 1
      /\ \A i \in 1 .. Len(s) : Append(s, v)[i] = s[i]
      /\ Append(s, v)[Len(s) + 1] = v
  OBVIOUS
<1>2. /\ w \in Seq(S) /\ Len(w) = Len(s) - h
      /\ \A i \in 1 .. Len(s) - h : w[i] = s[h + i]
  BY SubSeqProperties
<1>3. /\ x \in Seq(S) /\ Len(x) = Len(s) + 1 - h
      /\ \A i \in 1 .. Len(s) + 1 - h : x[i] = Append(s, v)[h + i]
  BY <1>1, SubSeqProperties
<1>4. /\ Append(w, v) \in Seq(S) /\ Len(Append(w, v)) = Len(s) - h + 1
      /\ \A i \in 1 .. Len(s) - h : Append(w, v)[i] = w[i]
      /\ Append(w, v)[Len(s) - h + 1] = v
  BY <1>2
<1>5. /\ Len(x) = Len(Append(w, v))
      /\ \A i \in 1 .. Len(x) : x[i] = Append(w, v)[i]
  BY <1>1, <1>2, <1>3, <1>4
<1> DEFINE y == Append(w, v)
<1>6. x \in Seq(S) /\ y \in Seq(S)
  BY <1>3, <1>4
<1>7. Len(x) = Len(y) /\ \A i \in 1 .. Len(x) : x[i] = y[i]
  BY <1>5
<1> HIDE DEF x, y
<1>8. x = y
  BY <1>6, <1>7, SeqEqual
<1> QED BY <1>8 DEF x, y

\* Taking one more item out drops the head of the window.
LEMMA WindowTail ==
    ASSUME NEW S, NEW s \in Seq(S), NEW t \in 1 .. Len(s), NEW h \in 0 .. t - 1
    PROVE  /\ SubSeq(s, h + 1, t) # <<>>
           /\ Tail(SubSeq(s, h + 1, t)) = SubSeq(s, h + 2, t)
           /\ Len(SubSeq(s, h + 1, t)) = t - h
<1>1. Len(SubSeq(s, h + 1, t)) = t - h
  BY SubSeqProperties
<1>2. Tail(SubSeq(s, h + 1, t)) = SubSeq(s, (h + 1) + 1, t)
  BY HeadTailOfSubSeq
<1> QED BY <1>1, <1>2

-----------------------------------------------------------------------------
\* How far the producer and the consumer are in the calls they are making.
Pushing == pc["producer"] \in {"push-load-head", "push-write", "push-publish"}
Popping == pc["consumer"] \in {"pop-load-tail", "pop-read", "pop-clear", "pop-release"}
Committed == pc["producer"] \in {"push-write", "push-publish"}
Taking == pc["consumer"] \in {"pop-read", "pop-clear", "pop-release"}
Holding == pc["consumer"] \in {"pop-clear", "pop-release"}

\* The threads keep to their own operations.
OwnCalls ==
    /\ pc["producer"] \in {"idle", "push-load-head", "push-write", "push-publish",
                           "len-load-tail"}
    /\ pc["consumer"] \in {"idle", "pop-load-tail", "pop-read", "pop-clear",
                           "pop-release", "len-load-tail"}
    /\ pc["monitor"] \in {"idle", "len-load-tail"}

\* The counters count the history and never drift apart by more than a ring.
Counters ==
    /\ Len(pushed) = tail
    /\ Len(popped) = head
    /\ head <= tail
    /\ tail <= head + Capacity

\* What the locals of a call in progress say of the shared counters.
Locals ==
    /\ Pushing => seen["producer"] = tail /\ val \in Values
    /\ Committed => tail < head + Capacity
    /\ Popping => seen["consumer"] = head
    /\ Taking => head < tail

\* What a length query in progress may still assume.
Lengths ==
    /\ \A t \in Threads : pc[t] = "len-load-tail" => seen[t] <= head
    /\ pc["producer"] = "len-load-tail" => tail <= seen["producer"] + Capacity
    /\ pc["consumer"] = "len-load-tail" => seen["consumer"] = head

\* Every published item that is not taken yet is in the slot of its counter.
Contents ==
    /\ \A c \in head .. tail - 1 :
          \/ buffer[Slot(c)] = pushed[c + 1]
          \/ c = head /\ pc["consumer"] = "pop-release"
    /\ pc["producer"] = "push-publish" => buffer[Slot(tail)] = val
    /\ Holding => item = pushed[head + 1]
    /\ pc["consumer"] = "pop-release" => buffer[Slot(head)] = NoItem

Delivered == \A i \in 1 .. head : popped[i] = pushed[i]

\* The inductive invariant.
RingInv ==
    /\ TypeOK /\ OwnCalls /\ Counters /\ Locals /\ Lengths
    /\ Contents /\ Delivered /\ NothingStale

-----------------------------------------------------------------------------
\* spsc_normalize_capacity never yields a ring without a slot.
LEMMA CapacityPositive == Capacity \in Nat \ {0}
  BY RequestedCapacityAssumption DEF Capacity

\* Every counter has a slot, and counters of one window have slots of their own.
LEMMA SlotFacts ==
    /\ \A c \in Nat : Slot(c) \in Slots
    /\ \A i, j \in Nat : i < j /\ j < i + Capacity => Slot(i) # Slot(j)
<1>1. ASSUME NEW c \in Nat PROVE Slot(c) \in Slots
  BY CapacityPositive, SlotInRing DEF Slot, Slots
<1>2. ASSUME NEW i \in Nat, NEW j \in Nat, i < j, j < i + Capacity
      PROVE  Slot(i) # Slot(j)
  BY <1>2, CapacityPositive, SlotsDistinct DEF Slot
<1> QED BY <1>1, <1>2

\* The empty ring satisfies the invariant.
LEMMA InitRing == Init => RingInv
<1> SUFFICES ASSUME Init PROVE RingInv
  OBVIOUS
<1> USE CapacityPositive DEF Init
<1>1. TypeOK /\ OwnCalls
  BY DEF TypeOK, OwnCalls, Threads
<1>2. Counters /\ Locals /\ Lengths
  BY DEF Counters, Locals, Lengths, Threads, Pushing, Popping, Committed, Taking
<1>3. Contents /\ Delivered /\ NothingStale
  BY DEF Contents, Delivered, NothingStale, Holding, Threads
<1> QED BY <1>1, <1>2, <1>3 DEF RingInv

(* Every step of the ring keeps the invariant.  Steps that move only a    *)
(* program counter or a local are one leaf; those that store to a counter  *)
(* or a slot are split by the conjuncts they disturb.                      *)
LEMMA StepRing == RingInv /\ [Next]_vars => RingInv'
<1> SUFFICES ASSUME RingInv, [Next]_vars PROVE RingInv'
  OBVIOUS
<1> USE CapacityPositive, SlotFacts, NoItemAssumption
    DEF RingInv, TypeOK, OwnCalls, Counters, Locals, Lengths, Contents, Delivered,
        NothingStale, Threads, Pushing, Popping, Committed, Taking, Holding,
        Goto, Begin, Return, history
<1>1. ASSUME NEW v \in Values, PushLoadTail(v) PROVE RingInv'
  BY <1>1 DEF PushLoadTail
<1>2. CASE PushFull
  BY <1>2 DEF PushFull
<1>3. CASE PushLoadHead
  BY <1>3 DEF PushLoadHead
<1>4. CASE PushWrite
  <2> USE <1>4 DEF PushWrite
  <2>1. TypeOK' /\ OwnCalls' /\ Counters' /\ Locals' /\ Lengths' /\ Delivered'
    OBVIOUS
  \* the slot of tail is not the slot of a published counter
  <2>2. /\ buffer'[Slot(tail)] = val
        /\ \A c \in head .. tail - 1 : buffer'[Slot(c)] = buffer[Slot(c)]
    OBVIOUS
  <2>3. Contents'
    BY <2>2
  <2>4. NothingStale'
    OBVIOUS
  <2> QED BY <2>1, <2>3, <2>4
<1>5. CASE PushPublish
  <2> USE <1>5 DEF PushPublish
  <2>1. /\ pushed' \in Seq(Values) /\ Len(pushed') = tail'
        /\ tail' = tail + 1 /\ pushed'[tail + 1] = val
        /\ \A c \in head .. tail - 1 : pushed'[c + 1] = pushed[c + 1]
        /\ \A i \in 1 .. head : pushed'[i] = pushed[i]
    OBVIOUS
  <2>2. TypeOK' /\ OwnCalls'
    BY <2>1
  <2>3. Counters' /\ Locals' /\ Lengths'
    BY <2>1
  <2>4. Contents' /\ Delivered'
    BY <2>1
  <2>5. NothingStale'
    BY <2>1
  <2> QED BY <2>2, <2>3, <2>4, <2>5
<1>6. CASE PopLoadHead
  BY <1>6 DEF PopLoadHead
<1>7. CASE PopEmpty
  BY <1>7 DEF PopEmpty
<1>8. CASE PopLoadTail
  BY <1>8 DEF PopLoadTail
<1>9. CASE PopRead
  <2> USE <1>9 DEF PopRead
  <2>1. item' = pushed[head + 1]
    OBVIOUS
  <2> QED BY <2>1
<1>10. CASE PopClear
  <2> USE <1>10 DEF PopClear
  <2>1. /\ buffer'[Slot(head)] = NoItem
        /\ \A c \in head + 1 .. tail : buffer'[Slot(c)] = buffer[Slot(c)]
           \/ (c = tail /\ tail = head + Capacity)
    OBVIOUS
  <2>2. TypeOK' /\ OwnCalls' /\ Counters' /\ Locals' /\ Lengths' /\ Delivered'
    OBVIOUS
  <2>3. Contents'
    BY <2>1
  <2>4. NothingStale'
    OBVIOUS
  <2> QED BY <2>2, <2>3, <2>4
<1>11. CASE PopRelease
  <2> USE <1>11 DEF PopRelease
  <2>1. /\ head' = head + 1
        /\ popped' \in Seq(Values \cup {NoItem}) /\ Len(popped') = head'
        /\ popped'[head + 1] = pushed[head + 1]
        /\ \A i \in 1 .. head : popped'[i] = popped[i]
    OBVIOUS
  <2>2. TypeOK' /\ OwnCalls' /\ Counters' /\ Locals' /\ Lengths'
    BY <2>1
  <2>3. Contents' /\ Delivered'
    BY <2>1
  \* the slot of the released counter was cleared before
  <2>4. NothingStale'
    BY <2>1
  <2> QED BY <2>2, <2>3, <2>4
<1>12. ASSUME NEW t \in Threads, LenLoadHead(t) PROVE RingInv'
  BY <1>12 DEF LenLoadHead
<1>13. ASSUME NEW t \in Threads, LenLoadTail(t) PROVE RingInv'
  BY <1>13 DEF LenLoadTail
<1>14. CASE UNCHANGED vars
  BY <1>14 DEF vars
<1> QED BY <1>1, <1>2, <1>3, <1>4, <1>5, <1>6, <1>7, <1>8, <1>9, <1>10, <1>11, <1>12,
           <1>13, <1>14
        DEF Next, Push, Pop, Length

\* The invariant holds of every reachable state of the ring, whatever its
\* capacity, its items and the interleaving of its three threads.
THEOREM RingInvariant == Spec => []RingInv
<1>1. Init => RingInv
  BY InitRing
<1>2. RingInv /\ [Next]_vars => RingInv'
  BY StepRing
<1> QED BY <1>1, <1>2, PTL DEF Spec

\* Every variable keeps its type: head and tail never leave the naturals, and
\* slots, pushes and pops hold nothing but items and the None of a slot.
THEOREM RingIsTyped == Spec => []TypeOK
<1>1. RingInv => TypeOK
  BY DEF RingInv
<1> QED BY <1>1, RingInvariant, PTL

-----------------------------------------------------------------------------
\* spsc_pop hands out the items spsc_push accepted, in their order, each
\* once and never a None.
THEOREM PopsInPushOrder == Spec => []FifoDelivery
<1>1. RingInv => FifoDelivery
  <2> SUFFICES ASSUME RingInv PROVE popped = SubSeq(pushed, 1, head)
    BY DEF FifoDelivery
  <2> DEFINE front == SubSeq(pushed, 1, head)
             S == Values \cup {NoItem}
  <2>1. /\ pushed \in Seq(S) /\ popped \in Seq(S) /\ head \in Nat
        /\ head <= Len(pushed) /\ Len(popped) = head
        /\ \A i \in 1 .. head : pushed[i] \in S /\ popped[i] = pushed[i]
    BY DEF RingInv, TypeOK, Counters, Delivered
  <2>2. /\ front \in Seq(S) /\ Len(front) = head
        /\ \A i \in 1 .. head : front[i] = pushed[i]
    BY <2>1, SubSeqProperties
  <2> HIDE DEF front, S
  <2>3. popped = front
    BY <2>1, <2>2, SeqEqual
  <2> QED BY <2>3 DEF front
<1> QED BY <1>1, RingInvariant, PTL

\* The producer's store to a slot and the consumer's load or store of the
\* same slot are never pending together: the plain memory is race-free.
THEOREM SlotsAreRaceFree == Spec => []NoSlotRace
<1>1. RingInv => NoSlotRace
  <2> SUFFICES ASSUME RingInv, pc["producer"] = "push-write",
                      pc["consumer"] \in {"pop-read", "pop-clear"}
               PROVE  Slot(seen["producer"]) # Slot(seen["consumer"])
    BY DEF NoSlotRace
  <2>1. /\ seen["producer"] = tail /\ seen["consumer"] = head
        /\ head < tail /\ tail < head + Capacity
        /\ head \in Nat /\ tail \in Nat
    BY DEF RingInv, TypeOK, Locals, Pushing, Committed, Popping, Taking
  <2> QED BY <2>1, SlotFacts
<1> QED BY <1>1, RingInvariant, PTL

\* spsc_len is never negative, and its two ends see at most capacity.
THEOREM LengthsInRange == Spec => []LengthInRange
<1>1. RingInv => LengthInRange
  BY CapacityPositive
     DEF RingInv, TypeOK, Counters, Lengths, LengthInRange, LenResult, Threads
<1> QED BY <1>1, RingInvariant, PTL

\* A slot keeps no item after the consumer released it.
THEOREM ReleasedSlotsAreEmpty == Spec => []NothingStale
<1>1. RingInv => NothingStale
  BY DEF RingInv
<1> QED BY <1>1, RingInvariant, PTL

-----------------------------------------------------------------------------
\* The abstract queue of the ring: the items published and not yet taken.
Window == SubSeq(pushed, head + 1, tail)

\* A step of the ring is an Accept (the store of tail), a Deliver (the store
\* of head) or invisible to the abstract queue.
LEMMA RingStepIsFifoStep ==
    ASSUME RingInv, [Next]_vars
    PROVE  [Fifo!Next]_(Fifo!fifoVars)
<1> USE DEF history, Goto, Begin, Return
<1>1. /\ pushed \in Seq(Values) /\ head \in Nat /\ tail \in Nat
      /\ head <= tail /\ tail = Len(pushed)
  BY DEF RingInv, TypeOK, Counters
<1>2. CASE PushPublish
  <2>1. /\ seen["producer"] = tail /\ val \in Values /\ tail < head + Capacity
    BY <1>2 DEF PushPublish, RingInv, Locals, Pushing, Committed
  <2>2. pushed' = Append(pushed, val) /\ tail' = tail + 1 /\ head' = head
    BY <1>2, <2>1 DEF PushPublish
  <2>3. Window' = Append(Window, val)
    <3>1. head \in 0 .. Len(pushed)
      BY <1>1
    <3>2. SubSeq(Append(pushed, val), head + 1, Len(pushed) + 1)
            = Append(SubSeq(pushed, head + 1, Len(pushed)), val)
      BY <1>1, <2>1, <3>1, WindowAppend, Zenon
    <3> QED BY <1>1, <2>2, <3>2, Zenon DEF Window
  <2>4. Len(Window) = tail - head
    <3>1. \A i \in head + 1 .. tail : pushed[i] \in Values
      BY <1>1
    <3> QED BY <1>1, <3>1, SubSeqProperties DEF Window
  <2>5. Len(Window) < Capacity
    BY <1>1, <2>1, <2>4, CapacityPositive
  <2>6. Fifo!Accept(val)
    BY <2>3, <2>5 DEF Fifo!Accept, Window
  <2> QED BY <2>1, <2>6 DEF Fifo!Next
<1>3. CASE PopRelease
  <2>1. seen["consumer"] = head /\ head < tail
    BY <1>3 DEF PopRelease, RingInv, Locals, Popping, Taking
  <2>2. pushed' = pushed /\ tail' = tail /\ head' = head + 1
    BY <1>3, <2>1 DEF PopRelease
  <2>3. Window # <<>> /\ Tail(Window) = SubSeq(pushed, head + 2, tail)
    <3>1. tail \in 1 .. Len(pushed) /\ head \in 0 .. tail - 1
      BY <1>1, <2>1
    <3> QED BY <1>1, <3>1, WindowTail, Zenon DEF Window
  <2>4. Window' = SubSeq(pushed, head + 2, tail)
    BY <1>1, <2>2 DEF Window
  <2>5. Fifo!Deliver
    BY <2>3, <2>4 DEF Fifo!Deliver, Window
  <2> QED BY <2>5 DEF Fifo!Next
<1>4. CASE UNCHANGED <<pushed, head, tail>>
  BY <1>4 DEF Fifo!fifoVars
<1>5. PushPublish \/ PopRelease \/ UNCHANGED <<pushed, head, tail>>
  BY DEF Next, Push, Pop, Length, PushLoadTail, PushFull, PushLoadHead, PushWrite,
         PopLoadHead, PopEmpty, PopLoadTail, PopRead, PopClear, LenLoadHead,
         LenLoadTail, vars
<1> QED BY <1>2, <1>3, <1>4, <1>5

\* The ring implements the bounded FIFO: whoever sees only completed pushes
\* and pops cannot tell it from a queue of at most capacity items.
THEOREM RingImplementsFifo == Spec => ImplementsFifo
<1>1. Init => Fifo!Init
  <2> SUFFICES ASSUME Init PROVE SubSeq(pushed, head + 1, tail) = <<>>
    BY DEF Fifo!Init
  <2> QED BY SubSeqEmpty DEF Init
<1>2. RingInv /\ [Next]_vars => [Fifo!Next]_(Fifo!fifoVars)
  BY RingStepIsFifoStep
<1> QED BY <1>1, <1>2, RingInvariant, PTL DEF Spec, ImplementsFifo, Fifo!Spec
=============================================================================
