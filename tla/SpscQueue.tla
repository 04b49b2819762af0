------------------------------ MODULE SpscQueue ------------------------------
(***************************************************************************)
(* stdlib/rods/spsc_queue.nr: the single-producer/single-consumer ring.    *)
(* head and tail count the items taken and published since construction;   *)
(* counter c lives in slot c % capacity.  Every access to a shared         *)
(* location (an atomic counter or a slot of the buffer) is a step of its   *)
(* own, so a push, a pop and a length query interleave access by access.   *)
(***************************************************************************)
EXTENDS Integers, Sequences

CONSTANTS Values,            \* what is pushed
          NoItem,            \* the None of a slot
          RequestedCapacity, \* the argument of spsc_new
          MaxPush            \* bound: pushes that are accepted

ASSUME RequestedCapacityAssumption == RequestedCapacity \in Int
ASSUME MaxPushAssumption == MaxPush \in Nat
ASSUME NoItemAssumption == NoItem \notin Values

\* spsc_normalize_capacity
Capacity == IF RequestedCapacity <= 0 THEN 1 ELSE RequestedCapacity

Slots == 0 .. Capacity - 1
Slot(counter) == counter % Capacity

\* Any thread may call spsc_len; pushes and pops have one caller each.
Threads == {"producer", "consumer", "monitor"}

VARIABLES
    buffer,     \* slot -> item or NoItem
    head,       \* AtomicI64: items taken
    tail,       \* AtomicI64: items published
    pc,         \* thread -> the access it performs next
    seen,       \* thread -> the counter its call loaded first
    val,        \* the argument of the push in progress
    item,       \* the result of the pop in progress
    pushed,     \* history: items whose push returned true, in order
    popped      \* history: items returned by pop, in order

history == <<pushed, popped>>
vars == <<buffer, head, tail, pc, seen, val, item, pushed, popped>>

Init ==
    /\ buffer = [s \in Slots |-> NoItem]
    /\ head = 0
    /\ tail = 0
    /\ pc = [t \in Threads |-> "idle"]
    /\ seen = [t \in Threads |-> 0]
    /\ val = NoItem
    /\ item = NoItem
    /\ pushed = <<>>
    /\ popped = <<>>

Goto(t, from, to) ==
    /\ pc[t] = from
    /\ pc' = [pc EXCEPT ![t] = to]

\* The first load of a call keeps the counter in a local ...
Begin(t, first, counter) ==
    /\ Goto(t, "idle", first)
    /\ seen' = [seen EXCEPT ![t] = counter]

\* ... which is dead, and forgotten here, once the call returns.
Return(t, last) ==
    /\ Goto(t, last, "idle")
    /\ seen' = [seen EXCEPT ![t] = 0]

-----------------------------------------------------------------------------
\* spsc_push, run by the producer

PushLoadTail(v) ==
    /\ Len(pushed) < MaxPush
    /\ Begin("producer", "push-load-head", tail)
    /\ val' = v
    /\ UNCHANGED <<buffer, head, tail, item, history>>

\* The queue looks full: the push returns false.
PushFull ==
    /\ seen["producer"] - head >= Capacity
    /\ Return("producer", "push-load-head")
    /\ val' = NoItem
    /\ UNCHANGED <<buffer, head, tail, item, history>>

\* Mutant: one item too many fits.
PushLoadHeadOffByOne ==
    /\ seen["producer"] - head <= Capacity
    /\ Goto("producer", "push-load-head", "push-write")
    /\ UNCHANGED <<buffer, head, tail, seen, val, item, history>>

PushLoadHead ==
    /\ seen["producer"] - head < Capacity
    /\ Goto("producer", "push-load-head", "push-write")
    /\ UNCHANGED <<buffer, head, tail, seen, val, item, history>>

PushWrite ==
    /\ Goto("producer", "push-write", "push-publish")
    /\ buffer' = [buffer EXCEPT ![Slot(seen["producer"])] = val]
    /\ UNCHANGED <<head, tail, seen, val, item, history>>

PushPublish ==
    /\ Return("producer", "push-publish")
    /\ tail' = seen["producer"] + 1
    /\ pushed' = Append(pushed, val)
    /\ val' = NoItem
    /\ UNCHANGED <<buffer, head, item, popped>>

-----------------------------------------------------------------------------
\* spsc_pop, run by the consumer

PopLoadHead ==
    /\ Begin("consumer", "pop-load-tail", head)
    /\ UNCHANGED <<buffer, head, tail, val, item, history>>

\* Mutant: the last published item is taken for none.
PopEmptyOffByOne ==
    /\ seen["consumer"] >= tail - 1
    /\ Return("consumer", "pop-load-tail")
    /\ UNCHANGED <<buffer, head, tail, val, item, history>>

\* Nothing is published: the pop returns None.
PopEmpty ==
    /\ seen["consumer"] >= tail
    /\ Return("consumer", "pop-load-tail")
    /\ UNCHANGED <<buffer, head, tail, val, item, history>>

\* Mutant: an empty ring is popped.
PopLoadTailOffByOne ==
    /\ seen["consumer"] <= tail
    /\ Goto("consumer", "pop-load-tail", "pop-read")
    /\ UNCHANGED <<buffer, head, tail, seen, val, item, history>>

PopLoadTail ==
    /\ seen["consumer"] < tail
    /\ Goto("consumer", "pop-load-tail", "pop-read")
    /\ UNCHANGED <<buffer, head, tail, seen, val, item, history>>

PopRead ==
    /\ Goto("consumer", "pop-read", "pop-clear")
    /\ item' = buffer[Slot(seen["consumer"])]
    /\ UNCHANGED <<buffer, head, tail, seen, val, history>>

PopClear ==
    /\ Goto("consumer", "pop-clear", "pop-release")
    /\ buffer' = [buffer EXCEPT ![Slot(seen["consumer"])] = NoItem]
    /\ UNCHANGED <<head, tail, seen, val, item, history>>

PopRelease ==
    /\ Return("consumer", "pop-release")
    /\ head' = seen["consumer"] + 1
    /\ popped' = Append(popped, item)
    /\ item' = NoItem
    /\ UNCHANGED <<buffer, tail, val, pushed>>

-----------------------------------------------------------------------------
\* spsc_len, run by any thread between its other operations

\* Mutant: the operands are swapped.
LenResultSwapped(t) == seen[t] - tail

\* What spsc_len returns when it loads tail now.
LenResult(t) == tail - seen[t]

LenLoadHead(t) ==
    /\ Begin(t, "len-load-tail", head)
    /\ UNCHANGED <<buffer, head, tail, val, item, history>>

LenLoadTail(t) ==
    /\ Return(t, "len-load-tail")
    /\ UNCHANGED <<buffer, head, tail, val, item, history>>

-----------------------------------------------------------------------------
Push == \/ \E v \in Values : PushLoadTail(v)
        \/ PushFull \/ PushLoadHead \/ PushWrite \/ PushPublish

Pop == PopLoadHead \/ PopEmpty \/ PopLoadTail \/ PopRead \/ PopClear \/ PopRelease

Length(t) == LenLoadHead(t) \/ LenLoadTail(t)

Next == Push \/ Pop \/ \E t \in Threads : Length(t)

Spec == Init /\ [][Next]_vars

\* A consumer that polls: it keeps calling spsc_pop and finishes each call.
Polling == PopEmpty \/ PopLoadTail \/ PopRead \/ PopClear \/ PopRelease
FairSpec ==
    /\ Spec
    /\ SF_vars(PopLoadHead)
    /\ WF_vars(Polling)
    /\ WF_vars(LenLoadTail("consumer"))

-----------------------------------------------------------------------------
TypeOK ==
    /\ buffer \in [Slots -> Values \cup {NoItem}]
    /\ head \in Nat
    /\ tail \in Nat
    /\ pc \in [Threads -> {"idle", "push-load-head", "push-write",
                           "push-publish", "pop-load-tail", "pop-read",
                           "pop-clear", "pop-release", "len-load-tail"}]
    /\ seen \in [Threads -> Nat]
    /\ val \in Values \cup {NoItem}
    /\ item \in Values \cup {NoItem}
    /\ pushed \in Seq(Values)
    /\ popped \in Seq(Values)

\* What a pop returns is what the pushes put in, in the same order, nothing
\* lost, doubled or empty: the items popped are the first `head` pushed.
FifoDelivery == popped = SubSeq(pushed, 1, head)

\* The slots are plain memory, so the producer's store and the consumer's
\* load and store of one slot are never both pending.
NoSlotRace ==
    ~ /\ pc["producer"] = "push-write"
      /\ pc["consumer"] \in {"pop-read", "pop-clear"}
      /\ Slot(seen["producer"]) = Slot(seen["consumer"])

\* spsc_len loads head before tail, so it never returns a negative length,
\* and the two ends of the queue never see more than capacity.
LengthInRange ==
    \A t \in Threads : pc[t] = "len-load-tail" =>
        /\ LenResult(t) >= 0
        /\ t # "monitor" => LenResult(t) <= Capacity

\* A slot the consumer released holds nothing: the only slots that hold an
\* item are those of counters head .. tail-1 and the one being written.
NothingStale ==
    \A s \in Slots : buffer[s] # NoItem =>
        \E c \in head .. tail : s = Slot(c) /\ (c = tail => pc["producer"] = "push-publish")

Fifo == INSTANCE BoundedFifo WITH
            Items <- Values, Bound <- Capacity,
            fifo <- SubSeq(pushed, head + 1, tail), shut <- FALSE

\* The ring is a bounded FIFO that accepts at the store of tail and delivers
\* at the store of head.
ImplementsFifo == Fifo!Spec

\* A consumer that keeps polling gets every item: no published item stays in
\* the ring for ever, whatever the producer and the monitor do.
EveryItemDelivered == Fifo!FairSpec
=============================================================================
