------------------------------ MODULE MpscQueue ------------------------------
(***************************************************************************)
(* stdlib/rods/mpsc_queue.nr: the multi-producer/single-consumer ring.     *)
(* A producer reserves ticket t by moving tail from t to t+1 with a        *)
(* compare-exchange, which it tries only while sequence[t % capacity] = t; *)
(* it publishes by storing t+1 there, and the consumer releases the slot   *)
(* for ticket t+capacity by storing t+capacity.  Every access to a shared  *)
(* location is a step of its own.                                          *)
(***************************************************************************)
EXTENDS Integers, Sequences

CONSTANTS Producers,         \* threads that call mpsc_push_shared
          Consumer,          \* the one thread that calls mpsc_pop_shared
          Values,            \* what is pushed
          NoItem,            \* the None of a slot
          RequestedCapacity, \* the argument of mpsc_new
          MaxPush            \* bound: a push starts only below this many tickets

ASSUME RequestedCapacityAssumption == RequestedCapacity \in Int
ASSUME MaxPushAssumption == MaxPush \in Nat
ASSUME NoItemAssumption == NoItem \notin Values
ASSUME ConsumerAssumption == Consumer \notin Producers

\* mpsc_normalize_capacity
Capacity == IF RequestedCapacity <= 0 THEN 1 ELSE RequestedCapacity

Slots == 0 .. Capacity - 1
Slot(counter) == counter % Capacity

Threads == Producers \cup {Consumer}

VARIABLES
    buffer,     \* slot -> item or NoItem
    sequence,   \* slot -> AtomicI64 that says whose turn the slot is
    head,       \* AtomicI64: tickets taken
    tail,       \* AtomicI64: tickets reserved
    pc,         \* thread -> the access it performs next
    seen,       \* thread -> the counter its call works with
    val,        \* producer -> the argument of the push in progress
    item,       \* the result of the pop in progress
    accepted,   \* history: the item of every reserved ticket, in order
    popped      \* history: items returned by pop, in order

history == <<accepted, popped>>
vars == <<buffer, sequence, head, tail, pc, seen, val, item, accepted, popped>>

Init ==
    /\ buffer = [s \in Slots |-> NoItem]
    /\ sequence = [s \in Slots |-> s]
    /\ head = 0
    /\ tail = 0
    /\ pc = [t \in Threads |-> "idle"]
    /\ seen = [t \in Threads |-> 0]
    /\ val = [p \in Producers |-> NoItem]
    /\ item = NoItem
    /\ accepted = <<>>
    /\ popped = <<>>

Goto(t, from, to) ==
    /\ pc[t] = from
    /\ pc' = [pc EXCEPT ![t] = to]

Load(t, counter) == seen' = [seen EXCEPT ![t] = counter]

\* The call returns; its local, now dead, is forgotten.
Return(t, last) == Goto(t, last, "idle") /\ Load(t, 0)

-----------------------------------------------------------------------------
\* mpsc_push_shared(v), run by producer p; the first four are mpsc_try_reserve

PushCall(p, v) ==
    /\ tail < MaxPush
    /\ Goto(p, "idle", "load-tail")
    /\ val' = [val EXCEPT ![p] = v]
    /\ UNCHANGED <<buffer, sequence, head, tail, seen, item, history>>

LoadTail(p) ==
    /\ Goto(p, "load-tail", "load-sequence")
    /\ Load(p, tail)
    /\ UNCHANGED <<buffer, sequence, head, tail, val, item, history>>

Turn(p) == sequence[Slot(seen[p])] - seen[p]

\* Mutant: a slot that still belongs to an earlier ticket counts as free.
LoadSequenceTooSoon(p) ==
    /\ Turn(p) <= 0
    /\ Goto(p, "load-sequence", "cas")
    /\ UNCHANGED <<buffer, sequence, head, tail, seen, val, item, history>>

\* The slot is free for this ticket.
LoadSequence(p) ==
    /\ Turn(p) = 0
    /\ Goto(p, "load-sequence", "cas")
    /\ UNCHANGED <<buffer, sequence, head, tail, seen, val, item, history>>

\* The slot went on to a later ticket since tail was loaded: load it again.
Outrun(p) ==
    /\ Turn(p) > 0
    /\ Goto(p, "load-sequence", "load-tail")
    /\ UNCHANGED <<buffer, sequence, head, tail, seen, val, item, history>>

\* Mutant: a slot that went on to a later ticket counts as full, too.
PushFullWhenOutrun(p) ==
    /\ Turn(p) # 0
    /\ Return(p, "load-sequence")
    /\ val' = [val EXCEPT ![p] = NoItem]
    /\ UNCHANGED <<buffer, sequence, head, tail, item, history>>

\* The slot still belongs to an earlier ticket: the push returns false.
PushFull(p) ==
    /\ Turn(p) < 0
    /\ Return(p, "load-sequence")
    /\ val' = [val EXCEPT ![p] = NoItem]
    /\ UNCHANGED <<buffer, sequence, head, tail, item, history>>

\* Mutant: a plain store of tail instead of a compare-exchange.
ReserveByStore(p) ==
    /\ Goto(p, "cas", "write")
    /\ tail' = seen[p] + 1
    /\ accepted' = Append(accepted, val[p])
    /\ UNCHANGED <<buffer, sequence, head, seen, val, item, popped>>

Reserve(p) ==
    /\ tail = seen[p]
    /\ Goto(p, "cas", "write")
    /\ tail' = seen[p] + 1
    /\ accepted' = Append(accepted, val[p])
    /\ UNCHANGED <<buffer, sequence, head, seen, val, item, popped>>

ReserveLost(p) ==
    /\ tail # seen[p]
    /\ Goto(p, "cas", "load-tail")
    /\ UNCHANGED <<buffer, sequence, head, tail, seen, val, item, history>>

Write(p) ==
    /\ Goto(p, "write", "publish")
    /\ buffer' = [buffer EXCEPT ![Slot(seen[p])] = val[p]]
    /\ UNCHANGED <<sequence, head, tail, seen, val, item, history>>

\* Mutant: the slot is published with the ticket instead of its successor.
PublishTicket(p) ==
    /\ Return(p, "publish")
    /\ sequence' = [sequence EXCEPT ![Slot(seen[p])] = seen[p]]
    /\ val' = [val EXCEPT ![p] = NoItem]
    /\ UNCHANGED <<buffer, head, tail, item, history>>

Publish(p) ==
    /\ Return(p, "publish")
    /\ sequence' = [sequence EXCEPT ![Slot(seen[p])] = seen[p] + 1]
    /\ val' = [val EXCEPT ![p] = NoItem]
    /\ UNCHANGED <<buffer, head, tail, item, history>>

-----------------------------------------------------------------------------
\* mpsc_pop_shared, run by the consumer

PopLoadHead ==
    /\ Goto(Consumer, "idle", "pop-load-sequence")
    /\ Load(Consumer, head)
    /\ UNCHANGED <<buffer, sequence, head, tail, val, item, history>>

\* Mutant: a slot counts as published one step late.
PublishedLate == sequence[Slot(seen[Consumer])] > seen[Consumer] + 1

Published == sequence[Slot(seen[Consumer])] = seen[Consumer] + 1

\* The pop returns None.
PopEmpty ==
    /\ ~Published
    /\ Return(Consumer, "pop-load-sequence")
    /\ UNCHANGED <<buffer, sequence, head, tail, val, item, history>>

PopLoadSequence ==
    /\ Published
    /\ Goto(Consumer, "pop-load-sequence", "pop-read")
    /\ UNCHANGED <<buffer, sequence, head, tail, seen, val, item, history>>

PopRead ==
    /\ Goto(Consumer, "pop-read", "pop-clear")
    /\ item' = buffer[Slot(seen[Consumer])]
    /\ UNCHANGED <<buffer, sequence, head, tail, seen, val, history>>

\* Mutant: the slot is not cleared.
PopClearForgotten ==
    /\ Goto(Consumer, "pop-clear", "pop-store-head")
    /\ UNCHANGED <<buffer, sequence, head, tail, seen, val, item, history>>

PopClear ==
    /\ Goto(Consumer, "pop-clear", "pop-store-head")
    /\ buffer' = [buffer EXCEPT ![Slot(seen[Consumer])] = NoItem]
    /\ UNCHANGED <<sequence, head, tail, seen, val, item, history>>

PopStoreHead ==
    /\ Goto(Consumer, "pop-store-head", "pop-release")
    /\ head' = seen[Consumer] + 1
    /\ popped' = Append(popped, item)
    /\ item' = NoItem
    /\ UNCHANGED <<buffer, sequence, tail, seen, val, accepted>>

PopRelease ==
    /\ Return(Consumer, "pop-release")
    /\ sequence' = [sequence EXCEPT ![Slot(seen[Consumer])] = seen[Consumer] + Capacity]
    /\ UNCHANGED <<buffer, head, tail, val, item, history>>

-----------------------------------------------------------------------------
\* mpsc_len, run by any thread

\* Mutant: the operands are swapped.
LenResultSwapped(t) == seen[t] - tail

\* What mpsc_len returns when it loads tail now.
LenResult(t) == tail - seen[t]

LenLoadHead(t) ==
    /\ Goto(t, "idle", "len-load-tail")
    /\ Load(t, head)
    /\ UNCHANGED <<buffer, sequence, head, tail, val, item, history>>

LenLoadTail(t) ==
    /\ Return(t, "len-load-tail")
    /\ UNCHANGED <<buffer, sequence, head, tail, val, item, history>>

-----------------------------------------------------------------------------
Push(p) ==
    \/ \E v \in Values : PushCall(p, v)
    \/ LoadTail(p) \/ LoadSequence(p) \/ Outrun(p) \/ PushFull(p)
    \/ Reserve(p) \/ ReserveLost(p) \/ Write(p) \/ Publish(p)

Pop == \/ PopLoadHead \/ PopEmpty \/ PopLoadSequence \/ PopRead \/ PopClear
       \/ PopStoreHead \/ PopRelease

Length(t) == LenLoadHead(t) \/ LenLoadTail(t)

Next ==
    \/ \E p \in Producers : Push(p)
    \/ Pop
    \/ \E t \in Threads : Length(t)

Spec == Init /\ [][Next]_vars

\* The consumer keeps polling and finishes each call; a producer that holds
\* a ticket is scheduled until it has published it.
PollStep == PopEmpty \/ PopLoadSequence \/ PopRead \/ PopClear \/ PopStoreHead
            \/ PopRelease
FairSpec ==
    /\ Spec
    /\ \A p \in Producers : WF_vars(Write(p) \/ Publish(p))
    /\ SF_vars(PopLoadHead)
    /\ WF_vars(PollStep)
    /\ WF_vars(LenLoadTail(Consumer))

-----------------------------------------------------------------------------
TypeOK ==
    /\ buffer \in [Slots -> Values \cup {NoItem}]
    /\ sequence \in [Slots -> Nat]
    /\ head \in Nat
    /\ tail \in Nat
    /\ pc \in [Threads -> {"idle", "load-tail", "load-sequence", "cas", "write",
                           "publish", "pop-load-sequence", "pop-read", "pop-clear",
                           "pop-store-head", "pop-release", "len-load-tail"}]
    /\ seen \in [Threads -> Nat]
    /\ val \in [Producers -> Values \cup {NoItem}]
    /\ item \in Values \cup {NoItem}
    /\ accepted \in Seq(Values)
    /\ popped \in Seq(Values)

\* What pop returns is what was accepted, in ticket order: nothing is lost,
\* doubled, overwritten or read before it was written.
FifoDelivery == popped = SubSeq(accepted, 1, head)

\* The threads that touch the plain memory of a slot with their next access.
AtSlot(s) ==
    {p \in Producers : pc[p] = "write" /\ Slot(seen[p]) = s}
    \cup {t \in {Consumer} : pc[t] \in {"pop-read", "pop-clear"} /\ Slot(seen[t]) = s}

\* The slots are plain memory, so at most one thread is about to touch one.
NoSlotRace == \A s \in Slots : \A t, u \in AtSlot(s) : t = u

\* "prevents producers from overwriting a slot until the single consumer
\* releases it" (mpsc_queue.nr:7-9): a producer stores only into an empty slot.
NoOverwrite == \A p \in Producers : pc[p] = "write" => buffer[Slot(seen[p])] = NoItem

\* A pop that returns None found no ticket, or one whose producer has
\* reserved it and not published it yet: published items are never missed.
NoneMeansNothingPublished ==
    [][PopEmpty =>
        \/ head = tail
        \/ \E p \in Producers : pc[p] \in {"write", "publish"} /\ seen[p] = head]_vars

\* A push that returns false met a ring whose tickets are all out, or one
\* short of it because the consumer is between its two stores.
FalseMeansFull ==
    [][\A p \in Producers : PushFull(p) =>
        tail - head >= Capacity - (IF pc[Consumer] = "pop-release" THEN 1 ELSE 0)]_vars

\* mpsc_len loads head before tail, so it is never negative, and the consumer
\* never sees more than capacity.
LengthInRange ==
    \A t \in Threads : pc[t] = "len-load-tail" =>
        /\ LenResult(t) >= 0
        /\ t = Consumer => LenResult(t) <= Capacity

Fifo == INSTANCE BoundedFifo WITH
            Items <- Values, Bound <- Capacity,
            fifo <- SubSeq(accepted, head + 1, tail), shut <- FALSE

\* The ring is a bounded FIFO that accepts at the compare-exchange and
\* delivers at the store of head ...
ImplementsFifo == Fifo!Spec

\* ... and a polling consumer gets every item, whatever the producers that
\* hold no ticket do.
EveryItemDelivered == Fifo!FairSpec
=============================================================================
