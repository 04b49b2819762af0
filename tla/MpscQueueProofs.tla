--------------------------- MODULE MpscQueueProofs ---------------------------
(***************************************************************************)
(* Proofs about MpscQueue for every set of producers, values and bound and *)
(* every capacity above 1: with capacity 1 a published ticket looks like a *)
(* free slot, and the invariant does not hold.                             *)
(***************************************************************************)
EXTENDS MpscQueue, SequenceTheorems, TLAPS

-----------------------------------------------------------------------------
(* The arithmetic of the ring: counter c lives in slot c % capacity.       *)

\* A counter has a slot of the ring.
LEMMA SlotInRing ==
    ASSUME NEW cap \in Nat \ {0}, NEW c \in Nat
    PROVE  c % cap \in 0 .. cap - 1
  OBVIOUS

\* Counters less than one lap apart live in different slots, so a slot is
\* never shared by two counters of one window of the ring.
LEMMA SlotsDistinct ==
    ASSUME NEW cap \in Nat \ {0}, NEW i \in Nat, NEW j \in Nat,
           i < j, j < i + cap
    PROVE  i % cap # j % cap
<1> SUFFICES ASSUME i % cap = j % cap PROVE FALSE
  OBVIOUS
<1>1. /\ i = cap * (i \div cap) + (i % cap)
      /\ j = cap * (j \div cap) + (j % cap)
      /\ i \div cap \in Int /\ j \div cap \in Int
      /\ i % cap \in Int /\ j % cap \in Int
  OBVIOUS
<1> DEFINE k == j \div cap - i \div cap
<1>2. k \in Int /\ cap * k = j - i
  BY <1>1
<1>3. CASE k <= 0
  <2>1. cap * k <= 0
    BY <1>2, <1>3
  <2> QED BY <2>1, <1>2
<1>4. CASE k >= 1
  <2>1. cap * k >= cap
    BY <1>2, <1>4
  <2> QED BY <2>1, <1>2
<1> QED BY <1>2, <1>3, <1>4

\* In the first lap a counter is its own slot.
LEMMA SlotFirstLap ==
    ASSUME NEW cap \in Nat \ {0}, NEW c \in 0 .. cap - 1
    PROVE  c % cap = c
<1> DEFINE k == c \div cap
<1>1. c = cap * k + (c % cap) /\ k \in Int /\ c % cap \in 0 .. cap - 1
  OBVIOUS
<1>2. cap * k < cap /\ cap * k > -cap
  BY <1>1
<1>3. k = 0
  BY <1>1, <1>2
<1> QED BY <1>1, <1>3

\* One lap later the counter comes back to its slot.
LEMMA SlotNextLap ==
    ASSUME NEW cap \in Nat \ {0}, NEW c \in Nat
    PROVE  (c + cap) % cap = c % cap
<1>1. /\ c = cap * (c \div cap) + (c % cap)
      /\ c + cap = cap * ((c + cap) \div cap) + ((c + cap) % cap)
      /\ c \div cap \in Int /\ (c + cap) \div cap \in Int
      /\ c % cap \in 0 .. cap - 1 /\ (c + cap) % cap \in 0 .. cap - 1
  OBVIOUS
<1> DEFINE k == (c + cap) \div cap - c \div cap - 1
<1>2. k \in Int /\ cap * k = (c % cap) - ((c + cap) % cap)
  BY <1>1
<1>3. cap * k < cap /\ cap * k > -cap
  BY <1>1, <1>2
<1>4. k = 0
  BY <1>2, <1>3
<1> QED BY <1>1, <1>2, <1>4

\* Every counter shares its slot with one of any window of a lap.
LEMMA WindowCovers ==
    ASSUME NEW cap \in Nat \ {0}, NEW c \in Nat, NEW low \in Nat
    PROVE  \E j \in low .. low + cap - 1 : j % cap = c % cap
<1> DEFINE r == (c - low) % cap
           q == (c - low) \div cap
           w == low + r
<1>1. c - low = cap * q + r /\ q \in Int /\ r \in 0 .. cap - 1
  OBVIOUS
<1>2. w \in low .. low + cap - 1 /\ w \in Nat /\ c - w = cap * q
  BY <1>1
<1> HIDE DEF q, r, w
<1> DEFINE cs == c % cap
           ws == w % cap
           k == q + w \div cap - c \div cap
<1>3. /\ c = cap * (c \div cap) + cs /\ w = cap * (w \div cap) + ws
      /\ c \div cap \in Int /\ w \div cap \in Int
      /\ cs \in 0 .. cap - 1 /\ ws \in 0 .. cap - 1
  BY <1>2
<1> HIDE DEF cs, ws
<1>4. k \in Int /\ cap * k = cs - ws
  BY <1>1, <1>2, <1>3
<1> HIDE DEF k
<1>5. cap * k < cap /\ cap * k > -cap
  BY <1>3, <1>4
<1>6. k = 0
  BY <1>4, <1>5
<1>7. ws = cs
  BY <1>3, <1>4, <1>6
<1> QED BY <1>2, <1>7 DEF cs, ws

(* The window h+1 .. t of a history is what a ring holds when h items were *)
(* taken out of t put in.                                                  *)

\* Extending the history extends the window at its end.
LEMMA WindowAppend ==
    ASSUME NEW S, NEW s \in Seq(S), NEW v \in S, NEW h \in 0 .. Len(s)
    PROVE  SubSeq(Append(s, v), h + 1, Len(s) + 1)
             = Append(SubSeq(s, h + 1, Len(s)), v)
<1> DEFINE w == SubSeq(s, h + 1, Len(s))
           x == SubSeq(Append(s, v), h + 1, Len(s) + 1)
<1>1. /\ Append(s, v) \in Seq(S) /\ Len(Append(s, v)) = Len(s) + 1
      /\ \A i \in 1 .. Len(s) : Append(s, v)[i] = s[i]
      /\ Append(s, v)[Len(s) + 1] = v
  OBVIOUS
<1>2. /\ w \in Seq(S) /\ Len(w) = Len(s) - h
      /\ \A i \in 1 .. Len(s) - h : w[i] = s[h + i]
  BY SubSeqProperties
<1>3. /\ x \in Seq(S) /\ Len(x) = Len(s) + 1 - h
      /\ \A i \in 1 .. Len(s) + 1 - h : x[i] = Append(s, v)[h + i]
  BY <1>1, SubSeqProperties
<1>4. /\ Append(w, v) \in Seq(S) /\ Len(Append(w, v)) = Len(s) - h + 1
      /\ \A i \in 1 .. Len(s) - h : Append(w, v)[i] = w[i]
      /\ Append(w, v)[Len(s) - h + 1] = v
  BY <1>2
<1>5. /\ Len(x) = Len(Append(w, v))
      /\ \A i \in 1 .. Len(x) : x[i] = Append(w, v)[i]
  BY <1>1, <1>2, <1>3, <1>4
<1> DEFINE y == Append(w, v)
<1>6. x \in Seq(S) /\ y \in Seq(S)
  BY <1>3, <1>4
<1>7. Len(x) = Len(y) /\ \A i \in 1 .. Len(x) : x[i] = y[i]
  BY <1>5
<1> HIDE DEF x, y
<1>8. x = y
  BY <1>6, <1>7, SeqEqual
<1> QED BY <1>8 DEF x, y

\* Taking one more item out drops the head of the window.
LEMMA WindowTail ==
    ASSUME NEW S, NEW s \in Seq(S), NEW t \in 1 .. Len(s), NEW h \in 0 .. t - 1
    PROVE  /\ SubSeq(s, h + 1, t) # <<>>
           /\ Tail(SubSeq(s, h + 1, t)) = SubSeq(s, h + 2, t)
           /\ Len(SubSeq(s, h + 1, t)) = t - h
<1>1. Len(SubSeq(s, h + 1, t)) = t - h
  BY SubSeqProperties
<1>2. Tail(SubSeq(s, h + 1, t)) = SubSeq(s, (h + 1) + 1, t)
  BY HeadTailOfSubSeq
<1> QED BY <1>1, <1>2

-----------------------------------------------------------------------------
\* The oldest ticket whose slot is not released: head, or the one before it
\* while the consumer is between its last two stores.
Low == IF pc[Consumer] = "pop-release" THEN head - 1 ELSE head

\* The producers that hold a ticket they have not published.
InFlight == {p \in Producers : pc[p] \in {"write", "publish"}}

Taking == pc[Consumer] \in {"pop-read", "pop-clear", "pop-store-head"}

\* The threads keep to their own operations.
OwnCalls ==
    /\ \A p \in Producers :
          pc[p] \in {"idle", "load-tail", "load-sequence", "cas", "write", "publish",
                     "len-load-tail"}
    /\ pc[Consumer] \in {"idle", "pop-load-sequence", "pop-read", "pop-clear",
                         "pop-store-head", "pop-release", "len-load-tail"}

\* The counters count the history; a lap ahead of Low there is no ticket.
Counters ==
    /\ Len(accepted) = tail
    /\ Len(popped) = head
    /\ Low \in Nat
    /\ head <= tail
    /\ tail <= Low + Capacity

\* Whose turn each slot is: reserved or published up to tail, free from there
\* to the end of the lap; and what is reserved is held by a producer.
Turns ==
    /\ \A k \in Low .. tail - 1 : sequence[Slot(k)] \in {k, k + 1}
    /\ \A k \in tail .. Low + Capacity - 1 : sequence[Slot(k)] = k
    /\ \A k \in Low .. tail - 1 :
          sequence[Slot(k)] = k => \E p \in InFlight : seen[p] = k

\* Producers in flight hold tickets of their own, which the consumer has not
\* reached.
Tickets ==
    /\ \A p \in InFlight :
          /\ seen[p] \in head .. tail - 1
          /\ sequence[Slot(seen[p])] = seen[p]
          /\ val[p] = accepted[seen[p] + 1]
    /\ \A p, q \in InFlight : p # q => seen[p] # seen[q]

\* What a producer without a ticket knows.  The last conjunct is the one that
\* needs two slots: the sequence number it read was not that of a published
\* ticket of the last lap.
Candidates ==
    \A p \in Producers :
        /\ pc[p] \in {"load-tail", "load-sequence", "cas", "write", "publish"}
              => val[p] \in Values
        /\ pc[p] \in {"load-sequence", "cas"} => seen[p] <= tail
        /\ pc[p] = "cas" /\ seen[p] = tail => tail < Low + Capacity

\* What the consumer knows in a pop.
PopLocals ==
    /\ Taking \/ pc[Consumer] = "pop-load-sequence" => seen[Consumer] = head
    /\ Taking => head < tail /\ sequence[Slot(head)] = head + 1
    /\ pc[Consumer] \in {"pop-clear", "pop-store-head"} => item = accepted[head + 1]
    /\ pc[Consumer] = "pop-release" =>
          seen[Consumer] = head - 1 /\ sequence[Slot(head - 1)] = head

\* A slot holds its item from the write to the clear, and nothing otherwise.
Contents ==
    /\ \A k \in head .. tail - 1 : sequence[Slot(k)] = k + 1 =>
          buffer[Slot(k)] = IF k = head /\ pc[Consumer] = "pop-store-head"
                            THEN NoItem ELSE accepted[k + 1]
    /\ \A p \in InFlight :
          buffer[Slot(seen[p])] = IF pc[p] = "write" THEN NoItem ELSE val[p]
    /\ \A k \in tail .. Low + Capacity - 1 : buffer[Slot(k)] = NoItem
    /\ pc[Consumer] = "pop-release" => buffer[Slot(head - 1)] = NoItem

Delivered == \A i \in 1 .. head : popped[i] = accepted[i]

\* A length query in progress has a head that is not above the present one.
Lengths ==
    /\ \A t \in Threads : pc[t] = "len-load-tail" => seen[t] <= head
    /\ pc[Consumer] = "len-load-tail" => seen[Consumer] = head

\* The inductive invariant.
TicketInv ==
    /\ TypeOK /\ OwnCalls /\ Counters /\ Turns /\ Tickets /\ Candidates
    /\ PopLocals /\ Contents /\ Delivered /\ Lengths
-----------------------------------------------------------------------------
LEMMA CapacityPositive == Capacity \in Nat \ {0}
  BY RequestedCapacityAssumption DEF Capacity

\* Every ticket has a slot, tickets less than a lap apart have slots of their
\* own, and a lap later a ticket is back at its slot.
LEMMA SlotFacts ==
    /\ \A c \in Nat : Slot(c) \in Slots
    /\ \A i, j \in Nat : i < j /\ j < i + Capacity => Slot(i) # Slot(j)
    /\ \A c \in Nat : Slot(c + Capacity) = Slot(c)
<1>1. ASSUME NEW c \in Nat PROVE Slot(c) \in Slots
  BY CapacityPositive, SlotInRing DEF Slot, Slots
<1>2. ASSUME NEW i \in Nat, NEW j \in Nat, i < j, j < i + Capacity
      PROVE  Slot(i) # Slot(j)
  BY <1>2, CapacityPositive, SlotsDistinct DEF Slot
<1>3. ASSUME NEW c \in Nat PROVE Slot(c + Capacity) = Slot(c)
  BY CapacityPositive, SlotNextLap DEF Slot
<1> QED BY <1>1, <1>2, <1>3

\* The empty ring satisfies the invariant.
LEMMA InitTickets == Init => TicketInv
<1> SUFFICES ASSUME Init PROVE TicketInv
  OBVIOUS
<1> USE CapacityPositive DEF Init
<1>1. TypeOK /\ OwnCalls
  BY DEF TypeOK, OwnCalls, Threads, Slots
<1>2. Counters /\ Delivered /\ Lengths
  BY DEF Counters, Delivered, Lengths, Low, Threads
<1>3. \A k \in 0 .. Capacity - 1 : Slot(k) \in Slots /\ Slot(k) = k
  BY SlotFirstLap DEF Slot, Slots
<1>4. Low = 0 /\ InFlight = {} /\ pc[Consumer] = "idle"
  BY DEF Low, InFlight, Threads
<1>5. Turns /\ Contents
  BY <1>3, <1>4 DEF Turns, Contents
<1>6. Tickets /\ Candidates /\ PopLocals
  BY DEF Tickets, Candidates, PopLocals, InFlight, Taking, Threads
<1> QED BY <1>1, <1>2, <1>5, <1>6 DEF TicketInv

\* A step of a producer that holds no ticket before or after it and touches
\* only its own locals.
LEMMA QuietProducer ==
    ASSUME TicketInv, NEW p \in Producers, p \notin InFlight,
           NEW to \in {"idle", "load-tail", "load-sequence", "cas", "len-load-tail"},
           NEW n \in Nat, NEW v \in Values \cup {NoItem},
           pc' = [pc EXCEPT ![p] = to],
           seen' = [seen EXCEPT ![p] = n],
           val' = [val EXCEPT ![p] = v],
           UNCHANGED <<buffer, sequence, head, tail, item, accepted, popped>>,
           to \in {"load-tail", "load-sequence", "cas"} => v \in Values,
           to \in {"load-sequence", "cas"} => n <= tail,
           to = "cas" /\ n = tail => tail < Low + Capacity,
           to = "len-load-tail" => n <= head
    PROVE  TicketInv'
<1>1. TypeOK
  BY DEF TicketInv
<1>2. /\ pc'[Consumer] = pc[Consumer] /\ seen'[Consumer] = seen[Consumer]
      /\ pc'[p] = to /\ seen'[p] = n /\ val'[p] = v
      /\ \A q \in Producers : q # p =>
            pc'[q] = pc[q] /\ seen'[q] = seen[q] /\ val'[q] = val[q]
  BY <1>1, ConsumerAssumption DEF TypeOK, Threads
<1>3. InFlight' = InFlight /\ Low' = Low
  BY <1>2 DEF InFlight, Low
<1>4. \A q \in InFlight : q \in Producers /\ q # p
  BY DEF InFlight
<1>5. TypeOK'
  BY <1>1, ConsumerAssumption DEF TypeOK, Threads
<1>6. OwnCalls'
  BY <1>2 DEF TicketInv, OwnCalls
<1>7. Counters' /\ Delivered'
  BY <1>3 DEF TicketInv, Counters, Delivered
<1>8. Turns'
  BY <1>2, <1>3, <1>4 DEF TicketInv, Turns
<1>9. Tickets'
  BY <1>2, <1>3, <1>4 DEF TicketInv, Tickets
<1>10. Candidates'
  BY <1>2, <1>3 DEF TicketInv, Candidates
<1>11. PopLocals'
  BY <1>2 DEF TicketInv, PopLocals, Taking
<1>12. Contents'
  BY <1>2, <1>3, <1>4 DEF TicketInv, Contents
<1>13. Lengths'
  BY <1>2 DEF TicketInv, Lengths, Threads
<1> QED BY <1>5, <1>6, <1>7, <1>8, <1>9, <1>10, <1>11, <1>12, <1>13 DEF TicketInv

\* The steps of a push before the compare-exchange, and the ways out of it.
LEMMA StepCandidate ==
    ASSUME Capacity > 1, TicketInv, NEW p \in Producers,
           \/ \E v \in Values : PushCall(p, v)
           \/ LoadTail(p) \/ LoadSequence(p) \/ Outrun(p) \/ PushFull(p) \/ ReserveLost(p)
    PROVE  TicketInv'
<1>1. /\ seen \in [Threads -> Nat] /\ val \in [Producers -> Values \cup {NoItem}]
      /\ p \in Threads /\ head \in Nat /\ tail \in Nat
  BY DEF TicketInv, TypeOK, Threads
<1>2. /\ seen = [seen EXCEPT ![p] = seen[p]] /\ val = [val EXCEPT ![p] = val[p]]
      /\ seen[p] \in Nat /\ val[p] \in Values \cup {NoItem}
      /\ pc[p] \in {"load-tail", "load-sequence", "cas"} => val[p] \in Values
      /\ pc[p] \in {"load-sequence", "cas"} => seen[p] <= tail
  BY <1>1 DEF TicketInv, Candidates
<1>3. ASSUME NEW v \in Values, PushCall(p, v) PROVE TicketInv'
  <2>1. p \notin InFlight
    BY <1>3 DEF PushCall, InFlight, Goto, Return
  <2>2. /\ pc' = [pc EXCEPT ![p] = "load-tail"]
        /\ seen' = [seen EXCEPT ![p] = seen[p]]
        /\ val' = [val EXCEPT ![p] = v]
        /\ UNCHANGED <<buffer, sequence, head, tail, item, accepted, popped>>
    BY <1>2, <1>3 DEF PushCall, Goto, Load, Return, history
  <2>3. v \in Values \cup {NoItem}
    OBVIOUS
  <2> QED BY <1>1, <1>2, <2>1, <2>2, <2>3, QuietProducer
<1>4. CASE LoadTail(p)
  <2>1. p \notin InFlight
    BY <1>4 DEF LoadTail, InFlight, Goto, Return
  <2>2. /\ pc' = [pc EXCEPT ![p] = "load-sequence"]
        /\ seen' = [seen EXCEPT ![p] = tail]
        /\ val' = [val EXCEPT ![p] = val[p]]
        /\ UNCHANGED <<buffer, sequence, head, tail, item, accepted, popped>>
    BY <1>2, <1>4 DEF LoadTail, Goto, Load, Return, history
  <2>3. val[p] \in Values
    BY <1>2, <1>4 DEF LoadTail, Goto
  <2>4. PICK n \in Nat : n = tail
    BY <1>1
  <2>5. seen' = [seen EXCEPT ![p] = n] /\ n <= tail
    BY <1>1, <2>2, <2>4
  <2> QED BY <1>2, <2>1, <2>2, <2>3, <2>5, QuietProducer
\* a published ticket of the last lap is not taken for a free slot
<1>5. CASE LoadSequence(p)
  <2>1. p \notin InFlight
    BY <1>5 DEF LoadSequence, InFlight, Goto, Return
  <2>2. /\ pc' = [pc EXCEPT ![p] = "cas"]
        /\ seen' = [seen EXCEPT ![p] = seen[p]]
        /\ val' = [val EXCEPT ![p] = val[p]]
        /\ UNCHANGED <<buffer, sequence, head, tail, item, accepted, popped>>
    BY <1>2, <1>5 DEF LoadSequence, Goto, Load, Return, history
  <2>3. val[p] \in Values /\ seen[p] <= tail
    BY <1>2, <1>5 DEF LoadSequence, Goto
  <2>4. sequence[Slot(seen[p])] - seen[p] = 0
    BY <1>5 DEF LoadSequence, Turn
  <2>5. /\ sequence \in [Slots -> Nat] /\ Low \in Nat /\ tail <= Low + Capacity
        /\ Low <= tail
    BY DEF TicketInv, TypeOK, Counters, Low
  <2>6. ASSUME seen[p] = tail, tail = Low + Capacity PROVE FALSE
    <3>1. Slot(tail) = Slot(Low)
      BY <2>5, <2>6, SlotFacts
    <3>2. sequence[Slot(Low)] \in {Low, Low + 1}
      BY <1>1, <2>5, <2>6, CapacityPositive DEF TicketInv, Turns
    <3> QED BY <2>4, <2>5, <2>6, <3>1, <3>2, CapacityPositive
  <2>7. seen[p] = tail => tail < Low + Capacity
    BY <1>1, <2>5, <2>6, CapacityPositive
  <2> QED BY <1>1, <1>2, <2>1, <2>2, <2>3, <2>7, QuietProducer
<1>6. CASE Outrun(p)
  <2>1. p \notin InFlight
    BY <1>6 DEF Outrun, InFlight, Goto, Return
  <2>2. /\ pc' = [pc EXCEPT ![p] = "load-tail"]
        /\ seen' = [seen EXCEPT ![p] = seen[p]]
        /\ val' = [val EXCEPT ![p] = val[p]]
        /\ UNCHANGED <<buffer, sequence, head, tail, item, accepted, popped>>
    BY <1>2, <1>6 DEF Outrun, Goto, Load, Return, history
  <2>3. val[p] \in Values
    BY <1>2, <1>6 DEF Outrun, Goto
  <2> QED BY <1>1, <1>2, <2>1, <2>2, <2>3, QuietProducer
<1>7. CASE PushFull(p)
  <2>1. p \notin InFlight
    BY <1>7 DEF PushFull, InFlight, Goto, Return
  <2>2. /\ pc' = [pc EXCEPT ![p] = "idle"]
        /\ seen' = [seen EXCEPT ![p] = 0]
        /\ val' = [val EXCEPT ![p] = NoItem]
        /\ UNCHANGED <<buffer, sequence, head, tail, item, accepted, popped>>
    BY <1>2, <1>7 DEF PushFull, Goto, Load, Return, history
  <2> QED BY <1>1, <1>2, <2>1, <2>2, QuietProducer
<1>8. CASE ReserveLost(p)
  <2>1. p \notin InFlight
    BY <1>8 DEF ReserveLost, InFlight, Goto, Return
  <2>2. /\ pc' = [pc EXCEPT ![p] = "load-tail"]
        /\ seen' = [seen EXCEPT ![p] = seen[p]]
        /\ val' = [val EXCEPT ![p] = val[p]]
        /\ UNCHANGED <<buffer, sequence, head, tail, item, accepted, popped>>
    BY <1>2, <1>8 DEF ReserveLost, Goto, Load, Return, history
  <2>3. val[p] \in Values
    BY <1>2, <1>8 DEF ReserveLost, Goto
  <2> QED BY <1>1, <1>2, <2>1, <2>2, <2>3, QuietProducer
<1> QED BY <1>3, <1>4, <1>5, <1>6, <1>7, <1>8

\* The compare-exchange takes the next ticket, whose slot is free.
LEMMA StepReserve ==
    ASSUME TicketInv, NEW p \in Producers, Reserve(p)
    PROVE  TicketInv'
<1> USE CapacityPositive
<1>1. /\ TypeOK /\ Low \in Nat /\ head \in Nat /\ tail \in Nat /\ Low <= head /\ head <= tail
      /\ pc[p] = "cas" /\ seen[p] = tail /\ tail < Low + Capacity
      /\ val[p] \in Values /\ Len(accepted) = tail /\ accepted \in Seq(Values)
  BY DEF TicketInv, TypeOK, Counters, Candidates, Reserve, Goto, Low
<1>2. /\ tail' = tail + 1 /\ accepted' = Append(accepted, val[p])
      /\ pc' = [pc EXCEPT ![p] = "write"]
      /\ UNCHANGED <<buffer, sequence, head, seen, val, item, popped>>
  BY <1>1 DEF Reserve, Goto
<1>3. /\ pc'[Consumer] = pc[Consumer] /\ pc'[p] = "write"
      /\ \A q \in Producers : q # p => pc'[q] = pc[q]
  BY <1>1, <1>2, ConsumerAssumption DEF TypeOK, Threads
<1>4. Low' = Low /\ InFlight' = InFlight \cup {p} /\ p \notin InFlight
  BY <1>1, <1>2, <1>3 DEF InFlight, Low
<1>5. /\ Len(accepted') = tail' /\ accepted' \in Seq(Values)
      /\ accepted'[tail + 1] = val[p]
      /\ \A i \in 1 .. tail : accepted'[i] = accepted[i]
  BY <1>1, <1>2
<1>6. sequence[Slot(tail)] = tail /\ buffer[Slot(tail)] = NoItem
  BY <1>1 DEF TicketInv, Turns, Contents
<1>7. \A q \in InFlight : q \in Producers /\ q # p /\ seen[q] \in head .. tail - 1
  BY <1>4 DEF TicketInv, Tickets, InFlight
<1>8. TypeOK'
  <2>1. p \in Threads
    BY DEF Threads
  <2>2. pc' \in [Threads -> {"idle", "load-tail", "load-sequence", "cas", "write",
                             "publish", "pop-load-sequence", "pop-read", "pop-clear",
                             "pop-store-head", "pop-release", "len-load-tail"}]
    BY <1>1, <1>2, <2>1 DEF TypeOK
  <2>3. tail' \in Nat
    BY <1>1, <1>2
  <2> QED BY <1>1, <1>2, <1>5, <2>2, <2>3, Zenon DEF TypeOK
<1>9. OwnCalls'
  BY <1>3 DEF TicketInv, OwnCalls
<1>10. Counters' /\ Delivered'
  BY <1>1, <1>2, <1>4, <1>5 DEF TicketInv, Counters, Delivered
<1>11. Turns'
  BY <1>1, <1>2, <1>4, <1>6 DEF TicketInv, Turns
<1>12. Tickets'
  BY <1>1, <1>2, <1>4, <1>5, <1>6, <1>7 DEF TicketInv, Tickets
<1>13. Candidates'
  <2>1. \A q \in Producers : seen[q] \in Nat
    BY <1>1 DEF TypeOK, Threads
  <2> QED BY <1>1, <1>2, <1>3, <1>4, <2>1 DEF TicketInv, Candidates
<1>14. PopLocals'
  BY <1>1, <1>2, <1>3, <1>5 DEF TicketInv, PopLocals, Taking
<1>15. Contents'
  <2>1. (\A k \in head .. tail - 1 : sequence[Slot(k)] = k + 1 =>
            buffer[Slot(k)] = IF k = head /\ pc[Consumer] = "pop-store-head"
                              THEN NoItem ELSE accepted[k + 1])'
    <3> SUFFICES ASSUME NEW k \in head .. tail, sequence[Slot(k)] = k + 1
                 PROVE  buffer[Slot(k)] = IF k = head /\ pc[Consumer] = "pop-store-head"
                                          THEN NoItem ELSE accepted'[k + 1]
      BY <1>1, <1>2, <1>3
    <3>1. k \in head .. tail - 1 /\ k + 1 \in 1 .. tail
      BY <1>1, <1>6
    <3>2. accepted'[k + 1] = accepted[k + 1]
      BY <1>5, <3>1
    <3> QED BY <3>1, <3>2 DEF TicketInv, Contents
  <2>2. (\A q \in InFlight :
            buffer[Slot(seen[q])] = IF pc[q] = "write" THEN NoItem ELSE val[q])'
    BY <1>1, <1>2, <1>3, <1>4, <1>6, <1>7 DEF TicketInv, Contents
  <2>3. (\A k \in tail .. Low + Capacity - 1 : buffer[Slot(k)] = NoItem)'
    BY <1>1, <1>2, <1>4 DEF TicketInv, Contents
  <2>4. (pc[Consumer] = "pop-release" => buffer[Slot(head - 1)] = NoItem)'
    BY <1>2, <1>3 DEF TicketInv, Contents
  <2> QED BY <2>1, <2>2, <2>3, <2>4 DEF Contents
<1>16. Lengths'
  BY <1>2, <1>3 DEF TicketInv, Lengths, Threads
<1> QED BY <1>8, <1>9, <1>10, <1>11, <1>12, <1>13, <1>14, <1>15, <1>16 DEF TicketInv

\* What a producer in flight has to itself: no other ticket of the lap has its
\* slot.
LEMMA OwnSlot ==
    ASSUME TicketInv, NEW p \in InFlight
    PROVE  /\ p \in Producers /\ p \in Threads
           /\ seen[p] \in head .. tail - 1 /\ seen[p] \in Nat /\ Slot(seen[p]) \in Slots
           /\ sequence[Slot(seen[p])] = seen[p]
           /\ Low \in Nat /\ Low <= head /\ head <= tail /\ tail <= Low + Capacity
           /\ head \in Nat /\ tail \in Nat
           /\ \A k \in Low .. Low + Capacity - 1 : k # seen[p] => Slot(k) # Slot(seen[p])
           /\ \A q \in InFlight : q # p => seen[q] # seen[p] /\ Slot(seen[q]) # Slot(seen[p])
<1>1. /\ Low \in Nat /\ Low <= head /\ head <= tail /\ tail <= Low + Capacity
      /\ head \in Nat /\ tail \in Nat
  BY DEF TicketInv, TypeOK, Counters, Low
<1>2. \A q \in InFlight : seen[q] \in head .. tail - 1 /\ q \in Producers
  BY DEF TicketInv, Tickets, InFlight
<1>3. \A k \in Low .. Low + Capacity - 1 : k # seen[p] => Slot(k) # Slot(seen[p])
  BY <1>1, <1>2, SlotFacts, CapacityPositive
<1>4. \A q \in InFlight : q # p => seen[q] # seen[p]
  BY DEF TicketInv, Tickets
<1>5. sequence[Slot(seen[p])] = seen[p] /\ seen[p] \in Nat
  BY <1>1, <1>2 DEF TicketInv, Tickets
<1>6. \A q \in InFlight : seen[q] \in Low .. Low + Capacity - 1
  BY <1>1, <1>2, CapacityPositive
<1> QED BY <1>1, <1>2, <1>3, <1>4, <1>5, <1>6, SlotFacts DEF Threads

\* A producer stores its item into the slot of its ticket.
LEMMA StepWrite ==
    ASSUME TicketInv, NEW p \in Producers, Write(p)
    PROVE  TicketInv'
<1>1. p \in InFlight /\ pc[p] = "write"
  BY DEF Write, Goto, InFlight
<1>2. TypeOK /\ val[p] \in Values /\ val[p] = accepted[seen[p] + 1]
  BY <1>1 DEF TicketInv, Candidates, Tickets
<1>3. /\ buffer' = [buffer EXCEPT ![Slot(seen[p])] = val[p]]
      /\ pc' = [pc EXCEPT ![p] = "publish"]
      /\ UNCHANGED <<sequence, head, tail, seen, val, item, accepted, popped>>
  BY DEF Write, Goto, history
<1>4. /\ pc'[Consumer] = pc[Consumer] /\ pc'[p] = "publish"
      /\ \A q \in Producers : q # p => pc'[q] = pc[q]
  BY <1>2, <1>3, ConsumerAssumption DEF TypeOK, Threads
<1>5. Low' = Low /\ InFlight' = InFlight
  BY <1>1, <1>3, <1>4 DEF InFlight, Low
<1>6. /\ buffer'[Slot(seen[p])] = val[p]
      /\ \A s \in Slots : s # Slot(seen[p]) => buffer'[s] = buffer[s]
  BY <1>1, <1>2, <1>3, OwnSlot DEF TypeOK
<1>7. TypeOK'
  <2>1. buffer' \in [Slots -> Values \cup {NoItem}]
    BY <1>2, <1>3 DEF TypeOK
  <2>2. pc' \in [Threads -> {"idle", "load-tail", "load-sequence", "cas", "write",
                             "publish", "pop-load-sequence", "pop-read", "pop-clear",
                             "pop-store-head", "pop-release", "len-load-tail"}]
    BY <1>2, <1>3 DEF TypeOK
  <2> QED BY <1>2, <1>3, <2>1, <2>2, Zenon DEF TypeOK
<1>8. OwnCalls'
  BY <1>4 DEF TicketInv, OwnCalls
<1>9. Counters' /\ Turns' /\ Tickets' /\ Delivered'
  BY <1>3, <1>5 DEF TicketInv, Counters, Turns, Tickets, Delivered
<1>10. Candidates'
  BY <1>2, <1>3, <1>4, <1>5 DEF TicketInv, Candidates
<1>11. PopLocals'
  BY <1>3, <1>4 DEF TicketInv, PopLocals, Taking
<1>12. Lengths'
  BY <1>3, <1>4 DEF TicketInv, Lengths, Threads
\* the slot written is not one of those the other conjuncts speak of
<1>13. Contents'
  <2>1. ASSUME NEW k \in head .. tail - 1, sequence[Slot(k)] = k + 1
        PROVE  buffer'[Slot(k)] = buffer[Slot(k)]
    <3>1. k # seen[p] /\ k \in Nat /\ k \in Low .. Low + Capacity - 1
      BY <1>1, <2>1, OwnSlot, CapacityPositive
    <3> QED BY <1>1, <1>6, <3>1, OwnSlot, SlotFacts
  <2>2. \A q \in InFlight : q # p => buffer'[Slot(seen[q])] = buffer[Slot(seen[q])]
    BY <1>1, <1>6, OwnSlot
  <2>3. \A k \in tail .. Low + Capacity - 1 : buffer'[Slot(k)] = buffer[Slot(k)]
    BY <1>1, <1>6, OwnSlot, SlotFacts, CapacityPositive
  <2>4. pc[Consumer] = "pop-release" => buffer'[Slot(head - 1)] = buffer[Slot(head - 1)]
    <3> SUFFICES ASSUME pc[Consumer] = "pop-release"
                 PROVE  buffer'[Slot(Low)] = buffer[Slot(Low)] /\ Low = head - 1
      OBVIOUS
    <3>1. Low = head - 1
      BY DEF Low
    <3> QED BY <1>1, <1>6, <3>1, OwnSlot, SlotFacts, CapacityPositive
  <2>5. \A q \in InFlight : q # p => pc'[q] = pc[q] /\ val'[q] = val[q]
    BY <1>3, <1>4 DEF InFlight
  <2> QED BY <1>3, <1>4, <1>5, <1>6, <2>1, <2>2, <2>3, <2>4, <2>5 DEF TicketInv, Contents
<1> QED BY <1>7, <1>8, <1>9, <1>10, <1>11, <1>12, <1>13 DEF TicketInv

\* A producer publishes its ticket and returns.
LEMMA StepPublish ==
    ASSUME TicketInv, NEW p \in Producers, Publish(p)
    PROVE  TicketInv'
<1>1. p \in InFlight /\ pc[p] = "publish"
  BY DEF Publish, Return, Goto, InFlight
<1>2. TypeOK /\ val[p] \in Values /\ val[p] = accepted[seen[p] + 1]
  BY <1>1 DEF TicketInv, Candidates, Tickets
<1>3. /\ sequence' = [sequence EXCEPT ![Slot(seen[p])] = seen[p] + 1]
      /\ pc' = [pc EXCEPT ![p] = "idle"]
      /\ seen' = [seen EXCEPT ![p] = 0]
      /\ val' = [val EXCEPT ![p] = NoItem]
      /\ UNCHANGED <<buffer, head, tail, item, accepted, popped>>
  BY DEF Publish, Return, Goto, Load, history
<1>4. /\ pc'[Consumer] = pc[Consumer] /\ seen'[Consumer] = seen[Consumer]
      /\ pc'[p] = "idle" /\ seen'[p] = 0
      /\ \A q \in Producers : q # p =>
            pc'[q] = pc[q] /\ seen'[q] = seen[q] /\ val'[q] = val[q]
  BY <1>2, <1>3, ConsumerAssumption DEF TypeOK, Threads
<1>5. Low' = Low /\ InFlight' = InFlight \ {p}
  BY <1>3, <1>4 DEF InFlight, Low
<1>6. /\ sequence'[Slot(seen[p])] = seen[p] + 1
      /\ \A s \in Slots : s # Slot(seen[p]) => sequence'[s] = sequence[s]
  BY <1>1, <1>2, <1>3, OwnSlot DEF TypeOK
<1>7. /\ \A k \in Low .. Low + Capacity - 1 :
            k # seen[p] => sequence'[Slot(k)] = sequence[Slot(k)]
      /\ \A q \in InFlight : q # p => sequence'[Slot(seen[q])] = sequence[Slot(seen[q])]
  BY <1>1, <1>6, OwnSlot, SlotFacts
<1>8. TypeOK'
  <2>1. sequence' \in [Slots -> Nat]
    BY <1>1, <1>2, <1>3, OwnSlot DEF TypeOK
  <2>2. pc' \in [Threads -> {"idle", "load-tail", "load-sequence", "cas", "write",
                             "publish", "pop-load-sequence", "pop-read", "pop-clear",
                             "pop-store-head", "pop-release", "len-load-tail"}]
    BY <1>2, <1>3 DEF TypeOK
  <2>3. seen' \in [Threads -> Nat] /\ val' \in [Producers -> Values \cup {NoItem}]
    BY <1>2, <1>3 DEF TypeOK
  <2> QED BY <1>2, <1>3, <2>1, <2>2, <2>3, Zenon DEF TypeOK
<1>9. OwnCalls'
  BY <1>4 DEF TicketInv, OwnCalls
<1>10. Counters' /\ Delivered'
  BY <1>3, <1>5 DEF TicketInv, Counters, Delivered
<1>11. Turns'
  <2>1. \A k \in Low .. tail - 1 : sequence'[Slot(k)] \in {k, k + 1}
    BY <1>1, <1>6, <1>7, OwnSlot, CapacityPositive DEF TicketInv, Turns
  <2>2. \A k \in tail .. Low + Capacity - 1 : sequence'[Slot(k)] = k
    BY <1>1, <1>7, OwnSlot, CapacityPositive DEF TicketInv, Turns
  <2>3. ASSUME NEW k \in Low .. tail - 1, sequence'[Slot(k)] = k
        PROVE  \E q \in InFlight' : seen'[q] = k
    <3>1. k # seen[p]
      BY <1>1, <1>6, <2>3, OwnSlot
    <3>2. sequence[Slot(k)] = k
      BY <1>1, <1>7, <2>3, <3>1, OwnSlot, CapacityPositive
    <3>3. PICK q \in InFlight : seen[q] = k
      BY <3>2 DEF TicketInv, Turns
    <3>4. q \in InFlight' /\ seen'[q] = k
      BY <1>4, <1>5, <3>1, <3>3 DEF InFlight
    <3> QED BY <3>4
  <2> QED BY <1>3, <1>5, <2>1, <2>2, <2>3 DEF Turns
<1>12. Tickets'
  BY <1>3, <1>4, <1>5, <1>7 DEF TicketInv, Tickets, InFlight
<1>13. Candidates'
  BY <1>3, <1>4, <1>5 DEF TicketInv, Candidates
<1>14. PopLocals'
  <2>1. ASSUME Taking PROVE sequence'[Slot(head)] = head + 1
    <3>1. sequence[Slot(head)] = head + 1 /\ head < tail
      BY <2>1 DEF TicketInv, PopLocals
    <3> QED BY <1>1, <1>7, <3>1, OwnSlot, CapacityPositive
  <2>2. ASSUME pc[Consumer] = "pop-release" PROVE sequence'[Slot(head - 1)] = head
    <3>1. sequence[Slot(head - 1)] = head /\ Low = head - 1
      BY <2>2 DEF TicketInv, PopLocals, Low
    <3> QED BY <1>1, <1>7, <3>1, OwnSlot, CapacityPositive
  <2> QED BY <1>3, <1>4, <2>1, <2>2 DEF TicketInv, PopLocals, Taking
<1>15. Contents'
  <2>1. ASSUME NEW k \in head .. tail - 1, sequence'[Slot(k)] = k + 1, k # seen[p]
        PROVE  sequence[Slot(k)] = k + 1
    BY <1>1, <1>7, <2>1, OwnSlot, CapacityPositive
  \* what was just published was written before, and is not being taken
  <2>2. /\ buffer[Slot(seen[p])] = accepted[seen[p] + 1]
        /\ ~(seen[p] = head /\ pc[Consumer] = "pop-store-head")
    <3>1. buffer[Slot(seen[p])] = val[p]
      BY <1>1 DEF TicketInv, Contents
    <3>2. pc[Consumer] = "pop-store-head" => sequence[Slot(head)] = head + 1
      BY DEF TicketInv, PopLocals, Taking
    <3> QED BY <1>1, <1>2, <3>1, <3>2, OwnSlot
  <2>3. \A q \in InFlight \ {p} : pc'[q] = pc[q] /\ val'[q] = val[q] /\ seen'[q] = seen[q]
    BY <1>4 DEF InFlight
  <2> QED BY <1>3, <1>4, <1>5, <2>1, <2>2, <2>3 DEF TicketInv, Contents
<1>16. Lengths'
  BY <1>3, <1>4 DEF TicketInv, Lengths, Threads
<1> QED BY <1>8, <1>9, <1>10, <1>11, <1>12, <1>13, <1>14, <1>15, <1>16 DEF TicketInv

\* A step of the consumer that touches only its own locals.
LEMMA QuietConsumer ==
    ASSUME TicketInv, pc[Consumer] \notin {"pop-store-head", "pop-release"},
           NEW to \in {"idle", "pop-load-sequence", "pop-read", "pop-clear", "len-load-tail"},
           NEW n \in Nat, NEW i \in Values \cup {NoItem},
           pc' = [pc EXCEPT ![Consumer] = to],
           seen' = [seen EXCEPT ![Consumer] = n],
           item' = i,
           UNCHANGED <<buffer, sequence, head, tail, val, accepted, popped>>,
           to # "idle" => n = head,
           to \in {"pop-read", "pop-clear"} => head < tail /\ sequence[Slot(head)] = head + 1,
           to = "pop-clear" => i = accepted[head + 1]
    PROVE  TicketInv'
<1>1. TypeOK /\ head \in Nat
  BY DEF TicketInv, TypeOK
<1>2. /\ pc'[Consumer] = to /\ seen'[Consumer] = n
      /\ \A p \in Producers : pc'[p] = pc[p] /\ seen'[p] = seen[p]
  BY <1>1, ConsumerAssumption DEF TypeOK, Threads
<1>3. Low' = Low /\ InFlight' = InFlight /\ InFlight \subseteq Producers
  BY <1>2 DEF InFlight, Low
<1>4. TypeOK'
  <2>1. pc' \in [Threads -> {"idle", "load-tail", "load-sequence", "cas", "write",
                             "publish", "pop-load-sequence", "pop-read", "pop-clear",
                             "pop-store-head", "pop-release", "len-load-tail"}]
    BY <1>1 DEF TypeOK
  <2>2. seen' \in [Threads -> Nat] /\ item' \in Values \cup {NoItem}
    BY <1>1 DEF TypeOK
  <2> QED BY <1>1, <2>1, <2>2, Zenon DEF TypeOK
<1>5. OwnCalls'
  BY <1>2 DEF TicketInv, OwnCalls
<1>6. Counters' /\ Delivered'
  BY <1>3 DEF TicketInv, Counters, Delivered
<1>7. Turns' /\ Tickets'
  BY <1>2, <1>3 DEF TicketInv, Turns, Tickets
<1>8. Candidates'
  BY <1>2, <1>3 DEF TicketInv, Candidates
<1>9. PopLocals'
  BY <1>2 DEF TicketInv, PopLocals, Taking
<1>10. Contents'
  BY <1>2, <1>3 DEF TicketInv, Contents
<1>11. Lengths'
  BY <1>1, <1>2 DEF TicketInv, Lengths, Threads
<1> QED BY <1>4, <1>5, <1>6, <1>7, <1>8, <1>9, <1>10, <1>11 DEF TicketInv

\* The consumer's loads, and the ways out of a pop that finds nothing.
LEMMA StepLook ==
    ASSUME TicketInv, PopLoadHead \/ PopEmpty \/ PopLoadSequence \/ PopRead
    PROVE  TicketInv'
<1>1. /\ TypeOK /\ head \in Nat /\ tail \in Nat /\ head <= tail /\ Consumer \in Threads
      /\ seen[Consumer] \in Nat /\ item \in Values \cup {NoItem}
      /\ seen = [seen EXCEPT ![Consumer] = seen[Consumer]]
  BY DEF TicketInv, TypeOK, Counters, Threads
<1>2. CASE PopLoadHead
  <2>1. /\ pc[Consumer] = "idle"
        /\ pc' = [pc EXCEPT ![Consumer] = "pop-load-sequence"]
        /\ seen' = [seen EXCEPT ![Consumer] = head]
        /\ item' = item
        /\ UNCHANGED <<buffer, sequence, head, tail, val, accepted, popped>>
    BY <1>2 DEF PopLoadHead, Goto, Load, history
  <2>2. PICK n \in Nat : n = head
    BY <1>1
  <2>3. seen' = [seen EXCEPT ![Consumer] = n]
    BY <2>1, <2>2
  <2> QED BY <1>1, <2>1, <2>2, <2>3, QuietConsumer
<1>3. CASE PopEmpty
  <2>1. /\ pc[Consumer] = "pop-load-sequence"
        /\ pc' = [pc EXCEPT ![Consumer] = "idle"]
        /\ seen' = [seen EXCEPT ![Consumer] = 0]
        /\ item' = item
        /\ UNCHANGED <<buffer, sequence, head, tail, val, accepted, popped>>
    BY <1>3 DEF PopEmpty, Return, Goto, Load, history
  <2> QED BY <1>1, <2>1, QuietConsumer
\* a slot whose sequence is one ahead of head holds a published ticket
<1>4. CASE PopLoadSequence
  <2>1. /\ pc[Consumer] = "pop-load-sequence"
        /\ sequence[Slot(seen[Consumer])] = seen[Consumer] + 1
        /\ pc' = [pc EXCEPT ![Consumer] = "pop-read"]
        /\ seen' = [seen EXCEPT ![Consumer] = seen[Consumer]]
        /\ item' = item
        /\ UNCHANGED <<buffer, sequence, head, tail, val, accepted, popped>>
    BY <1>1, <1>4 DEF PopLoadSequence, Published, Goto, history
  <2>2. seen[Consumer] = head /\ Low = head
    BY <2>1 DEF TicketInv, PopLocals, Low
  <2>3. head < tail
    <3>1. ASSUME head = tail PROVE FALSE
      <4>1. sequence[Slot(tail)] = tail
        BY <1>1, <2>2, <3>1, CapacityPositive DEF TicketInv, Turns
      <4> QED BY <1>1, <2>1, <2>2, <3>1, <4>1
    <3> QED BY <1>1, <3>1
  <2> QED BY <1>1, <2>1, <2>2, <2>3, QuietConsumer
<1>5. CASE PopRead
  <2>1. /\ pc[Consumer] = "pop-read"
        /\ pc' = [pc EXCEPT ![Consumer] = "pop-clear"]
        /\ seen' = [seen EXCEPT ![Consumer] = seen[Consumer]]
        /\ item' = buffer[Slot(seen[Consumer])]
        /\ UNCHANGED <<buffer, sequence, head, tail, val, accepted, popped>>
    BY <1>1, <1>5 DEF PopRead, Goto, history
  <2>2. seen[Consumer] = head /\ head < tail /\ sequence[Slot(head)] = head + 1
    BY <2>1 DEF TicketInv, PopLocals, Taking
  <2>3. buffer[Slot(head)] = accepted[head + 1]
    BY <1>1, <2>1, <2>2 DEF TicketInv, Contents
  <2>4. accepted[head + 1] \in Values
    BY <1>1, <2>2 DEF TicketInv, TypeOK, Counters
  <2>5. PICK i \in Values \cup {NoItem} : i = accepted[head + 1]
    BY <2>4
  <2>6. item' = i
    BY <2>1, <2>2, <2>3, <2>5
  <2> QED BY <1>1, <2>1, <2>2, <2>5, <2>6, QuietConsumer
<1> QED BY <1>2, <1>3, <1>4, <1>5

\* Any thread's length query.
LEMMA StepLength ==
    ASSUME TicketInv, NEW t \in Threads, LenLoadHead(t) \/ LenLoadTail(t)
    PROVE  TicketInv'
<1>1. PICK n \in Nat : n = head
  BY DEF TicketInv, TypeOK
<1>2. /\ \A p \in Producers : val[p] \in Values \cup {NoItem}
      /\ \A p \in Producers : val = [val EXCEPT ![p] = val[p]]
      /\ item \in Values \cup {NoItem}
  BY DEF TicketInv, TypeOK
<1>3. CASE LenLoadHead(t)
  <2>1. /\ pc[t] = "idle" /\ pc' = [pc EXCEPT ![t] = "len-load-tail"]
        /\ seen' = [seen EXCEPT ![t] = n] /\ val' = val /\ item' = item
        /\ UNCHANGED <<buffer, sequence, head, tail, val, item, accepted, popped>>
    BY <1>1, <1>3 DEF LenLoadHead, Goto, Load, history
  <2>2. n <= head
    BY <1>1
  <2>3. CASE t = Consumer
    BY <1>1, <1>2, <2>1, <2>3, QuietConsumer
  <2>4. CASE t \in Producers
    <3>1. t \notin InFlight
      BY <2>1 DEF InFlight
    <3>2. val' = [val EXCEPT ![t] = val[t]] /\ val[t] \in Values \cup {NoItem}
      BY <1>2, <2>1, <2>4
    <3> QED BY <2>1, <2>2, <2>4, <3>1, <3>2, QuietProducer
  <2> QED BY <2>3, <2>4 DEF Threads
<1>4. CASE LenLoadTail(t)
  <2>1. /\ pc[t] = "len-load-tail" /\ pc' = [pc EXCEPT ![t] = "idle"]
        /\ seen' = [seen EXCEPT ![t] = 0] /\ val' = val /\ item' = item
        /\ UNCHANGED <<buffer, sequence, head, tail, val, item, accepted, popped>>
    BY <1>4 DEF LenLoadTail, Return, Goto, Load, history
  <2>2. CASE t = Consumer
    BY <1>2, <2>1, <2>2, QuietConsumer
  <2>3. CASE t \in Producers
    <3>1. t \notin InFlight
      BY <2>1 DEF InFlight
    <3>2. val' = [val EXCEPT ![t] = val[t]] /\ val[t] \in Values \cup {NoItem}
      BY <1>2, <2>1, <2>3
    <3> QED BY <2>1, <2>3, <3>1, <3>2, QuietProducer
  <2> QED BY <2>2, <2>3 DEF Threads
<1> QED BY <1>3, <1>4

\* The slot the consumer works on, the one of Low, is nobody else's.
LEMMA LowSlot ==
    ASSUME TicketInv, Low < tail, sequence[Slot(Low)] = Low + 1
    PROVE  /\ Low \in Nat /\ Low <= head /\ head <= tail /\ tail <= Low + Capacity
           /\ head \in Nat /\ tail \in Nat
           /\ Slot(Low) \in Slots /\ Slot(Low + Capacity) = Slot(Low)
           /\ \A k \in Low + 1 .. Low + Capacity - 1 : Slot(k) # Slot(Low) /\ Slot(k) \in Slots
           /\ \A q \in InFlight : seen[q] \in Low + 1 .. tail - 1
<1>1. /\ Low \in Nat /\ Low <= head /\ head <= tail /\ tail <= Low + Capacity
      /\ head \in Nat /\ tail \in Nat
  BY DEF TicketInv, TypeOK, Counters, Low
<1>2. \A k \in Low + 1 .. Low + Capacity - 1 : Slot(k) # Slot(Low) /\ Slot(k) \in Slots
  BY <1>1, SlotFacts, CapacityPositive
<1>3. ASSUME NEW q \in InFlight PROVE seen[q] \in Low + 1 .. tail - 1
  <2>1. seen[q] \in head .. tail - 1 /\ sequence[Slot(seen[q])] = seen[q]
    BY DEF TicketInv, Tickets
  <2> QED BY <1>1, <2>1
<1> QED BY <1>1, <1>2, <1>3, SlotFacts

\* The consumer clears the slot it has read.
LEMMA StepClear ==
    ASSUME TicketInv, PopClear
    PROVE  TicketInv'
<1>1. /\ pc[Consumer] = "pop-clear" /\ Taking /\ Low = head
      /\ seen[Consumer] = head /\ head < tail /\ sequence[Slot(head)] = head + 1
      /\ item = accepted[head + 1]
  BY DEF TicketInv, PopLocals, PopClear, Goto, Taking, Low
<1>2. /\ buffer' = [buffer EXCEPT ![Slot(head)] = NoItem]
      /\ pc' = [pc EXCEPT ![Consumer] = "pop-store-head"]
      /\ UNCHANGED <<sequence, head, tail, seen, val, item, accepted, popped>>
  BY <1>1 DEF PopClear, Goto, history
<1>3. TypeOK
  BY DEF TicketInv
<1>4. /\ pc'[Consumer] = "pop-store-head"
      /\ \A p \in Producers : pc'[p] = pc[p]
  BY <1>2, <1>3, ConsumerAssumption DEF TypeOK, Threads
<1>5. Low' = Low /\ InFlight' = InFlight /\ InFlight \subseteq Producers
  BY <1>1, <1>2, <1>4 DEF InFlight, Low
<1>6. /\ buffer'[Slot(head)] = NoItem
      /\ \A k \in head + 1 .. head + Capacity - 1 : buffer'[Slot(k)] = buffer[Slot(k)]
      /\ \A q \in InFlight : buffer'[Slot(seen[q])] = buffer[Slot(seen[q])]
  BY <1>1, <1>2, <1>3, LowSlot, CapacityPositive DEF TypeOK
<1>7. TypeOK'
  <2>1. buffer' \in [Slots -> Values \cup {NoItem}]
    BY <1>2, <1>3 DEF TypeOK
  <2>2. pc' \in [Threads -> {"idle", "load-tail", "load-sequence", "cas", "write",
                             "publish", "pop-load-sequence", "pop-read", "pop-clear",
                             "pop-store-head", "pop-release", "len-load-tail"}]
    BY <1>2, <1>3 DEF TypeOK
  <2> QED BY <1>2, <1>3, <2>1, <2>2, Zenon DEF TypeOK
<1>8. OwnCalls'
  BY <1>4 DEF TicketInv, OwnCalls
<1>9. Counters' /\ Turns' /\ Tickets' /\ Delivered'
  BY <1>2, <1>5 DEF TicketInv, Counters, Turns, Tickets, Delivered
<1>10. Candidates'
  BY <1>2, <1>4, <1>5 DEF TicketInv, Candidates
<1>11. PopLocals'
  BY <1>1, <1>2, <1>4 DEF PopLocals, Taking
<1>12. Contents'
  <2>1. \A k \in head + 1 .. tail - 1 : sequence[Slot(k)] = k + 1 =>
           buffer'[Slot(k)] = accepted[k + 1]
    BY <1>1, <1>6, LowSlot, CapacityPositive DEF TicketInv, Contents
  <2>2. \A k \in tail .. head + Capacity - 1 : buffer'[Slot(k)] = NoItem
    BY <1>1, <1>6, LowSlot, CapacityPositive DEF TicketInv, Contents
  <2>3. \A q \in InFlight :
           buffer'[Slot(seen[q])] = IF pc[q] = "write" THEN NoItem ELSE val[q]
    BY <1>6 DEF TicketInv, Contents
  <2>4. head \in Nat /\ tail \in Nat
    BY <1>3 DEF TypeOK
  <2> QED BY <1>1, <1>2, <1>4, <1>5, <1>6, <2>1, <2>2, <2>3, <2>4 DEF Contents
<1>13. Lengths'
  BY <1>2, <1>4 DEF TicketInv, Lengths, Threads
<1> QED BY <1>7, <1>8, <1>9, <1>10, <1>11, <1>12, <1>13 DEF TicketInv

\* The consumer delivers the item: Low stays behind until the slot is released.
LEMMA StepStoreHead ==
    ASSUME TicketInv, PopStoreHead
    PROVE  TicketInv'
<1>1. /\ pc[Consumer] = "pop-store-head" /\ Taking /\ Low = head
      /\ seen[Consumer] = head /\ head < tail /\ sequence[Slot(head)] = head + 1
      /\ item = accepted[head + 1]
  BY DEF TicketInv, PopLocals, PopStoreHead, Goto, Taking, Low
<1>2. /\ head' = head + 1
      /\ popped' = Append(popped, item)
      /\ item' = NoItem
      /\ pc' = [pc EXCEPT ![Consumer] = "pop-release"]
      /\ UNCHANGED <<buffer, sequence, tail, seen, val, accepted>>
  BY <1>1 DEF PopStoreHead, Goto
<1>3. /\ TypeOK /\ head \in Nat /\ tail \in Nat
      /\ popped \in Seq(Values) /\ Len(popped) = head
      /\ accepted \in Seq(Values) /\ Len(accepted) = tail
  BY DEF TicketInv, TypeOK, Counters
<1>4. /\ pc'[Consumer] = "pop-release"
      /\ \A p \in Producers : pc'[p] = pc[p]
  BY <1>2, <1>3, ConsumerAssumption DEF TypeOK, Threads
<1>5. Low' = Low /\ InFlight' = InFlight /\ InFlight \subseteq Producers
  BY <1>1, <1>2, <1>3, <1>4 DEF InFlight, Low
<1>6. item \in Values
  BY <1>1, <1>3
<1>7. /\ popped' \in Seq(Values) /\ Len(popped') = head' /\ popped'[head + 1] = accepted[head + 1]
      /\ \A i \in 1 .. head : popped'[i] = popped[i]
  BY <1>1, <1>2, <1>3, <1>6
<1>8. TypeOK'
  <2>1. pc' \in [Threads -> {"idle", "load-tail", "load-sequence", "cas", "write",
                             "publish", "pop-load-sequence", "pop-read", "pop-clear",
                             "pop-store-head", "pop-release", "len-load-tail"}]
    BY <1>2, <1>3 DEF TypeOK
  <2>2. head' \in Nat /\ item' \in Values \cup {NoItem}
    BY <1>2, <1>3
  <2> QED BY <1>2, <1>3, <1>7, <2>1, <2>2, Zenon DEF TypeOK
<1>9. OwnCalls'
  BY <1>4 DEF TicketInv, OwnCalls
<1>10. Counters'
  BY <1>1, <1>2, <1>3, <1>5, <1>7 DEF TicketInv, Counters
<1>11. Turns'
  BY <1>2, <1>5 DEF TicketInv, Turns
\* the ticket delivered is published, so nobody in flight holds it
<1>12. Tickets'
  BY <1>1, <1>2, <1>3, <1>5, LowSlot DEF TicketInv, Tickets
<1>13. Candidates'
  BY <1>2, <1>4, <1>5 DEF TicketInv, Candidates
<1>14. PopLocals'
  BY <1>1, <1>2, <1>3, <1>4 DEF PopLocals, Taking
<1>15. Contents'
  <2>1. buffer[Slot(head)] = NoItem
    BY <1>1, <1>3 DEF TicketInv, Contents
  <2> QED BY <1>1, <1>2, <1>3, <1>4, <1>5, <2>1 DEF TicketInv, Contents
<1>16. Delivered'
  BY <1>2, <1>3, <1>7 DEF TicketInv, Delivered
<1>17. Lengths'
  <2>1. \A t \in Threads : seen[t] \in Nat
    BY <1>3 DEF TypeOK
  <2> QED BY <1>2, <1>3, <1>4, <2>1 DEF TicketInv, Lengths, Threads
<1> QED BY <1>8, <1>9, <1>10, <1>11, <1>12, <1>13, <1>14, <1>15, <1>16, <1>17 DEF TicketInv

\* The consumer gives the slot to the ticket one lap ahead.
LEMMA StepRelease ==
    ASSUME TicketInv, PopRelease
    PROVE  TicketInv'
<1>1. /\ pc[Consumer] = "pop-release" /\ Low = head - 1 /\ head = Low + 1
      /\ seen[Consumer] = Low /\ Low < tail /\ sequence[Slot(Low)] = Low + 1
      /\ Low \in Nat /\ head \in Nat /\ tail \in Nat /\ buffer[Slot(Low)] = NoItem
  BY DEF TicketInv, TypeOK, Counters, PopLocals, Contents, PopRelease, Return, Goto, Low
<1>2. /\ sequence' = [sequence EXCEPT ![Slot(Low)] = Low + Capacity]
      /\ pc' = [pc EXCEPT ![Consumer] = "idle"]
      /\ seen' = [seen EXCEPT ![Consumer] = 0]
      /\ UNCHANGED <<buffer, head, tail, val, item, accepted, popped>>
  BY <1>1 DEF PopRelease, Return, Goto, Load, history
<1>3. TypeOK
  BY DEF TicketInv
<1>4. /\ pc'[Consumer] = "idle" /\ seen'[Consumer] = 0
      /\ \A p \in Producers : pc'[p] = pc[p] /\ seen'[p] = seen[p]
  BY <1>2, <1>3, ConsumerAssumption DEF TypeOK, Threads
<1>5. Low' = Low + 1 /\ InFlight' = InFlight /\ InFlight \subseteq Producers
  BY <1>1, <1>2, <1>4 DEF InFlight, Low
<1>6. /\ sequence'[Slot(Low + Capacity)] = Low + Capacity
      /\ \A k \in Low + 1 .. Low + Capacity - 1 : sequence'[Slot(k)] = sequence[Slot(k)]
      /\ \A q \in InFlight : sequence'[Slot(seen[q])] = sequence[Slot(seen[q])]
  BY <1>1, <1>2, <1>3, LowSlot, CapacityPositive DEF TypeOK
<1>7. TypeOK'
  <2>1. sequence' \in [Slots -> Nat]
    <3>1. Low + Capacity \in Nat /\ sequence \in [Slots -> Nat]
      BY <1>1, <1>3, CapacityPositive DEF TypeOK
    <3> QED BY <1>2, <3>1
  <2>2. pc' \in [Threads -> {"idle", "load-tail", "load-sequence", "cas", "write",
                             "publish", "pop-load-sequence", "pop-read", "pop-clear",
                             "pop-store-head", "pop-release", "len-load-tail"}]
    BY <1>2, <1>3 DEF TypeOK
  <2>3. seen' \in [Threads -> Nat]
    BY <1>2, <1>3 DEF TypeOK
  <2> QED BY <1>2, <1>3, <2>1, <2>2, <2>3, Zenon DEF TypeOK
<1>8. OwnCalls'
  BY <1>4 DEF TicketInv, OwnCalls
<1>9. Counters' /\ Delivered'
  BY <1>1, <1>2, <1>5, CapacityPositive DEF TicketInv, Counters, Delivered
<1>10. Turns'
  <2>1. \A k \in Low + 1 .. tail - 1 : sequence'[Slot(k)] \in {k, k + 1}
    BY <1>1, <1>6, LowSlot, CapacityPositive DEF TicketInv, Turns
  <2>2. \A k \in tail .. Low + Capacity - 1 : sequence'[Slot(k)] = k
    BY <1>1, <1>6, CapacityPositive DEF TicketInv, Turns
  <2>3. ASSUME NEW k \in Low + 1 .. tail - 1, sequence'[Slot(k)] = k
        PROVE  \E q \in InFlight' : seen'[q] = k
    <3>1. sequence[Slot(k)] = k
      BY <1>1, <1>6, <2>3, LowSlot, CapacityPositive
    <3>2. PICK q \in InFlight : seen[q] = k
      BY <1>1, <3>1 DEF TicketInv, Turns
    <3> QED BY <1>4, <1>5, <3>2
  <2>4. \A k \in tail .. (Low + 1) + Capacity - 1 : sequence'[Slot(k)] = k
    BY <1>1, <1>6, <2>2, CapacityPositive
  <2> QED BY <1>2, <1>5, <2>1, <2>3, <2>4 DEF Turns
<1>11. Tickets'
  BY <1>2, <1>4, <1>5, <1>6 DEF TicketInv, Tickets
<1>12. Candidates'
  BY <1>1, <1>2, <1>4, <1>5, CapacityPositive DEF TicketInv, Candidates
<1>13. PopLocals'
  BY <1>4 DEF PopLocals, Taking
<1>14. Contents'
  <2>1. \A k \in head .. tail - 1 : sequence'[Slot(k)] = sequence[Slot(k)]
    BY <1>1, <1>6, LowSlot, CapacityPositive
  <2>2. \A k \in tail .. (Low + 1) + Capacity - 1 : buffer[Slot(k)] = NoItem
    BY <1>1, LowSlot, CapacityPositive DEF TicketInv, Contents
  <2> QED BY <1>1, <1>2, <1>4, <1>5, <2>1, <2>2 DEF TicketInv, Contents
<1>15. Lengths'
  BY <1>2, <1>4 DEF TicketInv, Lengths, Threads
<1> QED BY <1>7, <1>8, <1>9, <1>10, <1>11, <1>12, <1>13, <1>14, <1>15 DEF TicketInv

\* Every step of the ring with two slots or more keeps the invariant.
LEMMA StepTickets == Capacity > 1 /\ TicketInv /\ [Next]_vars => TicketInv'
<1> SUFFICES ASSUME Capacity > 1, TicketInv, [Next]_vars PROVE TicketInv'
  OBVIOUS
<1>1. ASSUME NEW p \in Producers, Push(p) PROVE TicketInv'
  BY <1>1, StepCandidate, StepReserve, StepWrite, StepPublish DEF Push
<1>2. CASE Pop
  BY <1>2, StepLook, StepClear, StepStoreHead, StepRelease DEF Pop
<1>3. ASSUME NEW t \in Threads, Length(t) PROVE TicketInv'
  BY <1>3, StepLength DEF Length
<1>4. CASE UNCHANGED vars
  BY <1>4 DEF vars, TicketInv, TypeOK, OwnCalls, Counters, Turns, Tickets, Candidates,
              PopLocals, Contents, Delivered, Lengths, Low, InFlight, Taking, history
<1> QED BY <1>1, <1>2, <1>3, <1>4 DEF Next

-----------------------------------------------------------------------------
\* With two slots or more the invariant holds of every reachable state of the
\* ring, whatever its producers do.
THEOREM TicketInvariant == Capacity > 1 => (Spec => []TicketInv)
<1> SUFFICES ASSUME Capacity > 1 PROVE Spec => []TicketInv
  OBVIOUS
<1>1. Init => TicketInv
  BY InitTickets
<1>2. TicketInv /\ [Next]_vars => TicketInv'
  BY StepTickets
<1> QED BY <1>1, <1>2, PTL DEF Spec

\* mpsc_pop returns the items in the order of their tickets, each once.
THEOREM PopsInTicketOrder == Capacity > 1 => (Spec => []FifoDelivery)
<1> SUFFICES ASSUME Capacity > 1 PROVE Spec => []FifoDelivery
  OBVIOUS
<1>1. TicketInv => FifoDelivery
  <2> SUFFICES ASSUME TicketInv PROVE popped = SubSeq(accepted, 1, head)
    BY DEF FifoDelivery
  <2> DEFINE front == SubSeq(accepted, 1, head)
  <2>1. /\ accepted \in Seq(Values) /\ popped \in Seq(Values) /\ head \in Nat
        /\ head <= Len(accepted) /\ Len(popped) = head
        /\ \A i \in 1 .. head : accepted[i] \in Values /\ popped[i] = accepted[i]
    BY DEF TicketInv, TypeOK, Counters, Delivered
  <2>2. /\ front \in Seq(Values) /\ Len(front) = head
        /\ \A i \in 1 .. head : front[i] = accepted[i]
    BY <2>1, SubSeqProperties
  <2> HIDE DEF front
  <2>3. popped = front
    BY <2>1, <2>2, SeqEqual
  <2> QED BY <2>3 DEF front
<1> QED BY <1>1, TicketInvariant, PTL

\* No two threads are about to touch the plain memory of one slot.
THEOREM TicketsAreRaceFree == Capacity > 1 => (Spec => []NoSlotRace)
<1> SUFFICES ASSUME Capacity > 1 PROVE Spec => []NoSlotRace
  OBVIOUS
<1>1. TicketInv => NoSlotRace
  <2> SUFFICES ASSUME TicketInv, NEW s \in Slots, NEW t \in AtSlot(s), NEW u \in AtSlot(s)
               PROVE  t = u
    BY DEF NoSlotRace
  <2>1. \A p \in AtSlot(s) : p # Consumer => p \in InFlight /\ Slot(seen[p]) = s
    BY DEF AtSlot, InFlight
  <2>2. CASE t # Consumer /\ u # Consumer
    BY <2>1, <2>2, OwnSlot
  \* the consumer is at a published ticket, a producer at a reserved one
  <2>3. ASSUME NEW p \in AtSlot(s), p # Consumer, Consumer \in AtSlot(s) PROVE FALSE
    <3>1. p \in InFlight /\ Slot(seen[p]) = s /\ sequence[s] = seen[p]
      BY <2>1, <2>3, OwnSlot
    <3>2. Slot(seen[Consumer]) = s /\ pc[Consumer] \in {"pop-read", "pop-clear"}
      BY <2>3, ConsumerAssumption DEF AtSlot
    <3>3. seen[Consumer] = head /\ sequence[s] = head + 1 /\ Low = head
      BY <3>2 DEF TicketInv, PopLocals, Taking, Low
    <3>4. head \in Nat /\ head \in Low .. Low + Capacity - 1
      BY <3>3, CapacityPositive DEF TicketInv, TypeOK
    <3>5. head # seen[p] => Slot(head) # Slot(seen[p])
      BY <3>1, <3>4, OwnSlot
    <3> QED BY <3>1, <3>2, <3>3, <3>4, <3>5
  <2> QED BY <2>2, <2>3
<1> QED BY <1>1, TicketInvariant, PTL

\* A producer only ever stores into an empty slot.
THEOREM NothingIsOverwritten == Capacity > 1 => (Spec => []NoOverwrite)
<1> SUFFICES ASSUME Capacity > 1 PROVE Spec => []NoOverwrite
  OBVIOUS
<1>1. TicketInv => NoOverwrite
  BY DEF TicketInv, Contents, NoOverwrite, InFlight
<1> QED BY <1>1, TicketInvariant, PTL

\* mpsc_len is never negative, and the consumer sees at most capacity.
THEOREM TicketLengthsInRange == Capacity > 1 => (Spec => []LengthInRange)
<1> SUFFICES ASSUME Capacity > 1 PROVE Spec => []LengthInRange
  OBVIOUS
<1>1. TicketInv => LengthInRange
  BY CapacityPositive
     DEF TicketInv, TypeOK, Counters, Lengths, Low, LengthInRange, LenResult, Threads
<1> QED BY <1>1, TicketInvariant, PTL

\* A pop that returns None missed nothing that was published.
THEOREM NoneIsHonest == Capacity > 1 => (Spec => NoneMeansNothingPublished)
<1> SUFFICES ASSUME Capacity > 1 PROVE Spec => NoneMeansNothingPublished
  OBVIOUS
<1> DEFINE Honest == PopEmpty =>
        \/ head = tail
        \/ \E p \in Producers : pc[p] \in {"write", "publish"} /\ seen[p] = head
<1>1. TicketInv => Honest
  <2> SUFFICES ASSUME TicketInv, PopEmpty, head # tail
               PROVE  \E p \in InFlight : seen[p] = head
    BY DEF InFlight
  <2>1. /\ Low = head /\ seen[Consumer] = head /\ head \in Nat /\ tail \in Nat /\ head < tail
        /\ sequence[Slot(head)] # head + 1
    BY DEF TicketInv, TypeOK, Counters, PopLocals, Low, PopEmpty, Published, Return, Goto
  <2>2. sequence[Slot(head)] = head
    BY <2>1 DEF TicketInv, Turns
  <2> QED BY <2>1, <2>2 DEF TicketInv, Turns
<1>2. TicketInv /\ [Next]_vars => [Honest]_vars
  BY <1>1
<1> HIDE DEF Honest
<1>3. Spec => [][Honest]_vars
  BY <1>2, TicketInvariant, PTL DEF Spec
<1> QED BY <1>3 DEF NoneMeansNothingPublished, Honest

\* A push that returns false met a ring without a free ticket.
THEOREM FalseIsHonest == Capacity > 1 => (Spec => FalseMeansFull)
<1> SUFFICES ASSUME Capacity > 1 PROVE Spec => FalseMeansFull
  OBVIOUS
<1> DEFINE Honest == \A p \in Producers : PushFull(p) =>
        tail - head >= Capacity - (IF pc[Consumer] = "pop-release" THEN 1 ELSE 0)
<1>1. TicketInv => Honest
  <2> SUFFICES ASSUME TicketInv, NEW p \in Producers, PushFull(p)
               PROVE  tail >= Low + Capacity
    BY CapacityPositive DEF TicketInv, TypeOK, Low
  <2>1. /\ Low \in Nat /\ tail \in Nat /\ seen[p] \in Nat /\ seen[p] <= tail
        /\ sequence \in [Slots -> Nat]
    BY DEF TicketInv, TypeOK, Counters, Candidates, PushFull, Return, Goto, Threads
  <2>2. PICK j \in Low .. Low + Capacity - 1 : Slot(j) = Slot(seen[p])
    BY <2>1, CapacityPositive, WindowCovers DEF Slot
  <2>3. sequence[Slot(j)] < seen[p] /\ sequence[Slot(j)] \in Nat /\ j \in Nat
    BY <2>1, <2>2, CapacityPositive, SlotFacts DEF PushFull, Turn
  \* with a ticket free, a counter of the window never waits for its turn,
  \* so j is not seen[p] itself, nor is it a lap away
  <2>4. ASSUME tail < Low + Capacity PROVE FALSE
    <3>1. sequence[Slot(j)] >= j
      BY <2>1, <2>2, <2>3, <2>4, CapacityPositive DEF TicketInv, Turns
    <3>2. j < seen[p] /\ seen[p] < j + Capacity
      BY <2>1, <2>2, <2>3, <2>4, <3>1, CapacityPositive
    <3> QED BY <2>1, <2>2, <2>3, <3>2, SlotFacts
  <2> QED BY <2>1, <2>4, CapacityPositive
<1>2. TicketInv /\ [Next]_vars => [Honest]_vars
  BY <1>1
<1> HIDE DEF Honest
<1>3. Spec => [][Honest]_vars
  BY <1>2, TicketInvariant, PTL DEF Spec
<1> QED BY <1>3 DEF FalseMeansFull, Honest

-----------------------------------------------------------------------------
\* The abstract queue of the ring: the tickets reserved and not yet taken.
Window == SubSeq(accepted, head + 1, tail)

\* A step of the ring is an Accept (the compare-exchange of tail), a Deliver
\* (the store of head) or invisible to the abstract queue.
LEMMA TicketStepIsFifoStep ==
    ASSUME TicketInv, [Next]_vars
    PROVE  [Fifo!Next]_(Fifo!fifoVars)
<1>1. /\ accepted \in Seq(Values) /\ head \in Nat /\ tail \in Nat /\ Low \in Nat
      /\ head <= tail /\ tail = Len(accepted) /\ Low <= head
  BY DEF TicketInv, TypeOK, Counters, Low
<1>2. ASSUME NEW p \in Producers, Reserve(p) PROVE Fifo!Next
  <2>1. val[p] \in Values /\ seen[p] = tail /\ tail < Low + Capacity
    BY <1>2 DEF Reserve, Goto, TicketInv, Candidates
  <2>2. accepted' = Append(accepted, val[p]) /\ tail' = tail + 1 /\ head' = head
    BY <1>2, <2>1 DEF Reserve
  <2>3. Window' = Append(Window, val[p])
    <3>1. head \in 0 .. Len(accepted)
      BY <1>1
    <3>2. SubSeq(Append(accepted, val[p]), head + 1, Len(accepted) + 1)
            = Append(SubSeq(accepted, head + 1, Len(accepted)), val[p])
      BY <1>1, <2>1, <3>1, WindowAppend, Zenon
    <3> QED BY <1>1, <2>2, <3>2, Zenon DEF Window
  <2>4. Len(Window) = tail - head
    <3>1. \A i \in head + 1 .. tail : accepted[i] \in Values
      BY <1>1
    <3> QED BY <1>1, <3>1, SubSeqProperties DEF Window
  <2>5. Len(Window) < Capacity
    BY <1>1, <2>1, <2>4, CapacityPositive
  <2>6. Fifo!Accept(val[p])
    BY <2>3, <2>5 DEF Fifo!Accept, Window
  <2> QED BY <2>1, <2>6 DEF Fifo!Next
<1>3. ASSUME PopStoreHead PROVE Fifo!Next
  <2>1. seen[Consumer] = head /\ head < tail
    BY <1>3 DEF PopStoreHead, Goto, TicketInv, PopLocals, Taking
  <2>2. accepted' = accepted /\ tail' = tail /\ head' = head + 1
    BY <1>3, <2>1 DEF PopStoreHead
  <2>3. Window # <<>> /\ Tail(Window) = SubSeq(accepted, head + 2, tail)
    <3>1. tail \in 1 .. Len(accepted) /\ head \in 0 .. tail - 1
      BY <1>1, <2>1
    <3> QED BY <1>1, <3>1, WindowTail, Zenon DEF Window
  <2>4. Window' = SubSeq(accepted, head + 2, tail)
    BY <1>1, <2>2 DEF Window
  <2>5. Fifo!Deliver
    BY <2>3, <2>4 DEF Fifo!Deliver, Window
  <2> QED BY <2>5 DEF Fifo!Next
<1>4. CASE UNCHANGED <<accepted, head, tail>>
  BY <1>4 DEF Fifo!fifoVars
<1>5. \/ \E p \in Producers : Reserve(p)
      \/ PopStoreHead
      \/ UNCHANGED <<accepted, head, tail>>
  BY DEF Next, Push, Pop, Length, PushCall, LoadTail, LoadSequence, Outrun, PushFull,
         ReserveLost, Write, Publish, PopLoadHead, PopEmpty, PopLoadSequence, PopRead,
         PopClear, PopRelease, LenLoadHead, LenLoadTail, vars, history
<1> QED BY <1>2, <1>3, <1>4, <1>5

\* The ring implements the bounded FIFO: whoever sees only pushes that took
\* their ticket and completed pops cannot tell it from a queue of at most
\* capacity items.
THEOREM TicketRingImplementsFifo == Capacity > 1 => (Spec => ImplementsFifo)
<1> SUFFICES ASSUME Capacity > 1 PROVE Spec => ImplementsFifo
  OBVIOUS
<1>1. Init => Fifo!Init
  <2> SUFFICES ASSUME Init PROVE SubSeq(accepted, head + 1, tail) = <<>>
    BY DEF Fifo!Init
  <2> QED BY SubSeqEmpty DEF Init
<1>2. TicketInv /\ [Next]_vars => [Fifo!Next]_(Fifo!fifoVars)
  BY TicketStepIsFifoStep
<1> QED BY <1>1, <1>2, TicketInvariant, PTL DEF Spec, ImplementsFifo, Fifo!Spec
=============================================================================
