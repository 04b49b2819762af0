---------------------------- MODULE ChannelProofs ----------------------------
(***************************************************************************)
(* Proofs about Channel for all finite sets of senders and of receivers,   *)
(* which may have threads in common, every set of closers and of values,   *)
(* and every capacity that channel_new may be asked for.                   *)
(***************************************************************************)
EXTENDS Channel, FiniteSetTheorems, SequenceTheorems, TLAPS

-----------------------------------------------------------------------------
(* The arithmetic of the ring: counter c lives in slot c % capacity.       *)

\* A counter has a slot of the ring.
LEMMA SlotInRing ==
    ASSUME NEW cap \in Nat \ {0}, NEW c \in Nat
    PROVE  c % cap \in 0 .. cap - 1
  OBVIOUS

\* Counters less than one lap apart live in different slots, so a slot is
\* never shared by two counters of one window of the ring.
LEMMA SlotsDistinct ==
    ASSUME NEW cap \in Nat \ {0}, NEW i \in Nat, NEW j \in Nat,
           i < j, j < i + cap
    PROVE  i % cap # j % cap
<1> SUFFICES ASSUME i % cap = j % cap PROVE FALSE
  OBVIOUS
<1>1. /\ i = cap * (i \div cap) + (i % cap)
      /\ j = cap * (j \div cap) + (j % cap)
      /\ i \div cap \in Int /\ j \div cap \in Int
      /\ i % cap \in Int /\ j % cap \in Int
  OBVIOUS
<1> DEFINE k == j \div cap - i \div cap
<1>2. k \in Int /\ cap * k = j - i
  BY <1>1
<1>3. CASE k <= 0
  <2>1. cap * k <= 0
    BY <1>2, <1>3
  <2> QED BY <2>1, <1>2
<1>4. CASE k >= 1
  <2>1. cap * k >= cap
    BY <1>2, <1>4
  <2> QED BY <2>1, <1>2
<1> QED BY <1>2, <1>3, <1>4

\* In the first lap a counter is its own slot.
LEMMA SlotFirstLap ==
    ASSUME NEW cap \in Nat \ {0}, NEW c \in 0 .. cap - 1
    PROVE  c % cap = c
<1> DEFINE k == c \div cap
<1>1. c = cap * k + (c % cap) /\ k \in Int /\ c % cap \in 0 .. cap - 1
  OBVIOUS
<1>2. cap * k < cap /\ cap * k > -cap
  BY <1>1
<1>3. k = 0
  BY <1>1, <1>2
<1> QED BY <1>1, <1>3

\* Numbers that differ by whole laps have the same slot.
LEMMA SlotOfLaps ==
    ASSUME NEW cap \in Nat \ {0}, NEW c \in Nat, NEW d \in Nat, NEW n \in Int,
           c = d + cap * n
    PROVE  c % cap = d % cap
<1> DEFINE cs == c % cap
           ds == d % cap
           k == d \div cap + n - c \div cap
<1>1. /\ c = cap * (c \div cap) + cs /\ d = cap * (d \div cap) + ds
      /\ c \div cap \in Int /\ d \div cap \in Int
      /\ cs \in 0 .. cap - 1 /\ ds \in 0 .. cap - 1
  OBVIOUS
<1> HIDE DEF cs, ds
<1>2. k \in Int /\ cap * k = cs - ds
  BY <1>1
<1> HIDE DEF k
<1>3. cap * k < cap /\ cap * k > -cap
  BY <1>1, <1>2
<1>4. k = 0
  BY <1>2, <1>3
<1>5. cs = ds
  BY <1>1, <1>2, <1>4
<1> QED BY <1>5 DEF cs, ds

\* Counting on from a slot gives the same slots as counting on from its number.
LEMMA SlotCountsOn ==
    ASSUME NEW cap \in Nat \ {0}, NEW c \in Nat, NEW i \in Nat
    PROVE  ((c % cap) + i) % cap = (c + i) % cap
<1> DEFINE s == c % cap
           n == c \div cap
<1>1. c = cap * n + s /\ n \in Int /\ s \in 0 .. cap - 1
  OBVIOUS
<1> HIDE DEF s, n
<1>2. c + i = (s + i) + cap * n /\ s + i \in Nat /\ c + i \in Nat
  BY <1>1
<1>3. (c + i) % cap = (s + i) % cap
  BY <1>1, <1>2, SlotOfLaps
<1> QED BY <1>3 DEF s

-----------------------------------------------------------------------------
\* The threads keep to their own calls, and a send has a value to put.
OwnCalls ==
    /\ \A t \in At("send") \cup At("send-wait") : t \in Senders /\ arg[t] \in Values
    /\ \A t \in At("recv") \cup At("recv-wait") : t \in Receivers

\* The i-th value in the channel, oldest first, is in this slot.
Place(i) == (head + i - 1) % Cap

\* count values lie from head to tail.
RingInv ==
    /\ tail = (head + count) % Cap
    /\ \A i \in 1 .. count : buf[Place(i)] \in Values

\* The inductive invariant.
ChannelInv == TypeOK /\ OwnCalls /\ RingInv /\ NoLostWakeup

-----------------------------------------------------------------------------
LEMMA CapIsPositive ==
    ASSUME ChannelAssumption
    PROVE  Cap \in Nat \ {0}
<1>1. \A n \in Int, m \in Nat \ {0} : n % m \in 0 .. m - 1
  OBVIOUS
<1>2. RequestedCap + IntEnd \in Int /\ 2 * IntEnd \in Nat \ {0}
  BY DEF ChannelAssumption
<1>3. AsInt(RequestedCap) \in Int
  BY <1>1, <1>2 DEF ChannelAssumption, AsInt
<1> QED BY <1>3 DEF Cap

LEMMA InitChannel ==
    ASSUME ChannelAssumption, Init
    PROVE  ChannelInv
<1>a. Cap \in Nat \ {0}
  BY CapIsPositive
<1> USE <1>a DEF Init
<1>1. TypeOK
  <2>1. closed \in BOOLEAN
    BY Zenon
  <2> QED BY <2>1 DEF TypeOK, Slots
<1>2. \A where : where # "idle" => At(where) = {}
  BY DEF At
<1>3. OwnCalls /\ NoLostWakeup
  BY <1>2 DEF OwnCalls, NoLostWakeup
<1>4. RingInv
  BY SlotFirstLap DEF RingInv
<1> QED BY <1>1, <1>3, <1>4 DEF ChannelInv

LEMMA CallsStep ==
    ASSUME ChannelAssumption, ChannelInv, [Next]_vars
    PROVE  TypeOK' /\ OwnCalls'
<1>a. Cap \in Nat \ {0}
  BY CapIsPositive
<1> USE <1>a DEF ChannelInv, TypeOK, OwnCalls, At, ring, Users
<1>1. ASSUME NEW s \in Senders, NEW v \in Values, SendCall(s, v) PROVE TypeOK' /\ OwnCalls'
  BY <1>1 DEF SendCall
<1>2. ASSUME NEW s \in Senders, SendWait(s) \/ SendDrop(s) PROVE TypeOK' /\ OwnCalls'
  BY <1>2 DEF SendWait, SendDrop
<1>3. ASSUME NEW s \in Senders, SendPut(s) PROVE TypeOK' /\ OwnCalls'
  <2>1. tail' \in Slots /\ count' \in 0 .. Cap /\ head' \in Slots
    BY <1>3, SlotInRing DEF SendPut, Full, Slots
  <2>2. buf' \in [Slots -> Values \cup {Junk}] /\ arg' \in [Senders -> Values \cup {Junk}]
    BY <1>3 DEF SendPut
  <2>3. /\ pc' \in [Users -> {"idle", "send", "send-wait", "recv", "recv-wait"}]
        /\ \A t \in Users : \/ pc'[t] = pc[t] /\ t # s
                            \/ pc'[t] = "idle" /\ t = s
                            \/ pc'[t] = "recv" /\ pc[t] = "recv-wait" /\ t # s
    BY <1>3, <1>a DEF SendPut, Signal
  <2>4. OwnCalls'
    BY <1>3, <2>3 DEF SendPut
  <2> QED BY <1>3, <2>1, <2>2, <2>3, <2>4 DEF SendPut
<1>4. ASSUME NEW r \in Receivers, RecvCall(r) \/ RecvWait(r) \/ RecvDrained(r)
      PROVE  TypeOK' /\ OwnCalls'
  BY <1>4 DEF RecvCall, RecvWait, RecvDrained
<1>5. ASSUME NEW r \in Receivers, RecvGet(r) PROVE TypeOK' /\ OwnCalls'
  <2>1. head' \in Slots /\ count' \in 0 .. Cap
    BY <1>5, SlotInRing DEF RecvGet, Empty, Slots
  <2>2. /\ pc' \in [Users -> {"idle", "send", "send-wait", "recv", "recv-wait"}]
        /\ \A t \in Users : \/ pc'[t] = pc[t] /\ t # r
                            \/ pc'[t] = "idle" /\ t = r
                            \/ pc'[t] = "send" /\ pc[t] = "send-wait" /\ t # r
    BY <1>5, <1>a DEF RecvGet, Signal
  <2> QED BY <1>5, <2>1, <2>2 DEF RecvGet
<1>6. ASSUME NEW c \in Closers, Close(c) PROVE TypeOK' /\ OwnCalls'
  BY <1>6 DEF Close
<1>7. ASSUME NEW t \in Users, SpuriousWakeup(t) PROVE TypeOK' /\ OwnCalls'
  BY <1>7 DEF SpuriousWakeup
<1>8. CASE UNCHANGED vars
  BY <1>8 DEF vars
<1> QED BY <1>1, <1>2, <1>3, <1>4, <1>5, <1>6, <1>7, <1>8 DEF Next, Send, Recv

-----------------------------------------------------------------------------
(* The ring. *)

\* A send leaves the places of the buffered values alone and writes the next.
LEMMA PutPlaces ==
    ASSUME ChannelAssumption, ChannelInv, NEW s \in Senders, SendPut(s)
    PROVE  /\ count < Cap /\ head' = head /\ count' = count + 1
           /\ arg[s] \in Values
           /\ tail' = (head + count') % Cap
           /\ \A i \in 1 .. count : buf'[Place(i)] = buf[Place(i)]
           /\ buf'[Place(count + 1)] = arg[s]
<1>a. Cap \in Nat \ {0}
  BY CapIsPositive
<1>1. /\ head \in Nat /\ count \in Nat /\ count <= Cap /\ count # Cap
      /\ head' = head /\ count' = count + 1
      /\ tail = (head + count) % Cap /\ tail' = (tail + 1) % Cap
      /\ buf' = [buf EXCEPT ![tail] = arg[s]]
      /\ buf \in [Slots -> Values \cup {Junk}] /\ tail \in Slots
  BY <1>a DEF ChannelInv, TypeOK, RingInv, Slots, SendPut, Full
<1>2. arg[s] \in Values
  BY DEF ChannelInv, OwnCalls, At, Users, SendPut
<1>3. tail' = (head + (count + 1)) % Cap
  <2>1. head + count \in Nat /\ 1 \in Nat
    BY <1>1
  <2>2. (((head + count) % Cap) + 1) % Cap = ((head + count) + 1) % Cap
    BY ONLY <2>1, <1>a, SlotCountsOn
  <2>3. (head + count) + 1 = head + (count + 1)
    BY <1>1
  <2> QED BY <1>1, <2>2, <2>3
<1>4. \A i \in 1 .. count : Place(i) # tail /\ Place(i) \in Slots
  <2> SUFFICES ASSUME NEW i \in 1 .. count PROVE Place(i) # tail /\ Place(i) \in Slots
    OBVIOUS
  <2>1. head + i - 1 \in Nat /\ head + i - 1 < head + count /\ head + count < head + i - 1 + Cap
    BY <1>1, <1>a
  <2>2. head + count \in Nat
    BY <1>1
  <2>3. (head + i - 1) % Cap # (head + count) % Cap
    BY <2>1, <2>2, <1>a, SlotsDistinct
  <2> QED BY <2>1, <2>3, <1>a, <1>1, SlotInRing DEF Place, Slots
<1>5. Place(count + 1) = tail
  BY <1>1 DEF Place
<1>6. \A i \in 1 .. count : buf'[Place(i)] = buf[Place(i)]
  BY <1>1, <1>4
<1>7. buf'[Place(count + 1)] = arg[s]
  BY <1>1, <1>5
<1>8. count < Cap /\ tail' = (head + count') % Cap
  BY <1>1, <1>3, <1>a
<1> QED BY <1>1, <1>2, <1>6, <1>7, <1>8

\* A receive moves every value one place forward.
LEMMA GetPlaces ==
    ASSUME ChannelAssumption, ChannelInv, NEW r \in Receivers, RecvGet(r)
    PROVE  /\ count > 0 /\ count' = count - 1 /\ buf' = buf /\ tail' = tail
           /\ (head' + count') % Cap = (head + count) % Cap
           /\ \A i \in 1 .. count - 1 : Place(i)' = Place(i + 1)
<1>a. Cap \in Nat \ {0}
  BY CapIsPositive
<1>1. /\ head \in Nat /\ count \in Nat /\ count # 0
      /\ head' = (head + 1) % Cap /\ count' = count - 1 /\ buf' = buf /\ tail' = tail
  BY <1>a DEF ChannelInv, TypeOK, Slots, RecvGet, Empty
<1>2. ASSUME NEW i \in 1 .. count PROVE (head' + i - 1) % Cap = (head + i) % Cap
  <2>0. head + 1 \in Nat /\ i - 1 \in Nat
    BY <1>1
  <2>1. (((head + 1) % Cap) + (i - 1)) % Cap = ((head + 1) + (i - 1)) % Cap
    BY ONLY <2>0, <1>a, SlotCountsOn
  <2>2. (head + 1) % Cap \in Nat
    BY <1>1, <1>a, SlotInRing
  <2> QED BY <1>1, <2>1, <2>2
<1>3. (head' + (count - 1)) % Cap = (head + count) % Cap
  <2>1. count \in 1 .. count /\ head' \in Nat
    BY <1>1, <1>a, SlotInRing
  <2> QED BY <1>1, <1>2, <2>1
<1>4. \A i \in 1 .. count - 1 : Place(i)' = Place(i + 1)
  <2> SUFFICES ASSUME NEW i \in 1 .. count - 1 PROVE (head' + i - 1) % Cap = (head + (i + 1) - 1) % Cap
    BY DEF Place
  <2>1. (head' + i - 1) % Cap = (head + i) % Cap
    BY <1>1, <1>2
  <2> QED BY <1>1, <2>1
<1> QED BY <1>1, <1>3, <1>4

\* Steps that touch no field of the ring.
Quiet == UNCHANGED ring

LEMMA OtherStepsAreQuiet ==
    ASSUME [Next]_vars
    PROVE  \/ \E s \in Senders : SendPut(s)
           \/ \E r \in Receivers : RecvGet(r)
           \/ \E c \in Closers : Close(c)
           \/ Quiet /\ UNCHANGED closed
BY DEF Next, Send, Recv, SendCall, SendWait, SendDrop, RecvCall, RecvWait, RecvDrained,
       SpuriousWakeup, vars, ring, Quiet

LEMMA RingStep ==
    ASSUME ChannelAssumption, ChannelInv, [Next]_vars
    PROVE  RingInv'
<1>1. ASSUME NEW s \in Senders, SendPut(s) PROVE RingInv'
  <2>1. /\ \A i : Place(i)' = Place(i)
        /\ count \in Nat /\ \A i \in 1 .. count : buf[Place(i)] \in Values
    BY <1>1, PutPlaces DEF Place, ChannelInv, RingInv, TypeOK
  <2>2. \A i \in 1 .. count + 1 : buf'[Place(i)] \in Values
    BY <1>1, <2>1, PutPlaces
  <2> QED BY <1>1, <2>1, <2>2, PutPlaces DEF RingInv
<1>2. ASSUME NEW r \in Receivers, RecvGet(r) PROVE RingInv'
  <2>1. count \in Nat /\ tail = (head + count) % Cap /\ \A i \in 1 .. count : buf[Place(i)] \in Values
    BY DEF ChannelInv, RingInv, TypeOK
  <2>2. \A i \in 1 .. count - 1 : buf'[Place(i)'] \in Values
    BY <1>2, <2>1, GetPlaces
  <2> QED BY <1>2, <2>1, <2>2, GetPlaces DEF RingInv
<1>3. CASE Quiet \/ \E c \in Closers : Close(c)
  BY <1>3 DEF Quiet, Close, ring, ChannelInv, RingInv, Place
<1> QED BY <1>1, <1>2, <1>3, OtherStepsAreQuiet

-----------------------------------------------------------------------------
(* The wakeups.  A sleeper is counted on the threads awake beside it.      *)

LEMMA AwakeAreFinite ==
    ASSUME ChannelAssumption, OwnCalls
    PROVE  /\ IsFiniteSet(At("recv")) /\ Cardinality(At("recv")) \in Nat
           /\ IsFiniteSet(At("send")) /\ Cardinality(At("send")) \in Nat
<1>1. At("recv") \subseteq Receivers /\ At("send") \subseteq Senders
  BY DEF OwnCalls
<1> QED BY <1>1, FS_Subset, FS_CardinalityType DEF ChannelAssumption

\* One thread more at a place, one thread less, and any number more.
LEMMA OneMore ==
    ASSUME NEW T, IsFiniteSet(T), NEW t, t \notin T
    PROVE  Cardinality(T \cup {t}) = Cardinality(T) + 1 /\ Cardinality(T) \in Nat
BY FS_AddElement, FS_CardinalityType

LEMMA OneLess ==
    ASSUME NEW T, IsFiniteSet(T), NEW t \in T
    PROVE  Cardinality(T \ {t}) = Cardinality(T) - 1 /\ Cardinality(T) \in Nat
BY FS_RemoveElement, FS_CardinalityType

\* A step after which nobody more sleeps and everybody awake still is.
LEMMA WakefulStep ==
    ASSUME ChannelAssumption, ChannelInv, TypeOK', OwnCalls',
           count' = count, closed' = closed,
           At("recv-wait")' \subseteq At("recv-wait"), At("recv") \subseteq At("recv")',
           At("send-wait")' \subseteq At("send-wait"), At("send") \subseteq At("send")'
    PROVE  NoLostWakeup'
<1>a. Cap \in Nat \ {0}
  BY CapIsPositive
<1>1. IsFiniteSet(At("recv")') /\ IsFiniteSet(At("send")')
  <2>1. At("recv")' \subseteq Receivers /\ At("send")' \subseteq Senders
    BY DEF OwnCalls
  <2> QED BY <2>1, FS_Subset DEF ChannelAssumption
<1>2. /\ Cardinality(At("recv")) <= Cardinality(At("recv")')
      /\ Cardinality(At("send")) <= Cardinality(At("send")')
      /\ Cardinality(At("recv")) \in Nat /\ Cardinality(At("recv")') \in Nat
      /\ Cardinality(At("send")) \in Nat /\ Cardinality(At("send")') \in Nat
  BY <1>1, FS_Subset, FS_CardinalityType
<1> QED BY <1>a, <1>2 DEF ChannelInv, NoLostWakeup, TypeOK

LEMMA PutWakes ==
    ASSUME ChannelAssumption, ChannelInv, NEW s \in Senders, SendPut(s)
    PROVE  NoLostWakeup'
<1>a. Cap \in Nat \ {0} /\ count \in 0 .. Cap /\ count' = count + 1
  BY CapIsPositive DEF ChannelInv, TypeOK, SendPut
<1>b. ~closed /\ ~closed'
  BY DEF SendPut
<1>1. /\ s \in Users /\ pc[s] = "send"
      /\ pc \in [Users -> {"idle", "send", "send-wait", "recv", "recv-wait"}]
  BY DEF Users, SendPut, ChannelInv, TypeOK
<1>c. /\ IsFiniteSet(At("recv")) /\ IsFiniteSet(At("send"))
  BY AwakeAreFinite DEF ChannelInv
<1>2. \/ At("recv-wait") = {} /\ pc' = [pc EXCEPT ![s] = "idle"]
      \/ \E w \in At("recv-wait") : pc' = [pc EXCEPT ![s] = "idle", ![w] = "recv"]
  BY DEF SendPut, Signal
<1>3. At("send-wait")' = At("send-wait") /\ At("send")' = At("send") \ {s} /\ s \in At("send")
  BY <1>1, <1>2 DEF At
<1>4. Cardinality(At("send")') = Cardinality(At("send")) - 1 /\ Cardinality(At("send")) \in Nat
  BY <1>c, <1>3, OneLess
<1>5. At("send-wait")' # {} => Cardinality(At("send")') >= Cap - count'
  BY <1>a, <1>3, <1>4 DEF ChannelInv, NoLostWakeup
<1>6. At("recv-wait")' # {} => Cardinality(At("recv")') >= count'
  <2>1. CASE At("recv-wait") = {}
    BY <1>1, <1>2, <2>1 DEF At
  <2>2. CASE At("recv-wait") # {}
    <3>1. PICK w \in At("recv-wait") : pc' = [pc EXCEPT ![s] = "idle", ![w] = "recv"]
      BY <1>2, <2>2
    <3>2. At("recv")' = At("recv") \cup {w} /\ w \notin At("recv")
      BY <1>1, <3>1 DEF At
    <3>3. Cardinality(At("recv")') = Cardinality(At("recv")) + 1 /\ Cardinality(At("recv")) \in Nat
      BY <1>c, <3>2, OneMore
    <3> QED BY <1>a, <2>2, <3>3 DEF ChannelInv, NoLostWakeup
  <2> QED BY <2>1, <2>2
<1> QED BY <1>b, <1>5, <1>6 DEF NoLostWakeup

LEMMA GetWakes ==
    ASSUME ChannelAssumption, ChannelInv, NEW r \in Receivers, RecvGet(r)
    PROVE  NoLostWakeup'
<1>a. Cap \in Nat \ {0} /\ count \in 0 .. Cap /\ count' = count - 1 /\ closed' = closed
  BY CapIsPositive DEF ChannelInv, TypeOK, RecvGet
<1>1. /\ r \in Users /\ pc[r] = "recv"
      /\ pc \in [Users -> {"idle", "send", "send-wait", "recv", "recv-wait"}]
  BY DEF Users, RecvGet, ChannelInv, TypeOK
<1>c. /\ IsFiniteSet(At("recv")) /\ IsFiniteSet(At("send"))
  BY AwakeAreFinite DEF ChannelInv
<1>2. \/ At("send-wait") = {} /\ pc' = [pc EXCEPT ![r] = "idle"]
      \/ \E w \in At("send-wait") : pc' = [pc EXCEPT ![r] = "idle", ![w] = "send"]
  BY DEF RecvGet, Signal
<1>3. At("recv-wait")' = At("recv-wait") /\ At("recv")' = At("recv") \ {r} /\ r \in At("recv")
  BY <1>1, <1>2 DEF At
<1>4. Cardinality(At("recv")') = Cardinality(At("recv")) - 1 /\ Cardinality(At("recv")) \in Nat
  BY <1>c, <1>3, OneLess
<1>5. At("recv-wait")' # {} => Cardinality(At("recv")') >= count'
  BY <1>a, <1>3, <1>4 DEF ChannelInv, NoLostWakeup
<1>6. At("send-wait")' # {} => Cardinality(At("send")') >= Cap - count'
  <2>1. CASE At("send-wait") = {}
    BY <1>1, <1>2, <2>1 DEF At
  <2>2. CASE At("send-wait") # {}
    <3>1. PICK w \in At("send-wait") : pc' = [pc EXCEPT ![r] = "idle", ![w] = "send"]
      BY <1>2, <2>2
    <3>2. At("send")' = At("send") \cup {w} /\ w \notin At("send")
      BY <1>1, <3>1 DEF At
    <3>3. Cardinality(At("send")') = Cardinality(At("send")) + 1 /\ Cardinality(At("send")) \in Nat
      BY <1>c, <3>2, OneMore
    <3> QED BY <1>a, <2>2, <3>3 DEF ChannelInv, NoLostWakeup
  <2> QED BY <2>1, <2>2
<1>7. closed' => At("send-wait")' = {} /\ At("recv-wait")' = {}
  <2>1. At("send-wait") = {} => At("send-wait")' = {}
    BY <1>1, <1>2 DEF At
  <2> QED BY <1>a, <1>3, <2>1 DEF ChannelInv, NoLostWakeup
<1> QED BY <1>5, <1>6, <1>7 DEF NoLostWakeup

LEMMA WakeStep ==
    ASSUME ChannelAssumption, ChannelInv, [Next]_vars
    PROVE  NoLostWakeup'
<1>a. Cap \in Nat \ {0}
  BY CapIsPositive
<1>b. TypeOK' /\ OwnCalls'
  BY CallsStep
<1>c. /\ pc \in [Users -> {"idle", "send", "send-wait", "recv", "recv-wait"}]
      /\ Senders \subseteq Users /\ Receivers \subseteq Users
      /\ count \in 0 .. Cap
      /\ closed => At("send-wait") = {} /\ At("recv-wait") = {}
  BY DEF ChannelInv, TypeOK, Users, NoLostWakeup
<1>d. IsFiniteSet(At("recv")) /\ IsFiniteSet(At("send"))
  BY AwakeAreFinite DEF ChannelInv
<1> USE DEF ring
<1>1. ASSUME NEW s \in Senders, NEW v \in Values, SendCall(s, v) PROVE NoLostWakeup'
  <2>1. count' = count /\ closed' = closed
    BY <1>1 DEF SendCall
  <2>2. /\ At("recv-wait")' \subseteq At("recv-wait") /\ At("recv") \subseteq At("recv")'
        /\ At("send-wait")' \subseteq At("send-wait") /\ At("send") \subseteq At("send")'
    BY <1>1, <1>c DEF SendCall, At
  <2> QED BY <1>b, <2>1, <2>2, WakefulStep
<1>2. ASSUME NEW s \in Senders, SendWait(s) PROVE NoLostWakeup'
  <2>1. count' = count /\ count = Cap /\ ~closed /\ ~closed'
    BY <1>2 DEF SendWait, Full
  <2>2. At("recv-wait")' = At("recv-wait") /\ At("recv")' = At("recv")
    BY <1>2, <1>c DEF SendWait, At
  <2>3. Cardinality(At("send")') \in Nat
    <3>1. At("send")' \subseteq Senders
      BY <1>b DEF OwnCalls
    <3> QED BY <3>1, FS_Subset, FS_CardinalityType DEF ChannelAssumption
  <2> QED BY <1>a, <2>1, <2>2, <2>3 DEF ChannelInv, NoLostWakeup
<1>3. ASSUME NEW s \in Senders, SendDrop(s) PROVE NoLostWakeup'
  <2>1. closed' = closed /\ closed
    BY <1>3 DEF SendDrop
  <2>2. At("recv-wait")' = {} /\ At("send-wait")' = {}
    BY <1>3, <1>c DEF SendDrop, At
  <2> QED BY <2>1, <2>2 DEF NoLostWakeup
<1>4. ASSUME NEW s \in Senders, SendPut(s) PROVE NoLostWakeup'
  BY <1>4, PutWakes
<1>5. ASSUME NEW r \in Receivers, RecvCall(r) PROVE NoLostWakeup'
  <2>1. count' = count /\ closed' = closed
    BY <1>5 DEF RecvCall
  <2>2. /\ At("recv-wait")' \subseteq At("recv-wait") /\ At("recv") \subseteq At("recv")'
        /\ At("send-wait")' \subseteq At("send-wait") /\ At("send") \subseteq At("send")'
    BY <1>5, <1>c DEF RecvCall, At
  <2> QED BY <1>b, <2>1, <2>2, WakefulStep
<1>6. ASSUME NEW r \in Receivers, RecvWait(r) PROVE NoLostWakeup'
  <2>1. count' = count /\ count = 0 /\ ~closed /\ ~closed'
    BY <1>6 DEF RecvWait, Empty
  <2>2. At("send-wait")' = At("send-wait") /\ At("send")' = At("send")
    BY <1>6, <1>c DEF RecvWait, At
  <2>3. Cardinality(At("recv")') \in Nat
    <3>1. At("recv")' \subseteq Receivers
      BY <1>b DEF OwnCalls
    <3> QED BY <3>1, FS_Subset, FS_CardinalityType DEF ChannelAssumption
  <2> QED BY <1>a, <2>1, <2>2, <2>3 DEF ChannelInv, NoLostWakeup
<1>7. ASSUME NEW r \in Receivers, RecvDrained(r) PROVE NoLostWakeup'
  <2>1. closed' = closed /\ closed
    BY <1>7 DEF RecvDrained
  <2>2. At("recv-wait")' = {} /\ At("send-wait")' = {}
    BY <1>7, <1>c DEF RecvDrained, At
  <2> QED BY <2>1, <2>2 DEF NoLostWakeup
<1>8. ASSUME NEW r \in Receivers, RecvGet(r) PROVE NoLostWakeup'
  BY <1>8, GetWakes
<1>9. ASSUME NEW c \in Closers, Close(c) PROVE NoLostWakeup'
  <2>1. At("recv-wait")' = {} /\ At("send-wait")' = {}
    BY <1>9, <1>c DEF Close, At
  <2> QED BY <2>1 DEF NoLostWakeup
<1>10. ASSUME NEW t \in Users, SpuriousWakeup(t) PROVE NoLostWakeup'
  <2>1. count' = count /\ closed' = closed
    BY <1>10 DEF SpuriousWakeup
  <2>2. /\ At("recv-wait")' \subseteq At("recv-wait") /\ At("recv") \subseteq At("recv")'
        /\ At("send-wait")' \subseteq At("send-wait") /\ At("send") \subseteq At("send")'
    BY <1>10, <1>c DEF SpuriousWakeup, At
  <2> QED BY <1>b, <2>1, <2>2, WakefulStep
<1>11. CASE UNCHANGED vars
  BY <1>11 DEF vars, ChannelInv, NoLostWakeup, At
<1> QED BY <1>1, <1>2, <1>3, <1>4, <1>5, <1>6, <1>7, <1>8, <1>9, <1>10, <1>11
        DEF Next, Send, Recv

-----------------------------------------------------------------------------
LEMMA ChannelStep ==
    ASSUME ChannelAssumption, ChannelInv, [Next]_vars
    PROVE  ChannelInv'
BY CallsStep, RingStep, WakeStep DEF ChannelInv

THEOREM ChannelInvariant == ChannelAssumption => (Spec => []ChannelInv)
<1> SUFFICES ASSUME ChannelAssumption PROVE Spec => []ChannelInv
  OBVIOUS
<1>1. Init => ChannelInv
  BY InitChannel
<1>2. ChannelInv /\ [Next]_vars => ChannelInv'
  BY ChannelStep
<1> QED BY <1>1, <1>2, PTL DEF Spec

\* A value in the ring has an awake receiver for it, and a free slot an awake
\* sender, as long as any of them sleeps; nobody sleeps on a closed channel.
THEOREM NoWakeupIsLost == ChannelAssumption => (Spec => []NoLostWakeup)
<1> SUFFICES ASSUME ChannelAssumption PROVE Spec => []NoLostWakeup
  OBVIOUS
<1>1. ChannelInv => NoLostWakeup
  BY DEF ChannelInv
<1> QED BY <1>1, ChannelInvariant, PTL

-----------------------------------------------------------------------------
(* The refinement of the bounded FIFO. *)

\* The values held, oldest first.
Held == [i \in 1 .. count |-> buf[Place(i)]]

LEMMA HeldIsSequence ==
    ASSUME ChannelAssumption, ChannelInv
    PROVE  Held \in Seq(Values) /\ Len(Held) = count /\ \A i \in 1 .. count : Held[i] = buf[Place(i)]
<1>1. count \in Nat /\ \A i \in 1 .. count : buf[Place(i)] \in Values
  BY CapIsPositive DEF ChannelInv, TypeOK, RingInv
<1> QED BY <1>1 DEF Held

LEMMA PutIsAccept ==
    ASSUME ChannelAssumption, ChannelInv, NEW s \in Senders, SendPut(s)
    PROVE  \E v \in Values : Fifo!Accept(v)
<1>1. /\ count \in Nat /\ count < Cap /\ count' = count + 1 /\ arg[s] \in Values
      /\ \A i \in 1 .. count : buf'[Place(i)] = buf[Place(i)]
      /\ buf'[Place(count + 1)] = arg[s]
      /\ \A i : Place(i)' = Place(i)
  BY PutPlaces DEF ChannelInv, TypeOK, Place
<1>2. Held \in Seq(Values) /\ Len(Held) = count /\ \A i \in 1 .. count : Held[i] = buf[Place(i)]
  BY HeldIsSequence
<1>3. Held' = [i \in 1 .. count + 1 |-> buf'[Place(i)]]
  BY <1>1 DEF Held
<1>4. Append(Held, arg[s]) = [i \in 1 .. count + 1 |-> IF i = count + 1 THEN arg[s] ELSE Held[i]]
  BY <1>1, <1>2
<1>5. Held' = Append(Held, arg[s])
  BY <1>1, <1>2, <1>3, <1>4
<1>6. ~closed /\ closed' = closed
  BY DEF SendPut
<1>7. PICK v \in Values : v = arg[s]
  BY <1>1
<1>8. Fifo!Accept(v)
  BY <1>1, <1>2, <1>5, <1>6, <1>7 DEF Fifo!Accept, Held, Place
<1> QED BY <1>8

LEMMA GetIsDeliver ==
    ASSUME ChannelAssumption, ChannelInv, NEW r \in Receivers, RecvGet(r)
    PROVE  Fifo!Deliver
<1>1. /\ count \in Nat /\ count > 0 /\ count' = count - 1 /\ buf' = buf
      /\ \A i \in 1 .. count - 1 : Place(i)' = Place(i + 1)
  BY GetPlaces DEF ChannelInv, TypeOK
<1>2. Held \in Seq(Values) /\ Len(Held) = count /\ \A i \in 1 .. count : Held[i] = buf[Place(i)]
  BY HeldIsSequence
<1>3. Held # <<>>
  BY <1>1, <1>2
<1>4. /\ Held' = [i \in 1 .. count - 1 |-> buf[Place(i + 1)]]
      /\ \A i \in 1 .. count - 1 : buf[Place(i + 1)] \in Values
  BY <1>1 DEF Held, ChannelInv, RingInv
<1>5. /\ Tail(Held) \in Seq(Values) /\ Len(Tail(Held)) = count - 1
      /\ \A i \in 1 .. count - 1 : Tail(Held)[i] = buf[Place(i + 1)]
  <2>1. /\ Tail(Held) \in Seq(Values) /\ Len(Tail(Held)) = count - 1
        /\ \A i \in 1 .. count - 1 : Tail(Held)[i] = Held[i + 1]
    BY <1>2, <1>3, HeadTailProperties
  <2>2. \A i \in 1 .. count - 1 : i + 1 \in 1 .. count
    BY <1>1
  <2> QED BY <1>2, <2>1, <2>2
<1>6. Held' = Tail(Held)
  <2>1. /\ Held' \in Seq(Values) /\ Len(Held') = count - 1
        /\ \A i \in 1 .. count - 1 : Held'[i] = buf[Place(i + 1)]
    BY <1>1, <1>4
  <2> QED BY <1>5, <2>1, SeqEqual
<1>7. closed' = closed
  BY DEF RecvGet
<1> QED BY <1>3, <1>6, <1>7 DEF Fifo!Deliver, Held, Place

\* The channel is a bounded FIFO of at most Cap values: sends take effect in
\* order, each value is received once, and close ends the sends only.
THEOREM ChannelImplementsFifo == ChannelAssumption => (Spec => ImplementsFifo)
<1> SUFFICES ASSUME ChannelAssumption PROVE Spec => ImplementsFifo
  OBVIOUS
<1>1. Init => Fifo!Init
  BY DEF Init, Fifo!Init
<1>2. ChannelInv /\ [Next]_vars => [Fifo!Next]_(Fifo!fifoVars)
  <2> SUFFICES ASSUME ChannelInv, [Next]_vars PROVE [Fifo!Next]_(Fifo!fifoVars)
    OBVIOUS
  <2>1. ASSUME NEW s \in Senders, SendPut(s) PROVE Fifo!Next
    BY <2>1, PutIsAccept DEF Fifo!Next
  <2>2. ASSUME NEW r \in Receivers, RecvGet(r) PROVE Fifo!Next
    BY <2>2, GetIsDeliver DEF Fifo!Next
  <2>3. ASSUME NEW c \in Closers, Close(c) PROVE Fifo!Next
    BY <2>3 DEF Close, ring, Fifo!Shut, Fifo!Next
  <2>4. CASE Quiet /\ UNCHANGED closed
    BY <2>4 DEF Quiet, ring, Fifo!fifoVars
  <2> QED BY <2>1, <2>2, <2>3, <2>4, OtherStepsAreQuiet
<1> QED BY <1>1, <1>2, ChannelInvariant, PTL DEF Spec, ImplementsFifo, Fifo!Spec
=============================================================================
