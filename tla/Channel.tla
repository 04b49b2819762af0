------------------------------- MODULE Channel -------------------------------
(***************************************************************************)
(* The bounded channel of nucleor_llvm_rt.c (channel_new, send, recv and   *)
(* close), POSIX and Windows alike: a ring of cap slots, a lock, and the   *)
(* condition variables not_empty and not_full.  The channel is touched     *)
(* only under the lock, so one step is one stretch of a call from taking   *)
(* the lock (on entry, or when a condition wait returns) to giving it up.  *)
(***************************************************************************)
EXTENDS Integers, FiniteSets

CONSTANTS Senders, Receivers, Closers, \* who may call send, recv and close
          Values,                      \* what is sent
          Junk,                        \* a slot that was never written
          RequestedCap,                \* the argument of channel_new, 64 bits wide
          IntEnd                       \* 2^31: an int is in -IntEnd .. IntEnd - 1

ChannelAssumption ==
    /\ RequestedCap \in Int /\ IntEnd \in Nat \ {0}
    /\ IsFiniteSet(Senders) /\ IsFiniteSet(Receivers)

\* (int)cap, which keeps the low 32 bits.
AsInt(n) == ((n + IntEnd) % (2 * IntEnd)) - IntEnd

\* channel_new: a capacity whose int is below 1 stands for 16.
Cap == IF AsInt(RequestedCap) < 1 THEN 16 ELSE AsInt(RequestedCap)

Slots == 0 .. Cap - 1
Users == Senders \cup Receivers \cup Closers

VARIABLES
    buf, head, tail, count, closed,  \* the fields of NChannel_posix
    pc,     \* "idle", in a call and about to take the lock, or asleep
    arg     \* sender -> the value of the send in progress

ring == <<buf, head, tail, count>>
vars == <<buf, head, tail, count, closed, pc, arg>>

Init ==
    /\ buf = [s \in Slots |-> Junk]
    /\ head = 0 /\ tail = 0 /\ count = 0
    /\ closed = FALSE
    /\ pc = [t \in Users |-> "idle"]
    /\ arg = [s \in Senders |-> Junk]

At(where) == {t \in Users : pc[t] = where}

\* pthread_cond_signal on a condition variable whose waiters are at `asleep`:
\* one of them, if there is any, goes on to retake the lock at `awake`.
Signal(asleep, awake, pcAfter) ==
    IF At(asleep) = {}
    THEN pc' = pcAfter
    ELSE \E w \in At(asleep) : pc' = [pcAfter EXCEPT ![w] = awake]

Full == count = Cap
\* Mutant: the last value is taken for none.
EmptyOffByOne == count <= 1

Empty == count = 0

-----------------------------------------------------------------------------
\* __nucleor_channel_send

SendCall(s, v) ==
    /\ pc[s] = "idle"
    /\ pc' = [pc EXCEPT ![s] = "send"]
    /\ arg' = [arg EXCEPT ![s] = v]
    /\ UNCHANGED <<ring, closed>>

SendWait(s) ==
    /\ pc[s] = "send" /\ Full /\ ~closed
    /\ pc' = [pc EXCEPT ![s] = "send-wait"]
    /\ UNCHANGED <<ring, closed, arg>>

\* The channel is closed: the value is dropped.
SendDrop(s) ==
    /\ pc[s] = "send" /\ closed
    /\ pc' = [pc EXCEPT ![s] = "idle"]
    /\ arg' = [arg EXCEPT ![s] = Junk]
    /\ UNCHANGED <<ring, closed>>

\* Mutant: nobody is told that the channel is no longer empty.
SendPutSilent(s) ==
    /\ pc[s] = "send" /\ ~Full /\ ~closed
    /\ buf' = [buf EXCEPT ![tail] = arg[s]]
    /\ tail' = (tail + 1) % Cap
    /\ count' = count + 1
    /\ pc' = [pc EXCEPT ![s] = "idle"]
    /\ arg' = [arg EXCEPT ![s] = Junk]
    /\ UNCHANGED <<head, closed>>

SendPut(s) ==
    /\ pc[s] = "send" /\ ~Full /\ ~closed
    /\ buf' = [buf EXCEPT ![tail] = arg[s]]
    /\ tail' = (tail + 1) % Cap
    /\ count' = count + 1
    /\ Signal("recv-wait", "recv", [pc EXCEPT ![s] = "idle"])
    /\ arg' = [arg EXCEPT ![s] = Junk]
    /\ UNCHANGED <<head, closed>>

-----------------------------------------------------------------------------
\* __nucleor_channel_recv

RecvCall(r) ==
    /\ pc[r] = "idle"
    /\ pc' = [pc EXCEPT ![r] = "recv"]
    /\ UNCHANGED <<ring, closed, arg>>

RecvWait(r) ==
    /\ pc[r] = "recv" /\ Empty /\ ~closed
    /\ pc' = [pc EXCEPT ![r] = "recv-wait"]
    /\ UNCHANGED <<ring, closed, arg>>

\* Closed and drained: recv returns 0.
RecvDrained(r) ==
    /\ pc[r] = "recv" /\ Empty /\ closed
    /\ pc' = [pc EXCEPT ![r] = "idle"]
    /\ UNCHANGED <<ring, closed, arg>>

\* recv returns buf[head].
RecvGet(r) ==
    /\ pc[r] = "recv" /\ ~Empty
    /\ head' = (head + 1) % Cap
    /\ count' = count - 1
    /\ Signal("send-wait", "send", [pc EXCEPT ![r] = "idle"])
    /\ UNCHANGED <<buf, tail, closed, arg>>

-----------------------------------------------------------------------------
\* Mutant: close signals one receiver instead of waking everybody.
CloseSignals(c) ==
    /\ pc[c] = "idle"
    /\ closed' = TRUE
    /\ Signal("recv-wait", "recv", pc)
    /\ UNCHANGED <<ring, arg>>

\* __nucleor_channel_close; a broadcast on both condition variables
Close(c) ==
    /\ pc[c] = "idle"
    /\ closed' = TRUE
    /\ pc' = [t \in Users |-> CASE pc[t] = "send-wait" -> "send"
                                  [] pc[t] = "recv-wait" -> "recv"
                                  [] OTHER -> pc[t]]
    /\ UNCHANGED <<ring, arg>>

\* A condition wait may return unsignalled.
SpuriousWakeup(t) ==
    /\ \/ pc[t] = "send-wait" /\ pc' = [pc EXCEPT ![t] = "send"]
       \/ pc[t] = "recv-wait" /\ pc' = [pc EXCEPT ![t] = "recv"]
    /\ UNCHANGED <<ring, closed, arg>>

-----------------------------------------------------------------------------
Send(s) == SendWait(s) \/ SendDrop(s) \/ SendPut(s)
Recv(r) == RecvWait(r) \/ RecvDrained(r) \/ RecvGet(r)

Next ==
    \/ \E s \in Senders : Send(s) \/ \E v \in Values : SendCall(s, v)
    \/ \E r \in Receivers : Recv(r) \/ RecvCall(r)
    \/ \E c \in Closers : Close(c)
    \/ \E t \in Users : SpuriousWakeup(t)

Spec == Init /\ [][Next]_vars

\* A thread inside a call gets the lock, and receivers keep receiving.
FairSpec ==
    /\ Spec
    /\ \A s \in Senders : WF_vars(Send(s))
    /\ \A r \in Receivers : WF_vars(Recv(r)) /\ WF_vars(RecvCall(r))

-----------------------------------------------------------------------------
TypeOK ==
    /\ buf \in [Slots -> Values \cup {Junk}]
    /\ head \in Slots /\ tail \in Slots /\ count \in 0 .. Cap
    /\ closed \in BOOLEAN
    /\ pc \in [Users -> {"idle", "send", "send-wait", "recv", "recv-wait"}]
    /\ arg \in [Senders -> Values \cup {Junk}]

\* "each item satisfies one consumer" (nucleor_llvm_rt.c:4182): while a
\* receiver sleeps, each buffered value has a receiver of its own that is
\* awake for it; and while a sender sleeps on an open channel, so has each
\* free slot a sender.  Nobody sleeps on a closed channel ("All waiters observe
\* the closed state", nucleor_llvm_rt.c:4211).  Hence no wakeup is lost, and
\* receivers and senders are never all asleep at once.
NoLostWakeup ==
    /\ At("recv-wait") # {} => Cardinality(At("recv")) >= count
    /\ At("send-wait") # {} => Cardinality(At("send")) >= Cap - count
    /\ closed => At("send-wait") = {} /\ At("recv-wait") = {}

Fifo == INSTANCE BoundedFifo WITH
            Items <- Values, Bound <- Cap,
            fifo <- [i \in 1 .. count |-> buf[(head + i - 1) % Cap]],
            shut <- closed

\* The ring is a bounded FIFO: values arrive in the order of the sends, a
\* send after close is ignored, and a close leaves the buffered values alone.
ImplementsFifo == Fifo!Spec

\* Buffered values, those left at a close included, are all received as long
\* as receivers keep receiving.
EveryValueReceived == Fifo!FairSpec

\* Once the channel is closed every send and recv returns.
CloseReleasesCalls ==
    \A t \in Senders \cup Receivers :
        closed /\ pc[t] # "idle" ~> pc[t] = "idle"
=============================================================================
