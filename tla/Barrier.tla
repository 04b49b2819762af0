------------------------------- MODULE Barrier -------------------------------
(***************************************************************************)
(* The reusable barrier of stdlib/runtime/thread_rt.c (NucBarrier).  A     *)
(* call of nuc_barrier_wait remembers the generation it entered in and     *)
(* sleeps until the last of `parties` arrivals starts the next generation. *)
(* One step is one stretch of a call under the barrier's lock.             *)
(***************************************************************************)
EXTENDS Integers, FiniteSets

CONSTANTS Threads,   \* the threads that call nuc_barrier_wait
          Parties,   \* the argument of nuc_barrier_new
          MaxCalls   \* bound: calls of one thread

ASSUME PartiesAssumption == Parties \in Nat \ {0}
ASSUME ThreadsAssumption == IsFiniteSet(Threads) /\ Cardinality(Threads) >= Parties
ASSUME MaxCallsAssumption == MaxCalls \in Nat

VARIABLES
    waiting, generation,  \* the fields of NucBarrier
    freed,                \* nuc_barrier_free was called
    pc,                   \* thread -> "idle", "asleep" or "awake" in a wait
    entered,              \* thread -> its local `generation`
    calls, returns        \* history: thread -> waits begun and completed

vars == <<waiting, generation, freed, pc, entered, calls, returns>>

Init ==
    /\ waiting = 0 /\ generation = 0 /\ freed = FALSE
    /\ pc = [t \in Threads |-> "idle"]
    /\ entered = [t \in Threads |-> 0]
    /\ calls = [t \in Threads |-> 0]
    /\ returns = [t \in Threads |-> 0]

CanCall(t) == pc[t] = "idle" /\ ~freed /\ calls[t] < MaxCalls

\* An arrival before the last one goes to sleep.
Arrive(t) ==
    /\ CanCall(t)
    /\ waiting + 1 < Parties
    /\ waiting' = waiting + 1
    /\ pc' = [pc EXCEPT ![t] = "asleep"]
    /\ entered' = [entered EXCEPT ![t] = generation]
    /\ calls' = [calls EXCEPT ![t] = @ + 1]
    /\ UNCHANGED <<generation, freed, returns>>

\* Mutant: the last arrival signals one sleeper instead of all.
ArriveLastSignals(t) ==
    /\ CanCall(t)
    /\ waiting + 1 >= Parties
    /\ waiting' = 0
    /\ generation' = generation + 1
    /\ LET asleep == {u \in Threads : pc[u] = "asleep"}
       IN  IF asleep = {} THEN UNCHANGED pc
           ELSE \E u \in asleep : pc' = [pc EXCEPT ![u] = "awake"]
    /\ calls' = [calls EXCEPT ![t] = @ + 1]
    /\ returns' = [returns EXCEPT ![t] = @ + 1]
    /\ UNCHANGED <<freed, entered>>

\* The last arrival starts the next generation, wakes all and returns 1.
ArriveLast(t) ==
    /\ CanCall(t)
    /\ waiting + 1 >= Parties
    /\ waiting' = 0
    /\ generation' = generation + 1
    /\ pc' = [u \in Threads |-> IF pc[u] = "asleep" THEN "awake" ELSE pc[u]]
    /\ calls' = [calls EXCEPT ![t] = @ + 1]
    /\ returns' = [returns EXCEPT ![t] = @ + 1]
    /\ UNCHANGED <<freed, entered>>

\* Woken in its own generation, a waiter goes back to sleep ...
SleepAgain(t) ==
    /\ pc[t] = "awake" /\ entered[t] = generation
    /\ pc' = [pc EXCEPT ![t] = "asleep"]
    /\ UNCHANGED <<waiting, generation, freed, entered, calls, returns>>

\* Mutant: any wakeup ends the wait.
LeaveUnchecked(t) ==
    /\ pc[t] = "awake"
    /\ pc' = [pc EXCEPT ![t] = "idle"]
    /\ returns' = [returns EXCEPT ![t] = @ + 1]
    /\ UNCHANGED <<waiting, generation, freed, entered, calls>>

\* ... and in a later one returns 0.
Leave(t) ==
    /\ pc[t] = "awake" /\ entered[t] # generation
    /\ pc' = [pc EXCEPT ![t] = "idle"]
    /\ returns' = [returns EXCEPT ![t] = @ + 1]
    /\ UNCHANGED <<waiting, generation, freed, entered, calls>>

\* A condition wait may return unsignalled.
SpuriousWakeup(t) ==
    /\ pc[t] = "asleep"
    /\ pc' = [pc EXCEPT ![t] = "awake"]
    /\ UNCHANGED <<waiting, generation, freed, entered, calls, returns>>

\* nuc_barrier_free; its callers, like thread_barrier_smoke.nr, have joined
\* every thread that waits.
Free ==
    /\ ~freed /\ \A t \in Threads : pc[t] = "idle"
    /\ freed' = TRUE
    /\ UNCHANGED <<waiting, generation, pc, entered, calls, returns>>

Call(t) == Arrive(t) \/ ArriveLast(t)
Resume(t) == SleepAgain(t) \/ Leave(t)

Next == Free \/ \E t \in Threads : Call(t) \/ Resume(t) \/ SpuriousWakeup(t)

Spec == Init /\ [][Next]_vars

\* Every party keeps coming to the barrier, and a woken thread runs.
FairSpec == Spec /\ \A t \in Threads : WF_vars(Call(t)) /\ WF_vars(Resume(t))

-----------------------------------------------------------------------------
TypeOK ==
    /\ waiting \in 0 .. Parties - 1
    /\ generation \in Nat
    /\ freed \in BOOLEAN
    /\ pc \in [Threads -> {"idle", "asleep", "awake"}]
    /\ entered \in [Threads -> Nat]
    /\ calls \in [Threads -> 0 .. MaxCalls]
    /\ returns \in [Threads -> 0 .. MaxCalls]

Inside == {t \in Threads : pc[t] # "idle"}

\* `waiting` counts the calls of the current generation, so a thread that is
\* back early is never counted with the stragglers of the last one, and a
\* thread that sleeps has its release still ahead of it.
WaitersCounted ==
    /\ waiting = Cardinality({t \in Inside : entered[t] = generation})
    /\ \A t \in Threads : pc[t] = "asleep" => entered[t] = generation

\* With as many threads as parties: "every peer reached the first barrier
\* before any worker advances past it" (thread_barrier_smoke.nr:4), and so
\* for every later round: none completes its n-th wait before all began theirs.
Rendezvous ==
    Cardinality(Threads) = Parties =>
        \A t, u \in Threads : returns[t] <= calls[u]

\* Every wait returns while the parties keep coming, round after round.
WaitReturns ==
    \A t \in Threads : pc[t] # "idle" ~> pc[t] = "idle"
=============================================================================
