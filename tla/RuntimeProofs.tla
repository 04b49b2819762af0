--------------------------- MODULE RuntimeProofs ---------------------------
(***************************************************************************)
(* Proofs about the blocking parts of the runtime, for every value of the  *)
(* constants of Runtime.                                                   *)
(***************************************************************************)
EXTENDS Runtime, FiniteSetTheorems, TLAPS

-----------------------------------------------------------------------------
(* The barrier, for every set of threads, every number of parties and      *)
(* every bound on the calls.                                               *)

\* The calls that are waiting in the present generation.
Present == {t \in Inside : entered[t] = generation}

\* A thread inside entered in the present generation or an earlier one, and a
\* call is complete exactly when its thread is outside.
Entries ==
    \A t \in Threads :
        /\ entered[t] <= generation
        /\ calls[t] = returns[t] + (IF pc[t] = "idle" THEN 0 ELSE 1)

\* The inductive invariant for any number of threads.
BarrierInv == TypeOK /\ WaitersCounted /\ Entries

\* With as many threads as parties every thread makes one call in each
\* generation: outside, it completed one in each past generation; inside, it
\* began its last one in the generation it entered in, the present or the one
\* before.
InStep ==
    Cardinality(Threads) = Parties =>
        \A t \in Threads :
            IF pc[t] = "idle" THEN returns[t] = generation
            ELSE returns[t] = entered[t] /\ generation <= entered[t] + 1

-----------------------------------------------------------------------------
\* What is waiting is a finite set, and one more arrival adds one to it.
LEMMA PresentFinite ==
    ASSUME TypeOK
    PROVE  /\ IsFiniteSet(Present)
           /\ \A t \in Threads : pc[t] = "idle" =>
                 /\ t \notin Present
                 /\ IsFiniteSet(Present \cup {t})
                 /\ Cardinality(Present \cup {t}) = Cardinality(Present) + 1
<1>1. Present \in SUBSET Threads
  BY DEF Present, Inside
<1>2. IsFiniteSet(Present)
  BY <1>1, ThreadsAssumption, FS_Subset
<1>3. ASSUME NEW t \in Threads, pc[t] = "idle" PROVE t \notin Present
  BY <1>3 DEF Present, Inside
<1> QED BY <1>2, <1>3, FS_AddElement

\* When the last party arrives, all threads are inside if there are no more of
\* them than parties.
LEMMA LastArrivalMeansAll ==
    ASSUME BarrierInv, NEW t \in Threads, pc[t] = "idle", waiting + 1 >= Parties,
           Cardinality(Threads) = Parties
    PROVE  Present \cup {t} = Threads
<1>1. Present \cup {t} \in SUBSET Threads
  BY DEF Present, Inside
<1>2. waiting + 1 = Parties /\ waiting = Cardinality(Present)
  BY PartiesAssumption DEF BarrierInv, TypeOK, WaitersCounted, Present
<1>3. Cardinality(Present \cup {t}) = Parties
  BY <1>2, PresentFinite DEF BarrierInv
<1> QED BY <1>1, <1>3, ThreadsAssumption, FS_Subset

LEMMA InitBarrier == Init => BarrierInv /\ InStep
<1> SUFFICES ASSUME Init PROVE BarrierInv /\ InStep
  OBVIOUS
<1>1. TypeOK
  <2> USE DEF Init
  <2>1. waiting \in 0 .. Parties - 1 /\ generation \in Nat
    BY PartiesAssumption
  <2>2. freed \in BOOLEAN
    BY Zenon
  <2>3. pc \in [Threads -> {"idle", "asleep", "awake"}] /\ entered \in [Threads -> Nat]
    OBVIOUS
  <2>4. 0 \in 0 .. MaxCalls
    BY MaxCallsAssumption
  <2>5. calls \in [Threads -> 0 .. MaxCalls] /\ returns \in [Threads -> 0 .. MaxCalls]
    BY <2>4
  <2> QED BY <2>1, <2>2, <2>3, <2>5, Zenon DEF TypeOK
<1>2. Present = {}
  BY DEF Init, Present, Inside
<1>3. WaitersCounted
  BY <1>2, FS_EmptySet DEF Init, WaitersCounted, Present
<1>4. Entries /\ InStep
  BY DEF Init, Entries, InStep
<1> QED BY <1>1, <1>3, <1>4 DEF BarrierInv

\* Every step of the barrier keeps the invariant.
LEMMA StepBarrier == BarrierInv /\ [Next]_vars => BarrierInv'
<1> SUFFICES ASSUME BarrierInv, [Next]_vars PROVE BarrierInv'
  OBVIOUS
<1> USE PartiesAssumption, MaxCallsAssumption DEF BarrierInv
<1>1. ASSUME NEW t \in Threads, Arrive(t) PROVE BarrierInv'
  <2> USE <1>1 DEF Arrive, CanCall
  <2>1. TypeOK' /\ Entries'
    BY DEF TypeOK, Entries
  <2>2. Present' = Present \cup {t}
    BY DEF TypeOK, Present, Inside
  <2>3. Cardinality(Present') = waiting'
    BY <2>2, PresentFinite DEF TypeOK, WaitersCounted, Present
  <2>4. \A u \in Threads : (pc[u] = "asleep")' => entered'[u] = generation'
    BY DEF TypeOK, WaitersCounted
  <2> QED BY <2>1, <2>3, <2>4 DEF WaitersCounted, Present
<1>2. ASSUME NEW t \in Threads, ArriveLast(t) PROVE BarrierInv'
  <2> USE <1>2 DEF ArriveLast, CanCall
  <2>1. TypeOK' /\ Entries'
    BY DEF TypeOK, Entries
  \* everybody inside belongs to the generation that ended
  <2>2. Present' = {}
    BY DEF TypeOK, Entries, Present, Inside
  <2>3. WaitersCounted'
    BY <2>2, FS_EmptySet DEF TypeOK, WaitersCounted, Present
  <2> QED BY <2>1, <2>3
<1>3. ASSUME NEW t \in Threads, SleepAgain(t) PROVE BarrierInv'
  <2> USE <1>3 DEF SleepAgain
  <2>1. TypeOK' /\ Entries'
    BY DEF TypeOK, Entries
  <2>2. Present' = Present
    BY DEF TypeOK, Present, Inside
  <2> QED BY <2>1, <2>2 DEF TypeOK, WaitersCounted, Present
<1>4. ASSUME NEW t \in Threads, Leave(t) PROVE BarrierInv'
  <2> USE <1>4 DEF Leave
  <2>1. TypeOK' /\ Entries'
    BY DEF TypeOK, Entries
  <2>2. Present' = Present
    BY DEF TypeOK, Present, Inside
  <2> QED BY <2>1, <2>2 DEF TypeOK, WaitersCounted, Present
<1>5. ASSUME NEW t \in Threads, SpuriousWakeup(t) PROVE BarrierInv'
  <2> USE <1>5 DEF SpuriousWakeup
  <2>1. TypeOK' /\ Entries'
    BY DEF TypeOK, Entries
  <2>2. Present' = Present
    BY DEF TypeOK, Present, Inside
  <2> QED BY <2>1, <2>2 DEF TypeOK, WaitersCounted, Present
<1>6. CASE Free \/ UNCHANGED vars
  <2>1. UNCHANGED <<waiting, generation, pc, entered, calls, returns>>
        /\ freed' \in BOOLEAN
    BY <1>6 DEF Free, vars, TypeOK
  <2> QED BY <2>1 DEF TypeOK, Entries, WaitersCounted, Inside
<1> QED BY <1>1, <1>2, <1>3, <1>4, <1>5, <1>6 DEF Next, Call, Resume

\* Every step keeps the threads of a full house in step.
LEMMA StepInStep == BarrierInv /\ InStep /\ [Next]_vars => InStep'
<1> SUFFICES ASSUME BarrierInv, InStep, [Next]_vars, Cardinality(Threads) = Parties
             PROVE  InStep'
  BY DEF InStep
<1> USE DEF BarrierInv, TypeOK, InStep
<1>1. ASSUME NEW t \in Threads, Arrive(t) PROVE InStep'
  BY <1>1 DEF Arrive, CanCall
<1>2. ASSUME NEW t \in Threads, ArriveLast(t) PROVE InStep'
  <2>1. \A u \in Threads : u # t => pc[u] # "idle" /\ entered[u] = generation
    BY <1>2, LastArrivalMeansAll DEF ArriveLast, CanCall, Present, Inside
  <2> QED BY <1>2, <2>1 DEF ArriveLast, CanCall
<1>3. ASSUME NEW t \in Threads, SleepAgain(t) \/ SpuriousWakeup(t) PROVE InStep'
  BY <1>3 DEF SleepAgain, SpuriousWakeup
<1>4. ASSUME NEW t \in Threads, Leave(t) PROVE InStep'
  BY <1>4 DEF Leave, Entries
<1>5. CASE Free \/ UNCHANGED vars
  BY <1>5 DEF Free, vars
<1> QED BY <1>1, <1>2, <1>3, <1>4, <1>5 DEF Next, Call, Resume

-----------------------------------------------------------------------------
\* The barrier's variables keep their types, and `waiting` stays below the
\* number of parties.
THEOREM BarrierIsTyped == Spec => []TypeOK
<1>1. Init => BarrierInv
  BY InitBarrier
<1>2. BarrierInv => TypeOK
  BY DEF BarrierInv
<1> QED BY <1>1, <1>2, StepBarrier, PTL DEF Spec

\* `waiting` is the number of calls of the present generation, and a sleeper
\* has its release ahead of it, for any number of threads and parties.
THEOREM BarrierCountsWaiters == Spec => []WaitersCounted
<1>1. Init => BarrierInv
  BY InitBarrier
<1>2. BarrierInv => WaitersCounted
  BY DEF BarrierInv
<1> QED BY <1>1, <1>2, StepBarrier, PTL DEF Spec

\* No thread completes its n-th wait before all have begun theirs.
THEOREM NobodyPassesEarly == Spec => []Rendezvous
<1>1. Init => BarrierInv /\ InStep
  BY InitBarrier
<1>2. BarrierInv /\ InStep => Rendezvous
  <2> SUFFICES ASSUME BarrierInv, InStep, Cardinality(Threads) = Parties,
                      NEW t \in Threads, NEW u \in Threads
               PROVE  returns[t] <= calls[u]
    BY DEF Rendezvous
  <2>1. returns[t] <= generation /\ generation <= calls[u]
    BY DEF BarrierInv, TypeOK, Entries, InStep
  <2> QED BY <2>1 DEF BarrierInv, TypeOK
<1> QED BY <1>1, <1>2, StepBarrier, StepInStep, PTL DEF Spec

-----------------------------------------------------------------------------
(* The channel.  ChannelProofs proves Channel by itself; here its theorems *)
(* are carried over to the suite.                                          *)

ChP == INSTANCE ChannelProofs WITH pc <- pcChannel

\* A value in the ring has an awake receiver for it, and a free slot an awake
\* sender, as long as any of them sleeps; nobody sleeps on a closed channel.
THEOREM WakeupsArriveInSuite == SuiteSpec => []NoLostWakeup
<1> USE DEF Ch!Cap, ChP!Cap, Ch!AsInt, ChP!AsInt, Ch!Users, ChP!Users, Ch!At, ChP!At
<1>1. ChP!ChannelAssumption
  BY ChannelAssumption DEF Ch!ChannelAssumption, ChP!ChannelAssumption,
                           Ch!IsFiniteSet, ChP!IsFiniteSet
<1>2. ChP!Spec => []ChP!NoLostWakeup
  BY <1>1, ChP!NoWakeupIsLost, Zenon
<1>3. SuiteInit => ChP!Init
  BY DEF SuiteInit, Ch!Init, ChP!Init, Ch!Slots, ChP!Slots
<1>4. [SuiteNext]_suiteVars => [ChP!Next]_(ChP!vars)
  BY DEF SuiteNext, suiteVars, ChVars, Ch!Next, ChP!Next, ChP!vars, Ch!ring, ChP!ring,
         Ch!Send, Ch!Recv, Ch!SendCall, Ch!SendWait, Ch!SendDrop, Ch!SendPut, Ch!RecvCall,
         Ch!RecvWait, Ch!RecvDrained, Ch!RecvGet, Ch!Close, Ch!SpuriousWakeup,
         Ch!Signal, Ch!Full, Ch!Empty,
         ChP!Send, ChP!Recv, ChP!SendCall, ChP!SendWait, ChP!SendDrop, ChP!SendPut,
         ChP!RecvCall, ChP!RecvWait, ChP!RecvDrained, ChP!RecvGet, ChP!Close,
         ChP!SpuriousWakeup, ChP!Signal, ChP!Full, ChP!Empty
<1>5. ChP!NoLostWakeup => NoLostWakeup
  BY Zenon DEF NoLostWakeup, Ch!NoLostWakeup, ChP!NoLostWakeup, Ch!Cardinality,
               ChP!Cardinality, Ch!IsFiniteSet, ChP!IsFiniteSet
<1> QED BY <1>2, <1>3, <1>4, <1>5, PTL DEF SuiteSpec, ChP!Spec

-----------------------------------------------------------------------------
(* The async tasks, for every set of clients, every finite set of          *)
(* addresses, every number of spawns and every size of the registry.  A    *)
(* second await of a handle can reach the block of a task that got its     *)
(* address since (SecondAwaitPanics is violated when any handle may be     *)
(* awaited twice); the theorems are about the behaviours where             *)
(* AgainUnshared holds, those with no second await among them.             *)

\* A call in async_spawn, one past the registry in async_await, and either
\* one or an await that has not got there.
Spawning == {"register", "create", "undo", "start"}
Joining == {"join", "finish"}
Awaiting == {"remove"} \cup Joining

Registered(k) == home[k] \in registry
Owned(k) == block[home[k]] = k

\* A call is about a task that was spawned; a client that exited ended the
\* process.
JobInv ==
    \A c \in Clients :
        /\ pcAsync[c] # "idle" => job[c] \in 1 .. spawns
        /\ pcAsync[c] = "exited" => panicked # "no"

\* The block of a spawn in progress is its own, and registered in between.
SpawnInv ==
    \A c \in Clients : pcAsync[c] \in Spawning =>
        /\ job[c] \notin returned /\ Owned(job[c])
        /\ Registered(job[c]) <=> pcAsync[c] \in {"create", "start"}
        /\ thread[job[c]] = "none" <=> pcAsync[c] # "start"

\* An await that the registry let through owns the block, which is in the
\* registry no more; when it reads the result the thread has ended.
JoinInv ==
    \A c \in Clients : pcAsync[c] \in Joining =>
        /\ Owned(job[c]) /\ ~Registered(job[c]) /\ job[c] \in returned
        /\ pcAsync[c] = "finish" => thread[job[c]] = "ended"

\* The first await of a handle finds it registered.
RemoveInv ==
    \A c \in Clients : pcAsync[c] = "remove" =>
        /\ job[c] \in returned
        /\ awaited[job[c]] = 1 => Owned(job[c]) /\ Registered(job[c])

\* Two calls never own one block, and two awaits of a handle are counted.
OneOwner ==
    \A c, d \in Clients : c # d /\ job[c] = job[d] =>
        /\ ~(pcAsync[c] \in Spawning \cup Joining /\ pcAsync[d] \in Spawning \cup Joining)
        /\ pcAsync[c] \in Awaiting /\ pcAsync[d] \in Awaiting => awaited[job[c]] # 1

\* What is known of task k.  A handle that nobody awaited is registered; one
\* that the registry let through is not, or its address is another's.
TaskInv ==
    \A k \in As!Tasks :
        /\ k <= spawns => home[k] \in Addresses
        /\ k > spawns => thread[k] = "none" /\ k \notin returned
        /\ k \in returned =>
              /\ thread[k] # "none"
              /\ Owned(k) => started[home[k]]
              /\ awaited[k] = 0 => Owned(k) /\ Registered(k)
        /\ k \notin returned => awaited[k] = 0 /\ accepted[k] = 0
        /\ thread[k] = "running" => Owned(k)
        /\ awaited[k] = 2 => k \in Again
        /\ accepted[k] # 0 => accepted[k] = 1 /\ ~(Owned(k) /\ Registered(k))
        /\ \A c \in Clients : pcAsync[c] \in Awaiting /\ job[c] = k => awaited[k] # 0
        /\ k \in Again /\ k <= spawns => block[home[k]] \in {k, As!NoTask}

\* An allocated block belongs to the task whose address it has, and holds its
\* result once the thread has ended.
BlockInv ==
    \A a \in Addresses : block[a] # As!NoTask =>
        /\ block[a] <= spawns /\ home[block[a]] = a
        /\ thread[block[a]] = "ended" => result[a] = block[a]

\* The registry refuses only a handle that was awaited twice.
OnlySecondRefused ==
    panicked = "unregistered" => \E k \in As!Tasks : awaited[k] = 2

\* The inductive invariant.
AsyncInv ==
    /\ As!TypeOK
    /\ JobInv /\ SpawnInv /\ JoinInv /\ RemoveInv /\ OneOwner
    /\ TaskInv /\ BlockInv /\ As!BlocksAccountedFor
    /\ As!AwaitReturnsOwnResult /\ OnlySecondRefused

-----------------------------------------------------------------------------
\* Finite sets are those of the module FiniteSets in both parts.
LEMMA SameSets ==
    /\ \A S : As!IsFiniteSet(S) <=> IsFiniteSet(S)
    /\ \A S : As!Cardinality(S) = Cardinality(S)
<1>1. \A S : As!IsFiniteSet(S) <=> IsFiniteSet(S)
  BY Zenon DEF As!IsFiniteSet, IsFiniteSet
<1>2. \A S : As!Cardinality(S) = Cardinality(S)
  BY Zenon DEF As!Cardinality, Cardinality, As!IsFiniteSet, IsFiniteSet
<1> QED BY <1>1, <1>2

LEMMA RegistryCounts ==
    ASSUME NEW R, NEW a, IsFiniteSet(R)
    PROVE  /\ Cardinality(R) \in Nat
           /\ Cardinality(R \cup {a}) \in Nat /\ Cardinality(R \cup {a}) <= Cardinality(R) + 1
           /\ Cardinality(R \ {a}) \in Nat /\ Cardinality(R \ {a}) <= Cardinality(R)
<1>1. Cardinality(R) \in Nat
  BY FS_CardinalityType
<1>2. /\ Cardinality(R \cup {a}) = IF a \in R THEN Cardinality(R) ELSE Cardinality(R) + 1
      /\ Cardinality(R \ {a}) = IF a \in R THEN Cardinality(R) - 1 ELSE Cardinality(R)
  BY FS_AddElement, FS_RemoveElement
<1>3. IsFiniteSet(R \ {a})
  BY FS_RemoveElement
<1>4. Cardinality(R \ {a}) \in Nat
  BY <1>3, FS_CardinalityType
<1> QED BY <1>1, <1>2, <1>4

\* A new block goes to one task, and none had its address.
LEMMA AllocateKeeps ==
    ASSUME AsyncInv, As!AgainUnshared',
           NEW c \in Clients, NEW a \in Addresses, As!Allocate(c, a)
    PROVE  AsyncInv'
<1> USE AsyncAssumption DEF As!MaxSpawnsAssumption, As!AddressAssumption,
           AsyncInv, As!TypeOK, As!Tasks, As!NoTask, As!At, Spawning, Joining, Awaiting,
           Registered, Owned, As!client, As!memory, As!history, As!Goto, As!Begin, As!Return
<1>1. As!TypeOK'
  BY DEF As!Allocate
<1>2. JobInv' /\ As!AwaitReturnsOwnResult' /\ OnlySecondRefused'
  BY DEF As!Allocate, JobInv, As!AwaitReturnsOwnResult, OnlySecondRefused
<1>3. JoinInv' /\ RemoveInv' /\ OneOwner'
  BY DEF As!Allocate, JobInv, JoinInv, RemoveInv, OneOwner
<1>4. BlockInv'
  BY DEF As!Allocate, JobInv, TaskInv, BlockInv
<1>5. SpawnInv'
  BY DEF As!Allocate, JobInv, SpawnInv, TaskInv, As!BlocksAccountedFor
<1>6. As!BlocksAccountedFor'
  <2>1. \A b \in Addresses : b \in registry' => block'[b] # As!NoTask
    BY DEF As!Allocate, As!BlocksAccountedFor
  <2>2. ASSUME NEW b \in Addresses, block'[b] # As!NoTask, b \notin registry', b # a
        PROVE  \E d \in Clients : pcAsync'[d] \notin {"idle", "remove"} /\ As!At(d)' = b
    <3>1. PICK d \in Clients : pcAsync[d] \notin {"idle", "remove"} /\ As!At(d) = b
      BY <2>2 DEF As!Allocate, As!BlocksAccountedFor
    <3>2. d # c /\ pcAsync'[d] = pcAsync[d] /\ As!At(d)' = b
      BY <3>1 DEF As!Allocate, JobInv
    <3> QED BY <3>1, <3>2
  <2>3. pcAsync'[c] = "register" /\ As!At(c)' = a
    BY DEF As!Allocate
  <2> QED BY <2>1, <2>2, <2>3 DEF As!BlocksAccountedFor
<1>7. TaskInv'
  <2>1. \A k \in As!Tasks : k \in Again /\ k <= spawns => home[k] # a
    BY DEF As!Allocate, As!AgainUnshared
  <2> QED BY <2>1 DEF As!Allocate, TaskInv
<1> QED BY <1>1, <1>2, <1>3, <1>4, <1>5, <1>6, <1>7

LEMMA RegisterKeeps ==
    ASSUME AsyncInv, NEW c \in Clients, As!Register(c)
    PROVE  AsyncInv'
<1> USE AsyncAssumption, SameSets DEF As!MaxSpawnsAssumption, As!AddressAssumption,
           AsyncInv, As!TypeOK, As!Tasks, As!NoTask, As!At, Spawning, Joining, Awaiting,
           Registered, Owned, As!client, As!memory, As!history, As!Goto, As!Begin, As!Return
<1>1. As!TypeOK'
  <2>1. IsFiniteSet(registry)
    BY FS_Subset
  <2>2. registry' = registry \cup {As!At(c)}
    BY DEF As!Register
  <2>3. Cardinality(registry') <= RegistrySize
    <3>1. RegistrySize \in Nat /\ Cardinality(registry) < RegistrySize
      BY DEF As!RegistrySizeAssumption, As!Register
    <3>2. /\ Cardinality(registry) \in Nat /\ Cardinality(registry \cup {As!At(c)}) \in Nat
          /\ Cardinality(registry \cup {As!At(c)}) <= Cardinality(registry) + 1
      BY ONLY <2>1, RegistryCounts, Zenon
    <3> QED BY ONLY <2>2, <3>1, <3>2
  <2>4. registry' \subseteq Addresses
    BY <2>2 DEF As!Register, JobInv, TaskInv
  <2> QED BY <2>3, <2>4 DEF As!Register
<1>2. JobInv' /\ RemoveInv' /\ OneOwner' /\ BlockInv' /\
      As!AwaitReturnsOwnResult' /\ OnlySecondRefused'
  BY DEF As!Register, JobInv, RemoveInv, OneOwner, BlockInv,
     As!AwaitReturnsOwnResult, OnlySecondRefused
<1>3. JoinInv' /\ TaskInv' /\ As!BlocksAccountedFor'
  BY DEF As!Register, JobInv, SpawnInv, JoinInv, TaskInv, As!BlocksAccountedFor
<1>4. SpawnInv'
  BY DEF As!Register, JobInv, SpawnInv, JoinInv, OneOwner
<1> QED BY <1>1, <1>2, <1>3, <1>4

LEMMA RegistryFullKeeps ==
    ASSUME AsyncInv, NEW c \in Clients, As!RegistryFull(c)
    PROVE  AsyncInv'
<1> USE AsyncAssumption DEF As!MaxSpawnsAssumption, As!AddressAssumption,
           AsyncInv, As!TypeOK, As!Tasks, As!NoTask, As!At, Spawning, Joining, Awaiting,
           Registered, Owned, As!client, As!memory, As!history, As!Goto, As!Begin, As!Return
<1>1. As!TypeOK'
  BY DEF As!RegistryFull
<1>2. JobInv' /\ OneOwner' /\ BlockInv' /\ As!AwaitReturnsOwnResult' /\
      OnlySecondRefused'
  BY DEF As!RegistryFull, JobInv, OneOwner, BlockInv, As!AwaitReturnsOwnResult,
     OnlySecondRefused
<1>3. JoinInv' /\ RemoveInv' /\ TaskInv' /\ As!BlocksAccountedFor'
  BY DEF As!RegistryFull, JobInv, SpawnInv, JoinInv, RemoveInv, TaskInv,
     As!BlocksAccountedFor
<1>4. SpawnInv'
  BY DEF As!RegistryFull, JobInv, SpawnInv, JoinInv, OneOwner
<1> QED BY <1>1, <1>2, <1>3, <1>4

LEMMA CreateThreadKeeps ==
    ASSUME AsyncInv, NEW c \in Clients, As!CreateThread(c)
    PROVE  AsyncInv'
<1> USE AsyncAssumption DEF As!MaxSpawnsAssumption, As!AddressAssumption,
           AsyncInv, As!TypeOK, As!Tasks, As!NoTask, As!At, Spawning, Joining, Awaiting,
           Registered, Owned, As!client, As!memory, As!history, As!Goto, As!Begin, As!Return
<1>1. As!TypeOK'
  BY DEF As!CreateThread
<1>2. /\ JobInv' /\ RemoveInv' /\ OneOwner' /\ BlockInv'
      /\ As!BlocksAccountedFor' /\ As!AwaitReturnsOwnResult' /\ OnlySecondRefused'
  <2>1. JobInv' /\ RemoveInv' /\ OneOwner' /\ BlockInv'
    BY DEF As!CreateThread, JobInv, RemoveInv, OneOwner, BlockInv
  <2>2. As!BlocksAccountedFor' /\ As!AwaitReturnsOwnResult' /\ OnlySecondRefused'
    BY DEF As!CreateThread, As!BlocksAccountedFor, As!AwaitReturnsOwnResult, OnlySecondRefused
  <2> QED BY <2>1, <2>2
<1>3. JoinInv'
  BY DEF As!CreateThread, JobInv, SpawnInv, JoinInv
<1>4. TaskInv'
  BY DEF As!CreateThread, JobInv, SpawnInv, TaskInv, BlockInv
<1>5. SpawnInv'
  BY DEF As!CreateThread, JobInv, SpawnInv, JoinInv, OneOwner
<1> QED BY <1>1, <1>2, <1>3, <1>4, <1>5

LEMMA CreateFailsKeeps ==
    ASSUME AsyncInv, NEW c \in Clients, As!CreateFails(c)
    PROVE  AsyncInv'
<1> USE AsyncAssumption, SameSets DEF As!MaxSpawnsAssumption, As!AddressAssumption,
           AsyncInv, As!TypeOK, As!Tasks, As!NoTask, As!At, Spawning, Joining, Awaiting,
           Registered, Owned, As!client, As!memory, As!history, As!Goto, As!Begin, As!Return
<1>1. As!TypeOK'
  <2>1. IsFiniteSet(registry)
    BY FS_Subset
  <2>2. registry' = registry \ {As!At(c)}
    BY DEF As!CreateFails
  <2>3. Cardinality(registry') <= RegistrySize
    <3>1. RegistrySize \in Nat /\ Cardinality(registry) <= RegistrySize
      BY DEF As!RegistrySizeAssumption, As!CreateFails
    <3>2. /\ Cardinality(registry) \in Nat /\ Cardinality(registry \ {As!At(c)}) \in Nat
          /\ Cardinality(registry \ {As!At(c)}) <= Cardinality(registry)
      BY ONLY <2>1, RegistryCounts, Zenon
    <3> QED BY ONLY <2>2, <3>1, <3>2
  <2>4. registry' \subseteq Addresses
    BY <2>2
  <2> QED BY <2>3, <2>4 DEF As!CreateFails
<1>2. JobInv' /\ JoinInv' /\ OneOwner' /\ BlockInv' /\ As!BlocksAccountedFor'
      /\ As!AwaitReturnsOwnResult' /\ OnlySecondRefused'
  BY DEF As!CreateFails, JobInv, JoinInv, OneOwner, BlockInv, As!BlocksAccountedFor,
     As!AwaitReturnsOwnResult, OnlySecondRefused
<1>3. RemoveInv' /\ TaskInv'
  BY DEF As!CreateFails, JobInv, SpawnInv, RemoveInv, TaskInv
<1>4. SpawnInv'
  BY DEF As!CreateFails, JobInv, SpawnInv, JoinInv, OneOwner
<1> QED BY <1>1, <1>2, <1>3, <1>4

LEMMA UndoKeeps ==
    ASSUME AsyncInv, NEW c \in Clients, As!Undo(c)
    PROVE  AsyncInv'
<1> USE AsyncAssumption DEF As!MaxSpawnsAssumption, As!AddressAssumption,
           AsyncInv, As!TypeOK, As!Tasks, As!NoTask, As!At, Spawning, Joining, Awaiting,
           Registered, Owned, As!client, As!memory, As!history, As!Goto, As!Begin, As!Return
<1>1. As!TypeOK'
  BY DEF As!Undo
<1>2. JobInv' /\ OneOwner' /\ BlockInv' /\ As!AwaitReturnsOwnResult' /\
      OnlySecondRefused'
  BY DEF As!Undo, JobInv, OneOwner, BlockInv, As!AwaitReturnsOwnResult,
     OnlySecondRefused
<1>3. JoinInv' /\ RemoveInv' /\ TaskInv'
  BY DEF As!Undo, JobInv, SpawnInv, JoinInv, RemoveInv, TaskInv
<1>4. SpawnInv'
  BY DEF As!Undo, JobInv, SpawnInv, JoinInv, OneOwner
<1>5. As!BlocksAccountedFor'
  <2>0. As!At(c) \notin registry
    BY DEF As!Undo, SpawnInv
  <2>1. \A b \in Addresses : b \in registry' => block'[b] # As!NoTask
    BY <2>0 DEF As!Undo, As!BlocksAccountedFor
  <2>2. ASSUME NEW b \in Addresses, block'[b] # As!NoTask, b \notin registry'
        PROVE  \E d \in Clients : pcAsync'[d] \notin {"idle", "remove"} /\ As!At(d)' = b
    <3>1. b # As!At(c) /\ block[b] # As!NoTask /\ b \notin registry
      BY <2>2 DEF As!Undo
    <3>2. PICK d \in Clients : pcAsync[d] \notin {"idle", "remove"} /\ As!At(d) = b
      BY <3>1 DEF As!BlocksAccountedFor
    <3>3. d # c /\ pcAsync'[d] = pcAsync[d] /\ As!At(d)' = b
      BY <3>1, <3>2 DEF As!Undo
    <3> QED BY <3>2, <3>3
  <2> QED BY <2>1, <2>2 DEF As!BlocksAccountedFor
<1> QED BY <1>1, <1>2, <1>3, <1>4, <1>5

LEMMA StartKeeps ==
    ASSUME AsyncInv, NEW c \in Clients, As!Start(c)
    PROVE  AsyncInv'
<1> USE AsyncAssumption DEF As!MaxSpawnsAssumption, As!AddressAssumption,
           AsyncInv, As!TypeOK, As!Tasks, As!NoTask, As!At, Spawning, Joining, Awaiting,
           Registered, Owned, As!client, As!memory, As!history, As!Goto, As!Begin, As!Return
<1>1. As!TypeOK'
  <2>1. started' \in [Addresses -> BOOLEAN]
    <3>1. started \in [Addresses -> BOOLEAN] /\ started' = [started EXCEPT ![As!At(c)] = TRUE]
      BY DEF As!Start
    <3> QED BY ONLY <3>1, Zenon
  <2>2. job[c] \in As!Tasks
    BY DEF As!Start, JobInv
  <2> QED BY <2>1, <2>2 DEF As!Start
<1>2. JobInv' /\ JoinInv' /\ RemoveInv' /\ OneOwner' /\ BlockInv' /\
      As!AwaitReturnsOwnResult' /\ OnlySecondRefused'
  BY DEF As!Start, JobInv, JoinInv, RemoveInv, OneOwner, BlockInv,
     As!AwaitReturnsOwnResult, OnlySecondRefused
<1>3. TaskInv'
  BY DEF As!Start, JobInv, SpawnInv, TaskInv
<1>4. As!BlocksAccountedFor'
  <2>1. UNCHANGED <<home, block, registry>> /\ pcAsync' = [pcAsync EXCEPT ![c] = "idle"]
        /\ job' = [job EXCEPT ![c] = As!NoTask] /\ pcAsync[c] = "start"
    BY DEF As!Start
  <2>2. Registered(job[c])
    BY <2>1 DEF SpawnInv
  <2>3. \A b \in Addresses : b \in registry => block[b] # As!NoTask
    BY DEF As!BlocksAccountedFor
  <2>4. ASSUME NEW b \in Addresses, block[b] # As!NoTask, b \notin registry
        PROVE  \E d \in Clients : pcAsync'[d] \notin {"idle", "remove"} /\ As!At(d)' = b
    <3>1. PICK d \in Clients : pcAsync[d] \notin {"idle", "remove"} /\ As!At(d) = b
      BY <2>4 DEF As!BlocksAccountedFor
    <3>2. d # c
      BY <2>2, <2>4, <3>1
    <3> QED BY <2>1, <3>1, <3>2
  <2> QED BY <2>1, <2>3, <2>4 DEF As!BlocksAccountedFor
<1>5. SpawnInv'
  BY DEF As!Start, JobInv, SpawnInv, JoinInv, OneOwner
<1> QED BY <1>1, <1>2, <1>3, <1>4, <1>5

\* A thread stores into the block of its own task.
LEMMA RunTaskKeeps ==
    ASSUME AsyncInv, NEW k \in As!Tasks, As!RunTask(k)
    PROVE  AsyncInv'
<1> USE AsyncAssumption DEF As!MaxSpawnsAssumption, As!AddressAssumption,
           AsyncInv, As!TypeOK, As!Tasks, As!NoTask, As!At, Spawning, Joining, Awaiting,
           Registered, Owned, As!client, As!memory, As!history, As!Goto, As!Begin, As!Return
<1>1. As!TypeOK'
  BY DEF As!RunTask
<1>2. JobInv' /\ SpawnInv' /\ JoinInv' /\ RemoveInv' /\ OneOwner' /\
      TaskInv' /\ As!BlocksAccountedFor' /\ As!AwaitReturnsOwnResult' /\
      OnlySecondRefused'
  BY DEF As!RunTask, JobInv, SpawnInv, JoinInv, RemoveInv, OneOwner, TaskInv,
     As!BlocksAccountedFor, As!AwaitReturnsOwnResult, OnlySecondRefused
<1>3. BlockInv'
  BY DEF As!RunTask, JobInv, TaskInv, BlockInv
<1> QED BY <1>1, <1>2, <1>3

LEMMA AwaitKeeps ==
    ASSUME AsyncInv, NEW c \in Clients, NEW k \in As!Tasks, As!Await(c, k)
    PROVE  AsyncInv'
<1> USE AsyncAssumption DEF As!MaxSpawnsAssumption, As!AddressAssumption,
           AsyncInv, As!TypeOK, As!Tasks, As!NoTask, As!At, Spawning, Joining, Awaiting,
           Registered, Owned, As!client, As!memory, As!history, As!Goto, As!Begin, As!Return
<1>1. As!TypeOK'
  <2>1. awaited[k] \in 0 .. 1
    BY DEF As!Await
  <2>2. awaited' \in [As!Tasks -> 0 .. 2]
    BY <2>1 DEF As!Await
  <2> QED BY <2>2 DEF As!Await
<1>2. SpawnInv' /\ JoinInv' /\ BlockInv' /\ As!AwaitReturnsOwnResult' /\
      OnlySecondRefused'
  BY DEF As!Await, SpawnInv, JoinInv, BlockInv, As!AwaitReturnsOwnResult,
     OnlySecondRefused
<1>3. TaskInv'
  <2>1. /\ k \in As!Tasks /\ k \in returned /\ awaited[k] \in 0 .. 1
        /\ awaited[k] = 1 => k \in Again
        /\ awaited' = [awaited EXCEPT ![k] = awaited[k] + 1]
    BY DEF As!Await
  <2>2. \A j \in As!Tasks : awaited'[j] = (IF j = k THEN awaited[k] + 1 ELSE awaited[j])
    BY <2>1
  <2> QED BY <2>1, <2>2 DEF As!Await, TaskInv
<1>4. As!BlocksAccountedFor'
  BY DEF As!Await, As!BlocksAccountedFor
<1>5. RemoveInv' /\ OneOwner'
  BY DEF As!Await, JobInv, RemoveInv, OneOwner, TaskInv
<1>6. JobInv'
  BY DEF As!Await, JobInv, TaskInv
<1> QED BY <1>1, <1>2, <1>3, <1>4, <1>5, <1>6

\* The registry lets an await through: the block is still the task's own.
LEMMA RemoveKeeps ==
    ASSUME AsyncInv, NEW c \in Clients, As!Remove(c)
    PROVE  AsyncInv'
<1> USE AsyncAssumption, SameSets DEF As!MaxSpawnsAssumption, As!AddressAssumption,
           AsyncInv, As!TypeOK, As!Tasks, As!NoTask, As!At, Spawning, Joining, Awaiting,
           Registered, Owned, As!client, As!memory, As!history, As!Goto, As!Begin, As!Return
<1>a. /\ job[c] \in 1 .. spawns /\ job[c] \in As!Tasks /\ As!At(c) \in Addresses
      /\ job[c] \in returned /\ Registered(job[c]) /\ thread[job[c]] # "none"
      /\ pcAsync' = [pcAsync EXCEPT ![c] = "join"] /\ pcAsync[c] = "remove" /\ panicked = "no"
      /\ registry' = registry \ {As!At(c)}
      /\ UNCHANGED <<spawns, home, As!memory, thread, job, returned, awaited, answers, panicked>>
  BY DEF As!Remove, JobInv, RemoveInv, TaskInv
<1>b. Owned(job[c])
  <2>1. CASE awaited[job[c]] = 1
    BY <1>a, <2>1 DEF RemoveInv
  <2>2. CASE awaited[job[c]] = 2
    <3>1. block[As!At(c)] \in {job[c], As!NoTask}
      BY <1>a, <2>2 DEF TaskInv
    <3> QED BY <1>a, <3>1 DEF As!BlocksAccountedFor
  <2>3. awaited[job[c]] # 0
    BY <1>a DEF TaskInv
  <2> QED BY <1>a, <2>1, <2>2, <2>3
<1>c. \A d \in Clients : job[d] = job[c] => pcAsync[d] \notin Spawning \cup Joining
  BY <1>a DEF SpawnInv, JoinInv
<1>d. accepted[job[c]] = 0 /\ accepted' = [accepted EXCEPT ![job[c]] = 1]
  <2>1. accepted[job[c]] = 0
    BY <1>a, <1>b DEF TaskInv
  <2>2. accepted' = [accepted EXCEPT ![job[c]] = accepted[job[c]] + 1]
    BY DEF As!Remove
  <2> QED BY <2>1, <2>2
<1>1. As!TypeOK'
  <2>1. IsFiniteSet(registry)
    BY FS_Subset
  <2>2. Cardinality(registry') <= RegistrySize
    <3>1. /\ RegistrySize \in Nat /\ Cardinality(registry) <= RegistrySize
          /\ registry' = registry \ {As!At(c)}
      BY <1>a DEF As!RegistrySizeAssumption
    <3>2. /\ Cardinality(registry) \in Nat /\ Cardinality(registry \ {As!At(c)}) \in Nat
          /\ Cardinality(registry \ {As!At(c)}) <= Cardinality(registry)
      BY ONLY <2>1, RegistryCounts, Zenon
    <3> QED BY ONLY <3>1, <3>2
  <2> QED BY <1>a, <1>d, <2>2
<1>2. JobInv'
  BY <1>a DEF JobInv
<1>3. SpawnInv'
  BY <1>a, <1>b, <1>c DEF JobInv, SpawnInv
<1>4. JoinInv'
  BY <1>a, <1>b, <1>c DEF JobInv, JoinInv, TaskInv
<1>5. RemoveInv'
  <2>1. \A d \in Clients : d # c /\ pcAsync[d] = "remove" /\ job[d] = job[c] => awaited[job[d]] # 1
    BY <1>a DEF OneOwner
  <2> QED BY <1>a, <1>b, <2>1 DEF JobInv, RemoveInv, TaskInv
<1>6. OneOwner'
  BY <1>a, <1>c DEF OneOwner
<1>7. TaskInv'
  BY <1>a, <1>b, <1>d DEF TaskInv
<1>8. BlockInv' /\ As!AwaitReturnsOwnResult' /\ OnlySecondRefused'
  BY <1>a DEF BlockInv, As!AwaitReturnsOwnResult, OnlySecondRefused
<1>9. As!BlocksAccountedFor'
  BY <1>a, <1>b DEF As!BlocksAccountedFor
<1> QED BY <1>1, <1>2, <1>3, <1>4, <1>5, <1>6, <1>7, <1>8, <1>9

LEMMA UnregisteredKeeps ==
    ASSUME AsyncInv, NEW c \in Clients, As!Unregistered(c)
    PROVE  AsyncInv'
<1> USE AsyncAssumption DEF As!MaxSpawnsAssumption, As!AddressAssumption,
           AsyncInv, As!TypeOK, As!Tasks, As!NoTask, As!At, Spawning, Joining, Awaiting,
           Registered, Owned, As!client, As!memory, As!history, As!Goto, As!Begin, As!Return
<1>1. As!TypeOK'
  BY DEF As!Unregistered
<1>2. JobInv' /\ SpawnInv' /\ JoinInv' /\ RemoveInv' /\ OneOwner' /\
      TaskInv' /\ BlockInv' /\ As!BlocksAccountedFor' /\
      As!AwaitReturnsOwnResult'
  BY DEF As!Unregistered, JobInv, SpawnInv, JoinInv, RemoveInv, OneOwner,
     TaskInv, BlockInv, As!BlocksAccountedFor, As!AwaitReturnsOwnResult
<1>3. OnlySecondRefused'
  BY DEF As!Unregistered, JobInv, RemoveInv, TaskInv, OnlySecondRefused
<1> QED BY <1>1, <1>2, <1>3

LEMMA JoinKeeps ==
    ASSUME AsyncInv, NEW c \in Clients, As!Join(c)
    PROVE  AsyncInv'
<1> USE AsyncAssumption DEF As!MaxSpawnsAssumption, As!AddressAssumption,
           AsyncInv, As!TypeOK, As!Tasks, As!NoTask, As!At, Spawning, Joining, Awaiting,
           Registered, Owned, As!client, As!memory, As!history, As!Goto, As!Begin, As!Return
<1>1. As!TypeOK'
  BY DEF As!Join
<1>2. JobInv' /\ SpawnInv' /\ RemoveInv' /\ OneOwner'
  BY DEF As!Join, JobInv, SpawnInv, RemoveInv, OneOwner
<1>3. TaskInv'
  BY DEF As!Join, TaskInv
<1>4. BlockInv' /\ As!BlocksAccountedFor' /\ As!AwaitReturnsOwnResult' /\
      OnlySecondRefused'
  BY DEF As!Join, BlockInv, As!BlocksAccountedFor, As!AwaitReturnsOwnResult,
     OnlySecondRefused
<1>5. JoinInv'
  BY DEF As!Join, JobInv, JoinInv, TaskInv
<1> QED BY <1>1, <1>2, <1>3, <1>4, <1>5

LEMMA FinishKeeps ==
    ASSUME AsyncInv, NEW c \in Clients, As!Finish(c)
    PROVE  AsyncInv'
<1> USE AsyncAssumption DEF As!MaxSpawnsAssumption, As!AddressAssumption,
           AsyncInv, As!TypeOK, As!Tasks, As!NoTask, As!At, Spawning, Joining, Awaiting,
           Registered, Owned, As!client, As!memory, As!history, As!Goto, As!Begin, As!Return
<1>1. As!TypeOK'
  <2>1. As!At(c) \in Addresses /\ job[c] \in As!Tasks
    BY DEF As!Finish, JobInv, TaskInv
  <2>2. result[As!At(c)] \in As!Tasks \cup {As!NoTask}
    BY <2>1
  <2>3. answers' \in [As!Tasks -> SUBSET (As!Tasks \cup {As!NoTask})]
    BY <2>1, <2>2 DEF As!Finish
  <2> QED BY <2>1, <2>3 DEF As!Finish
<1>2. JobInv' /\ OneOwner' /\ BlockInv' /\ OnlySecondRefused'
  BY DEF As!Finish, JobInv, OneOwner, BlockInv, OnlySecondRefused
<1>3. SpawnInv' /\ RemoveInv'
  BY DEF As!Finish, JobInv, SpawnInv, JoinInv, RemoveInv
<1>4. TaskInv'
  <2>1. /\ Owned(job[c]) /\ ~Registered(job[c]) /\ thread[job[c]] = "ended"
        /\ As!At(c) \in Addresses
    BY DEF As!Finish, JobInv, JoinInv, TaskInv
  <2> QED BY <2>1 DEF As!Finish, TaskInv
<1>5. As!BlocksAccountedFor'
  BY DEF As!Finish, JobInv, JoinInv, As!BlocksAccountedFor
<1>6. JoinInv'
  BY DEF As!Finish, JobInv, SpawnInv, JoinInv, OneOwner
<1>7. As!AwaitReturnsOwnResult'
  BY DEF As!Finish, JobInv, JoinInv, TaskInv, BlockInv, As!AwaitReturnsOwnResult
<1> QED BY <1>1, <1>2, <1>3, <1>4, <1>5, <1>6, <1>7

-----------------------------------------------------------------------------
LEMMA AsyncInit ==
    ASSUME As!Init
    PROVE  AsyncInv
<1> USE AsyncAssumption, SameSets DEF As!Init, As!RegistrySizeAssumption, As!MaxSpawnsAssumption,
           As!AddressAssumption, As!Tasks, As!NoTask
<1>1. As!TypeOK
  <2>1. started \in [Addresses -> BOOLEAN]
    BY Zenon
  <2>2. Cardinality(registry) <= RegistrySize
    BY FS_EmptySet
  <2> QED BY <2>1, <2>2 DEF As!TypeOK
<1>2. /\ JobInv /\ SpawnInv /\ JoinInv /\ RemoveInv /\ OneOwner
      /\ As!BlocksAccountedFor /\ As!AwaitReturnsOwnResult /\ OnlySecondRefused
  BY DEF JobInv, SpawnInv, JoinInv, RemoveInv, OneOwner, As!BlocksAccountedFor,
         As!AwaitReturnsOwnResult, OnlySecondRefused, Spawning, Joining, Awaiting
<1>3. TaskInv /\ BlockInv
  BY DEF TaskInv, BlockInv, Awaiting, Joining
<1> QED BY <1>1, <1>2, <1>3 DEF AsyncInv

LEMMA AsyncStep ==
    ASSUME AsyncInv, [As!Next]_(As!vars), As!AgainUnshared'
    PROVE  AsyncInv'
<1>1. CASE UNCHANGED As!vars
  BY <1>1 DEF As!vars, As!client, As!memory, As!history, AsyncInv, As!TypeOK, JobInv, SpawnInv,
              JoinInv, RemoveInv, OneOwner, TaskInv, BlockInv, As!BlocksAccountedFor,
              As!AwaitReturnsOwnResult, OnlySecondRefused, Registered, Owned, As!At
<1>2. ASSUME NEW c \in Clients, NEW a \in Addresses, As!Allocate(c, a) PROVE AsyncInv'
  BY <1>2, AllocateKeeps
<1>3. ASSUME NEW c \in Clients, As!Spawn(c) PROVE AsyncInv'
  BY <1>3, RegisterKeeps, RegistryFullKeeps, CreateThreadKeeps, CreateFailsKeeps,
     UndoKeeps, StartKeeps DEF As!Spawn
<1>4. ASSUME NEW c \in Clients, NEW k \in As!Tasks, As!Await(c, k) PROVE AsyncInv'
  BY <1>4, AwaitKeeps
<1>5. ASSUME NEW c \in Clients, As!AwaitStep(c) PROVE AsyncInv'
  BY <1>5, RemoveKeeps, UnregisteredKeeps, JoinKeeps, FinishKeeps DEF As!AwaitStep
<1>6. ASSUME NEW k \in As!Tasks, As!RunTask(k) PROVE AsyncInv'
  BY <1>6, RunTaskKeeps
<1> QED BY <1>1, <1>2, <1>3, <1>4, <1>5, <1>6 DEF As!Next

THEOREM AsyncInvariant == SuiteSpec /\ []As!AgainUnshared => []AsyncInv
<1>1. SuiteInit => AsyncInv
  BY AsyncInit DEF SuiteInit
<1>2. AsyncInv /\ [SuiteNext]_suiteVars /\ As!AgainUnshared' => AsyncInv'
  <2> SUFFICES ASSUME AsyncInv, [SuiteNext]_suiteVars, As!AgainUnshared' PROVE AsyncInv'
    OBVIOUS
  <2>1. [As!Next]_(As!vars)
    BY DEF SuiteNext, suiteVars, AsVars, As!vars, As!client, As!memory, As!history
  <2> QED BY <2>1, AsyncStep
<1> QED BY <1>1, <1>2, PTL DEF SuiteSpec

\* An await returns what the task of its handle computed: the join came first,
\* and the block read is the one the task stored into.
THEOREM AwaitsReturnTheirResult ==
    SuiteSpec /\ []As!AgainUnshared => []AwaitReturnsOwnResult
<1>1. AsyncInv => AwaitReturnsOwnResult
  BY DEF AsyncInv, AwaitReturnsOwnResult
<1> QED BY <1>1, AsyncInvariant, PTL

\* A running task stores into a block that is still its own; an allocated block
\* is registered or some call still has it to register or to free.
THEOREM BlocksHaveOwners == SuiteSpec /\ []As!AgainUnshared => []BlocksAreOwned
<1>1. AsyncInv => BlocksAreOwned
  BY DEF AsyncInv, TaskInv, Owned, As!NoStoreAfterFree, As!BlocksAreOwned, BlocksAreOwned
<1> QED BY <1>1, AsyncInvariant, PTL

\* "a second await sees an unregistered handle and panics": where the address
\* of the handle is not another task's by then, the registry lets one await of
\* it through; and a handle that is awaited once is never refused.
THEOREM SecondAwaitsAreRefused ==
    SuiteSpec /\ []As!AgainUnshared => [](As!SecondAwaitPanics /\ OnlySecondRefused)
<1>1. AsyncInv => As!SecondAwaitPanics /\ OnlySecondRefused
  BY DEF AsyncInv, As!TypeOK, TaskInv, As!SecondAwaitPanics
<1> QED BY <1>1, AsyncInvariant, PTL
=============================================================================
