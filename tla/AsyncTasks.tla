----------------------------- MODULE AsyncTasks -----------------------------
(***************************************************************************)
(* async_spawn and async_await of nucleor_llvm_rt.c (POSIX).  A task block *)
(* is allocated, entered in a registry of bounded size, and its address is *)
(* the handle; the await that takes the address out of the registry joins  *)
(* the task's thread, reads its result and frees the block, whose address  *)
(* malloc may then hand to a later spawn.                                  *)
(*                                                                         *)
(* Spawns are numbered 1, 2, ...; task k is the one of the k-th spawn, its *)
(* function returns k, and a client's handle k stands for the address      *)
(* home[k], which other tasks may have had or get.                         *)
(***************************************************************************)
EXTENDS Integers, FiniteSets

CONSTANTS Clients,       \* threads that spawn and await
          Addresses,     \* what malloc can return
          RegistrySize,  \* NUC_ASYNC_REGISTRY_SIZE
          Again,         \* the handles that clients await up to twice, not once
          NoAddress,     \* the home of a task not spawned yet
          MaxSpawns      \* bound: calls of async_spawn

RegistrySizeAssumption == RegistrySize \in Nat \ {0}
MaxSpawnsAssumption == MaxSpawns \in Nat
AddressAssumption == NoAddress \notin Addresses /\ IsFiniteSet(Addresses)

Tasks == 1 .. MaxSpawns
NoTask == 0

VARIABLES
    spawns,     \* how many spawns were begun
    home,       \* task -> the address of its block
    block,      \* address -> the task whose block is there, NoTask when free
    started,    \* address -> t->started
    result,     \* address -> t->result
    registry,   \* the addresses in g_async_registry
    thread,     \* task -> "none", "running" or "ended"
    pc,         \* client -> where it is in async_spawn or async_await
    job,        \* client -> the task its call spawns or awaits
    returned,   \* tasks whose handle a spawn has returned
    awaited,    \* task -> how often its handle was passed to an await
    accepted,   \* history: task -> awaits of its handle the registry let through
    answers,    \* history: task -> results that awaits of its handle returned
    panicked    \* exit(1): "no", "full" or "unregistered"

memory == <<block, started, result>>
client == <<pc, job>>
history == <<accepted, answers>>
vars == <<spawns, home, memory, registry, thread, client, returned, awaited,
          history, panicked>>

Init ==
    /\ spawns = 0
    /\ home = [k \in Tasks |-> NoAddress]
    /\ block = [a \in Addresses |-> NoTask]
    /\ started = [a \in Addresses |-> FALSE]
    /\ result = [a \in Addresses |-> NoTask]
    /\ registry = {}
    /\ thread = [k \in Tasks |-> "none"]
    /\ pc = [c \in Clients |-> "idle"]
    /\ job = [c \in Clients |-> NoTask]
    /\ returned = {}
    /\ awaited = [k \in Tasks |-> 0]
    /\ accepted = [k \in Tasks |-> 0]
    /\ answers = [k \in Tasks |-> {}]
    /\ panicked = "no"

Goto(c, from, to) ==
    /\ panicked = "no"
    /\ pc[c] = from
    /\ pc' = [pc EXCEPT ![c] = to]

Begin(c, first, k) == Goto(c, "idle", first) /\ job' = [job EXCEPT ![c] = k]
Return(c, last) == Goto(c, last, "idle") /\ job' = [job EXCEPT ![c] = NoTask]

\* The address the client's call works on.
At(c) == home[job[c]]

-----------------------------------------------------------------------------
\* async_spawn

\* malloc and the stores to the fields of the block
Allocate(c, a) ==
    /\ spawns < MaxSpawns /\ block[a] = NoTask
    /\ Begin(c, "register", spawns + 1)
    /\ spawns' = spawns + 1
    /\ home' = [home EXCEPT ![spawns + 1] = a]
    /\ block' = [block EXCEPT ![a] = spawns + 1]
    /\ started' = [started EXCEPT ![a] = FALSE]
    /\ result' = [result EXCEPT ![a] = NoTask]
    /\ UNCHANGED <<registry, thread, returned, awaited, history, panicked>>

\* Mutant: a slot is found and not filled.
RegisterForgotten(c) ==
    /\ Goto(c, "register", "create")
    /\ Cardinality(registry) < RegistrySize
    /\ UNCHANGED <<spawns, home, memory, registry, thread, job, returned, awaited,
                   history, panicked>>

Register(c) ==
    /\ Goto(c, "register", "create")
    /\ Cardinality(registry) < RegistrySize
    /\ registry' = registry \cup {At(c)}
    /\ UNCHANGED <<spawns, home, memory, thread, job, returned, awaited, history, panicked>>

\* No slot is free: the block is freed and the process exits.
RegistryFull(c) ==
    /\ Goto(c, "register", "exited")
    /\ Cardinality(registry) >= RegistrySize
    /\ block' = [block EXCEPT ![At(c)] = NoTask]
    /\ panicked' = "full"
    /\ UNCHANGED <<spawns, home, started, result, registry, thread, job, returned,
                   awaited, history>>

CreateThread(c) ==
    /\ Goto(c, "create", "start")
    /\ thread' = [thread EXCEPT ![job[c]] = "running"]
    /\ UNCHANGED <<spawns, home, memory, registry, job, returned, awaited, history, panicked>>

\* pthread_create failed: the registration is undone, the block freed and 0
\* returned.
CreateFails(c) ==
    /\ Goto(c, "create", "undo")
    /\ registry' = registry \ {At(c)}
    /\ UNCHANGED <<spawns, home, memory, thread, job, returned, awaited, history, panicked>>

\* Mutant: the block of a spawn that failed is not freed.
UndoForgotten(c) ==
    /\ Return(c, "undo")
    /\ UNCHANGED <<spawns, home, memory, registry, thread, returned, awaited, history, panicked>>

Undo(c) ==
    /\ Return(c, "undo")
    /\ block' = [block EXCEPT ![At(c)] = NoTask]
    /\ UNCHANGED <<spawns, home, started, result, registry, thread, returned, awaited,
                   history, panicked>>

\* started = 1, and the caller gets the handle.
Start(c) ==
    /\ Return(c, "start")
    /\ started' = [started EXCEPT ![At(c)] = TRUE]
    /\ returned' = returned \cup {job[c]}
    /\ UNCHANGED <<spawns, home, block, result, registry, thread, awaited, history, panicked>>

\* nucleor_async_proc: the task's function returns into its block.
RunTask(k) ==
    /\ panicked = "no" /\ thread[k] = "running"
    /\ thread' = [thread EXCEPT ![k] = "ended"]
    /\ result' = [result EXCEPT ![home[k]] = k]
    /\ UNCHANGED <<spawns, home, block, started, registry, client, returned, awaited,
                   history, panicked>>

-----------------------------------------------------------------------------
\* async_await

Await(c, k) ==
    /\ k \in returned /\ awaited[k] < (IF k \in Again THEN 2 ELSE 1)
    /\ Begin(c, "remove", k)
    /\ awaited' = [awaited EXCEPT ![k] = @ + 1]
    /\ UNCHANGED <<spawns, home, memory, registry, thread, returned, history, panicked>>

Remove(c) ==
    /\ Goto(c, "remove", "join")
    /\ At(c) \in registry
    /\ registry' = registry \ {At(c)}
    /\ accepted' = [accepted EXCEPT ![job[c]] = @ + 1]
    /\ UNCHANGED <<spawns, home, memory, thread, job, returned, awaited, answers, panicked>>

\* The handle is not registered: the process exits.
Unregistered(c) ==
    /\ Goto(c, "remove", "exited")
    /\ At(c) \notin registry
    /\ panicked' = "unregistered"
    /\ UNCHANGED <<spawns, home, memory, registry, thread, job, returned, awaited, history>>

\* Mutant: the thread is joined only if it was not marked as started.
JoinInverted(c) ==
    /\ Goto(c, "join", "finish")
    /\ ~started[At(c)] => thread[block[At(c)]] = "ended"
    /\ UNCHANGED <<spawns, home, memory, registry, thread, job, returned, awaited,
                   history, panicked>>

\* pthread_join of the thread in the block, if one was started
Join(c) ==
    /\ Goto(c, "join", "finish")
    /\ started[At(c)] => thread[block[At(c)]] = "ended"
    /\ UNCHANGED <<spawns, home, memory, registry, thread, job, returned, awaited,
                   history, panicked>>

\* Read the result, free the block, return.
Finish(c) ==
    /\ Return(c, "finish")
    /\ answers' = [answers EXCEPT ![job[c]] = @ \cup {result[At(c)]}]
    /\ block' = [block EXCEPT ![At(c)] = NoTask]
    /\ UNCHANGED <<spawns, home, started, result, registry, thread, returned, awaited,
                   accepted, panicked>>

-----------------------------------------------------------------------------
Spawn(c) == \/ Register(c) \/ RegistryFull(c) \/ CreateThread(c) \/ CreateFails(c)
            \/ Undo(c) \/ Start(c)
AwaitStep(c) == Remove(c) \/ Unregistered(c) \/ Join(c) \/ Finish(c)

Next ==
    \/ \E c \in Clients :
        \/ \E a \in Addresses : Allocate(c, a)
        \/ Spawn(c)
        \/ \E k \in Tasks : Await(c, k)
        \/ AwaitStep(c)
    \/ \E k \in Tasks : RunTask(k)

Spec == Init /\ [][Next]_vars

\* Clients in a call run on, threads run, and task functions return.
FairSpec ==
    /\ Spec
    /\ \A c \in Clients : WF_vars(Spawn(c)) /\ WF_vars(AwaitStep(c))
    /\ \A k \in Tasks : WF_vars(RunTask(k))

-----------------------------------------------------------------------------
TypeOK ==
    /\ spawns \in 0 .. MaxSpawns
    /\ home \in [Tasks -> Addresses \cup {NoAddress}]
    /\ block \in [Addresses -> Tasks \cup {NoTask}]
    /\ started \in [Addresses -> BOOLEAN]
    /\ result \in [Addresses -> Tasks \cup {NoTask}]
    /\ registry \subseteq Addresses /\ Cardinality(registry) <= RegistrySize
    /\ thread \in [Tasks -> {"none", "running", "ended"}]
    /\ pc \in [Clients -> {"idle", "register", "create", "undo", "start", "remove",
                           "join", "finish", "exited"}]
    /\ job \in [Clients -> Tasks \cup {NoTask}]
    /\ returned \subseteq Tasks
    /\ awaited \in [Tasks -> 0 .. 2] /\ accepted \in [Tasks -> 0 .. 2]
    /\ answers \in [Tasks -> SUBSET (Tasks \cup {NoTask})]
    /\ panicked \in {"no", "full", "unregistered"}

\* An await returns what the task of its handle computed: not the 0 of a
\* fresh block, and not the result of a task that has the address now.
AwaitReturnsOwnResult == \A k \in Tasks : answers[k] \subseteq {k}

\* A running task owns its block: it never stores its result into memory that
\* was freed or given to another task.
NoStoreAfterFree ==
    \A k \in Tasks : thread[k] = "running" => block[home[k]] = k

\* No block leaks: an allocated block is registered, or a call that will free
\* or register it is at work on it; and only allocated blocks are registered.
BlocksAccountedFor ==
    \A a \in Addresses :
        /\ a \in registry => block[a] # NoTask
        /\ block[a] # NoTask =>
              \/ a \in registry
              \/ \E c \in Clients : pc[c] \notin {"idle", "remove"} /\ At(c) = a

\* A block has one owner at a time, from its malloc to its free.
BlocksAreOwned == NoStoreAfterFree /\ BlocksAccountedFor

\* No later task gets the address that a handle awaited again had.  Without
\* this a second await can be taken for the await of another handle.
AgainUnshared ==
    \A k \in Tasks \cap Again, l \in Tasks : k < l /\ l <= spawns => home[l] # home[k]

\* "a second await sees an unregistered handle and panics rather than
\* dereferencing freed memory" (nucleor_llvm_rt.c:3965-3967): the registry
\* lets at most one await of a handle through.
SecondAwaitPanics == \A k \in Tasks : accepted[k] <= 1

\* Every await of a handle returns, unless the process exits because a spawn
\* found the registry full, or because some handle was awaited twice: a handle
\* awaited once is never refused.
AwaitReturns ==
    \A c \in Clients :
        pc[c] = "remove" ~>
            \/ pc[c] = "idle"
            \/ panicked = "full"
            \/ panicked = "unregistered" /\ \E k \in Tasks : awaited[k] > 1
=============================================================================
