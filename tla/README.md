# Nucleor in TLA+

Models, model checks and proofs for parts of Nucleor: the concurrent runtime
that compiled programs link against (queues, channels, thread pool, barrier,
async tasks, the registry of atomics), the sequential structures and algorithms
of its C runtime (maps, planners, graphs, tableaux, state machines), and the
stateful parts of the self-hosted compiler (optimizer, ownership maps, build
cache). Every definition is written from the source; `PROJECT.json` ("map") names
the lines each one stands for, the hazards each property is aimed at, and the
disagreements found.

Contents: [the system](#the-system) · [modules and code](#modules-and-code) ·
[runs](#runs) · [fairness](#fairness) · [memory and platforms](#memory-and-platforms) ·
[proofs](#proofs) · [findings](#findings) · [what is not modelled](#what-is-not-modelled) ·
[plan](#plan)

## The system

Nucleor is a compiled language. Its compiler is written in itself
(`src/compiler/s1/*.nr`): lexer and parser, type, effect and ownership checkers,
lowering to a block-structured IR, an optimizer, and an emitter that prints LLVM
IR, with a build cache of content-addressed artifacts around them. Programs link
against C runtimes (`src/stdlib/runtime/*.c`) and against *rods*, libraries
written in Nucleor (`src/stdlib/rods/*.nr`).

| Component | State it keeps | Operations | Hard behaviour | What makes it correct |
|---|---|---|---|---|
| SPSC queue (`spsc_queue.nr`) | slot buffer, atomic `head` and `tail` | push, pop, len | producer, consumer and observers on plain slots, without a lock | FIFO, no slot touched by both ends at once, length in range, delivery |
| MPSC queue (`mpsc_queue.nr`) | the same and a sequence number per slot | push (any thread), pop, len | stale tickets, a producer stalled between reserving and publishing, capacity 1 | FIFO in ticket order, no overwriting, what None and false mean |
| Channel (`nucleor_llvm_rt.c`) | ring, count, closed, lock, two condition variables | new, send, recv, close | one signal per operation, close against sleepers | no lost wakeup, close releases everybody, values survive a close |
| Thread pool and futures (`thread_rt.c`) | task list, shutdown flag; result, done, consumed of each future | submit, worker loop, get, free | signals, shutdown against queued work, two unlocked stores, a flag tested outside the lock | each task runs once, free drains, get returns the task's result, once |
| Barrier (`thread_rt.c`) | waiting, generation | wait, free | reuse before stragglers have left, spurious wakeups | rendezvous in every round, every wait returns |
| Async tasks (`nucleor_llvm_rt.c`) | registry of live handles, task blocks on the heap | spawn, await | thread creation fails, full registry, reused addresses | own result, no store into freed memory, no leak, a handle is good for one await |
| Optimizer (`compiler/s1/optim.nr`) | tables of known constants, slots and expressions per pass | five rewriting passes in two rounds | a stale table entry, liveness seen from one block, folding at the ends of the range | the block keeps its meaning, its traps and its well-formedness |
| Build cache (`compiler/s1/cli.nr`, `cache.nr`) | `.ll` and stamp per output, executable, two content-addressed caches | probe, write, stamp, link, keep, store | builds side by side, killed between two files, bypassing the cache | a build that nothing misled leaves the output of its own source; a cache entry not in doubt is whole and filed under its source |
| Ownership maps (`check_own.nr`, `lower.nr`, `nucleor_llvm_rt.c`) | a vector of pairs, snapshots, four warm indices by address | put, get, snapshot, restore, join, free | an index that outlives a truncation, an eviction, a join or its map | a lookup by index gives what a scan gives |
| Registry of atomics (`nucleor_llvm_rt.c`) | open-addressing table of handles | new, free, lookup by every operation | a full table, collisions, forged handles | a handle is found exactly if its cell was made |
| Hash map, deque, sorted map (`nucleor_llvm_rt.c`) | slots or ring, length, capacity | insert, remove, grow, push, pop, merge | removal from a run that wraps, growth of a wrapped ring | the structure is the function or sequence its calls describe |
| Planners (`rrt_rt.c`, `prm_rt.c`, `dstar_rt.c`) | trees, roadmap, grid with two estimates per cell and a lazy heap | plan, connect, star, shortcut; build, query; update, replan | rewiring, lazy edges, many changes between replans | paths join start to goal, are free, and shortest where promised |
| Graphs (`graph_rt.c`) | adjacency lists | add, matrix views, ten algorithms | parallel edges, loops, negative weights | each answer against its definition |
| Stabilizer tableaux (`clifford_rt.c`) | tableau of 2n rows | gates, measurement, stabilizer codes | phases, destabilizers, random outcomes | the rows fix the state the circuit makes; distances and counts are right |
| State machines (`state_machine_rt.c`) | table, current state, history | fire | callbacks that fire | the history follows the table |

How they interact: both queues and the cancel tokens are built on `AtomicI64`
of the C runtime; compiled code reaches channels, tasks and the pool by C calls
that the emitter declares; `nuc_threadpool_map` is a client of the pool
(a loop of submits, then a loop of gets). The pool's condition variables, the
channel's and the barrier's are the operating system's. The optimizer works
between lowering (which defines each register once, before its uses) and the
emitter (which says what an operation means), and shares no state with either. The
ownership checker runs before lowering and shares with it the symbol lookup
`sym_get` and the indices behind it. Builds are processes that share `target/`
and the caches on disk and nothing else. The sequential structures are called by
one thread each; the registry of atomics is under one lock, so each call on it is
one step. The planners, graphs, tableaux and machines are rods' back ends with
handles of their own and no calls among each other.

`PROJECT.json` lists every component, the unmodelled ones with their reason, and
40 hazards, each at the line where it bites.

## Modules and code

| Module | Code | What it is |
|---|---|---|
| `BoundedFifo` | the queue interface of the two rods and the channel | what any bounded queue promises: accept at the end, deliver from the front, never above the bound, eventually deliver |
| `SpscQueue` | `stdlib/rods/spsc_queue.nr` | the ring, one step for each access to shared memory |
| `SpscQueueProofs` | | the theorems about it, with the arithmetic of a ring and of windows of a history |
| `MpscQueue`, `MpscQueueProofs` | `stdlib/rods/mpsc_queue.nr` | the ticket ring, one step for each access; the theorems about it |
| `Channel`, `ChannelProofs` | `nucleor_llvm_rt.c:4428-4483`, both builds | one step for each stretch of a call under the lock; the theorems about it |
| `ThreadPool`, `ThreadPoolProofs` | `thread_rt.c:75-295` (POSIX) | as `Channel`; unlocked accesses are steps of their own; the theorems about it |
| `Barrier` | `thread_rt.c:337-400` | as `Channel` |
| `AsyncTasks` | `nucleor_llvm_rt.c:4291-4357` (POSIX) | registry operations, `malloc`, thread creation, the task's stores and the join as steps |
| `Runtime`, `RuntimeProofs` | | barrier, channel and async tasks side by side; the theorems about them |
| `AtomicRegistry` | `nucleor_llvm_rt.c:8337-8465` | the registry of handles |
| `Optimizer`, `OptimizerProofs` | `optim.nr`, meaning of operations from `emit.nr` | lowering any block, then one step for each pass; the theorems about it |
| `OwnershipMaps` | `check_own.nr:475-645, 2133-2169`, `lower.nr:27-80`, `nucleor_llvm_rt.c:2770-2886, 6485-6528` | puts, gets and the steps of a branch or loop |
| `BuildCache` | `cli.nr:112-122, 743-757`, `cache.nr:246-298, 482-504, 710-957` | one step for each file a build opens, fills or removes |
| `Compiler`, `CompilerProofs` | | build cache, ownership maps and optimizer side by side; the theorems about the first two |
| `HashMap` | `nucleor_llvm_rt.c:6094-6434` | one step for each call; as do all below |
| `Collections` | `nucleor_llvm_rt.c:6973-7080, 7129-7240` | deque and sorted map |
| `RRT` | `rrt_rt.c` | one step for each sample of a planner's loop |
| `PRM` | `prm_rt.c` | sample, build, query |
| `DStar` | `dstar_rt.c` | plan, update_cost, replan |
| `Graph` | `graph_rt.c:34-462` | edges are steps, algorithms are operators |
| `StateMachine` | `state_machine_rt.c` | one step for each stretch of a `fire` between callbacks, of all three kinds |
| `Libraries`, `LibraryProofs` | | registry of atomics, state machines and tree planners side by side; the theorems about them |
| `Clifford` | `clifford_rt.c` | gates, measurements and stabilizers are steps, enumerations are operators |
| `MC*` | | constants for model checking; `MCLibraries` adds the parts that are only model-checked to the run |

**`SpscQueue`.** `head` and `tail` are the two atomics, `buffer` the slots. A
call is `pc[t]` plus the locals that live across an access: `seen` (the counter
it loaded), `val` and `item`. `spsc_push` is PushLoadTail, then PushFull (return
false) or PushLoadHead, PushWrite, PushPublish; `spsc_pop` is PopLoadHead, then
PopEmpty or PopLoadTail, PopRead, PopClear, PopRelease; `spsc_len` is
LenLoadHead and LenLoadTail, and may be called from either end or by a third
thread. `pushed` and `popped` are histories: one grows at the store of `tail`,
the other at the store of `head`. The queue is stated as a `BoundedFifo` whose
content is `SubSeq(pushed, head + 1, tail)`: the two stores are the two steps of
the abstract queue and everything else is a stutter.

**`MpscQueue`.** As above, plus `sequence`. A push retries from its load of tail
when it lost the compare-exchange (ReserveLost) or when its ticket was overtaken
(Outrun), and gives up when the slot still belongs to an earlier lap (PushFull).
The abstract queue accepts at the compare-exchange, not at the publication: a
pop may therefore have to return None although the abstract queue is not empty,
and `NoneMeansNothingPublished` says exactly when.

**`Channel`.** The fields of `NChannel_posix` are the variables; a thread is idle, about to
take the lock, or asleep on one of the condition variables. `Signal` wakes
*some* sleeper if there is one; a wakeup may also be spurious; a woken thread
competes for the lock with newcomers. The closer may close at any moment, more
than once. `Cap` is `(int)cap` of the 64-bit argument, with 16 for what is then
below 1; the run asks for 66 slots where an int has 64 values, and gets two. `channel_is_closed` and `channel_len` read one field under the lock
and have no action.

**`ThreadPool`.** `tasks` is the linked list, `shutdown` the flag,
`prims[f]` says whether future f's lock and condition variable exist or were
destroyed. A worker takes a task, stores `result` and `done` as two steps
outside any lock, and then takes the future's lock to signal. A get tests
`consumed` before it takes the lock, waits, destroys the primitives, and only then reads the result
and sets `consumed` (Ask, Wait, SeeDone, Destroy, Consume; AskAgain is the early
return). The worker's lock and signal succeed on primitives that the getter destroyed meanwhile,
as glibc has it (`Ring`; a hazard). Clients use the pool as its interface demands: no submit after the free
has begun, and the constant `MayGet` says who asks for which future.

**`Barrier`.** `entered[t]` is the local copy of `generation`. The last arrival
resets `waiting`, moves to the next generation and broadcasts. `nuc_barrier_free`
is called when no thread is inside, as its callers do by joining first.

**`AsyncTasks`.** A handle is an address. `home[k]` is the address of the k-th
spawn's block, `block[a]` the task whose block is at `a` now, so a handle kept
after its await may name somebody else's block, which is what `malloc` really
does. `pthread_create` may fail. `exit(1)` stops everything. `Again` says which
handles clients await twice: the passing run has the one of the last spawn, whose
address nobody gets afterwards, and a second await of it exits.

**`Optimizer`.** Lowering appends any instruction of `Ops` over registers
already defined, then a terminator. Each pass is a recursive function over the block
with the tables the source keeps (`known`, `stored`, `seen`): its value at i is
what the loop has after i instructions. `Passes` is the order of `opt_fn`. An i64 is
one of -`Half` .. `Half` - 1 and the bit operations are constants, of which only their
range is assumed, so that nothing depends on the width. `Mixes` bounds what TLC
lowers: which operations a block is made of, and how long it is. Operations are those of i64:
the width tag of a narrow operation, which the emitter reads (`emit.nr:205-209, 248-269`), is
not modelled. No pass reads it, and none folds or forwards a narrow operation, since its
operands come from narrow loads, truncations or each other (`lower.nr:1400-1486`), and
no typed slot is stored a known constant (`lower.nr:5818, 5987, 6725` store what a
truncation made). The reference is `Run`: it executes a block on given inputs, slot
contents and call results, and says how it ended (returned, branched, trapped,
or read an undefined register) and which calls it made. Comments that start with
a range of numbers name the iops of the source. Left out: operations the
passes neither rewrite nor remove and that read no more registers than a call
(select 28, string and function constants 27 and 29, indirect calls 30, the
conversions 32 to 34), checked subtraction and multiplication (36 and 37, treated
exactly as checked addition 35), and the sentinel -9999999 that an unset table
entry holds, which the model represents by absence.

**`AtomicRegistry`.** `registry` is the table, `hash` any function, chosen in
Init. `New` claims the first entry of the handle's probe sequence that is empty or
its own, `NewPanics` is the exit on a full table, `Free` retires a cell and leaves
its entry. `Found` is the lookup that every operation on an atomic makes first.

**`OwnershipMaps`.** `vec[a]` is the vector at address a; `warm` the slots of
`sym_aux`, least recently used first. `branches` is the stack of `if` and loop
statements being checked and where each is: `Open`, `Else`, and `EndIf` or `EndLoop`
are the places where `check_stmt` takes a snapshot and restores one. A join is
the two loops of `own_merge_moved`, `JoinFirst` and `JoinSecond`, a pair of an arm at a
time, with `joined` for their counters and nothing in between; `EndJoin` frees the arms. The
join of a "freed" key also asks both arms who freed the name and puts the answer
(`JoinFreedBy`). `Write` and `Read` are all that statements in between branches do to the map. A
free gives the address back when `Reuse` holds, as it does in both runs; the default libc
path is the one that frees (`vec_free` with its guard off). `misfiled`, a history, has the
addresses that a map got while an index of another was filed under them. The flags
`o[15]` and `o[17]` of flow sensitivity are not modelled.

**`BuildCache`.** A file is absent, or the output of one source, in part or whole:
opening a file for writing or copying empties it (`Open`), a later step fills it (`Fill`). When several
builds have one file open, who fills it after another opened it may leave either content or a
mixture (`cut` keeps the order). `Begin` is a call of `compile_file_mode`, of any source and
output, whoever else is running: the code takes no lock. `Check` is the test of the stamp, `OpenLl`,
`FillLl`, `OpenStamp`, `FillStamp` the two files of `write_ll_artifact_if_needed`;
`OpenExe`/`FillExe` the hit in the executable cache, `Clang` the link, `Kept` and
`Stored` the two stores. `Kill` ends a build before any step. A hash is
the source itself: collisions are not modelled, nor copies that fail (the code does not look),
`nuc clean`, the cached runtime objects, or a clang that survives its build.

Not every build gives its source, and two histories say which may not. `doubt` has the stamps and
entries nothing vouches for: a stamp since its `.ll` was opened, an entry since it was
opened, until a build that is not misled has filled it with nobody else at it. `misled` has the
builds that shared their output with another at the same time, that took a file in
doubt, or that had a file open together with one that was misled or killed. No step reads them.

**`HashMap`, `Collections`.** A table is the record of its fields, and each
operation a function on it as in the code (probe, backward shift, grow, re-insert
in the order of the old slots). The reference is the dictionary or sequence that
the calls describe.

**`RRT`, `PRM`, `DStar`.** Points and their distances are a table; a sample is any
point, so the random generator is a choice. The trees are sequences of nodes; one
sample of a planner's loop is one step, the whole pursuit by the other tree of
RRT-Connect (`Follow`, up to `ConnectSteps` extensions) included. A node's cost is a number or
`Unknown` where the code's array was never written. `DStar` keeps the array heap,
lazy entries included, and both estimates of every cell; lengths are integers with
a diagonal of 7 for a straight 5.

**`Graph`.** The state is the adjacency lists in the order the edges were added.
References are by definition: simple paths, closings of cycles, spanning forests.

**`Clifford`.** A row is its X part, Z part and sign. `psi` is the state vector the
circuit makes, over Gaussian integers without normalisation, and the property is
that every stabilizer row fixes it. Code functions (membership, distance, weight
counts) are compared with definitions over all Pauli operators.

**`StateMachine`.** `calls` is the stack of unfinished calls of `fire`. An exit callback, an
action and an enter callback may each fire again. A call whose own exit callback or action did so is
`interrupted`: it will move to its target from wherever the machine is by then
(`state_machine_rt.c:96`). `undisturbed`, a history, has the places in `history` that were
written by calls that were not. The table and the callbacks are set before the first event.

Operators whose comment starts with "Mutant:" are not part of a specification.
Each is a plausible bug in the operator that follows it and takes its place in
one of the replacements `PROJECT.json` lists: every property is there because a
bug of this kind breaks it.

## Runs

All with `tlc -workers 2 -config X.cfg M` in this directory; the states are
distinct states.

| Run | Config | States | What it asks and shows |
|---|---|---|---|
| spsc | `MCSpscQueue.cfg` | 9 thousand | Two slots, two values, four pushes: FIFO order (`FifoDelivery`), no plain slot touched by both ends (`NoSlotRace`), lengths, and refinement of `BoundedFifo` with its liveness (`EveryItemDelivered`) |
| mpsc | `MCMpscQueue.cfg` | 56 thousand | Two producers, two slots, three tickets: the same, no overwriting, what an empty answer and a full answer mean |
| pool | `MCThreadPool.cfg` | 24 thousand | Two workers, three tasks, one getter per future, a free at any time: tasks are accounted for (in one place, none lost, none left when the free returned), none oversleeps, gets return the result |
| runtime | `MCRuntime.cfg` | 47 thousand | Barrier: three threads meet three times. Channel: two senders and two receivers, where one sender also receives and the other also closes. Async: two clients, three spawns, a registry of two, failing thread creation, a second await of one handle |
| compiler | `MCCompiler.cfg` | 0.9 million | Optimizer: all blocks of up to five constants, loads and stores on two slots, all blocks of up to three operations (ten of the signed ones) and calls, every fold for all 3-bit operands. Build cache: three builds by two builders to two outputs, of a source that is linked, with and without the cache, and of one that is not, in any interleaving, one of them killed before any step. Ownership maps: two writes in two nested or consecutive branches, with addresses reused |
| libraries | `MCLibraries.cfg` | 288 thousand | Nine sequential parts against their definitions |
| mpsc_one | `MCMpscQueueOne.cfg` | | violated: finding 1 |
| pool_two_gets | `MCThreadPoolTwoGets.cfg` | | violated: finding 2 |
| async_twice | `MCAsyncTasksTwice.cfg` | | violated: finding 3 |
| optimizer_unsigned | `MCOptimizerUnsigned.cfg` | | violated: finding 4 |
| builds_no_cache | `BuildCacheBypassed.cfg` | | violated: finding 5 |
| ownership_reuse | `MCOwnershipReuse.cfg` | | violated: finding 6 |

Three of the runs hold several modules. A variable `subject` chooses the part
under test in the initial state and never changes; the variables of the others
keep their initial values. So the states are those of each part alone, added up,
and a property of one part says nothing about another: nothing is claimed of
their composition, since the code does not compose them. `MCLibraries` gives
the parts that are only model-checked the same eight variables, one at a time.
The parts with theorems are composed in modules of their own (`Runtime`,
`Compiler`, `Libraries`), which the MC modules and the proofs both extend: a
property is one definition, whether TLC checks it or a theorem states it.

Why the bounds are enough to be worth something:

- *Queues.* Four pushes into two slots turn the ring twice, so every slot is
  reused and the full and the empty ring are both reached from every phase of
  the other side's call. Three tickets of two producers give a lost
  compare-exchange, a ticket overtaken while its producer sleeps, a full lap
  between a test and the exchange, and a publication out of order. The proofs
  remove the bounds for the SPSC queue; `MaxPush` is a CONSTANT of the module
  that the theorems do not restrict.
- *Channel.* Two of each role are what a stolen wakeup needs: one thread is
  signalled, another takes the value before it. There is no bound on the number
  of sends, since `count`, `head` and `tail` are finite.
- *Pool.* Two workers and three tasks: a signal given while the first worker is
  busy, a queue of two, a shutdown with queued work. Everything is bounded by the
  three futures.
- *Barrier.* Three rounds let the fastest thread be back while a straggler of
  the last round has not left, which is all a thread can be ahead. `MaxCalls` is
  the bound.
- *Async.* Two clients and a registry of two: a third spawn meets a full
  registry, a failed creation undoes its entry while the other client works, and
  freed addresses are reused. `MaxSpawns` is the bound.
- *Build cache.* Two sources and two outputs: builds of one source to both outputs write the
  same entries at once, builds of both sources to one output overwrite each other, and
  the third build meets what two others, or a kill (`MaxKills` is one), left. `Commands` limits
what builds ask for: one source is always linked, the other never. The theorem has no such limit. Every step is a place to be
  killed. Builders are alike and so are outputs, hence the symmetry.
- *Ownership maps.* Two ways and three maps give an eviction; indices from one
  pair and hash joins from two put both thresholds (32 and 64 pairs in the code) inside two
  writes (two, three and four in the run `ownership_reuse`). Two branches nest or follow each other, and a
  snapshot gets the address of a freed one with and without an index under it.
- *Libraries.* A registry of three for four handles fills; hash functions put runs
  around the end of the table and make two runs join; the ring of two doubles
  while wrapped; six points give a rewiring, a blocked shortcut and a stitched pair of
  trees (the pursuit of RRT-Connect ends before its limit there, which the theorem covers); nine cells give walls around which the path turns and two changes before
  a replan; three edges on four nodes give parallel edges, loops, cycles and
  negative cycles; seven searches of a lazy query are one more than four nodes have pairs, so
  the model never meets the cap on them, which is 50 in the code (`prm_rt.c:729`); two qubits give entangled states and every code on them; three
  nested calls and six in all drive a history past its four entries, with exit, enter and action
  callbacks on the way.
- *Optimizer.* Integers of three bits have all the edges (least integer,
  overflow of division, both signs), and operations are uniform in the width.
  Five memory instructions are what the longest interaction of the passes needs:
  store a constant, overwrite it with an unknown value, load it back. Three
  operations and a terminator build a shared expression with a user.

`CHECK_DEADLOCK FALSE` stands in every config: each of these programs may really
stop, because the bound is reached, because every client is done, because the
process exited, or because nobody calls again. That nobody is left *inside* a
call is what the liveness properties check.

## Fairness

Fairness is always on single operations of the code, never on a client's wish to
call, except where a property is about somebody who keeps calling.

- *Queues.* A consumer that polls: weak fairness on the steps of a pop in
  progress and strong fairness on starting one (`PopLoadHead`), since a consumer
  that also asks for the length is not continuously between calls. A producer
  that holds a ticket of the MPSC ring is scheduled until it has published it
  (`Write`, `Publish`): the code has no other way for a consumer to pass it. No
  fairness on starting a push.
- *Channel, pool, async.* A thread inside a call, or woken, eventually gets the
  lock; condition variables themselves promise no fairness in whom they wake.
  Receivers keep receiving (a statement of the property). Task functions return.
  Nobody is obliged to send, submit, spawn or free; once a free began, it goes on.
- *The suite `runtime`.* The fairness of each part, with the same conditions; where
  it is about starting a call (receivers, parties) it applies to the part under test.
  The compiler and the libraries have no liveness properties: their calls are finite
  loops, whose termination the operators take from the code's bounds.
- *Barrier.* The parties keep coming: a barrier short of a party may wait for
  ever, by design.

## Memory and platforms

Steps interleave, as under sequential consistency. For the queues the code's
atomics justify it: the C runtime implements `AtomicI64` loads and stores with
acquire and release or stronger, each plain slot access lies between an acquire
and a release of the counters that hand the slot over, and `NoSlotRace` checks that no slot is ever
touched by two threads without one in between. Under a lock, the lock does it.
The pool stores `result` and `done` outside any lock: the model keeps the two
stores in their order, which holds on x86-64, the host the project supports, and
which the C standard does not promise (hazard at `thread_rt.c:158`). The same
place has a second race the model does not follow to its end: a get may see
`done`, destroy the future's lock and return before the worker takes that lock to signal
(hazard at line 248).

The POSIX builds of pool and async tasks are modelled. On Windows futures wait
on event objects and the registry's lock is initialised by an unguarded first
caller. Channel and barrier have the same steps in both builds.

## Proofs

`SpscQueueProofs` proves about `SpscQueue`, for every set of values, every
requested capacity (negative ones included) and every bound on pushes:

| Theorem | Statement |
|---|---|
| `RingInvariant` | the inductive invariant `RingInv` holds in every state |
| `RingIsTyped` | `Spec => []TypeOK` |
| `PopsInPushOrder` | `Spec => []FifoDelivery`: what was popped is the first `head` items pushed |
| `SlotsAreRaceFree` | `Spec => []NoSlotRace` |
| `LengthsInRange` | `Spec => []LengthInRange` |
| `ReleasedSlotsAreEmpty` | `Spec => []NothingStale` |
| `RingImplementsFifo` | `Spec => ImplementsFifo`: every behaviour is one of `BoundedFifo` |

None of the properties is inductive. That a pop returns the right item depends
on the *slot* holding it (`Contents`), which depends on the producer not being at
work there, which depends on how old the producer's view of `head` may be. So
`RingInv` is a conjunction of named parts:

- `TypeOK`, and `OwnCalls`: each thread is in a call of its own;
- `Counters`: the counters count the histories, and
  `head <= tail <= head + Capacity`;
- `Locals`: what a call remembers is still usable: its own counter is exact
  (nobody else moves it), and a test it made of the other counter can only have
  become more true (`Committed => tail < head + Capacity`, `Taking => head < tail`);
- `Lengths`: a length query that has loaded `head` has a value not above the
  present one, and one made by an end is exact in that end's counter;
- `Contents`: every published item not yet taken is in the slot of its counter,
  the item in flight on either side is where its call says;
- `Delivered`: the i-th item popped is the i-th item pushed;
- `NothingStale`: slots outside the window are empty.

The step uses one fact about arithmetic again and again, proved once at the
head of the module: two different counters less than a lap apart have different slots
(`SlotsDistinct`). `WindowAppend` and `WindowTail` say how the window
`SubSeq(pushed, head + 1, tail)` changes at the two stores, which is the
refinement. Assumptions: those named in the module, that the requested capacity is an
integer, the bound a natural number and `NoItem` not a value.

`MpscQueueProofs` proves about `MpscQueue`, for every set of producers, values and
bound and every capacity above 1, that is `Capacity > 1 => (Spec => ...)`:

| Theorem | Statement |
|---|---|
| `TicketInvariant` | the inductive invariant `TicketInv` holds in every state |
| `PopsInTicketOrder` | `[]FifoDelivery` |
| `TicketsAreRaceFree` | `[]NoSlotRace` |
| `NothingIsOverwritten` | `[]NoOverwrite` |
| `TicketLengthsInRange` | `[]LengthInRange` |
| `NoneIsHonest` | `NoneMeansNothingPublished`, an action property |
| `FalseIsHonest` | `FalseMeansFull`, an action property |
| `TicketRingImplementsFifo` | `ImplementsFifo`: every behaviour is one of `BoundedFifo` |

The restriction is not one of the proof: the run `mpsc_one` violates `NoOverwrite`
with capacity 1. Here nobody owns `tail`, so `TicketInv` speaks of tickets. `Low` is
the oldest ticket whose slot is not released (`head`, or one less while the
consumer is between its two last stores); `InFlight` are the producers that
reserved a ticket and did not publish it.

- `TypeOK`, `OwnCalls`, `Delivered`, `Lengths`: as for the other ring;
- `Counters`: `head <= tail <= Low + Capacity`, and they count the histories;
- `Turns`: the sequence number of the slot of ticket k is k or k + 1 below
  `tail`, k from there to the end of the lap, and an unpublished ticket has a
  producer in flight;
- `Tickets`: producers in flight hold different tickets, which the consumer has not
  reached, and carry the items accepted for them;
- `Candidates`: a producer at its compare-exchange whose ticket is still `tail` has
  room for it. This is where two slots are needed: the number it read says "free
  for this ticket", and with one slot that is also "published for the last one";
- `PopLocals`: a pop works on ticket `head`, published once it passed its test;
- `Contents`: a slot holds its item from the write to the clear and nothing else.

Each access has a lemma that it preserves `TicketInv`; accesses that touch no shared
memory share one (`QuietProducer`, `QuietConsumer`). The arithmetic is the same,
with three more facts: a counter of the first lap is its own slot (`SlotFirstLap`),
one a lap later has the same slot (`SlotNextLap`), and every counter shares its
slot with one of any window of a lap (`WindowCovers`).

`ChannelProofs` proves about `Channel`, for all finite sets of senders and of receivers,
which may have threads in common, every set of closers and of values and every
requested capacity (`ChannelAssumption`):

| Theorem | Statement |
|---|---|
| `ChannelInvariant` | the inductive invariant `ChannelInv` holds in every state |
| `NoWakeupIsLost` | `Spec => []NoLostWakeup` |
| `ChannelImplementsFifo` | `Spec => ImplementsFifo`: every behaviour is one of `BoundedFifo` |

`NoLostWakeup` compares numbers: while a receiver sleeps, the receives about to
take the lock are at least as many as the values; likewise senders and free slots. In
that form it is nearly inductive: a signal moves one thread from the sleepers to
the awake, a thread that goes to sleep saw an empty (or full) ring, and one that
takes a value leaves with it. What it lacks are `OwnCalls` (who is in which call)
and the arithmetic of the ring (`RingInv`: `tail` is `count` places after `head`,
and the places in between hold values), which is the refinement: the content of the
abstract queue is what those places hold, oldest first.

`ThreadPoolProofs` proves about `ThreadPool`, for every finite set of workers, all
sets of futures and clients:

| Theorem | Statement |
|---|---|
| `PoolInvariant` | the inductive invariant `PoolInv` holds in every state |
| `TasksRunOnce` | `Spec => []TasksAreAccountedFor` |
| `GetsReturnResults` | `Spec => []GetReturnsResult` |
| `WorkersDoNotOversleep` | `Spec => []NoTaskOversleeps` |
| `ConsumedOnceByOneGetter` | `OneGetterPerFuture => (Spec => []ConsumedOnce)` |
| `GettersDoNotOversleep` | `OneGetterPerFuture => (Spec => []SleepersHaveRingers)`: a sleeping getter has its task queued, or with a worker that signals next |

`PoolInv` says where a submitted task is: in the list, once (`QueueInv`), with one worker
(`HoldInv`), or done (`ResultInv`, which also orders the two stores: a future that is
`done` has its result). `ExitInv` says a worker leaves only an empty list of a pool that
takes no more tasks, so a free drains. `NoTaskOversleeps` counts as `NoLostWakeup`
does and is inductive next to the types. `ConsumedOnce` is what the run
`pool_two_gets` violates; the theorem says that two getters of one future are
all that can break it. Its invariant follows a future's primitives: live until its only getter
destroys them, and from there to the store of `consumed` that getter is between
the two (`UseInv`). It is about gets only: a worker's last lock and signal may
come after the destruction (a hazard no property covers). `SleepersHaveRingers` is inductive next
to it: who goes to sleep saw its future not done, so the task is still in the list or with a
worker, and that worker's one signal can go to nobody else.

`RuntimeProofs` proves about the parts of `Runtime`. About the barrier, for every
finite set of threads, every number of parties that they can fill and every
bound on calls:

| Theorem | Statement |
|---|---|
| `BarrierIsTyped` | `Spec => []TypeOK`: in particular `waiting` stays below the parties |
| `BarrierCountsWaiters` | `Spec => []WaitersCounted` |
| `NobodyPassesEarly` | `Spec => []Rendezvous` |

`BarrierInv` adds to the first two properties `Entries`: nobody inside entered in a
future generation, and a thread is inside exactly while it has begun one wait
more than it completed. The rendezvous needs a second invariant, `InStep`, that
holds when threads and parties are as many: a thread outside has completed one
wait for each past generation, one inside began its last wait in the present
generation or the one before. The heart of it is `LastArrivalMeansAll`: when
the last party arrives, the calls of the present generation number Parties - 1,
so with it they are all the threads there are.

About the channel, `WakeupsArriveInSuite` carries `NoWakeupIsLost` over to the
suite: each step of the suite is one of the channel or leaves it alone. About async
tasks, for all clients, every finite set of addresses, every size of the registry and
every number of spawns:

| Theorem | Statement |
|---|---|
| `AsyncInvariant` | the inductive invariant `AsyncInv` holds in every state |
| `AwaitsReturnTheirResult` | `[]AwaitReturnsOwnResult` |
| `BlocksHaveOwners` | `[]BlocksAreOwned`: no store into freed memory, no leak |
| `SecondAwaitsAreRefused` | a registry lets one await of a handle through, and refuses none that is awaited once |

each with the premise `SuiteSpec /\ []As!AgainUnshared`. `AgainUnshared` says of the
handles awaited twice that their address is not another task's by then. It holds
in every behaviour where no handle is awaited twice (`Again = {}`), and the run
`async_twice` shows what happens without it (finding 3). `AsyncInv` follows a block
from `malloc` to `free`: at any time a spawn in progress, the registry, or an await
that took it out of there has it, and only one of them. `SpawnInv`, `JoinInv`,
`RemoveInv` say what each of them knows, `OneOwner` that no two calls have the
same, `TaskInv` and `BlockInv` tie a handle to its block: addresses are reused, so
that the task of a block is the one that spawned it, and not the one that once had its
address, is what has to be shown.

`CompilerProofs` proves about `BuildCache`, for all builders, sources, outputs and numbers
of builds and kills, and about `OwnershipMaps`, for all writes, numbers of
indices, thresholds, branches and depths, and any choice of addresses:

| Theorem | Statement |
|---|---|
| `BuildInvariant` | the inductive invariant `BuildInv` holds in every state |
| `BuildsLeaveTheirOutput` | `Spec => []BuildsAreSound`: a build that is not misled and ends left the output of its own source, none of them fails, and entries not in doubt are whole and filed under their source |
| `IndicesAreAuthoritative` | `Own!Spec => []RightlyFiledAreAuthoritative`: a lookup by index in a map that did not get another's index is a scan |

Neither has an assumption on how builds overlap, where they are killed, or what `malloc` does. The
first two are about builds that are not in `misled`, and the histories are part of what they say:
the four ways to be misled are the only ones, and all four are real ([findings](#findings)).
`BuildInv` says what each running build that is not misled has behind it
(`Progress`: its `.ll` is that of its source from the stamp on, its executable
from the link on), that a stamp not in doubt tells of the file beside it (`StampTells`), and that
an entry not in doubt is whole and filed under its source (`EntrySound`). The step of another build
spoils none of it: it has another output, or both are misled. What builds of different outputs share
are the entries of one source, which they may open and fill in any order: so `WriterSound`
says of a build with an entry open that the entry is right already, or that it is in part and
the last to have opened it (who is not in `cut`) has yet to fill it.

The third leaves out the maps in `misfiled`, for which it is false (finding 6), and no others: the map of
the function is never among them. That lookups are right now says nothing of the next step, since an
index holds a prefix of its map and catches up only when asked. So `OwnInv` says of
the index of every map in use and not misfiled (`Live`) that it is `Sound`: it has exactly the keys of the
first `built` pairs, each with its last place among them. `SoundStays` is why a map may
grow or change values under its index, `CaughtUpIsSound` why catching up is right,
`SoundAnswers` why a caught-up index answers as a scan does; then each operation keeps
all indices sound (`PutKeeps`, `AfterGetKeeps`, `RestoreKeeps`, `FreedKeeps`, `JoinKeyKeeps`,
`JoinFreedByKeeps`), for
which a map has at most one index and an index that is used or evicted leaves the
others alone (`UsedSlots`, `CreatedKeeps`). `SnapshotsAreOwn` says that the snapshots of open
branches are different maps, so that freeing one frees nobody else's.

`OptimizerProofs` proves about `Optimizer`, for every width, every program, all
literals, slots and inputs, and blocks of any length:

| Theorem | Statement |
|---|---|
| `OptInvHolds` | the inductive invariant `OptInv` holds in every state |
| `OptimizedUsesDefined` | `[]UsesDefined`: no pass leaves a use without its definition |
| `OptimizedMeansSame` | `[]MeaningPreserved`: the same calls, the same end, for all inputs |
| `OptimizedLeavesSame` | `[]SuccessorsSeeSame`: after a branch, the same registers and slots |
| `TrapsStay` | `OnlyUnusedTrapsVanish`, an action property |
| `FoldsAsEmitted` | `[]FoldMatchesEmit`: folding computes what the emitted operation does |

All but the last have the premise `NoUnsigned`: the program has no unsigned shift
or comparison, whose operands the dead code pass does not see (finding 4; the run
`optimizer_unsigned` shows what happens with them). The last has no premise: that a
signed comparison of operands with flipped sign bits is the unsigned one
is `FlipIsUnsigned`, for every width.

`OptInv` says of the lowered block that it is `Formed` (operands are registers, a
register is defined once and before its uses, only the last instruction ends the
block), and of the block now that it `Keeps` the lowered one's form and registers and is
`Faithful` to it: on all inputs the runs of the two agree. Both relations are
transitive, so what is to be shown is that each pass keeps the block it is given. The
proofs of the passes are simulations: two runs side by side, and what relates
them after i instructions.

- Folding and propagation (`FoldKeeps`, `PropKeeps`): every entry of `known` is the
  value its register has in the run, every entry of `stored` what its slot holds.
- Common subexpressions (`CseKeeps`): a register is rewritten to one that has the
  same value in the run (`Alike`, `SameExpression`), since both were defined by the same
  operation on registers that nobody defines again.
- Dead stores (`DeadStoreKeeps`): the two memories differ only in slots of which the
  run is about to meet another store (`Pending`), before any load, call or end.
- Dead code (`DceKeeps`): the runs differ only in registers nobody reads, until the
  removed instruction is a division that traps (`LostDivision`).

That these are inductions over the block is no obstacle: a set of numbers with a
member has a least one (`LeastOfSet`), and a set that has 0 and with each number the next
has them all (`UpTo`). These two lemmas speak of sets, where the library's
induction theorem speaks of an operator. The same lemma shows that the recursive
functions exist and satisfy their equations.

`LibraryProofs` proves about `AtomicRegistry`, for every set of handles, every size and
every set of hash functions, about `StateMachine`, for all states, events,
tables, callbacks, lengths of history and depths of nesting, and about `RRT`, for all
sets of points (finite or not), integer metrics, obstacles wider than a step, radii and limits:

| Theorem | Statement |
|---|---|
| `RegistryInvariant` | the inductive invariant `RegistryInv` holds in every state |
| `LookupsAreRight` | `Spec => []RegisteredAreFound` |
| `PanicMeansFull` | `Spec => []PanicsOnlyWhenFull` |
| `MachinesFollowTheirTable` | `Machine!Spec => []MachineFollowsTable` |
| `PlannersInvariant` | the inductive invariant `PlanInv` of the planners holds in every state |
| `PlannersGivePaths` | `Trees!Spec => []TreesGivePaths` |

That a handle is found is not inductive: it depends on no entry before its own being
empty, now and after every other call. `RegistryInv` says for each made handle that
some probe of its sequence holds it and every earlier one holds another handle,
and that no handle has two entries. Entries are never emptied (a freed cell's entry
stays), which is why the invariant survives `Free` and why the registry can fill up.
`ProbesReachAll` is the arithmetic: Cap probes reach every entry.

The machine's theorem has no assumption on who fires: callbacks of all three kinds do. What it
adds to the property is `OuterCallsPassed`: every call but the innermost has moved and runs
its enter callback, or is interrupted. So while a call that is not interrupted has yet to
move, it is the innermost, nothing else is about to move, and it leaves the current state.

The planners' theorems assume `Careful`: RRT* is not called on a tree with nodes
whose costs another planner never wrote, and no planner on a tree that RRT-Connect
appended its goal tree to (both are under [findings](#findings)). `PlanInv` says that the
tree is a forest (`PlanForest`): parents are nodes a free segment away (`Hops`), a cost is
no less than the parent's and the segment (`Rises`), and parents form no ring
(`NoRing`: no set of nodes has the parents of all its members). The last is what lets the
loops that walk to the root end (`WalksEnd`, by the pigeonhole principle: a longer walk
would pass a node twice), and what RRT* could break, since it gives old
nodes a new parent. `RewiredIs` is why it does not, although costs of
descendants are left too high: a ring would go through the new node, and so would
the nodes of it that cost no more than the new one; these contain its parent and,
costs falling toward the root, their own parents, and none of them was rewired, since
only nodes that cost more are. So they had a ring before. `WalksCost` adds the hops of a walk
up to its cost, `CutsShorten` says that a shortcut makes a path no longer, by the
triangle inequality, and `StitchedDelivers` puts the two branches of RRT-Connect
together. `Planning` and `Delivered` say what a running call and the last result know.

Model-checked only:

- every liveness property: fairness and ENABLED are beyond the proof system;
- `HashMap`, `DStar` and `Graph`, which are written with recursive operators, as their
  loops are, and which the prover's backends cannot read;
- `PRM`, `Clifford` and `Collections`, whose properties speak of paths,
  shortest plans and products of gates of any length. Inductions like those of the
  optimizer and the planners are possible there, but not done.

## Findings

1. **mpsc_one** (`mpsc_queue.nr:88`). With capacity 1 the sequence number that means
   "published" for one ticket is the one that means "free" for the next, so a
   second push is accepted before the first item is read, and overwrites it. The header promises
   that the sequence "prevents producers from overwriting a slot until the single
   consumer releases it". Any capacity below 1 is normalised to this one.
2. **pool_two_gets** (`thread_rt.c:224`). `consumed` is tested outside the lock and
   set last: two gets of one future that overlap both pass the test, and one waits
   on or destroys primitives the other destroyed, against "second consume returns 0
   (sentinel) without re-waiting or re-freeing the primitives".
3. **async_twice** (`nucleor_llvm_rt.c:4350`). The registry knows a task by its
   address. When a later spawn got the address of a block an await freed, a second
   await of the old handle goes through, and joins and frees the other task, against
   "a second await sees an unregistered handle and panics".
4. **optimizer_unsigned** (`optim.nr:228`). The used set has no case for `lshr` and the
   unsigned comparisons, so the dead code pass removes the load or constant they
   read from a block that returns, and the emitted module reads an undefined register.

5. **builds_no_cache** (`cache.nr:491`). A build with `--no-cache` writes
   `target/<out>.ll` and leaves the `.cachekey` of an earlier build beside it. The next
   cached build of the earlier source finds its own stamp, keeps the other
   build's file and, unless its executable is cached, links that file, against "cache miss → fresh build with correct semantics".
6. **ownership_reuse** (`nucleor_llvm_rt.c:2608`). `vec_free` leaves the warm index of
   the freed vector filed under its address. A snapshot that gets the address and is
   not shorter than what the index covers inherits it; a key of the covered part that the
   index lacks is answered "absent" without a scan, and the join of two arms can
   lose that one moved a value. It takes maps of 64 entries (32 pairs), an
   address that `malloc` gives out again while the index is one of the four most
   recent, and different keys; the comments promise that "stale indices cannot survive a
   truncation" and that "the lookup below is authoritative".

In a passing run, whose property says where they end:

- *Build cache*: a build can leave an output that is not its source's in four ways, all of
  them in the run and in the theorem, and no others but what follows from them. A kill amid a write, or between the
  `.ll` and its stamp (`cache.nr:487`), leaves a file or stamp in doubt, which a later build takes
  for whole: a truncated entry is hit until `nuc clean` removes it (`cli.nr:6503-6524`). Two
  builds of one output at once can leave the stamp of one on the file of the other
  (`cache.nr:500`). A build may copy an entry while another is storing it. And a build
  without the cache leaves a stamp on the next file (finding 5). The comment at
  `cache.nr:758`, about the one file whose name was made unique per output, calls
  concurrency safety by construction a design promise; for the rest of the cache it is
  kept by builds of different outputs that trust no file in doubt.
- *State machine*: a transition taken by an event that an exit callback or an action fires is
  overwritten by the outer one (`state_machine_rt.c:96`), which then enters its target
  from a state its table entry does not name. `HistoryFollowsTable` lets the interrupted call
  do so, and no other.

Outside the bounds of a passing run, and told here because a reader may meet them:

- *RRT*: `star_plan` on a tree that `plan` or `plan_region` grew reads costs nobody
  wrote; `plan` after `connect_plan` may return a path that starts at a node of the
  other tree appended to this one. The comment at `rrt_rt.c:395` says the iteration
  count is returned; the code returns 0 or 1.
- *PRM*: an eager build keeps the flags made for the edges it replaces
  (`prm_rt.c:719` allocates them once), and a later lazy query indexes them. The comment
  at `prm_rt.c:115` says a new node is joined to its k nearest; an edge to a neighbour
  of lower index is dropped (`prm_rt.c:185`) and exists only if that neighbour has the new
  node among its own k nearest.
- *Clifford*: a destabilizer that `add_stabilizer` makes need not commute with
  stabilizers added later, so `Symplectic` is about states that start complete, not
  about codes built row by row. The distance gives up on a weight with more than 50 million
  candidates (`clifford_rt.c:766`), which codes of fewer than 14 qubits do not have.
- *D\**: costs from 0 to below 1 are accepted (`dstar_rt.c:286-291, 325-331`), and there the
  heuristic of line 119, which counts 1 for a straight step, overestimates: a replan may
  stop before the shortest path is found. `DStarAssumption` takes costs of at least 1.
- *Graph*: the stack of `connected_components` has n entries and a node is pushed once
  per edge, so dense graphs write past it; `negative_cycle_path` can return a walk that
  is no cycle (three nodes, source 2, edges 2→1 (1), 1→0 (1), 0→1 (-3) give [2, 2]).
- *Ownership maps*: the clearing in `own_restore` and the validation in `sym_get` are
  each enough without the other.

Met on the way and modelled as the code has it: folding the least integer divided
by -1 makes the compiler itself exit (`FoldPanics`); a channel of capacity below 1
has 16 slots, a queue of capacity below 1 has one; `mpsc_push` answers
false while the consumer is between its last two stores although head has moved
(`FalseMeansFull` allows for that one slot); a length seen by a third thread may
exceed the capacity, one seen by either end may not.

## What is not modelled

- Lexer, parser, lowering, type and effect checkers, diagnostics, tools: sequential
  text or tree processing over unbounded inputs, covered by the fixtures; no state
  outlives a file. Of the ownership checker, the rules that say which expression moves
  or borrows what: they need a semantics of the language to be checked against.
- The optimizer's law rewrites of pure function calls, floating point, aggregates,
  and the text the emitter prints.
- Tasks of the pool that call into their own pool (a hazard: as many waiting tasks as
  workers wait for ever), freeing a barrier that is in use, the Windows variants above.
- Of the libraries: PageRank and densities of graphs, the bounded distance heuristic
  and feature vectors of tableaux, moving the start of D*, the LRU cache, deadline
  queue and bit set, replay logs, checkpoints, energy budgets.
- Numerics, machine learning, physics and robotics rods, GPU and Rust bridges,
  generated code and seeds: floating point, process launching or foreign code.

How much of the code that is: the repository counts some 71 thousand lines of
implementation, and most of them are what the last and the first item name.
The floating-point rods alone are more than half; the compiler's front end is most of
the rest. What is mapped is close to all of the code that keeps shared or
long-lived state; a share of a third of all lines is not reachable by faithful
models a checker can run.

## Plan

The order is that of importance, most shared state first.

| Step | Module | State |
|---|---|---|
| 1 | `SpscQueue`, `BoundedFifo`, `SpscQueueProofs` | done, proved |
| 2 | `MpscQueue`, `Channel`, `ThreadPool`, `Barrier`, `AsyncTasks` | done, checked |
| 3 | `Optimizer`, `OptimizerProofs` | done, proved |
| 4 | `MpscQueueProofs` for capacities above 1; the barrier | done, proved |
| 5 | `BuildCache`, `OwnershipMaps` | done, checked |
| 6 | `AtomicRegistry` | done, proved |
| 7 | `StateMachine`, `HashMap`, `Collections` | done, checked |
| 8 | `RRT`, `PRM`, `DStar`, `Graph`, `Clifford` | done, checked |
| 9 | `ThreadPoolProofs`, `ChannelProofs`, `RuntimeProofs`, `CompilerProofs`, `LibraryProofs`: the pool, the channel and its refinement, async tasks, builds, ownership maps, state machines | done, proved |
| 10 | `RRT`: its trees are forests, its paths can be driven | done, proved |
| 11 | A pool whose tasks submit and wait; LRU cache and deadline queue | to model |
