----------------------------- MODULE ThreadPool -----------------------------
(***************************************************************************)
(* The thread pool and futures of stdlib/runtime/thread_rt.c.  Workers     *)
(* take tasks from one list under the pool lock; a task computes, stores   *)
(* result and done in its future without the future's lock, and only then  *)
(* locks it to signal.  nuc_future_get waits under that lock, destroys the *)
(* lock and the condition variable and marks the future consumed.          *)
(*                                                                         *)
(* A task and its future carry the same name, and what the function of     *)
(* task f returns is written f.  A stretch of a call under one lock is one *)
(* step; what happens outside the locks is split by access.                *)
(***************************************************************************)
EXTENDS Integers, Sequences, FiniteSets

CONSTANTS Workers,         \* the n_threads threads of the pool
          Getters,         \* client threads that call nuc_future_get
          Futures,         \* the submissions the clients may make
          MayGet,          \* pairs <<g, f>>: client g asks for future f
          Zero             \* the 0 of a fresh future and of a repeated get

ASSUME PoolAssumption == IsFiniteSet(Workers) /\ Workers # {}
ASSUME MayGetAssumption == MayGet \subseteq Getters \X Futures
ASSUME ZeroAssumption == Zero \notin Futures

VARIABLES
    tasks,      \* pool->head .. pool->tail
    shutdown,   \* pool->shutdown
    freed,      \* nuc_threadpool_free joined its workers and freed the pool
    wpc,        \* worker -> where it is in pool_worker
    task,       \* worker -> the task it took
    prims,      \* future -> "none", "live" or "destroyed": its lock and cond
    result, done, consumed,   \* the fields of a Future
    gpc,        \* getter -> where it is in nuc_future_get
    asked,      \* getter -> the future it asks for
    answers     \* history: future -> results that gets returned, in order

pool == <<tasks, shutdown, freed>>
worker == <<wpc, task>>
future == <<prims, result, done, consumed>>
getter == <<gpc, asked>>
vars == <<pool, worker, future, getter, answers>>

Init ==
    /\ tasks = <<>> /\ shutdown = FALSE /\ freed = FALSE
    /\ wpc = [w \in Workers |-> "loop"]
    /\ task = [w \in Workers |-> Zero]
    /\ prims = [f \in Futures |-> "none"]
    /\ result = [f \in Futures |-> Zero]
    /\ done = [f \in Futures |-> FALSE]
    /\ consumed = [f \in Futures |-> FALSE]
    /\ gpc = [g \in Getters |-> "idle"]
    /\ asked = [g \in Getters |-> Zero]
    /\ answers = [f \in Futures |-> <<>>]

WorkerStep(w, from, to) == wpc[w] = from /\ wpc' = [wpc EXCEPT ![w] = to]
GetterStep(g, from, to) == gpc[g] = from /\ gpc' = [gpc EXCEPT ![g] = to]

Submitted == {f \in Futures : prims[f] # "none"}
SleepingWorkers == {w \in Workers : wpc[w] = "asleep"}
SleepingGetters(f) == {g \in Getters : gpc[g] = "asleep" /\ asked[g] = f}

-----------------------------------------------------------------------------
\* Mutant: the signal of submit is forgotten.
SubmitSilent(f) ==
    /\ ~shutdown /\ f \notin Submitted
    /\ prims' = [prims EXCEPT ![f] = "live"]
    /\ tasks' = Append(tasks, f)
    /\ UNCHANGED <<shutdown, freed, worker, result, done, consumed, getter, answers>>

\* Mutant: the new task replaces the tail instead of following it.
SubmitOverTail(f) ==
    /\ ~shutdown /\ f \notin Submitted
    /\ prims' = [prims EXCEPT ![f] = "live"]
    /\ tasks' = IF tasks = <<>> THEN <<f>> ELSE [tasks EXCEPT ![Len(tasks)] = f]
    /\ IF SleepingWorkers = {}
       THEN UNCHANGED wpc
       ELSE \E w \in SleepingWorkers : wpc' = [wpc EXCEPT ![w] = "loop"]
    /\ UNCHANGED <<shutdown, freed, task, result, done, consumed, getter, answers>>

\* nuc_threadpool_submit, by any client while the pool is open; the signal
\* wakes one sleeping worker, if there is one.
Submit(f) ==
    /\ ~shutdown /\ f \notin Submitted
    /\ prims' = [prims EXCEPT ![f] = "live"]
    /\ tasks' = Append(tasks, f)
    /\ IF SleepingWorkers = {}
       THEN UNCHANGED wpc
       ELSE \E w \in SleepingWorkers : wpc' = [wpc EXCEPT ![w] = "loop"]
    /\ UNCHANGED <<shutdown, freed, task, result, done, consumed, getter, answers>>

\* Mutant: the workers are told by one signal instead of a broadcast.
ShutdownSignals ==
    /\ ~shutdown
    /\ shutdown' = TRUE
    /\ IF SleepingWorkers = {}
       THEN UNCHANGED wpc
       ELSE \E w \in SleepingWorkers : wpc' = [wpc EXCEPT ![w] = "loop"]
    /\ UNCHANGED <<tasks, freed, task, future, getter, answers>>

\* nuc_threadpool_free: announce the shutdown to all workers ...
Shutdown ==
    /\ ~shutdown
    /\ shutdown' = TRUE
    /\ wpc' = [w \in Workers |-> IF wpc[w] = "asleep" THEN "loop" ELSE wpc[w]]
    /\ UNCHANGED <<tasks, freed, task, future, getter, answers>>

\* ... join every one of them, then destroy and free the pool.
FreePool ==
    /\ shutdown /\ ~freed
    /\ \A w \in Workers : wpc[w] = "exited"
    /\ freed' = TRUE
    /\ UNCHANGED <<tasks, shutdown, worker, future, getter, answers>>

-----------------------------------------------------------------------------
\* pool_worker

Sleep(w) ==
    /\ tasks = <<>> /\ ~shutdown
    /\ WorkerStep(w, "loop", "asleep")
    /\ UNCHANGED <<pool, task, future, getter, answers>>

Exit(w) ==
    /\ tasks = <<>> /\ shutdown
    /\ WorkerStep(w, "loop", "exited")
    /\ UNCHANGED <<pool, task, future, getter, answers>>

\* Mutant: the task taken stays at the head of the list.
TakeKeeps(w) ==
    /\ tasks # <<>>
    /\ WorkerStep(w, "loop", "run")
    /\ task' = [task EXCEPT ![w] = Head(tasks)]
    /\ UNCHANGED <<pool, future, getter, answers>>

Take(w) ==
    /\ tasks # <<>>
    /\ WorkerStep(w, "loop", "run")
    /\ task' = [task EXCEPT ![w] = Head(tasks)]
    /\ tasks' = Tail(tasks)
    /\ UNCHANGED <<shutdown, freed, future, getter, answers>>

\* future_wrapper has called the function; the two stores below are plain
\* and unsynchronised, and stay in order on the supported x86-64 hosts.
StoreResult(w) ==
    /\ wpc[w] = "run" /\ result[task[w]] = Zero
    /\ result' = [result EXCEPT ![task[w]] = task[w]]
    /\ UNCHANGED <<pool, worker, prims, done, consumed, getter, answers>>

StoreDone(w) ==
    /\ wpc[w] = "run" /\ ~done[task[w]]
    /\ result[task[w]] # Zero
    /\ done' = [done EXCEPT ![task[w]] = TRUE]
    /\ UNCHANGED <<pool, worker, prims, result, consumed, getter, answers>>

\* Mutant: no getter is signalled.
RingSilent(w) ==
    /\ WorkerStep(w, "run", "loop")
    /\ result[task[w]] # Zero /\ done[task[w]]
    /\ task' = [task EXCEPT ![w] = Zero]
    /\ UNCHANGED <<pool, future, getter, answers>>

\* Lock, signal one sleeping getter, unlock, free the task, take the next.  A
\* getter that saw done early may have destroyed both primitives by now: then
\* this lock and signal, undefined by POSIX, succeed and wake nobody, as in glibc.
Ring(w) ==
    /\ WorkerStep(w, "run", "loop")
    /\ result[task[w]] # Zero /\ done[task[w]]
    /\ IF SleepingGetters(task[w]) = {}
       THEN UNCHANGED gpc
       ELSE \E g \in SleepingGetters(task[w]) : gpc' = [gpc EXCEPT ![g] = "lock"]
    /\ task' = [task EXCEPT ![w] = Zero]
    /\ UNCHANGED <<pool, future, asked, answers>>

-----------------------------------------------------------------------------
\* nuc_future_get

Ask(g, f) ==
    /\ <<g, f>> \in MayGet /\ f \in Submitted /\ ~consumed[f]
    /\ GetterStep(g, "idle", "lock")
    /\ asked' = [asked EXCEPT ![g] = f]
    /\ UNCHANGED <<pool, worker, future, answers>>

\* The future is consumed already: the call returns 0 and touches nothing.
AskAgain(g, f) ==
    /\ <<g, f>> \in MayGet /\ consumed[f] /\ gpc[g] = "idle"
    /\ UNCHANGED vars

Wait(g) ==
    /\ GetterStep(g, "lock", "asleep")
    /\ ~done[asked[g]]
    /\ UNCHANGED <<pool, worker, future, asked, answers>>

\* Mutant: one wakeup is taken for the result (an `if` instead of a `while`).
SeeDoneUnchecked(g) ==
    /\ GetterStep(g, "lock", "destroy")
    /\ UNCHANGED <<pool, worker, future, asked, answers>>

SeeDone(g) ==
    /\ GetterStep(g, "lock", "destroy")
    /\ done[asked[g]]
    /\ UNCHANGED <<pool, worker, future, asked, answers>>

Destroy(g) ==
    /\ GetterStep(g, "destroy", "read")
    /\ prims' = [prims EXCEPT ![asked[g]] = "destroyed"]
    /\ UNCHANGED <<pool, worker, result, done, consumed, asked, answers>>

Consume(g) ==
    /\ GetterStep(g, "read", "idle")
    /\ answers' = [answers EXCEPT ![asked[g]] = Append(@, result[asked[g]])]
    /\ consumed' = [consumed EXCEPT ![asked[g]] = TRUE]
    /\ asked' = [asked EXCEPT ![g] = Zero]
    /\ UNCHANGED <<pool, worker, prims, result, done>>

\* A condition wait may return unsignalled.
SpuriousWakeup ==
    /\ \/ \E w \in Workers : WorkerStep(w, "asleep", "loop") /\ UNCHANGED gpc
       \/ \E g \in Getters : GetterStep(g, "asleep", "lock") /\ UNCHANGED wpc
    /\ UNCHANGED <<pool, task, future, asked, answers>>

-----------------------------------------------------------------------------
Work(w) == Sleep(w) \/ Exit(w) \/ Take(w) \/ StoreResult(w) \/ StoreDone(w) \/ Ring(w)
Get(g) == Wait(g) \/ SeeDone(g) \/ Destroy(g) \/ Consume(g)

Next ==
    \/ \E f \in Futures : Submit(f)
    \/ Shutdown \/ FreePool
    \/ \E w \in Workers : Work(w)
    \/ \E g \in Getters : Get(g) \/ \E f \in Futures : Ask(g, f) \/ AskAgain(g, f)
    \/ SpuriousWakeup

Spec == Init /\ [][Next]_vars

\* Threads that are not asleep run on, and task functions return.
FairSpec ==
    /\ Spec
    /\ \A w \in Workers : WF_vars(Work(w))
    /\ \A g \in Getters : WF_vars(Get(g))
    /\ WF_vars(FreePool)

-----------------------------------------------------------------------------
TypeOK ==
    /\ tasks \in Seq(Futures)
    /\ shutdown \in BOOLEAN /\ freed \in BOOLEAN
    /\ wpc \in [Workers -> {"loop", "asleep", "run", "exited"}]
    /\ task \in [Workers -> Futures \cup {Zero}]
    /\ prims \in [Futures -> {"none", "live", "destroyed"}]
    /\ result \in [Futures -> Futures \cup {Zero}]
    /\ done \in [Futures -> BOOLEAN] /\ consumed \in [Futures -> BOOLEAN]
    /\ gpc \in [Getters -> {"idle", "lock", "asleep", "destroy", "read"}]
    /\ asked \in [Getters -> Futures \cup {Zero}]

Queued(f) == {i \in 1 .. Len(tasks) : tasks[i] = f}
Holders(f) == {w \in Workers : wpc[w] = "run" /\ task[w] = f}

\* Every task is in one place: queued once and untouched, held by one
\* worker, or finished.  So none is run twice, and none is lost.
TaskInOnePlace ==
    \A f \in Submitted :
        \/ Cardinality(Queued(f)) = 1 /\ Holders(f) = {} /\ result[f] = Zero /\ ~done[f]
        \/ Queued(f) = {} /\ Cardinality(Holders(f)) = 1
        \/ Queued(f) = {} /\ Holders(f) = {} /\ result[f] = f /\ done[f]

\* nuc_threadpool_free returns only after every submitted task has run.
FreeDrainsThePool == freed => \A f \in Submitted : done[f] /\ result[f] = f

\* No task is run twice, lost, or left behind by a shutdown.
TasksAreAccountedFor == TaskInOnePlace /\ FreeDrainsThePool

\* "thread_future_get blocks for the result" (thread.nr:5): what a get
\* returns is what the task of that future computed, not the initial 0.
GetReturnsResult == \A f \in Futures : \A i \in 1 .. Len(answers[f]) : answers[f][i] = f

\* The clients divide the futures among them.
OneGetterPerFuture ==
    \A g, h \in Getters, f \in Futures : <<g, f>> \in MayGet /\ <<h, f>> \in MayGet => g = h

\* "second consume returns 0 (sentinel) without re-waiting or re-freeing the
\* primitives" (thread_rt.c:137-139): no get locks, waits on or destroys
\* primitives that are destroyed, and one get only returns the result.
ConsumedOnce ==
    /\ \A g \in Getters : gpc[g] \in {"lock", "asleep", "destroy"} =>
                              prims[asked[g]] = "live"
    /\ \A f \in Futures : Len(answers[f]) <= 1

\* No worker sleeps on work: while tasks are queued and a worker sleeps,
\* every queued task has a worker of its own awake to look for it.
NoTaskOversleeps ==
    SleepingWorkers # {} => Cardinality({w \in Workers : wpc[w] = "loop"}) >= Len(tasks)

\* Every submitted task is run, and every get and the free return.
EveryTaskRuns == \A f \in Futures : f \in Submitted ~> done[f]
GetReturns == \A g \in Getters : gpc[g] # "idle" ~> gpc[g] = "idle"
FreeReturns == shutdown ~> freed
=============================================================================
