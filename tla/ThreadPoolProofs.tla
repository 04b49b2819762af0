--------------------------- MODULE ThreadPoolProofs ---------------------------
(***************************************************************************)
(* Proofs about ThreadPool for every finite set of workers, every set of   *)
(* futures and every set of clients, whichever futures they ask for.       *)
(***************************************************************************)
EXTENDS ThreadPool, FiniteSetTheorems, SequenceTheorems, TLAPS

Running == {w \in Workers : wpc[w] = "run"}
Looking == {w \in Workers : wpc[w] = "loop"}

\* A queued task is submitted and untouched, and it is queued once.
QueueInv ==
    /\ \A i \in 1 .. Len(tasks) :
          /\ prims[tasks[i]] # "none"
          /\ result[tasks[i]] = Zero
          /\ ~done[tasks[i]]
          /\ \A w \in Running : task[w] # tasks[i]
    /\ \A i, j \in 1 .. Len(tasks) : tasks[i] = tasks[j] => i = j

\* Workers run different tasks, all of them submitted.
HoldInv ==
    /\ \A w \in Running : task[w] \in Futures /\ prims[task[w]] # "none"
    /\ \A v, w \in Running : task[v] = task[w] => v = w

\* A result is stored before done is; what was submitted and is neither queued
\* nor held is done.
ResultInv ==
    \A f \in Futures :
        /\ result[f] \in {Zero, f}
        /\ done[f] => result[f] = f
        /\ prims[f] = "none" => result[f] = Zero
        /\ prims[f] # "none" =>
              \/ \E i \in 1 .. Len(tasks) : tasks[i] = f
              \/ \E w \in Running : task[w] = f
              \/ done[f]

\* A worker leaves an empty list of a pool that takes no more tasks.
ExitInv ==
    /\ (\E w \in Workers : wpc[w] = "exited") => shutdown /\ tasks = <<>>
    /\ freed => \A w \in Workers : wpc[w] = "exited"

\* A get works on a future that was submitted; past its wait it has seen done.
GetInv ==
    /\ \A g \in Getters :
          /\ gpc[g] # "idle" => asked[g] \in Futures /\ prims[asked[g]] # "none"
          /\ gpc[g] \in {"destroy", "read"} => done[asked[g]]
    /\ answers \in [Futures -> Seq(Futures \cup {Zero})]
    /\ GetReturnsResult

\* The inductive invariant, without the count of awake workers.
PoolInv == TypeOK /\ QueueInv /\ HoldInv /\ ResultInv /\ ExitInv /\ GetInv

-----------------------------------------------------------------------------
LEMMA InitPool == Init => PoolInv /\ NoTaskOversleeps
<1> SUFFICES ASSUME Init PROVE PoolInv /\ NoTaskOversleeps
  OBVIOUS
<1> USE DEF Init
<1>1. TypeOK
  <2>1. shutdown \in BOOLEAN /\ freed \in BOOLEAN
    BY Zenon
  <2>2. done \in [Futures -> BOOLEAN] /\ consumed \in [Futures -> BOOLEAN]
    OBVIOUS
  <2> QED BY <2>1, <2>2 DEF TypeOK
<1>2. QueueInv /\ HoldInv /\ ResultInv
  BY ZeroAssumption DEF QueueInv, HoldInv, ResultInv, Running
<1>3. ExitInv
  BY PoolAssumption DEF ExitInv
<1>4. GetInv
  BY DEF GetInv, GetReturnsResult
<1>5. NoTaskOversleeps
  BY DEF NoTaskOversleeps, SleepingWorkers
<1> QED BY <1>1, <1>2, <1>3, <1>4, <1>5 DEF PoolInv

LEMMA TypeStep == TypeOK /\ HoldInv /\ GetInv /\ [Next]_vars => TypeOK'
<1> SUFFICES ASSUME TypeOK, HoldInv, GetInv, [Next]_vars PROVE TypeOK'
  OBVIOUS
<1> USE DEF TypeOK, pool, worker, future, getter, WorkerStep, GetterStep
<1>1. ASSUME NEW f \in Futures, Submit(f) PROVE TypeOK'
  BY <1>1 DEF Submit, SleepingWorkers
<1>2. CASE Shutdown \/ FreePool
  BY <1>2 DEF Shutdown, FreePool
<1>3. ASSUME NEW w \in Workers, Work(w) PROVE TypeOK'
  <2>1. CASE Sleep(w) \/ Exit(w)
    BY <2>1 DEF Sleep, Exit
  <2>2. CASE Take(w)
    BY <2>2 DEF Take
  <2>3. CASE StoreResult(w) \/ StoreDone(w)
    BY <2>3 DEF StoreResult, StoreDone, HoldInv, Running
  <2>4. CASE Ring(w)
    BY <2>4 DEF Ring, SleepingGetters
  <2> QED BY <1>3, <2>1, <2>2, <2>3, <2>4 DEF Work
<1>4. ASSUME NEW g \in Getters, Get(g) PROVE TypeOK'
  BY <1>4 DEF Get, Wait, SeeDone, Destroy, Consume
<1>5. ASSUME NEW g \in Getters, NEW f \in Futures, Ask(g, f) \/ AskAgain(g, f) PROVE TypeOK'
  BY <1>5 DEF Ask, AskAgain, vars
<1>6. CASE SpuriousWakeup
  BY <1>6 DEF SpuriousWakeup
<1>7. CASE UNCHANGED vars
  BY <1>7 DEF vars
<1> QED BY <1>1, <1>2, <1>3, <1>4, <1>5, <1>6, <1>7 DEF Next

\* Tasks enter the list at its end and leave it at its head; a worker takes
\* the head, which nobody else holds.
LEMMA PlacesStep ==
    TypeOK /\ QueueInv /\ HoldInv /\ ResultInv /\ GetInv /\ TypeOK' /\ [Next]_vars
        => QueueInv' /\ HoldInv' /\ ResultInv'
<1> SUFFICES ASSUME TypeOK, QueueInv, HoldInv, ResultInv, GetInv, TypeOK', [Next]_vars
             PROVE  QueueInv' /\ HoldInv' /\ ResultInv'
  OBVIOUS
<1> DEFINE Places == QueueInv /\ HoldInv /\ ResultInv
<1> USE DEF pool, worker, future, getter
<1>1. ASSUME NEW f \in Futures, Submit(f) PROVE Places'
  <2>1. /\ tasks' = Append(tasks, f) /\ prims' = [prims EXCEPT ![f] = "live"]
        /\ prims[f] = "none"
        /\ UNCHANGED <<task, result, done>>
    BY <1>1 DEF Submit, Submitted
  <2>2. Running' = Running
    BY <1>1 DEF Submit, SleepingWorkers, Running, TypeOK
  <2>3. /\ Len(tasks') = Len(tasks) + 1 /\ tasks'[Len(tasks) + 1] = f
        /\ \A i \in 1 .. Len(tasks) : tasks'[i] = tasks[i] /\ tasks[i] \in Futures
        /\ Len(tasks) \in Nat
    BY <2>1 DEF TypeOK
  <2>4. \A w \in Running : task[w] # f
    BY <2>1 DEF HoldInv
  <2>5. \A i \in 1 .. Len(tasks) : tasks[i] # f
    BY <2>1 DEF QueueInv
  <2>6. \A e \in Futures : prims'[e] = IF e = f THEN "live" ELSE prims[e]
    BY <2>1 DEF TypeOK
  <2>7. result[f] = Zero /\ ~done[f]
    BY <2>1, ZeroAssumption DEF ResultInv
  <2>8. QueueInv'
    <3> SUFFICES ASSUME NEW i \in 1 .. Len(tasks) + 1
                 PROVE  /\ prims'[tasks'[i]] # "none"
                        /\ result[tasks'[i]] = Zero
                        /\ ~done[tasks'[i]]
                        /\ \A w \in Running : task[w] # tasks'[i]
                        /\ \A j \in 1 .. Len(tasks) + 1 : tasks'[i] = tasks'[j] => i = j
      BY <2>1, <2>2, <2>3 DEF QueueInv
    <3>1. CASE i = Len(tasks) + 1
      BY <3>1, <2>3, <2>4, <2>5, <2>6, <2>7
    <3>2. CASE i \in 1 .. Len(tasks)
      BY <3>2, <2>3, <2>4, <2>5, <2>6, <2>7 DEF QueueInv
    <3> QED BY <3>1, <3>2, <2>3
  <2>9. HoldInv'
    BY <2>1, <2>2, <2>6 DEF HoldInv
  <2>10. ResultInv'
    BY <2>1, <2>2, <2>3, <2>6, <2>7 DEF ResultInv
  <2> QED BY <2>8, <2>9, <2>10
<1>2. CASE Shutdown
  <2>1. Running' = Running
    BY <1>2 DEF Shutdown, Running, TypeOK
  <2> QED BY <1>2, <2>1 DEF Shutdown, QueueInv, HoldInv, ResultInv
<1>3. ASSUME NEW w \in Workers, Sleep(w) \/ Exit(w) PROVE Places'
  <2>1. Running' = Running
    BY <1>3 DEF Sleep, Exit, WorkerStep, Running, TypeOK
  <2> QED BY <1>3, <2>1 DEF Sleep, Exit, QueueInv, HoldInv, ResultInv
<1>4. ASSUME NEW w \in Workers, Take(w) PROVE Places'
  <2> DEFINE f == tasks[1]
  <2>1. /\ Len(tasks) \in Nat \ {0} /\ f \in Futures /\ tasks' = Tail(tasks)
        /\ task' = [task EXCEPT ![w] = f]
        /\ UNCHANGED <<prims, result, done>>
    BY <1>4 DEF Take, TypeOK
  <2>2. Running' = Running \cup {w} /\ w \notin Running
    BY <1>4 DEF Take, WorkerStep, Running, TypeOK
  <2>3. /\ Len(tasks') = Len(tasks) - 1
        /\ \A i \in 1 .. Len(tasks') : tasks'[i] = tasks[i + 1]
    BY <2>1 DEF TypeOK
  <2>4. \A v \in Running' : task'[v] = IF v = w THEN f ELSE task[v]
    BY <2>1, <2>2 DEF TypeOK, Running
  <2>5. \A v \in Running : task[v] # f
    BY <2>1 DEF QueueInv
  <2>6. \A i \in 1 .. Len(tasks') : i + 1 \in 1 .. Len(tasks) /\ tasks'[i] # f
    BY <2>1, <2>3 DEF QueueInv
  <2>7. QueueInv'
    <3>1. ASSUME NEW i \in 1 .. Len(tasks')
          PROVE  /\ prims[tasks'[i]] # "none" /\ result[tasks'[i]] = Zero /\ ~done[tasks'[i]]
                 /\ \A v \in Running' : task'[v] # tasks'[i]
      BY <2>2, <2>3, <2>4, <2>6 DEF QueueInv
    <3>2. ASSUME NEW i \in 1 .. Len(tasks'), NEW j \in 1 .. Len(tasks'), tasks'[i] = tasks'[j]
          PROVE  i = j
      BY <3>2, <2>1, <2>3, <2>6 DEF QueueInv
    <3> QED BY <2>1, <3>1, <3>2 DEF QueueInv
  <2>8. HoldInv'
    BY <2>1, <2>2, <2>4, <2>5 DEF HoldInv, QueueInv
  <2>9. ResultInv'
    <3> SUFFICES ASSUME NEW e \in Futures, prims[e] # "none", ~done[e]
                 PROVE  \/ \E i \in 1 .. Len(tasks') : tasks'[i] = e
                        \/ \E v \in Running' : task'[v] = e
      BY <2>1 DEF ResultInv
    <3>1. CASE e = f
      BY <3>1, <2>2, <2>4
    <3>2. ASSUME NEW i \in 1 .. Len(tasks), tasks[i] = e, e # f
          PROVE  i - 1 \in 1 .. Len(tasks') /\ tasks'[i - 1] = e
      BY <3>2, <2>1, <2>3
    <3>3. ASSUME NEW v \in Running, task[v] = e PROVE v \in Running' /\ task'[v] = e
      BY <3>3, <2>2, <2>4
    <3> QED BY <3>1, <3>2, <3>3 DEF ResultInv
  <2> QED BY <2>7, <2>8, <2>9
<1>5. ASSUME NEW w \in Workers, StoreResult(w) \/ StoreDone(w) PROVE Places'
  <2>1. w \in Running /\ Running' = Running /\ UNCHANGED <<tasks, task, prims>>
    BY <1>5 DEF StoreResult, StoreDone, Running
  <2>2. task[w] \in Futures /\ \A i \in 1 .. Len(tasks) : tasks[i] \in Futures /\ tasks[i] # task[w]
    BY <2>1 DEF HoldInv, QueueInv, TypeOK
  <2>3. \A e \in Futures : e # task[w] => result'[e] = result[e] /\ done'[e] = done[e]
    BY <1>5 DEF StoreResult, StoreDone, TypeOK
  <2>4. result'[task[w]] = task[w] /\ (done[task[w]] => done'[task[w]])
    BY <1>5, <2>2 DEF StoreResult, StoreDone, TypeOK, ResultInv
  <2>5. QueueInv'
    BY <2>1, <2>2, <2>3 DEF QueueInv
  <2>6. HoldInv'
    BY <2>1 DEF HoldInv
  <2>7. ResultInv'
    BY <2>1, <2>2, <2>3, <2>4 DEF ResultInv, HoldInv
  <2> QED BY <2>5, <2>6, <2>7
<1>6. ASSUME NEW w \in Workers, Ring(w) PROVE Places'
  <2>1. /\ Running' = Running \ {w} /\ w \in Running
        /\ done[task[w]]
        /\ UNCHANGED <<tasks, prims, result, done>>
    BY <1>6 DEF Ring, WorkerStep, Running, TypeOK
  <2>2. \A v \in Running' : task'[v] = task[v]
    BY <1>6, <2>1 DEF Ring, TypeOK, Running
  <2> QED BY <2>1, <2>2 DEF QueueInv, HoldInv, ResultInv
<1>7. ASSUME NEW g \in Getters,
             Get(g) \/ \E f \in Futures : Ask(g, f) \/ AskAgain(g, f)
      PROVE  Places'
  <2>1. UNCHANGED <<tasks, wpc, task, result, done>>
    BY <1>7 DEF Get, Wait, SeeDone, Destroy, Consume, Ask, AskAgain, vars
  <2>2. \A f \in Futures : prims'[f] = "none" <=> prims[f] = "none"
    <3>1. CASE Destroy(g)
      BY <3>1 DEF Destroy, GetterStep, TypeOK, GetInv
    <3> QED BY <1>7, <3>1 DEF Get, Wait, SeeDone, Consume, Ask, AskAgain, vars
  <2>3. Running' = Running /\ \A i \in 1 .. Len(tasks) : tasks[i] \in Futures
    BY <2>1 DEF Running, TypeOK
  <2> QED BY <2>1, <2>2, <2>3 DEF QueueInv, HoldInv, ResultInv
<1>8. CASE SpuriousWakeup
  <2>1. Running' = Running
    BY <1>8 DEF SpuriousWakeup, WorkerStep, GetterStep, Running, TypeOK
  <2> QED BY <1>8, <2>1 DEF SpuriousWakeup, QueueInv, HoldInv, ResultInv
<1>9. CASE FreePool \/ UNCHANGED vars
  BY <1>9 DEF FreePool, vars, QueueInv, HoldInv, ResultInv, Running
<1> QED BY <1>1, <1>2, <1>3, <1>4, <1>5, <1>6, <1>7, <1>8, <1>9 DEF Next, Work

\* Workers exit from an empty list, and after the shutdown it stays empty.
LEMMA ExitStep == TypeOK /\ ExitInv /\ TypeOK' /\ [Next]_vars => ExitInv'
<1> SUFFICES ASSUME TypeOK, ExitInv, TypeOK', [Next]_vars PROVE ExitInv'
  OBVIOUS
<1> USE DEF ExitInv, TypeOK, pool, worker, future, getter, WorkerStep, GetterStep
<1>1. ASSUME NEW f \in Futures, Submit(f) PROVE ExitInv'
  BY <1>1, PoolAssumption DEF Submit, SleepingWorkers
<1>2. CASE Shutdown \/ FreePool
  BY <1>2 DEF Shutdown, FreePool
<1>3. ASSUME NEW w \in Workers, Work(w) PROVE ExitInv'
  BY <1>3 DEF Work, Sleep, Exit, Take, StoreResult, StoreDone, Ring
<1>4. ASSUME NEW g \in Getters,
             Get(g) \/ \E f \in Futures : Ask(g, f) \/ AskAgain(g, f)
      PROVE  ExitInv'
  BY <1>4 DEF Get, Wait, SeeDone, Destroy, Consume, Ask, AskAgain, vars
<1>5. CASE SpuriousWakeup \/ UNCHANGED vars
  BY <1>5 DEF SpuriousWakeup, vars
<1> QED BY <1>1, <1>2, <1>3, <1>4, <1>5 DEF Next

\* Once done is stored it stays, and so does the result.
LEMMA GetStep ==
    TypeOK /\ HoldInv /\ ResultInv /\ GetInv /\ TypeOK' /\ [Next]_vars => GetInv'
<1> SUFFICES ASSUME TypeOK, HoldInv, ResultInv, GetInv, TypeOK', [Next]_vars
             PROVE  GetInv'
  OBVIOUS
<1> USE DEF pool, worker, future, getter, WorkerStep, GetterStep
<1>1. ASSUME NEW f \in Futures, Submit(f) PROVE GetInv'
  BY <1>1 DEF Submit, GetInv, GetReturnsResult, TypeOK
<1>2. CASE Shutdown \/ FreePool
  BY <1>2 DEF Shutdown, FreePool, GetInv, GetReturnsResult
<1>3. ASSUME NEW w \in Workers, Work(w) PROVE GetInv'
  <2>1. /\ UNCHANGED <<prims, asked, answers>>
        /\ \A g \in Getters : gpc'[g] = gpc[g] \/ (gpc[g] = "asleep" /\ gpc'[g] = "lock")
    BY <1>3 DEF Work, Sleep, Exit, Take, StoreResult, StoreDone, Ring, SleepingGetters, TypeOK
  <2>2. \A f \in Futures : done[f] => done'[f]
    BY <1>3 DEF Work, Sleep, Exit, Take, StoreResult, StoreDone, Ring, TypeOK
  <2> QED BY <2>1, <2>2 DEF GetInv, GetReturnsResult
<1>4. ASSUME NEW g \in Getters, Get(g) PROVE GetInv'
  <2>1. CASE Wait(g) \/ SeeDone(g)
    BY <1>4, <2>1 DEF Wait, SeeDone, GetInv, GetReturnsResult, TypeOK
  <2>2. CASE Destroy(g)
    BY <1>4, <2>2 DEF Destroy, GetInv, GetReturnsResult, TypeOK
  <2>3. CASE Consume(g)
    <3> DEFINE f == asked[g]
    <3>1. f \in Futures /\ result[f] = f
      BY <2>3 DEF Consume, GetInv, ResultInv
    <3>2. answers[f] \in Seq(Futures \cup {Zero}) /\ answers' = [answers EXCEPT ![f] = Append(@, f)]
      BY <2>3, <3>1 DEF Consume, GetInv
    <3>3. /\ Append(answers[f], f) \in Seq(Futures \cup {Zero})
          /\ \A i \in 1 .. Len(Append(answers[f], f)) : Append(answers[f], f)[i] = f
      BY <3>1, <3>2 DEF GetInv, GetReturnsResult
    <3>4. answers' \in [Futures -> Seq(Futures \cup {Zero})] /\ GetReturnsResult'
      BY <3>1, <3>2, <3>3 DEF GetInv, GetReturnsResult
    <3> QED BY <2>3, <3>4 DEF Consume, GetInv, TypeOK
  <2> QED BY <1>4, <2>1, <2>2, <2>3 DEF Get
<1>5. ASSUME NEW g \in Getters, NEW f \in Futures, Ask(g, f) \/ AskAgain(g, f)
      PROVE  GetInv'
  BY <1>5 DEF Ask, AskAgain, vars, Submitted, GetInv, GetReturnsResult, TypeOK
<1>6. CASE SpuriousWakeup \/ UNCHANGED vars
  BY <1>6 DEF SpuriousWakeup, vars, GetInv, GetReturnsResult, TypeOK
<1> QED BY <1>1, <1>2, <1>3, <1>4, <1>5, <1>6 DEF Next

LEMMA PoolStep == PoolInv /\ [Next]_vars => PoolInv'
BY TypeStep, PlacesStep, ExitStep, GetStep DEF PoolInv

\* The workers that look for a task are finitely many.
LEMMA LookingFinite ==
    /\ IsFiniteSet(Looking) /\ Cardinality(Looking) \in Nat
    /\ \A w \in Workers : w \notin Looking =>
          Cardinality(Looking \cup {w}) = Cardinality(Looking) + 1
    /\ \A w \in Looking : Cardinality(Looking \ {w}) = Cardinality(Looking) - 1
<1>1. Looking \in SUBSET Workers
  BY DEF Looking
<1>2. IsFiniteSet(Looking)
  BY <1>1, PoolAssumption, FS_Subset
<1> QED BY <1>2, FS_CardinalityType, FS_AddElement, FS_RemoveElement

\* A submit wakes a sleeper for the task it adds; a worker that leaves the
\* loop takes a task with it, or leaves none.
LEMMA AwakeStep == PoolInv /\ PoolInv' /\ NoTaskOversleeps /\ [Next]_vars => NoTaskOversleeps'
<1> SUFFICES ASSUME PoolInv, PoolInv', NoTaskOversleeps, [Next]_vars, SleepingWorkers' # {}
             PROVE  Cardinality(Looking') >= Len(tasks')
  BY DEF NoTaskOversleeps, Looking
<1>a. /\ SleepingWorkers # {} => Cardinality(Looking) >= Len(tasks)
      /\ Len(tasks) \in Nat /\ Len(tasks') \in Nat
      /\ wpc \in [Workers -> {"loop", "asleep", "run", "exited"}]
  BY DEF NoTaskOversleeps, Looking, PoolInv, TypeOK
<1> USE DEF pool, worker, future, getter, WorkerStep, GetterStep
<1>1. ASSUME NEW f \in Futures, Submit(f) PROVE Cardinality(Looking') >= Len(tasks')
  <2>1. PICK w \in SleepingWorkers : wpc' = [wpc EXCEPT ![w] = "loop"]
    BY <1>1 DEF Submit, SleepingWorkers
  <2>2. Looking' = Looking \cup {w} /\ w \in Workers /\ w \notin Looking
    BY <1>a, <2>1 DEF Looking, SleepingWorkers
  <2>3. Len(tasks') = Len(tasks) + 1
    BY <1>1 DEF Submit, PoolInv, TypeOK
  <2> QED BY <1>a, <2>1, <2>2, <2>3, LookingFinite
<1>2. CASE Shutdown
  BY <1>2, <1>a DEF Shutdown, SleepingWorkers
<1>3. ASSUME NEW w \in Workers, Sleep(w) \/ Exit(w) PROVE Cardinality(Looking') >= Len(tasks')
  <2>1. Looking' = Looking \ {w} /\ w \in Looking /\ Len(tasks') = 0
    BY <1>3, <1>a DEF Sleep, Exit, Looking
  <2>2. Cardinality(Looking) # 0
    BY <2>1, LookingFinite, FS_EmptySet
  <2> QED BY <2>1, <2>2, LookingFinite
<1>4. ASSUME NEW w \in Workers, Take(w) PROVE Cardinality(Looking') >= Len(tasks')
  <2>1. Looking' = Looking \ {w} /\ w \in Looking /\ SleepingWorkers' = SleepingWorkers
    BY <1>4, <1>a DEF Take, Looking, SleepingWorkers
  <2>2. Len(tasks') = Len(tasks) - 1
    BY <1>4 DEF Take, PoolInv, TypeOK
  <2> QED BY <1>a, <2>1, <2>2, LookingFinite
<1>5. ASSUME NEW w \in Workers, StoreResult(w) \/ StoreDone(w)
      PROVE  Cardinality(Looking') >= Len(tasks')
  <2>1. Looking' = Looking /\ SleepingWorkers' = SleepingWorkers /\ tasks' = tasks
    BY <1>5 DEF StoreResult, StoreDone, Looking, SleepingWorkers
  <2> QED BY <1>a, <2>1
<1>6. ASSUME NEW w \in Workers, Ring(w) PROVE Cardinality(Looking') >= Len(tasks')
  <2>1. /\ Looking' = Looking \cup {w} /\ w \notin Looking
        /\ SleepingWorkers' = SleepingWorkers /\ tasks' = tasks
    BY <1>6, <1>a DEF Ring, Looking, SleepingWorkers
  <2> QED BY <1>a, <2>1, LookingFinite
<1>7. ASSUME NEW g \in Getters,
             Get(g) \/ \E f \in Futures : Ask(g, f) \/ AskAgain(g, f)
      PROVE  Cardinality(Looking') >= Len(tasks')
  <2>1. UNCHANGED <<tasks, wpc>>
    BY <1>7 DEF Get, Wait, SeeDone, Destroy, Consume, Ask, AskAgain, vars
  <2> QED BY <1>a, <2>1 DEF Looking, SleepingWorkers
<1>8. CASE SpuriousWakeup
  <2>1. ASSUME NEW w \in Workers, WorkerStep(w, "asleep", "loop"), UNCHANGED tasks
        PROVE  Cardinality(Looking') >= Len(tasks')
    <3>1. Looking' = Looking \cup {w} /\ w \notin Looking /\ w \in SleepingWorkers
      BY <2>1, <1>a DEF Looking, SleepingWorkers
    <3> QED BY <1>a, <2>1, <3>1, LookingFinite
  <2>2. CASE UNCHANGED <<tasks, wpc>>
    BY <1>a, <2>2 DEF Looking, SleepingWorkers
  <2> QED BY <1>8, <2>1, <2>2 DEF SpuriousWakeup
<1>9. CASE FreePool \/ UNCHANGED vars
  BY <1>9, <1>a DEF FreePool, vars, Looking, SleepingWorkers
<1> QED BY <1>1, <1>2, <1>3, <1>4, <1>5, <1>6, <1>7, <1>8, <1>9 DEF Next, Work

-----------------------------------------------------------------------------
\* The inductive invariant holds in every state.
THEOREM PoolInvariant == Spec => []PoolInv
BY InitPool, PoolStep, PTL DEF Spec

\* No task is run twice, lost or left behind by a free, for any number of
\* workers, futures and getters.
THEOREM TasksRunOnce == Spec => []TasksAreAccountedFor
<1>1. PoolInv => TaskInOnePlace
  <2> SUFFICES ASSUME PoolInv, NEW f \in Submitted
               PROVE  \/ /\ Cardinality(Queued(f)) = 1 /\ Holders(f) = {}
                         /\ result[f] = Zero /\ ~done[f]
                      \/ Queued(f) = {} /\ Cardinality(Holders(f)) = 1
                      \/ Queued(f) = {} /\ Holders(f) = {} /\ result[f] = f /\ done[f]
    BY DEF TaskInOnePlace
  <2> USE DEF PoolInv, Submitted
  <2>1. ASSUME NEW i \in 1 .. Len(tasks), tasks[i] = f
        PROVE  Queued(f) = {i} /\ Holders(f) = {} /\ result[f] = Zero /\ ~done[f]
    BY <2>1 DEF QueueInv, Queued, Holders, Running
  <2>2. ASSUME NEW w \in Running, task[w] = f
        PROVE  Queued(f) = {} /\ Holders(f) = {w}
    BY <2>2 DEF QueueInv, HoldInv, Queued, Holders, Running
  <2>3. CASE ~(\E i \in 1 .. Len(tasks) : tasks[i] = f) /\ ~(\E w \in Running : task[w] = f)
    BY <2>3 DEF ResultInv, Queued, Holders, Running
  <2> QED BY <2>1, <2>2, <2>3, FS_Singleton
<1>2. PoolInv => FreeDrainsThePool
  BY PoolAssumption DEF PoolInv, ExitInv, ResultInv, FreeDrainsThePool, Submitted, Running
<1> QED BY <1>1, <1>2, PoolInvariant, PTL DEF TasksAreAccountedFor

\* A get returns what the task of its future computed, whoever else asks.
THEOREM GetsReturnResults == Spec => []GetReturnsResult
<1>1. PoolInv => GetReturnsResult
  BY DEF PoolInv, GetInv
<1> QED BY <1>1, PoolInvariant, PTL

\* While workers sleep, each queued task has a worker of its own awake: no
\* signal of a submit to the workers is lost.
THEOREM WorkersDoNotOversleep == Spec => []NoTaskOversleeps
BY InitPool, PoolStep, AwakeStep, PTL DEF Spec

-----------------------------------------------------------------------------
\* The primitives of a future live until its only getter destroys them, and
\* from there to the store of consumed that getter is between the two.
UseInv ==
    /\ \A g \in Getters :
          /\ gpc[g] # "idle" => <<g, asked[g]>> \in MayGet /\ ~consumed[asked[g]]
          /\ gpc[g] \in {"lock", "asleep", "destroy"} => prims[asked[g]] = "live"
          /\ gpc[g] = "read" => prims[asked[g]] = "destroyed"
    /\ \A f \in Futures :
          /\ consumed[f] => prims[f] = "destroyed"
          /\ prims[f] = "destroyed" /\ ~consumed[f] =>
                \E g \in Getters : gpc[g] = "read" /\ asked[g] = f

\* A future has one answer from the moment it is consumed.
AnswerInv == \A f \in Futures : Len(answers[f]) = (IF consumed[f] THEN 1 ELSE 0)

LEMMA UseStep ==
    ASSUME OneGetterPerFuture, PoolInv, PoolInv', UseInv, [Next]_vars
    PROVE  UseInv'
<1> USE DEF pool, worker, future, getter, WorkerStep, GetterStep
<1>a. /\ prims \in [Futures -> {"none", "live", "destroyed"}]
      /\ consumed \in [Futures -> BOOLEAN]
      /\ gpc \in [Getters -> {"idle", "lock", "asleep", "destroy", "read"}]
      /\ asked \in [Getters -> Futures \cup {Zero}]
  BY DEF PoolInv, TypeOK
<1>b. \A g \in Getters : gpc[g] # "idle" => asked[g] \in Futures /\ prims[asked[g]] # "none"
  BY DEF PoolInv, GetInv
<1>1. ASSUME NEW f \in Futures, Submit(f) PROVE UseInv'
  BY <1>1, <1>a, <1>b DEF Submit, Submitted, UseInv
<1>2. CASE Shutdown \/ FreePool
  BY <1>2 DEF Shutdown, FreePool, UseInv
<1>3. ASSUME NEW w \in Workers, Work(w) PROVE UseInv'
  <2>1. /\ UNCHANGED <<prims, consumed, asked>>
        /\ \A g \in Getters : gpc'[g] = gpc[g] \/ (gpc[g] = "asleep" /\ gpc'[g] = "lock")
    BY <1>3, <1>a DEF Work, Sleep, Exit, Take, StoreResult, StoreDone, Ring, SleepingGetters
  <2> QED BY <2>1 DEF UseInv
<1>4. ASSUME NEW g \in Getters, Wait(g) \/ SeeDone(g) PROVE UseInv'
  BY <1>4, <1>a DEF Wait, SeeDone, UseInv
\* nobody else is at the future whose primitives go
<1>5. ASSUME NEW g \in Getters, Destroy(g) \/ Consume(g) PROVE UseInv'
  <2>1. /\ asked[g] \in Futures
        /\ \A h \in Getters : h # g /\ gpc[h] # "idle" => asked[h] # asked[g]
    BY <1>5, <1>b DEF Destroy, Consume, UseInv, OneGetterPerFuture
  <2>2. CASE Destroy(g)
    BY <2>1, <2>2, <1>a, <1>b DEF Destroy, UseInv
  <2>3. CASE Consume(g)
    <3>1. /\ gpc'[g] = "idle"
          /\ \A h \in Getters : h # g => gpc'[h] = gpc[h] /\ asked'[h] = asked[h]
      BY <2>3, <1>a DEF Consume
    <3>2. /\ consumed'[asked[g]]
          /\ \A e \in Futures : e # asked[g] => (consumed'[e] <=> consumed[e])
      BY <2>1, <2>3, <1>a DEF Consume
    <3>3. prims' = prims /\ gpc[g] = "read" /\ prims[asked[g]] = "destroyed"
      BY <2>3 DEF Consume, UseInv
    <3>4. ASSUME NEW h \in Getters, gpc'[h] # "idle"
          PROVE  /\ <<h, asked'[h]>> \in MayGet /\ ~consumed'[asked'[h]]
                 /\ gpc'[h] \in {"lock", "asleep", "destroy"} => prims'[asked'[h]] = "live"
                 /\ gpc'[h] = "read" => prims'[asked'[h]] = "destroyed"
      BY <2>1, <3>1, <3>2, <3>3, <3>4, <1>b DEF UseInv
    <3>5. ASSUME NEW e \in Futures
          PROVE  /\ consumed'[e] => prims'[e] = "destroyed"
                 /\ prims'[e] = "destroyed" /\ ~consumed'[e] =>
                       \E h \in Getters : gpc'[h] = "read" /\ asked'[h] = e
      BY <2>1, <3>1, <3>2, <3>3 DEF UseInv
    <3> QED BY <3>4, <3>5, Zenon DEF UseInv
  <2> QED BY <1>5, <2>2, <2>3
\* a future that is not consumed has its primitives, for its getter is idle
<1>6. ASSUME NEW g \in Getters, NEW f \in Futures, Ask(g, f) PROVE UseInv'
  <2>1. prims[f] = "live"
    <3>1. ASSUME NEW h \in Getters, gpc[h] = "read", asked[h] = f PROVE FALSE
      BY <1>6, <3>1 DEF Ask, UseInv, OneGetterPerFuture
    <3> QED BY <1>6, <1>a, <3>1 DEF Ask, Submitted, UseInv
  <2> QED BY <1>6, <1>a, <2>1 DEF Ask, UseInv
<1>7. CASE SpuriousWakeup
  BY <1>7, <1>a DEF SpuriousWakeup, UseInv
<1>8. CASE UNCHANGED vars \/ \E g \in Getters, f \in Futures : AskAgain(g, f)
  <2>1. UNCHANGED <<prims, consumed, gpc, asked>>
    BY <1>8 DEF vars, AskAgain
  <2> QED BY <2>1 DEF UseInv
<1> QED BY <1>1, <1>2, <1>3, <1>4, <1>5, <1>6, <1>7, <1>8 DEF Next, Get

LEMMA AnswerStep ==
    ASSUME PoolInv, UseInv, AnswerInv, [Next]_vars
    PROVE  AnswerInv'
<1> USE DEF pool, worker, future, getter
<1>1. ASSUME NEW g \in Getters, Consume(g) PROVE AnswerInv'
  <2> DEFINE f == asked[g]
  <2>1. f \in Futures /\ ~consumed[f] /\ answers[f] \in Seq(Futures \cup {Zero})
    BY <1>1 DEF Consume, GetterStep, PoolInv, GetInv, UseInv
  <2>2. /\ answers' = [answers EXCEPT ![f] = Append(@, result[f])]
        /\ consumed' = [consumed EXCEPT ![f] = TRUE]
        /\ result[f] \in Futures \cup {Zero}
        /\ consumed \in [Futures -> BOOLEAN]
        /\ answers \in [Futures -> Seq(Futures \cup {Zero})]
    BY <1>1, <2>1 DEF Consume, PoolInv, TypeOK, GetInv
  <2>3. Len(answers[f]) = 0
    BY <2>1 DEF AnswerInv
  <2>4. Len(Append(answers[f], result[f])) = 1
    BY <2>1, <2>2, <2>3
  <2> QED BY <2>1, <2>2, <2>4 DEF AnswerInv
<1>2. CASE ~ \E g \in Getters : Consume(g)
  <2>1. UNCHANGED <<answers, consumed>>
    BY <1>2 DEF Next, vars, Submit, Shutdown, FreePool, Work, Sleep, Exit, Take, StoreResult,
                StoreDone, Ring, Get, Wait, SeeDone, Destroy, Ask, AskAgain, SpuriousWakeup
  <2> QED BY <2>1 DEF AnswerInv
<1> QED BY <1>1, <1>2

\* When each future has one getter, no get locks, waits on or destroys primitives
\* that are destroyed, and one get only returns the result.  (Of the worker it
\* says nothing: its Ring may come after the getter's Destroy.)
THEOREM ConsumedOnceByOneGetter == OneGetterPerFuture => (Spec => []ConsumedOnce)
<1> SUFFICES ASSUME OneGetterPerFuture PROVE Spec => []ConsumedOnce
  OBVIOUS
<1> DEFINE Inv == PoolInv /\ UseInv /\ AnswerInv
<1>1. Init => Inv
  BY InitPool DEF Init, UseInv, AnswerInv
<1>2. Inv /\ [Next]_vars => Inv'
  BY PoolStep, UseStep, AnswerStep
<1>3. Inv => ConsumedOnce
  <2> SUFFICES ASSUME Inv, NEW f \in Futures PROVE Len(answers[f]) <= 1
    BY DEF UseInv, ConsumedOnce
  <2> DEFINE n == Len(answers[f])
  <2>1. n = 1 \/ n = 0
    BY DEF AnswerInv
  <2> HIDE DEF n
  <2>2. n <= 1
    BY <2>1
  <2> QED BY <2>2 DEF n
<1> QED BY <1>1, <1>2, <1>3, PTL DEF Spec

-----------------------------------------------------------------------------
\* The task that a sleeping getter waits for is queued, or a worker has it whose
\* signal is still to come.
SleepersHaveRingers ==
    \A g \in Getters : gpc[g] = "asleep" =>
        \/ \E i \in 1 .. Len(tasks) : tasks[i] = asked[g]
        \/ \E w \in Running : task[w] = asked[g]

LEMMA RingerStep ==
    ASSUME OneGetterPerFuture, PoolInv, PoolInv', UseInv, SleepersHaveRingers, [Next]_vars
    PROVE  SleepersHaveRingers'
<1> USE DEF pool, worker, future, getter, WorkerStep, GetterStep
<1>a. /\ gpc \in [Getters -> {"idle", "lock", "asleep", "destroy", "read"}]
      /\ asked \in [Getters -> Futures \cup {Zero}]
      /\ wpc \in [Workers -> {"loop", "asleep", "run", "exited"}]
      /\ task \in [Workers -> Futures \cup {Zero}] /\ tasks \in Seq(Futures)
  BY DEF PoolInv, TypeOK
<1>b. \A g \in Getters : gpc[g] # "idle" => asked[g] \in Futures /\ prims[asked[g]] # "none"
  BY DEF PoolInv, GetInv
<1>1. ASSUME NEW f \in Futures, Submit(f) PROVE SleepersHaveRingers'
  <2>1. UNCHANGED <<gpc, asked, task>> /\ tasks' = Append(tasks, f)
    BY <1>1 DEF Submit
  <2>2. Running' = Running
    BY <1>1, <1>a DEF Submit, SleepingWorkers, Running
  <2>3. \A i \in 1 .. Len(tasks) : i \in 1 .. Len(tasks') /\ tasks'[i] = tasks[i]
    BY <2>1, <1>a
  <2> QED BY <2>1, <2>2, <2>3 DEF SleepersHaveRingers
<1>2. CASE Shutdown
  <2>1. Running' = Running
    BY <1>2, <1>a DEF Shutdown, Running
  <2> QED BY <1>2, <2>1 DEF Shutdown, SleepersHaveRingers
<1>3. ASSUME NEW w \in Workers, Sleep(w) \/ Exit(w) \/ StoreResult(w) \/ StoreDone(w)
      PROVE  SleepersHaveRingers'
  <2>1. UNCHANGED <<gpc, asked, task, tasks>>
    BY <1>3 DEF Sleep, Exit, StoreResult, StoreDone
  <2>2. Running' = Running
    BY <1>3, <1>a DEF Sleep, Exit, StoreResult, StoreDone, Running
  <2> QED BY <2>1, <2>2 DEF SleepersHaveRingers
\* the worker takes the head with it
<1>4. ASSUME NEW w \in Workers, Take(w) PROVE SleepersHaveRingers'
  <2>1. /\ UNCHANGED <<gpc, asked>> /\ tasks # <<>> /\ tasks' = Tail(tasks)
        /\ task' = [task EXCEPT ![w] = tasks[1]]
    BY <1>4 DEF Take
  <2>2. Running' = Running \cup {w} /\ w \notin Running
    BY <1>4, <1>a DEF Take, Running
  <2>3. \A v \in Running : v \in Running' /\ task'[v] = task[v]
    BY <2>1, <2>2, <1>a DEF Running
  <2>4. w \in Running' /\ task'[w] = tasks[1]
    BY <2>1, <2>2, <1>a
  <2>5. \A i \in 1 .. Len(tasks) : i = 1 \/ (i - 1 \in 1 .. Len(tasks') /\ tasks'[i - 1] = tasks[i])
    BY <2>1, <1>a
  <2> QED BY <2>1, <2>3, <2>4, <2>5 DEF SleepersHaveRingers
\* the signal finds the only getter of the future, if it sleeps
<1>5. ASSUME NEW w \in Workers, Ring(w) PROVE SleepersHaveRingers'
  <2>1. /\ UNCHANGED <<tasks, asked>> /\ Running' = Running \ {w}
        /\ \A v \in Running' : task'[v] = task[v]
    BY <1>5, <1>a DEF Ring, Running
  <2>2. ASSUME NEW g \in Getters, gpc'[g] = "asleep" PROVE gpc[g] = "asleep" /\ asked[g] # task[w]
    <3>1. gpc[g] = "asleep"
      BY <1>5, <2>2, <1>a DEF Ring
    <3>2. ASSUME asked[g] = task[w] PROVE FALSE
      <4>1. ASSUME NEW h \in SleepingGetters(task[w]) PROVE h = g
        <5>1. h \in Getters /\ gpc[h] = "asleep" /\ asked[h] = asked[g]
          BY <3>2, <4>1 DEF SleepingGetters
        <5>2. <<h, asked[h]>> \in MayGet /\ <<g, asked[g]>> \in MayGet /\ asked[g] \in Futures
          BY <3>1, <5>1, <1>b DEF UseInv
        <5> QED BY <5>1, <5>2 DEF OneGetterPerFuture
      <4>2. g \in SleepingGetters(task[w])
        BY <3>1, <3>2 DEF SleepingGetters
      <4>3. gpc' = [gpc EXCEPT ![g] = "lock"]
        BY <1>5, <4>1, <4>2 DEF Ring
      <4> QED BY <2>2, <4>3, <1>a
    <3> QED BY <3>1, <3>2
  <2> QED BY <2>1, <2>2 DEF SleepersHaveRingers
\* who goes to sleep has seen that its future is not done
<1>6. ASSUME NEW g \in Getters, Get(g) \/ \E f \in Futures : Ask(g, f) \/ AskAgain(g, f)
      PROVE  SleepersHaveRingers'
  <2>1. UNCHANGED <<tasks, wpc, task>>
    BY <1>6 DEF Get, Wait, SeeDone, Destroy, Consume, Ask, AskAgain, vars
  <2>2. Running' = Running
    BY <2>1 DEF Running
  <2>3. ASSUME NEW h \in Getters, gpc'[h] = "asleep"
        PROVE  \/ gpc[h] = "asleep" /\ asked'[h] = asked[h]
               \/ asked'[h] \in Futures /\ prims[asked'[h]] # "none" /\ ~done[asked'[h]]
    BY <1>6, <2>3, <1>a, <1>b DEF Get, Wait, SeeDone, Destroy, Consume, Ask, AskAgain, vars
  <2>4. \A f \in Futures : prims[f] # "none" /\ ~done[f] =>
            (\E i \in 1 .. Len(tasks) : tasks[i] = f) \/ (\E w \in Running : task[w] = f)
    BY DEF PoolInv, ResultInv
  <2> QED BY <2>1, <2>2, <2>3, <2>4 DEF SleepersHaveRingers
<1>7. CASE SpuriousWakeup
  <2>1. /\ UNCHANGED <<tasks, task, asked>> /\ Running' = Running
        /\ \A g \in Getters : gpc'[g] = "asleep" => gpc[g] = "asleep"
    BY <1>7, <1>a DEF SpuriousWakeup, Running
  <2> QED BY <2>1 DEF SleepersHaveRingers
<1>8. CASE FreePool \/ UNCHANGED vars
  BY <1>8 DEF FreePool, vars, Running, SleepersHaveRingers
<1> QED BY <1>1, <1>2, <1>3, <1>4, <1>5, <1>6, <1>7, <1>8 DEF Next, Work

\* When each future has one getter, no signal of a worker to a getter is lost: a
\* getter that sleeps has its task queued, or held by a worker that signals next.
\* (With two getters one signal wakes one of them, and the other sleeps on.)
THEOREM GettersDoNotOversleep == OneGetterPerFuture => (Spec => []SleepersHaveRingers)
<1> SUFFICES ASSUME OneGetterPerFuture PROVE Spec => []SleepersHaveRingers
  OBVIOUS
<1> DEFINE Inv == PoolInv /\ UseInv /\ SleepersHaveRingers
<1>1. Init => Inv
  BY InitPool DEF Init, UseInv, SleepersHaveRingers
<1>2. Inv /\ [Next]_vars => Inv'
  BY PoolStep, UseStep, RingerStep
<1> QED BY <1>1, <1>2, PTL DEF Spec
=============================================================================
