------------------------------ MODULE Runtime ------------------------------
(***************************************************************************)
(* The blocking parts of the runtime side by side: a barrier, a channel    *)
(* and async tasks.  They share no state; `subject` is the part that a     *)
(* behaviour is about, and the others stay as they were made.              *)
(***************************************************************************)
EXTENDS Barrier

CONSTANTS
    Senders, Receivers, Closers, Values, Junk, RequestedCap, IntEnd,  \* of Channel
    Clients, Addresses, RegistrySize, Again, NoAddress, MaxSpawns     \* of AsyncTasks

VARIABLES
    subject,
    buf, head, tail, count, closed, pcChannel, arg,
    spawns, home, block, started, result, registry, thread, pcAsync, job, returned,
    awaited, accepted, answers, panicked

Ch == INSTANCE Channel WITH pc <- pcChannel
As == INSTANCE AsyncTasks WITH pc <- pcAsync

ASSUME ChannelAssumption == Ch!ChannelAssumption
ASSUME AsyncAssumption ==
    As!RegistrySizeAssumption /\ As!MaxSpawnsAssumption /\ As!AddressAssumption

ChVars == <<buf, head, tail, count, closed, pcChannel, arg>>
AsVars == <<spawns, home, block, started, result, registry, thread, pcAsync, job,
            returned, awaited, accepted, answers, panicked>>
suiteVars == <<subject, vars, ChVars, AsVars>>

SuiteInit == Init /\ Ch!Init /\ As!Init /\ subject \in {"barrier", "channel", "async"}

SuiteNext ==
    /\ UNCHANGED subject
    /\ \/ subject = "barrier" /\ Next /\ UNCHANGED <<ChVars, AsVars>>
       \/ subject = "channel" /\ Ch!Next /\ UNCHANGED <<vars, AsVars>>
       \/ subject = "async" /\ As!Next /\ UNCHANGED <<vars, ChVars>>

\* The fairness of each part; calls begin in the part under test only.
SuiteFairness ==
    /\ \A t \in Threads : WF_vars(subject = "barrier" /\ Call(t)) /\ WF_vars(Resume(t))
    /\ \A s \in Senders : WF_ChVars(Ch!Send(s))
    /\ \A r \in Receivers :
          WF_ChVars(Ch!Recv(r)) /\ WF_ChVars(subject = "channel" /\ Ch!RecvCall(r))
    /\ \A c \in Clients : WF_AsVars(As!Spawn(c)) /\ WF_AsVars(As!AwaitStep(c))
    /\ \A k \in 1 .. MaxSpawns : WF_AsVars(As!RunTask(k))

SuiteSpec == SuiteInit /\ [][SuiteNext]_suiteVars /\ SuiteFairness

-----------------------------------------------------------------------------
\* Channel.tla: no wakeup is lost, so receivers and senders never all sleep.
NoLostWakeup == Ch!NoLostWakeup
\* Channel.tla: once the channel is closed every send and recv returns.
CloseReleasesCalls == Ch!CloseReleasesCalls
\* Channel.tla: the ring implements a fair bounded FIFO.
EveryValueReceived == Ch!EveryValueReceived
\* AsyncTasks.tla: an await returns what the task of its handle computed.
AwaitReturnsOwnResult == As!AwaitReturnsOwnResult
\* AsyncTasks.tla: no running task stores into a block that is freed or
\* another's, and no block leaks.
BlocksAreOwned == As!BlocksAreOwned
\* AsyncTasks.tla: an await returns unless a registry panic ends the process.
AwaitReturns == As!AwaitReturns
============================================================================
