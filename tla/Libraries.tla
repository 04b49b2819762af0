------------------------------ MODULE Libraries ------------------------------
(***************************************************************************)
(* The registry of atomics, the state machines and the tree planners, side *)
(* by side.                                                                *)
(***************************************************************************)
EXTENDS AtomicRegistry

CONSTANTS States, Events, Tables, Callbacks, Actions, HistoryCap,
          MaxDepth, MaxFires                              \* of StateMachine
CONSTANTS Points, Roots, Goals, Distance(_, _), Step, Radius, Blocked, Region,
          NeighborBuf, ConnectSteps, Garbage, Careful                   \* of RRT

VARIABLES table, current, history, calls, fires, undisturbed   \* of StateMachine
VARIABLES tree, goalTree, path, call                           \* of RRT

Machine == INSTANCE StateMachine
Trees == INSTANCE RRT

ASSUME MachineAssumption == Machine!TablesAssumption
ASSUME TreesAssumption == Trees!RRTAssumption

machine == <<table, current, history, calls, fires, undisturbed>>
planner == <<tree, goalTree, path, call>>

-----------------------------------------------------------------------------
\* StateMachine.tla: the history follows the table, and so do pending calls,
\* but for those interrupted.
MachineFollowsTable == Machine!HistoryFollowsTable /\ Machine!PendingCallsAreCurrent

\* RRT.tla: trees end at the root, costs cover lengths, paths can be driven.
TreesGivePaths == Trees!ParentsEnd /\ Trees!CostsCoverLengths /\ Trees!PathUsable
==============================================================================
