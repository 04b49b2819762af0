---------------------------- MODULE StateMachine ----------------------------
(***************************************************************************)
(* The state machines of src/stdlib/runtime/state_machine_rt.c.  fire runs *)
(* the caller's callbacks in the middle of its work, and a callback may    *)
(* fire again: calls is the stack of the calls of fire that have not       *)
(* returned, the innermost last.  A call that its own exit callback or     *)
(* action interrupts with a transition goes on with its own all the same.  *)
(***************************************************************************)
EXTENDS Integers, Sequences, SequencesExt

CONSTANTS States, Events,
          Tables,        \* transition tables: sequences of [from, event, to]
          Callbacks,     \* states with callbacks, as pairs <<"exit" or "enter", state>>
          Actions,       \* transitions with an action, by their place in the table
          HistoryCap,    \* the 1024 entries of history
          MaxDepth, MaxFires   \* bounds on nesting and on calls

TablesAssumption == Tables \subseteq Seq([from : States, event : Events, to : States])

VARIABLES table, current, history,
          calls,         \* [at, index, interrupted]: what the call does next, its
                         \* transition, and whether it was interrupted
          fires,         \* calls so far
          undisturbed    \* places in history of the moves of calls not interrupted

\* No step reads `interrupted` but to keep undisturbed, which no step reads.
vars == <<table, current, history, calls, fires, undisturbed>>

\* nuc_fsm_set_initial after the table is built.
Init ==
  /\ table \in Tables
  /\ current \in States
  /\ history = <<current>>
  /\ calls = <<>> /\ fires = 0
  /\ undisturbed = {}

Top == Last(calls)
Goto(step) == calls' = [calls EXCEPT ![Len(calls)].at = step]

\* A call comes from outside, or from the callback that the innermost call runs.
CanFire ==
  /\ fires < MaxFires
  /\ Len(calls) < MaxDepth
  /\ calls # <<>> => Top.at \in {"exit", "action", "enter"}

\* The innermost call has not moved, and a transition is taken under it.
Interrupted ==
  [i \in DOMAIN calls |-> IF i = Len(calls) /\ Top.at # "enter"
                         THEN [calls[i] EXCEPT !.interrupted = TRUE] ELSE calls[i]]

\* Mutant: a transition is taken by its event alone.
MatchingEvent(event) == {i \in DOMAIN table : table[i].event = event}

Matching(event) == {i \in DOMAIN table : table[i].from = current /\ table[i].event = event}

Fire(event) ==
  /\ CanFire
  /\ Matching(event) # {}
  /\ LET i == CHOOSE i \in Matching(event) : \A j \in Matching(event) : i <= j
     IN calls' = Append(Interrupted,
                        [at |-> IF <<"exit", current>> \in Callbacks THEN "exit" ELSE "acting",
                         index |-> i, interrupted |-> FALSE])
  /\ fires' = fires + 1
  /\ UNCHANGED <<table, current, history, undisturbed>>

FireUnmatched(event) ==
  /\ CanFire
  /\ Matching(event) = {}
  /\ fires' = fires + 1
  /\ UNCHANGED <<table, current, history, calls, undisturbed>>

ExitReturns ==
  /\ calls # <<>> /\ Top.at = "exit"
  /\ Goto("acting")
  /\ UNCHANGED <<table, current, history, fires, undisturbed>>

Act ==
  /\ calls # <<>> /\ Top.at = "acting"
  /\ Goto(IF Top.index \in Actions THEN "action" ELSE "move")
  /\ UNCHANGED <<table, current, history, fires, undisturbed>>

ActionReturns ==
  /\ calls # <<>> /\ Top.at = "action"
  /\ Goto("move")
  /\ UNCHANGED <<table, current, history, fires, undisturbed>>

\* Returns when there is no enter callback.
Move ==
  /\ calls # <<>> /\ Top.at = "move"
  /\ current' = table[Top.index].to
  /\ history' = IF Len(history) < HistoryCap THEN Append(history, current') ELSE history
  /\ undisturbed' = IF Len(history) < HistoryCap /\ ~Top.interrupted
                    THEN undisturbed \cup {Len(history) + 1} ELSE undisturbed
  /\ IF <<"enter", current'>> \in Callbacks THEN Goto("enter") ELSE calls' = Front(calls)
  /\ UNCHANGED <<table, fires>>

EnterReturns ==
  /\ calls # <<>> /\ Top.at = "enter"
  /\ calls' = Front(calls)
  /\ UNCHANGED <<table, current, history, fires, undisturbed>>

Next ==
  \/ \E e \in Events : Fire(e) \/ FireUnmatched(e)
  \/ ExitReturns \/ Act \/ ActionReturns \/ Move \/ EnterReturns

Spec == Init /\ [][Next]_vars

-----------------------------------------------------------------------------
(***************************************************************************)
(* However calls nest, every state in the history was entered by a         *)
(* transition of the table, from the state recorded before it unless the   *)
(* call that took it was interrupted (state_machine_rt.c:96 moves to its   *)
(* target wherever the machine is by then); and the history ends in the    *)
(* current state until it is full.                                         *)
(***************************************************************************)
HistoryFollowsTable ==
  /\ \A i \in 1 .. Len(history) - 1 :
       \E k \in DOMAIN table : /\ table[k].to = history[i + 1]
                             /\ i + 1 \in undisturbed => table[k].from = history[i]
  /\ Len(history) < HistoryCap => Last(history) = current

(***************************************************************************)
(* A call that has not moved yet and was not interrupted is about to leave *)
(* the state that the machine is in: what its callbacks were told still    *)
(* holds when it moves, whatever enter callbacks and calls that match      *)
(* nothing did meanwhile.                                                  *)
(***************************************************************************)
PendingCallsAreCurrent ==
  \A i \in DOMAIN calls :
    calls[i].at # "enter" /\ ~calls[i].interrupted => table[calls[i].index].from = current
=============================================================================
