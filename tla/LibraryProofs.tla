--------------------------- MODULE LibraryProofs ---------------------------
(***************************************************************************)
(* The registry of AtomicI64 handles, proved for every set of handles,     *)
(* every capacity and every hash function; the state machines, for all     *)
(* states, events, transition tables, callbacks and lengths of history;    *)
(* and the tree planners, for all points, obstacles and metrics.           *)
(***************************************************************************)
EXTENDS Libraries, SequenceTheorems, FiniteSetTheorems, WellFoundedInduction, TLAPS

\* Every entry is reached by some probe from every hash.
LEMMA ProbesReachAll ==
  ASSUME NEW c \in Nat \ {0}, NEW e \in 0 .. c - 1, NEW f \in 0 .. c - 1
  PROVE  \E probe \in 0 .. c - 1 : (f + probe) % c = e
<1>1. CASE f <= e
  <2>1. e - f \in 0 .. c - 1 /\ (f + (e - f)) % c = e
    BY <1>1, SMT
  <2> QED BY <2>1
<1>2. CASE f > e
  <2>1. c + e - f \in 0 .. c - 1 /\ (f + (c + e - f)) % c = e
    BY <1>2, SMT
  <2> QED BY <2>1
<1> QED BY <1>1, <1>2, SMT

\* A probe stays in the table.
LEMMA ProbesAreEntries ==
  ASSUME NEW c \in Nat \ {0}, NEW f \in 0 .. c - 1, NEW probe \in Nat
  PROVE  (f + probe) % c \in 0 .. c - 1
BY SMT

-----------------------------------------------------------------------------
\* What is in an entry was made, and is in no other entry.
OnceInTable ==
  /\ \A e \in Entries : registry[e] \in made \cup {NoHandle}
  /\ \A d, e \in Entries : registry[d] = registry[e] /\ registry[d] # NoHandle => d = e

\* The entries a search passes on its way to a registered handle are taken.
PathsUnbroken == \A h \in made : \E probe \in Entries : EndsAt(h, probe) /\ registry[Entry(h, probe)] = h

FullIfPanicked == panicked => \A e \in Entries : registry[e] # NoHandle

RegistryInv == TypeOK /\ OnceInTable /\ PathsUnbroken /\ FullIfPanicked

LEMMA InitEstablishesInv == Init => RegistryInv
BY RegistryAssumption DEF Init, RegistryInv, TypeOK, OnceInTable, PathsUnbroken, FullIfPanicked, Entries

\* A new handle goes into an empty entry, so no path it does not begin is cut.
LEMMA NewKeepsInv ==
  ASSUME RegistryInv, NEW h \in Handles, New(h)
  PROVE  RegistryInv'
<1> USE RegistryAssumption
<1>1. PICK probe \in Entries : EndsAt(h, probe) /\ registry' = [registry EXCEPT ![Entry(h, probe)] = h]
  BY DEF New
<1>2. \A g \in Handles, p \in Nat : Entry(g, p) \in Entries
  BY ProbesAreEntries DEF RegistryInv, TypeOK, Entry, Entries
<1>3. Entry(h, probe) \in Entries
  BY <1>2 DEF Entries
<1>4. registry[Entry(h, probe)] = NoHandle
  BY <1>1, <1>3 DEF EndsAt, New, RegistryInv, OnceInTable
<1>5. \A e \in Entries : registry'[e] = IF e = Entry(h, probe) THEN h ELSE registry[e]
  BY <1>1, <1>3 DEF RegistryInv, TypeOK
<1>6. TypeOK'
  BY <1>1, <1>3 DEF New, RegistryInv, TypeOK
<1>7. OnceInTable'
  BY <1>3, <1>4, <1>5 DEF New, RegistryInv, OnceInTable, TypeOK
<1>8. PathsUnbroken'
  <2> SUFFICES ASSUME NEW g \in made'
               PROVE  \E p \in Entries : EndsAt(g, p)' /\ registry'[Entry(g, p)'] = g
    BY DEF PathsUnbroken, Entries
  <2>1. g \in Handles /\ \A p : Entry(g, p)' = Entry(g, p)
    BY DEF New, Entry, RegistryInv, TypeOK
  <2>2. PICK p \in Entries : /\ EndsAt(g, p)
                             /\ g = h => p = probe
                             /\ g # h => registry[Entry(g, p)] = g
    BY <1>1 DEF New, RegistryInv, PathsUnbroken
  <2>3. \A q \in 0 .. p - 1 : Entry(g, q) \in Entries /\ registry'[Entry(g, q)] \notin {NoHandle, g}
    BY <1>2, <1>4, <1>5, <2>1, <2>2 DEF EndsAt, Entries
  <2>4. Entry(g, p) \in Entries
    BY <1>2, <2>1 DEF Entries
  <2>5. registry'[Entry(g, p)] = g
    <3>1. CASE g = h
      BY <3>1, <1>5, <2>2, <2>4
    <3>2. CASE g # h
      <4>1. Entry(g, p) # Entry(h, probe)
        BY <3>2, <1>4, <2>1, <2>2
      <4> QED BY <4>1, <3>2, <1>5, <2>2, <2>4
    <3> QED BY <3>1, <3>2
  <2> QED BY <2>1, <2>2, <2>3, <2>4, <2>5 DEF EndsAt
<1>9. FullIfPanicked'
  BY DEF New, FullIfPanicked
<1> QED BY <1>6, <1>7, <1>8, <1>9 DEF RegistryInv

LEMMA PanicKeepsInv ==
  ASSUME RegistryInv, NEW h \in Handles, NewPanics(h)
  PROVE  RegistryInv'
<1>1. ASSUME NEW e \in Entries PROVE registry[e] # NoHandle
  <2>1. Cap \in Nat \ {0} /\ e \in 0 .. Cap - 1 /\ hash[h] \in 0 .. Cap - 1
    BY RegistryAssumption DEF RegistryInv, TypeOK, Entries
  <2>2. PICK probe \in 0 .. Cap - 1 : (hash[h] + probe) % Cap = e
    BY <2>1, ProbesReachAll
  <2> QED BY <2>2 DEF NewPanics, Entry, Entries
<1> QED BY <1>1 DEF NewPanics, RegistryInv, TypeOK, OnceInTable, PathsUnbroken, FullIfPanicked, EndsAt, Entry, Entries

LEMMA FreeKeepsInv ==
  ASSUME RegistryInv, NEW h \in Handles, Free(h)
  PROVE  RegistryInv'
BY DEF Free, RegistryInv, TypeOK, OnceInTable, PathsUnbroken, FullIfPanicked, EndsAt, Entry, Entries

LEMMA NextKeepsInv == RegistryInv /\ [Next]_vars => RegistryInv'
<1> SUFFICES ASSUME RegistryInv, [Next]_vars PROVE RegistryInv'
  OBVIOUS
<1>1. ASSUME NEW h \in Handles, New(h) PROVE RegistryInv'
  BY <1>1, NewKeepsInv
<1>2. ASSUME NEW h \in Handles, NewPanics(h) PROVE RegistryInv'
  BY <1>2, PanicKeepsInv
<1>3. ASSUME NEW h \in Handles, Free(h) PROVE RegistryInv'
  BY <1>3, FreeKeepsInv
<1>4. CASE UNCHANGED vars
  BY <1>4 DEF vars, RegistryInv, TypeOK, OnceInTable, PathsUnbroken, FullIfPanicked, EndsAt, Entry, Entries
<1> QED BY <1>1, <1>2, <1>3, <1>4 DEF Next

(***************************************************************************)
(* The inductive invariant: every entry holds a different handle that was  *)
(* made, and the search for a registered handle meets no empty entry.      *)
(***************************************************************************)
THEOREM RegistryInvariant == Spec => []RegistryInv
BY InitEstablishesInv, NextKeepsInv, PTL DEF Spec

(***************************************************************************)
(* Lookups answer right for every hash function and capacity: a live cell  *)
(* is never refused and a forged handle never let through.                 *)
(***************************************************************************)
THEOREM LookupsAreRight == Spec => []RegisteredAreFound
<1>1. RegistryInv => RegisteredAreFound
  <2> SUFFICES ASSUME RegistryInv, NEW h \in Handles PROVE Found(h) <=> h \in made
    BY DEF RegisteredAreFound
  <2>1. h \in made => Found(h)
    BY DEF RegistryInv, PathsUnbroken, Found
  <2>2. Found(h) => h \in made
    <3> SUFFICES ASSUME Found(h) PROVE h \in made
      OBVIOUS
    <3>1. PICK probe \in Entries : registry[Entry(h, probe)] = h
      BY DEF Found
    <3>2. Entry(h, probe) \in Entries
      <4>1. Cap \in Nat \ {0} /\ hash[h] \in 0 .. Cap - 1 /\ probe \in Nat
        BY RegistryAssumption DEF RegistryInv, TypeOK, Entries
      <4> QED BY <4>1, ProbesAreEntries DEF Entry, Entries
    <3> QED BY RegistryAssumption, <3>1, <3>2 DEF RegistryInv, OnceInTable
  <2> QED BY <2>1, <2>2
<1> QED BY <1>1, RegistryInvariant, PTL

(***************************************************************************)
(* The panic on a full registry happens only when as many handles were     *)
(* made, freed ones included, as there are entries.                        *)
(***************************************************************************)
THEOREM PanicMeansFull == Spec => []PanicsOnlyWhenFull
<1>1. RegistryInv => PanicsOnlyWhenFull
  BY DEF RegistryInv, OnceInTable, FullIfPanicked, PanicsOnlyWhenFull
<1> QED BY <1>1, RegistryInvariant, PTL

-----------------------------------------------------------------------------
\* A set of numbers has a least one.
LEMMA LeastOfSet ==
  ASSUME NEW T \in SUBSET Nat, T # {}
  PROVE  \E n \in T : \A m \in T : n <= m
<1>1. PICK n \in T : \A m \in T : <<m, n>> \notin OpToRel(<, Nat)
  BY NatLessThanWellFounded, WFMin
<1>2. \A m \in T : ~(m < n)
  BY <1>1 DEF OpToRel
<1> QED BY <1>2

Rows == [from : States, event : Events, to : States]
CallSteps == {"exit", "acting", "action", "move", "enter"}

Calls == [at : CallSteps, index : DOMAIN table, interrupted : BOOLEAN]

MachineTyped ==
  /\ table \in Seq(Rows) /\ current \in States
  /\ history \in Seq(States) /\ history # <<>>
  /\ calls \in Seq(Calls)
  /\ undisturbed \subseteq 1 .. Len(history)

\* Every call but the innermost has moved, and runs an enter callback, or is interrupted.
Passed(c) == c.at = "enter" \/ c.interrupted
OuterCallsPassed == \A i \in 1 .. Len(calls) - 1 : Passed(calls[i])

MachineInv == MachineTyped /\ OuterCallsPassed /\ MachineFollowsTable

\* The first transition that matches is one that matches.
LEMMA FirstMatches ==
  ASSUME MachineTyped, NEW event, Machine!Matching(event) # {}
  PROVE  (CHOOSE i \in Machine!Matching(event) : \A j \in Machine!Matching(event) : i <= j)
           \in Machine!Matching(event)
<1>1. DOMAIN table \subseteq Nat
  BY LenProperties DEF MachineTyped
<1>2. Machine!Matching(event) \in SUBSET Nat
  BY <1>1 DEF Machine!Matching
<1> QED BY <1>2, LeastOfSet

\* While the machine stays where it is, calls may change so long as those that are not
\* passed leave the state it is in.
LEMMA StayKeeps ==
  ASSUME MachineInv, UNCHANGED <<table, current, history, undisturbed>>, calls' \in Seq(Calls),
         NEW n \in Nat, Len(calls') = n, \A i \in 1 .. n - 1 : Passed(calls'[i]),
         n # 0 => Passed(calls'[n]) \/ table[calls'[n].index].from = current
  PROVE  MachineInv'
<1>1. MachineTyped'
  BY DEF MachineInv, MachineTyped, Calls
<1>2. DOMAIN calls' = 1 .. n
  BY LenProperties
<1>3. OuterCallsPassed'
  BY DEF OuterCallsPassed, Passed
<1>4. Machine!PendingCallsAreCurrent'
  <2> SUFFICES ASSUME NEW i \in 1 .. n, calls'[i].at # "enter", ~calls'[i].interrupted
               PROVE  table[calls'[i].index].from = current
    BY <1>2 DEF Machine!PendingCallsAreCurrent
  <2>1. i = n /\ ~Passed(calls'[n])
    BY DEF Passed
  <2> QED BY <2>1
<1>5. Machine!HistoryFollowsTable'
  BY DEF MachineInv, MachineFollowsTable, Machine!HistoryFollowsTable, Machine!Last
<1> QED BY <1>1, <1>3, <1>4, <1>5 DEF MachineInv, MachineFollowsTable

\* The innermost call is one of the calls, and those below it are passed.
LEMMA TopIs ==
  ASSUME MachineInv, calls # <<>>
  PROVE  \E n \in Nat \ {0} : /\ n = Len(calls) /\ DOMAIN calls = 1 .. n /\ Machine!Top = calls[n]
                              /\ \A i \in 1 .. n : calls[i] \in Calls
                              /\ \A i \in 1 .. n - 1 : Passed(calls[i])
                              /\ Passed(calls[n]) \/ table[calls[n].index].from = current
<1>1. PICK n \in Nat \ {0} : calls \in Seq(Calls) /\ n = Len(calls) /\ DOMAIN calls = 1 .. n
  BY LenProperties, EmptySeq DEF MachineInv, MachineTyped
<1>2. \A i \in 1 .. n : calls[i] \in Calls
  BY <1>1, ElementOfSeq
<1>3. \A i \in 1 .. n - 1 : Passed(calls[i])
  BY <1>1 DEF MachineInv, OuterCallsPassed
<1>4. Passed(calls[n]) \/ table[calls[n].index].from = current
  <2>1. n \in DOMAIN calls
    BY <1>1
  <2> QED BY <2>1 DEF MachineInv, MachineFollowsTable, Machine!PendingCallsAreCurrent, Passed
<1>5. Machine!Top = calls[n]
  BY <1>1 DEF Machine!Top, Machine!Last
<1> QED BY <1>1, <1>2, <1>3, <1>4, <1>5

\* The innermost call goes on, before it moves.
LEMMA GotoKeeps ==
  ASSUME MachineInv, calls # <<>>, Machine!Top.at # "enter", NEW step \in CallSteps,
         Machine!Goto(step), UNCHANGED <<table, current, history, undisturbed>>
  PROVE  MachineInv'
<1>1. PICK n \in Nat \ {0} : /\ n = Len(calls) /\ DOMAIN calls = 1 .. n /\ Machine!Top = calls[n]
                             /\ \A i \in 1 .. n : calls[i] \in Calls
                             /\ \A i \in 1 .. n - 1 : Passed(calls[i])
                             /\ Passed(calls[n]) \/ table[calls[n].index].from = current
  BY TopIs
<1>2. calls \in Seq(Calls)
  BY DEF MachineInv, MachineTyped
<1>3. PICK gone \in Calls : /\ gone = [calls[n] EXCEPT !.at = step]
                            /\ gone.at = step /\ gone.index = calls[n].index
                            /\ gone.interrupted = calls[n].interrupted
  <2>1. PICK c \in Calls : c = calls[n]
    BY <1>1
  <2>2. [c EXCEPT !.at = step] \in Calls
    BY DEF Calls
  <2>3. /\ [c EXCEPT !.at = step].at = step /\ [c EXCEPT !.at = step].index = c.index
        /\ [c EXCEPT !.at = step].interrupted = c.interrupted
    BY DEF Calls
  <2> QED BY <2>1, <2>2, <2>3
<1>4. calls' = [calls EXCEPT ![n] = gone]
  BY <1>1, <1>3 DEF Machine!Goto
<1>5. calls' \in Seq(Calls) /\ Len(calls') = n
  BY <1>1, <1>2, <1>4, ExceptSeq
<1>6. calls'[n] = gone /\ \A i \in 1 .. n : i # n => calls'[i] = calls[i]
  BY <1>1, <1>2, <1>4, ExceptSeq
<1>7. \A i \in 1 .. n - 1 : Passed(calls'[i])
  <2>1. \A i \in 1 .. n - 1 : i \in 1 .. n /\ i # n
    OBVIOUS
  <2> QED BY <1>1, <1>6, <2>1
<1>8. Passed(calls'[n]) \/ table[calls'[n].index].from = current
  BY <1>1, <1>3, <1>6 DEF Passed
<1> QED BY <1>5, <1>7, <1>8, StayKeeps

\* An event is fired, from outside or from a callback of the innermost call: that call
\* has moved, or is now interrupted.
LEMMA FireKeeps ==
  ASSUME MachineInv, NEW event, Machine!Fire(event)
  PROVE  MachineInv'
<1>1. PICK n \in Nat : calls \in Seq(Calls) /\ n = Len(calls) /\ DOMAIN calls = 1 .. n
  BY LenProperties DEF MachineInv, MachineTyped
<1>2. PICK fired \in Calls : /\ table[fired.index].from = current
                             /\ calls' = Append(Machine!Interrupted, fired)
  <2>1. PICK i \in Machine!Matching(event) :
          calls' = Append(Machine!Interrupted,
                          [at |-> IF <<"exit", current>> \in Callbacks THEN "exit" ELSE "acting",
                           index |-> i, interrupted |-> FALSE])
    BY FirstMatches DEF Machine!Fire, MachineInv
  <2>2. [at |-> IF <<"exit", current>> \in Callbacks THEN "exit" ELSE "acting",
         index |-> i, interrupted |-> FALSE] \in Calls
    BY <2>1 DEF Machine!Matching, CallSteps, Calls
  <2> QED BY <2>1, <2>2 DEF Machine!Matching
<1>3. PICK below : below = Machine!Interrupted
  OBVIOUS
<1>4. below \in Seq(Calls) /\ Len(below) = n /\ \A i \in 1 .. n : Passed(below[i])
  <2>1. \A i \in 1 .. n : calls[i] \in Calls
    BY <1>1, ElementOfSeq
  <2>2. \A i \in 1 .. n : below[i] = IF i = n /\ Machine!Top.at # "enter"
                                    THEN [calls[i] EXCEPT !.interrupted = TRUE] ELSE calls[i]
    BY <1>1, <1>3 DEF Machine!Interrupted
  <2>3. \A i \in 1 .. n : [calls[i] EXCEPT !.interrupted = TRUE] \in Calls
    BY <2>1 DEF Calls
  <2>4. below \in [1 .. n -> Calls]
    BY <1>1, <1>3, <2>1, <2>2, <2>3 DEF Machine!Interrupted
  <2>5. below \in Seq(Calls) /\ Len(below) = n
    BY <2>4, SeqDef, LenProperties
  <2>6. ASSUME NEW i \in 1 .. n PROVE Passed(below[i])
    <3>1. CASE i # n
      <4>1. i \in 1 .. n - 1
        BY <3>1
      <4>2. Passed(calls[i])
        BY <1>1, <4>1 DEF MachineInv, OuterCallsPassed
      <4> QED BY <2>2, <3>1, <4>2
    <3>2. CASE i = n
      <4>1. Machine!Top = calls[i]
        BY <1>1, <3>2 DEF Machine!Top, Machine!Last
      <4> QED BY <2>1, <2>2, <3>2, <4>1 DEF Passed, Calls
    <3> QED BY <3>1, <3>2
  <2> QED BY <2>5, <2>6
<1>5. /\ calls' \in Seq(Calls) /\ Len(calls') = n + 1
      /\ calls'[n + 1] = fired /\ \A i \in 1 .. n : calls'[i] = below[i]
  BY <1>2, <1>3, <1>4, AppendProperties
<1>6. \A i \in 1 .. (n + 1) - 1 : Passed(calls'[i])
  BY <1>4, <1>5
<1>7. UNCHANGED <<table, current, history, undisturbed>>
  BY DEF Machine!Fire
<1> QED BY <1>2, <1>5, <1>6, <1>7, StayKeeps

\* The innermost call returns.
LEMMA FrontKeeps ==
  ASSUME MachineInv, calls # <<>>
  PROVE  LET below == Machine!Front(calls)
         IN below \in Seq(Calls) /\ \A i \in 1 .. Len(below) : Passed(below[i])
<1>1. PICK n \in Nat \ {0} : /\ n = Len(calls) /\ \A i \in 1 .. n : calls[i] \in Calls
                             /\ \A i \in 1 .. n - 1 : Passed(calls[i])
  BY TopIs
<1>2. PICK below : below = Machine!Front(calls) /\ below = SubSeq(calls, 1, n - 1)
  BY <1>1 DEF Machine!Front
<1>3. \A i \in 1 .. n - 1 : calls[i] \in Calls
  BY <1>1
<1>4. /\ below \in Seq(Calls) /\ Len(below) = IF 1 <= n - 1 THEN n - 1 ELSE 0
      /\ \A i \in 1 .. n - 1 : below[i] = calls[i]
  BY <1>2, <1>3, SubSeqProperties
<1>5. Len(below) = n - 1
  BY <1>4
<1> QED BY <1>1, <1>2, <1>4, <1>5

LEMMA EnterReturnsKeeps ==
  ASSUME MachineInv, Machine!EnterReturns
  PROVE  MachineInv'
<1>1. PICK below : below = calls' /\ below \in Seq(Calls) /\ \A i \in 1 .. Len(below) : Passed(below[i])
  BY FrontKeeps DEF Machine!EnterReturns
<1>2. PICK n \in Nat : n = Len(below)
  BY <1>1, LenProperties
<1>3. (\A i \in 1 .. n - 1 : Passed(calls'[i])) /\ (n # 0 => Passed(calls'[n]))
  <2>1. n # 0 => n \in 1 .. n
    BY <1>2
  <2> QED BY <1>1, <1>2, <2>1
<1>4. UNCHANGED <<table, current, history, undisturbed>>
  BY DEF Machine!EnterReturns
<1> QED BY <1>1, <1>2, <1>3, <1>4, StayKeeps

\* The innermost call moves the machine along its transition: no other call waits to
\* leave the state that it leaves.
LEMMA MoveKeeps ==
  ASSUME MachineInv, Machine!Move
  PROVE  MachineInv'
<1>1. PICK n \in Nat \ {0} : /\ n = Len(calls) /\ DOMAIN calls = 1 .. n /\ Machine!Top = calls[n]
                             /\ \A i \in 1 .. n : calls[i] \in Calls
                             /\ \A i \in 1 .. n - 1 : Passed(calls[i])
                             /\ Passed(calls[n]) \/ table[calls[n].index].from = current
  BY TopIs DEF Machine!Move
<1>2. PICK k \in DOMAIN table : k = calls[n].index /\ calls[n].at = "move" /\ calls[n] \in Calls
  BY <1>1 DEF Machine!Move, Calls
<1>3. table[k] \in Rows /\ current' = table[k].to /\ UNCHANGED table
  <2>1. table \in Seq(Rows)
    BY DEF MachineInv, MachineTyped
  <2>2. table[k] \in Rows
    BY <1>2, <2>1, ElementOfSeq, LenProperties
  <2> QED BY <1>1, <1>2, <2>2 DEF Machine!Move
<1>4. ~calls[n].interrupted => table[k].from = current
  BY <1>1, <1>2 DEF Passed
<1>5. calls \in Seq(Calls)
  BY DEF MachineInv, MachineTyped
<1>6. /\ calls' \in Seq(Calls) /\ \A i \in 1 .. Len(calls') : Passed(calls'[i])
  <2>1. CASE <<"enter", current'>> \in Callbacks
    <3>1. calls' = [calls EXCEPT ![n] = [calls[n] EXCEPT !.at = "enter"]]
      BY <1>1, <2>1 DEF Machine!Move, Machine!Goto
    <3>2. [calls[n] EXCEPT !.at = "enter"] \in Calls /\ Passed([calls[n] EXCEPT !.at = "enter"])
      BY <1>2 DEF CallSteps, Calls, Passed
    <3>3. calls' \in Seq(Calls) /\ Len(calls') = n
      BY <1>1, <1>5, <3>1, <3>2, ExceptSeq
    <3>4. \A i \in 1 .. n : calls'[i] = IF i = n THEN [calls[n] EXCEPT !.at = "enter"] ELSE calls[i]
      BY <1>1, <1>5, <3>1, <3>2, ExceptSeq
    <3>5. \A i \in 1 .. n : i = n \/ i \in 1 .. n - 1
      OBVIOUS
    <3> QED BY <1>1, <3>2, <3>3, <3>4, <3>5
  <2>2. CASE <<"enter", current'>> \notin Callbacks
    BY <1>1, <2>2, FrontKeeps DEF Machine!Move
  <2> QED BY <2>1, <2>2
<1>7. PICK m \in Nat \ {0} : history \in Seq(States) /\ m = Len(history)
  BY EmptySeq DEF MachineInv, MachineTyped
<1>8. current' \in States
  BY <1>3 DEF Rows
<1>9. /\ \A i \in 1 .. m - 1 :
           \E j \in DOMAIN table : /\ table[j].to = history[i + 1]
                                  /\ i + 1 \in undisturbed => table[j].from = history[i]
      /\ m < HistoryCap => history[m] = current
  BY <1>7 DEF MachineInv, MachineFollowsTable, Machine!HistoryFollowsTable, Machine!Last
<1>10. /\ history' \in Seq(States) /\ history' # <<>> /\ Machine!HistoryFollowsTable'
       /\ undisturbed' \subseteq 1 .. Len(history')
  <2>0. undisturbed \subseteq 1 .. m
    BY <1>7 DEF MachineInv, MachineTyped
  <2>1. CASE m < HistoryCap
    <3>1. history' = Append(history, current')
      BY <1>7, <2>1 DEF Machine!Move
    <3>2. /\ history' \in Seq(States) /\ history' # <<>> /\ Len(history') = m + 1
          /\ history'[m + 1] = current'
      BY <1>7, <1>8, <3>1, AppendProperties
    <3>3. \A i \in 1 .. m : history'[i] = history[i]
      BY <1>7, <1>8, <3>1, AppendProperties
    <3>4. undisturbed' = IF calls[n].interrupted THEN undisturbed ELSE undisturbed \cup {m + 1}
      BY <1>1, <1>7, <2>1 DEF Machine!Move
    <3>5. undisturbed' \subseteq 1 .. m + 1
      BY <2>0, <3>4
    <3>6. \A i \in 1 .. m :
            \E j \in DOMAIN table : /\ table[j].to = history'[i + 1]
                                   /\ i + 1 \in undisturbed' => table[j].from = history'[i]
      <4> SUFFICES ASSUME NEW i \in 1 .. m
                   PROVE  \E j \in DOMAIN table : /\ table[j].to = history'[i + 1]
                                                 /\ i + 1 \in undisturbed' => table[j].from = history'[i]
        OBVIOUS
      <4>1. CASE i = m
        <5>1. m + 1 \notin undisturbed
          BY <2>0
        <5>2. m + 1 \in undisturbed' => table[k].from = history'[m]
          BY <1>4, <1>9, <2>1, <3>3, <3>4, <5>1
        <5> QED BY <1>3, <3>2, <4>1, <5>2
      <4>2. CASE i # m
        <5>1. i \in 1 .. m - 1 /\ i + 1 \in 1 .. m /\ i + 1 # m + 1
          BY <4>2
        <5>2. i + 1 \in undisturbed' => i + 1 \in undisturbed
          BY <3>4, <5>1
        <5> QED BY <1>9, <3>3, <5>1, <5>2
      <4> QED BY <4>1, <4>2
    <3> QED BY <1>3, <3>2, <3>5, <3>6 DEF Machine!HistoryFollowsTable, Machine!Last
  <2>2. CASE ~(m < HistoryCap)
    <3>1. history' = history /\ undisturbed' = undisturbed
      BY <1>7, <2>2 DEF Machine!Move
    <3> QED BY <1>3, <1>7, <1>9, <2>0, <2>2, <3>1
            DEF Machine!HistoryFollowsTable, Machine!Last, MachineInv, MachineTyped
  <2> QED BY <2>1, <2>2
<1>11. MachineTyped'
  BY <1>3, <1>6, <1>8, <1>10 DEF MachineInv, MachineTyped, Calls
<1>12. OuterCallsPassed' /\ Machine!PendingCallsAreCurrent'
  <2>1. Len(calls') \in Nat /\ DOMAIN calls' = 1 .. Len(calls')
    BY <1>6, LenProperties
  <2>2. \A i \in 1 .. Len(calls') : calls'[i].at = "enter" \/ calls'[i].interrupted
    BY <1>6 DEF Passed
  <2> QED BY <2>1, <2>2 DEF OuterCallsPassed, Passed, Machine!PendingCallsAreCurrent
<1> QED BY <1>10, <1>11, <1>12 DEF MachineInv, MachineFollowsTable

(***************************************************************************)
(* However calls nest, from any callback, the history walks along the      *)
(* table but for the moves of interrupted calls, which still go to the     *)
(* target of a row, and every call that has not moved and was not          *)
(* interrupted is about to leave the state the machine is in.  The         *)
(* invariant is inductive because every call under the innermost has moved *)
(* or was interrupted.                                                     *)
(***************************************************************************)
THEOREM MachinesFollowTheirTable == Machine!Spec => []MachineFollowsTable
<1>1. Machine!Init => MachineInv
  <2> SUFFICES ASSUME Machine!Init PROVE MachineInv
    OBVIOUS
  <2>1. /\ table \in Seq(Rows) /\ current \in States /\ history = <<current>> /\ calls = <<>>
        /\ undisturbed = {}
    BY MachineAssumption DEF Machine!Init, Machine!TablesAssumption, Rows
  <2>2. history \in Seq(States) /\ Len(history) = 1 /\ history[1] = current /\ history # <<>>
    BY <2>1
  <2>3. calls \in Seq(Calls) /\ Len(calls) = 0 /\ DOMAIN calls = {}
    BY <2>1
  <2> QED BY <2>1, <2>2, <2>3
          DEF MachineInv, MachineTyped, OuterCallsPassed, MachineFollowsTable,
              Machine!HistoryFollowsTable, Machine!PendingCallsAreCurrent, Machine!Last
<1>2. MachineInv /\ [Machine!Next]_(Machine!vars) => MachineInv'
  <2> SUFFICES ASSUME MachineInv, [Machine!Next]_(Machine!vars) PROVE MachineInv'
    OBVIOUS
  <2>1. ASSUME NEW e \in Events, Machine!Fire(e) PROVE MachineInv'
    BY <2>1, FireKeeps
  <2>2. CASE UNCHANGED <<table, current, history, calls, undisturbed>>
    BY <2>2 DEF MachineInv, MachineTyped, Calls, OuterCallsPassed, Passed, MachineFollowsTable,
                Machine!HistoryFollowsTable, Machine!PendingCallsAreCurrent, Machine!Last
  <2>3. CASE Machine!ExitReturns
    BY <2>3, GotoKeeps DEF Machine!ExitReturns, CallSteps
  <2>4. CASE Machine!Act
    BY <2>4, GotoKeeps DEF Machine!Act, CallSteps
  <2>5. CASE Machine!ActionReturns
    BY <2>5, GotoKeeps DEF Machine!ActionReturns, CallSteps
  <2>6. CASE Machine!Move
    BY <2>6, MoveKeeps
  <2>7. CASE Machine!EnterReturns
    BY <2>7, EnterReturnsKeeps
  <2> QED BY <2>1, <2>2, <2>3, <2>4, <2>5, <2>6, <2>7 DEF Machine!Next, Machine!FireUnmatched, Machine!vars
<1>3. MachineInv => MachineFollowsTable
  BY DEF MachineInv
<1> QED BY <1>1, <1>2, <1>3, PTL DEF Machine!Spec

-----------------------------------------------------------------------------
(* The trees of the planners: inductions over them *)

\* Induction up to n: what 0 has, and i + 1 with every i below n.
LEMMA UpTo ==
  ASSUME NEW n \in Nat, NEW T, 0 \in T, \A i \in 0 .. n - 1 : i \in T => i + 1 \in T
  PROVE  \A i \in 0 .. n : i \in T
<1> DEFINE Out == {i \in 0 .. n : i \notin T}
<1> SUFFICES ASSUME Out # {} PROVE FALSE
  OBVIOUS
<1>1. PICK i \in Out : \A j \in Out : i <= j
  <2>1. Out \in SUBSET Nat
    OBVIOUS
  <2> HIDE DEF Out
  <2> QED BY <2>1, LeastOfSet
<1>2. i # 0 /\ i - 1 \in 0 .. n - 1 /\ i - 1 \notin Out
  BY <1>1
<1> QED BY <1>2

-----------------------------------------------------------------------------
(* Planners: points and trees *)

\* Distances are a metric.
LEMMA Metric ==
  ASSUME NEW u \in Points, NEW v \in Points
  PROVE  /\ Distance(u, v) \in Nat /\ Distance(u, v) = Distance(v, u)
         /\ \A w \in Points : Distance(u, w) <= Distance(u, v) + Distance(v, w)
         /\ Distance(u, u) = 0
BY TreesAssumption DEF Trees!RRTAssumption

\* Obstacles are wider than a step, and lie on a segment whichever way it is taken.
LEMMA StepsAreFree ==
  ASSUME NEW u \in Points, NEW v \in Points, Distance(u, v) <= Step
  PROVE  Trees!SegmentFree(u, v) /\ Trees!SegmentFree(v, u)
<1>1. {u, v} \notin Blocked
  <2>1. Step \in Nat \ {0} /\ Distance(u, v) \in Nat
    BY Metric, TreesAssumption DEF Trees!RRTAssumption
  <2>2. {u, v} \in Blocked => Distance(u, v) >= 2 * Step
    BY TreesAssumption DEF Trees!RRTAssumption
  <2> QED BY <2>1, <2>2
<1>2. {v, u} = {u, v}
  OBVIOUS
<1> QED BY <1>1, <1>2 DEF Trees!SegmentFree

LEMMA FreeBothWays ==
  ASSUME NEW u, NEW v, Trees!SegmentFree(u, v)
  PROVE  Trees!SegmentFree(v, u)
<1>1. {v, u} = {u, v}
  OBVIOUS
<1> QED BY <1>1 DEF Trees!SegmentFree

PlanNodes == [at : Points, parent : Nat, cost : Nat \cup {Trees!Unknown}]
Known(t, i) == t[i].cost # Trees!Unknown

\* Parents are nodes, a free segment away.
Hops(t) ==
  \A i \in 1 .. Len(t) :
     t[i].parent # 0 => /\ t[i].parent \in 1 .. Len(t)
                        /\ Trees!SegmentFree(t[t[i].parent].at, t[i].at)

\* A node whose cost is known costs its parent's and the segment between at least.
Rises(t) ==
  \A i \in 1 .. Len(t) :
     Known(t, i) /\ t[i].parent # 0 =>
        /\ Known(t, t[i].parent)
        /\ t[t[i].parent].cost + Distance(t[t[i].parent].at, t[i].at) <= t[i].cost

\* No set of nodes has the parents of all its members: the parents form no ring.
NoRing(t) == \A S \in SUBSET (1 .. Len(t)) : S # {} => \E i \in S : t[i].parent \notin S

PlanForest(t) == t \in Seq(PlanNodes) /\ t # <<>> /\ Hops(t) /\ Rises(t) /\ NoRing(t)
Rooted(t) == PlanForest(t) /\ \A i \in 1 .. Len(t) : t[i].parent = 0 <=> i = 1

LEMMA NodesAre ==
  ASSUME NEW t \in Seq(PlanNodes)
  PROVE  /\ Len(t) \in Nat /\ DOMAIN t = 1 .. Len(t)
         /\ \A i \in 1 .. Len(t) : /\ t[i] \in PlanNodes /\ t[i].at \in Points /\ t[i].parent \in Nat
                                   /\ t[i].cost \in Nat \cup {Trees!Unknown}
<1>1. Len(t) \in Nat /\ DOMAIN t = 1 .. Len(t) /\ \A i \in 1 .. Len(t) : t[i] \in PlanNodes
  OBVIOUS
<1>2. \A x \in PlanNodes : x.at \in Points /\ x.parent \in Nat /\ x.cost \in Nat \cup {Trees!Unknown}
  BY DEF PlanNodes
<1> QED BY <1>1, <1>2

LEMMA LoneNode ==
  ASSUME NEW p \in Points, NEW c \in Nat \cup {Trees!Unknown}
  PROVE  Rooted(<<Trees!Node(p, 0, c)>>)
<1> DEFINE t == <<Trees!Node(p, 0, c)>>
<1>1. t \in Seq(PlanNodes) /\ Len(t) = 1 /\ t[1].parent = 0 /\ t # <<>>
  BY DEF Trees!Node, PlanNodes
<1> HIDE DEF t
<1>2. \A i \in 1 .. Len(t) : i = 1
  BY <1>1
<1>3. NoRing(t)
  <2> SUFFICES ASSUME NEW S \in SUBSET (1 .. Len(t)), S # {} PROVE \E i \in S : t[i].parent \notin S
    BY DEF NoRing
  <2>1. PICK i \in S : TRUE
    OBVIOUS
  <2>2. i = 1 /\ 0 \notin S
    BY <1>1, <1>2
  <2> QED BY <1>1, <2>1, <2>2
<1>4. Hops(t) /\ Rises(t)
  BY <1>1, <1>2 DEF Hops, Rises
<1>5. Rooted(t)
  BY <1>1, <1>2, <1>3, <1>4 DEF Rooted, PlanForest
<1> QED BY <1>5 DEF t

-----------------------------------------------------------------------------
(* Branches *)

\* Each node of a walk is the parent of the next.
Walk(t, c) ==
  /\ c \in Seq(1 .. Len(t)) /\ c # <<>>
  /\ \A k \in 1 .. Len(c) - 1 : t[c[k + 1]].parent = c[k]

\* A walk from node i toward the root that has ended, or has k nodes.
Climbing(t, i, c, k) == Walk(t, c) /\ c[Len(c)] = i /\ (t[c[1]].parent = 0 \/ Len(c) = k)

\* The recursive function exists, and its equations hold.
LEMMA ClimbSteps ==
  ASSUME NEW t, Len(t) \in Nat, Len(t) # 0, NEW i
  PROVE  /\ Trees!Climb(t, i)[1] = <<i>>
         /\ \A k \in 1 .. Len(t) - 1 :
              Trees!Climb(t, i)[k + 1] =
                 LET rest == Trees!Climb(t, i)[k]
                     p == t[Head(rest)].parent
                 IN IF p = 0 THEN rest ELSE <<p>> \o rest
<1> DEFINE Up(rest) == IF t[Head(rest)].parent = 0 THEN rest ELSE <<t[Head(rest)].parent>> \o rest
           Ok(f, n) == f = [k \in 1 .. n |-> IF k = 1 THEN <<i>> ELSE Up(f[k - 1])]
           T == {n \in 0 .. Len(t) - 1 : \E f : Ok(f, n + 1)}
<1>1. 0 \in T
  <2>1. Ok([k \in 1 .. 1 |-> <<i>>], 1)
    OBVIOUS
  <2> HIDE DEF Ok
  <2> QED BY <2>1
<1>2. ASSUME NEW n \in 0 .. Len(t) - 1 - 1, n \in T PROVE n + 1 \in T
  <2>1. PICK f : Ok(f, n + 1)
    BY <1>2
  <2> DEFINE g == [k \in 1 .. n + 2 |-> IF k = n + 2 THEN Up(f[n + 1]) ELSE f[k]]
  <2> HIDE DEF Up
  <2>2. Ok(g, n + 1 + 1)
    <3>1. \A k \in 1 .. n + 1 : f[k] = IF k = 1 THEN <<i>> ELSE Up(f[k - 1])
      BY <2>1
    <3>2. \A k \in 1 .. n + 2 : g[k] = IF k = 1 THEN <<i>> ELSE Up(g[k - 1])
      BY <3>1
    <3>3. n + 1 + 1 = n + 2 /\ g = [k \in 1 .. n + 2 |-> g[k]]
      OBVIOUS
    <3> HIDE DEF g
    <3> QED BY <3>2, <3>3
  <2> HIDE DEF Ok, g
  <2> QED BY <2>2
<1> HIDE DEF Ok
<1>3. Len(t) - 1 \in T
  <2> HIDE DEF T
  <2>1. Len(t) - 1 \in Nat
    OBVIOUS
  <2>2. \A n \in 0 .. Len(t) - 1 : n \in T
    BY <1>1, <1>2, <2>1, UpTo
  <2> QED BY <2>1, <2>2
<1>4. PICK f : Ok(f, Len(t))
  BY <1>3
<1>5. Ok(Trees!Climb(t, i), Len(t))
  BY <1>4 DEF Trees!Climb, Ok
<1> HIDE DEF Up
<1>6. \A k \in 1 .. Len(t) : Trees!Climb(t, i)[k] = IF k = 1 THEN <<i>> ELSE Up(Trees!Climb(t, i)[k - 1])
  BY <1>5 DEF Ok
<1>7. \A k \in 1 .. Len(t) - 1 : Trees!Climb(t, i)[k + 1] = Up(Trees!Climb(t, i)[k])
  BY <1>6
<1>8. Trees!Climb(t, i)[1] = <<i>>
  BY <1>6
<1> QED BY <1>7, <1>8 DEF Up
\* A walk in a forest is no longer than the forest has nodes without coming to
\* a node without parent: it would have passed a node twice, or all of them.
LEMMA WalksEnd ==
  ASSUME NEW t \in Seq(PlanNodes), t # <<>>, Hops(t), NoRing(t), NEW c, Walk(t, c), Len(c) = Len(t)
  PROVE  t[c[1]].parent = 0
<1> SUFFICES ASSUME t[c[1]].parent # 0 PROVE FALSE
  OBVIOUS
<1> DEFINE n == Len(t)
<1>1. n \in Nat \ {0} /\ Len(c) = n /\ \A k \in 1 .. n : c[k] \in 1 .. n
  BY DEF Walk
<1>2. \A k \in 2 .. n : t[c[k]].parent = c[k - 1]
  <2>1. ASSUME NEW k \in 2 .. n PROVE t[c[k]].parent = c[k - 1]
    <3>1. k - 1 \in 1 .. Len(c) - 1 /\ k - 1 + 1 = k
      BY <1>1
    <3> QED BY <3>1 DEF Walk
  <2> QED BY <2>1
<1> HIDE DEF n
<1>3. \A i, j \in 1 .. n : i < j => c[i] # c[j]
  <2> SUFFICES ASSUME NEW i \in 1 .. n, NEW j \in 1 .. n, i < j, c[i] = c[j] PROVE FALSE
    OBVIOUS
  <2> DEFINE S == {c[k] : k \in i + 1 .. j}
  <2>1. S # {} /\ S \in SUBSET (1 .. n)
    BY <1>1
  <2>2. ASSUME NEW x \in S PROVE t[x].parent \in S
    <3>1. PICK k \in i + 1 .. j : x = c[k]
      OBVIOUS
    <3>2. k \in 2 .. n /\ t[x].parent = c[k - 1]
      <4>1. \A d, e \in 1 .. n : \A m \in d + 1 .. e : m \in 2 .. n
        <5>1. n \in Nat
          BY <1>1
        <5> QED BY <5>1
      <4>2. k \in 2 .. n
        BY <3>1, <4>1
      <4> QED BY <1>2, <3>1, <4>2
    <3>3. CASE k = i + 1
      <4>1. c[k - 1] = c[j] /\ j \in i + 1 .. j
        BY <1>1, <3>3
      <4> QED BY <3>2, <4>1
    <3>4. CASE k # i + 1
      <4>1. k - 1 \in i + 1 .. j
        BY <1>1, <3>4
      <4> QED BY <3>2, <4>1
    <3> QED BY <3>3, <3>4
  <2> QED BY <2>1, <2>2 DEF NoRing, n
<1> DEFINE f == [k \in 1 .. n |-> c[k]]
<1>4. f \in Injection(1 .. n, 1 .. n)
  <2>1. f \in [1 .. n -> 1 .. n]
    BY <1>1
  <2>2. \A i, j \in 1 .. n : f[i] = f[j] => i = j
    <3> SUFFICES ASSUME NEW i \in 1 .. n, NEW j \in 1 .. n, c[i] = c[j] PROVE i = j
      OBVIOUS
    <3>1. ~(i < j) /\ ~(j < i) /\ i \in Int /\ j \in Int
      BY <1>1, <1>3
    <3> QED BY <3>1
  <2> HIDE DEF f
  <2> QED BY <2>1, <2>2 DEF Injection, IsInjective
<1>5. f \in Surjection(1 .. n, 1 .. n)
  <2>1. IsFiniteSet(1 .. n)
    BY <1>1, FS_Interval
  <2> HIDE DEF f
  <2> QED BY <1>4, <2>1, FS_Injection
<1>6. \A x \in 1 .. n : \E k \in 1 .. n : c[k] = x
  BY <1>5 DEF Surjection
<1>7. ASSUME NEW x \in 1 .. n PROVE t[x].parent \in 1 .. n
  <2>1. PICK k \in 1 .. n : c[k] = x
    BY <1>6
  <2>2. CASE k = 1
    BY <2>1, <2>2 DEF Hops, n
  <2>3. CASE k # 1
    <3>1. k \in 2 .. n /\ k - 1 \in 1 .. n
      BY <1>1, <2>3
    <3> QED BY <1>1, <1>2, <2>1, <3>1
  <2> QED BY <2>2, <2>3
<1>8. (1 .. n) \in SUBSET (1 .. n) /\ (1 .. n) # {}
  <2>1. 1 \in 1 .. n
    BY <1>1
  <2> QED BY <2>1
<1> QED BY <1>7, <1>8 DEF NoRing, n

\* A branch is a walk from a node without parent to the node.
LEMMA BranchWalks ==
  ASSUME NEW t, PlanForest(t), NEW i \in 1 .. Len(t)
  PROVE  /\ Walk(t, Trees!Branch(t, i))
         /\ t[Trees!Branch(t, i)[1]].parent = 0
         /\ Trees!Branch(t, i)[Len(Trees!Branch(t, i))] = i
<1> DEFINE n == Len(t)
           C(k) == Trees!Climb(t, i)[k]
           T == {k \in 0 .. n - 1 : Climbing(t, i, C(k + 1), k + 1)}
<1>1. n \in Nat \ {0} /\ t \in Seq(PlanNodes) /\ Hops(t) /\ NoRing(t)
  BY DEF PlanForest
<1>2. C(1) = <<i>>
  BY <1>1, ClimbSteps
<1>3. \A k \in 1 .. n - 1 :
         C(k + 1) = IF t[Head(C(k))].parent = 0 THEN C(k) ELSE <<t[Head(C(k))].parent>> \o C(k)
  BY <1>1, ClimbSteps
<1> HIDE DEF C
<1>4. 0 \in T
  <2>1. <<i>> \in Seq(1 .. Len(t)) /\ Len(<<i>>) = 1 /\ <<i>>[1] = i /\ <<i>> # <<>>
    OBVIOUS
  <2>2. Climbing(t, i, <<i>>, 1)
    BY <2>1 DEF Climbing, Walk
  <2> QED BY <1>1, <1>2, <2>2
<1>5. ASSUME NEW k \in 0 .. n - 1 - 1, k \in T PROVE k + 1 \in T
  <2> DEFINE c == C(k + 1)
  <2>1. Climbing(t, i, c, k + 1)
    BY <1>5
  <2> DEFINE Up == IF t[Head(c)].parent = 0 THEN c ELSE <<t[Head(c)].parent>> \o c
  <2>0. C(k + 1 + 1) = Up
    <3>1. k + 1 \in 1 .. n - 1
      BY <1>1
    <3> QED BY <1>3, <3>1, Zenon
  <2> HIDE DEF c
  <2>2. /\ c \in Seq(1 .. Len(t)) /\ Len(c) \in Nat \ {0} /\ Head(c) = c[1] /\ c[1] \in 1 .. Len(t)
        /\ c[Len(c)] = i
    BY <2>1 DEF Climbing, Walk
  <2>3. CASE t[c[1]].parent = 0
    <3>1. C(k + 1 + 1) = c
      BY <2>0, <2>2, <2>3
    <3>2. Climbing(t, i, c, k + 1 + 1)
      BY <2>1, <2>3 DEF Climbing
    <3> QED BY <1>1, <3>1, <3>2
  <2>4. CASE t[c[1]].parent # 0
    <3> DEFINE p == t[c[1]].parent
               d == <<p>> \o c
    <3>1. C(k + 1 + 1) = d
      BY <2>0, <2>2, <2>4
    <3>2. p \in 1 .. Len(t)
      BY <1>1, <2>2, <2>4 DEF Hops
    <3> HIDE DEF p
    <3>3. /\ d \in Seq(1 .. Len(t)) /\ Len(d) = Len(c) + 1 /\ d[1] = p /\ d # <<>>
          /\ \A j \in 1 .. Len(c) : d[j + 1] = c[j]
      BY <2>2, <3>2
    <3> HIDE DEF d
    <3>4. Len(c) = k + 1
      BY <2>1, <2>4 DEF Climbing
    <3>5. ASSUME NEW j \in 1 .. Len(d) - 1 PROVE t[d[j + 1]].parent = d[j]
      <4>1. CASE j = 1
        <5>1. d[j + 1] = c[1]
          BY <2>2, <3>3, <4>1
        <5> QED BY <3>3, <4>1, <5>1 DEF p
      <4>2. CASE j # 1
        <5>1. j - 1 \in 1 .. Len(c) - 1 /\ j - 1 \in 1 .. Len(c) /\ j - 1 + 1 = j /\ j \in 1 .. Len(c)
          BY <2>2, <3>3, <4>2
        <5>2. d[j + 1] = c[j] /\ d[j] = c[j - 1]
          BY <3>3, <5>1
        <5>3. t[c[j]].parent = c[j - 1]
          BY <2>1, <5>1 DEF Climbing, Walk
        <5> QED BY <5>2, <5>3
      <4> QED BY <4>1, <4>2
    <3>6. d[Len(d)] = i
      <4>1. Len(c) \in 1 .. Len(c)
        BY <2>2
      <4> QED BY <2>2, <3>3, <4>1
    <3>7. Climbing(t, i, d, k + 1 + 1)
      BY <3>3, <3>4, <3>5, <3>6 DEF Climbing, Walk
    <3> QED BY <1>1, <3>1, <3>7
  <2> QED BY <2>3, <2>4
<1>6. n - 1 \in T
  <2> HIDE DEF T
  <2>1. n - 1 \in Nat
    BY <1>1
  <2>2. \A k \in 0 .. n - 1 : k \in T
    BY <1>4, <1>5, <2>1, UpTo
  <2> QED BY <2>1, <2>2
<1>7. Climbing(t, i, C(n), n) /\ C(n) = Trees!Branch(t, i)
  <2>1. n - 1 + 1 = n
    BY <1>1
  <2> QED BY <1>6, <2>1 DEF C, Trees!Branch
<1>8. t[C(n)[1]].parent = 0
  BY <1>1, <1>7, WalksEnd DEF Climbing, PlanForest
<1> QED BY <1>7, <1>8 DEF Climbing
\* All hops of a walk are free, and the walk from the root of a tree starts there.
LEMMA WalksAreFree ==
  ASSUME NEW t, PlanForest(t), NEW c, Walk(t, c)
  PROVE  /\ \A k \in 1 .. Len(c) - 1 : Trees!SegmentFree(t[c[k]].at, t[c[k + 1]].at)
         /\ Rooted(t) /\ t[c[1]].parent = 0 => c[1] = 1
<1>1. ASSUME NEW k \in 1 .. Len(c) - 1 PROVE Trees!SegmentFree(t[c[k]].at, t[c[k + 1]].at)
  <2>1. c[k] \in 1 .. Len(t) /\ c[k + 1] \in 1 .. Len(t) /\ t[c[k + 1]].parent = c[k]
    BY DEF Walk
  <2> QED BY <2>1 DEF PlanForest, Hops
<1>2. c[1] \in 1 .. Len(t)
  BY DEF Walk
<1> QED BY <1>1, <1>2 DEF Rooted

-----------------------------------------------------------------------------
(* Lengths *)

LEMMA AlongSteps ==
  ASSUME NEW t, NEW c, Len(c) \in Nat, Len(c) # 0
  PROVE  /\ Trees!Along(t, c)[1] = 0
         /\ \A k \in 1 .. Len(c) - 1 :
              Trees!Along(t, c)[k + 1] = Trees!Along(t, c)[k] + Distance(t[c[k]].at, t[c[k + 1]].at)
<1> DEFINE Far(k) == Distance(t[c[k]].at, t[c[k + 1]].at)
           Ok(f, n) == f = [k \in 1 .. n |-> IF k = 1 THEN 0
                                             ELSE f[k - 1] + Distance(t[c[k - 1]].at, t[c[k]].at)]
           T == {n \in 0 .. Len(c) - 1 : \E f : Ok(f, n + 1)}
<1>1. 0 \in T
  <2>1. Ok([k \in 1 .. 1 |-> 0], 1)
    OBVIOUS
  <2> HIDE DEF Ok
  <2> QED BY <2>1
<1>2. ASSUME NEW n \in 0 .. Len(c) - 1 - 1, n \in T PROVE n + 1 \in T
  <2>1. PICK f : Ok(f, n + 1)
    BY <1>2
  <2> DEFINE g == [k \in 1 .. n + 2 |->
                     IF k = n + 2 THEN f[n + 1] + Distance(t[c[n + 1]].at, t[c[n + 2]].at) ELSE f[k]]
  <2>2. Ok(g, n + 1 + 1)
    <3>1. \A k \in 1 .. n + 1 : f[k] = IF k = 1 THEN 0
                                       ELSE f[k - 1] + Distance(t[c[k - 1]].at, t[c[k]].at)
      BY <2>1
    <3>2. ASSUME NEW k \in 1 .. n + 2
          PROVE  g[k] = IF k = 1 THEN 0 ELSE g[k - 1] + Distance(t[c[k - 1]].at, t[c[k]].at)
      <4>1. CASE k = n + 2
        <5>1. k - 1 = n + 1 /\ n + 1 \in 1 .. n + 2 /\ n + 1 # n + 2 /\ k # 1
          BY <4>1
        <5> QED BY <4>1, <5>1
      <4>2. CASE k # n + 2
        <5>1. k \in 1 .. n + 1 /\ (k # 1 => k - 1 \in 1 .. n + 1)
          BY <4>2
        <5>2. g[k] = f[k] /\ (k # 1 => g[k - 1] = f[k - 1])
          BY <4>2, <5>1
        <5> HIDE DEF g
        <5> QED BY <3>1, <5>1, <5>2
      <4> QED BY <4>1, <4>2
    <3>3. n + 1 + 1 = n + 2 /\ g = [k \in 1 .. n + 2 |-> g[k]]
      OBVIOUS
    <3> HIDE DEF g
    <3> QED BY <3>2, <3>3
  <2> HIDE DEF Ok, g
  <2> QED BY <2>2
<1> HIDE DEF Ok
<1>3. Len(c) - 1 \in T
  <2> HIDE DEF T
  <2>1. Len(c) - 1 \in Nat
    OBVIOUS
  <2>2. \A n \in 0 .. Len(c) - 1 : n \in T
    BY <1>1, <1>2, <2>1, UpTo
  <2> QED BY <2>1, <2>2
<1>4. PICK f : Ok(f, Len(c))
  BY <1>3
<1>5. Ok(Trees!Along(t, c), Len(c))
  BY <1>4 DEF Trees!Along, Ok
<1>6. \A k \in 1 .. Len(c) : Trees!Along(t, c)[k] =
         IF k = 1 THEN 0 ELSE Trees!Along(t, c)[k - 1] + Distance(t[c[k - 1]].at, t[c[k]].at)
  BY <1>5 DEF Ok
<1>7. ASSUME NEW k \in 1 .. Len(c) - 1
      PROVE  Trees!Along(t, c)[k + 1] = Trees!Along(t, c)[k] + Distance(t[c[k]].at, t[c[k + 1]].at)
  <2>1. k + 1 \in 1 .. Len(c) /\ k + 1 # 1 /\ k + 1 - 1 = k
    OBVIOUS
  <2> QED BY <1>6, <2>1
<1>8. Trees!Along(t, c)[1] = 0
  BY <1>6
<1> QED BY <1>7, <1>8

\* Lengths are numbers.
LEMMA AlongNat ==
  ASSUME NEW t \in Seq(PlanNodes), NEW c \in Seq(1 .. Len(t)), c # <<>>
  PROVE  /\ \A k \in 1 .. Len(c) : Trees!Along(t, c)[k] \in Nat
         /\ Trees!Length(t, c) \in Nat
<1> DEFINE a == Trees!Along(t, c)
           T == {k \in 0 .. Len(c) - 1 : a[k + 1] \in Nat}
<1>1. /\ Len(c) \in Nat \ {0} /\ a[1] = 0
      /\ \A k \in 1 .. Len(c) - 1 : a[k + 1] = a[k] + Distance(t[c[k]].at, t[c[k + 1]].at)
  BY AlongSteps
<1>2. \A k \in 1 .. Len(c) : t[c[k]].at \in Points
  BY NodesAre
<1> HIDE DEF a
<1>3. 0 \in T
  BY <1>1
<1>4. ASSUME NEW k \in 0 .. Len(c) - 1 - 1, k \in T PROVE k + 1 \in T
  <2>1. k + 1 \in 1 .. Len(c) - 1 /\ k + 1 \in 1 .. Len(c) /\ k + 1 + 1 \in 1 .. Len(c)
    BY <1>1
  <2>2. Distance(t[c[k + 1]].at, t[c[k + 1 + 1]].at) \in Nat
    BY <1>2, <2>1, Metric
  <2>3. a[k + 1 + 1] = a[k + 1] + Distance(t[c[k + 1]].at, t[c[k + 1 + 1]].at)
    BY <1>1, <2>1
  <2> QED BY <1>1, <1>4, <2>1, <2>2, <2>3
<1>5. \A k \in 0 .. Len(c) - 1 : k \in T
  <2> HIDE DEF T
  <2>1. Len(c) - 1 \in Nat
    BY <1>1
  <2> QED BY <1>3, <1>4, <2>1, UpTo
<1>6. ASSUME NEW k \in 1 .. Len(c) PROVE a[k] \in Nat
  <2>1. k - 1 \in 0 .. Len(c) - 1 /\ k - 1 + 1 = k
    BY <1>1
  <2> QED BY <1>5, <2>1
<1>7. a[Len(c)] \in Nat
  BY <1>1, <1>6
<1> QED BY <1>6, <1>7 DEF a, Trees!Length

\* A walk to a node of known cost is not longer than that.
LEMMA WalksCost ==
  ASSUME NEW t, PlanForest(t), NEW c, Walk(t, c), Known(t, c[Len(c)])
  PROVE  Trees!Length(t, c) <= t[c[Len(c)]].cost
<1> DEFINE a == Trees!Along(t, c)
           T == {k \in 0 .. Len(c) - 1 : Known(t, c[k + 1]) => a[k + 1] <= t[c[k + 1]].cost}
<1>0. t \in Seq(PlanNodes) /\ c \in Seq(1 .. Len(t)) /\ c # <<>> /\ Len(c) \in Nat \ {0}
  BY DEF PlanForest, Walk
<1>1. /\ a[1] = 0
      /\ \A k \in 1 .. Len(c) - 1 : a[k + 1] = a[k] + Distance(t[c[k]].at, t[c[k + 1]].at)
  BY <1>0, AlongSteps
<1>2. \A k \in 1 .. Len(c) : a[k] \in Nat
  BY <1>0, AlongNat
<1>3. \A k \in 1 .. Len(c) : /\ c[k] \in 1 .. Len(t) /\ t[c[k]].at \in Points
                             /\ t[c[k]].cost \in Nat \cup {Trees!Unknown}
  BY <1>0, NodesAre
<1> HIDE DEF a
<1>4. 0 \in T
  <2>1. 1 \in 1 .. Len(c) /\ 0 + 1 = 1 /\ 0 \in 0 .. Len(c) - 1
    BY <1>0
  <2>2. Known(t, c[1]) => 0 <= t[c[1]].cost
    BY <1>3, <2>1 DEF Known
  <2>3. Known(t, c[0 + 1]) => a[0 + 1] <= t[c[0 + 1]].cost
    BY <1>1, <2>1, <2>2 DEF Known
  <2> QED BY <2>1, <2>3 DEF Known
<1>5. ASSUME NEW k \in 0 .. Len(c) - 1 - 1, k \in T PROVE k + 1 \in T
  <2> DEFINE i == k + 1
             j == i + 1
  <2>1. i \in 1 .. Len(c) - 1 /\ i \in 1 .. Len(c) /\ j \in 1 .. Len(c) /\ i \in 0 .. Len(c) - 1
    BY <1>0
  <2>2. a[j] = a[i] + Distance(t[c[i]].at, t[c[j]].at)
    BY <1>1, <2>1
  <2>3. t[c[j]].parent = c[i]
    BY <2>1 DEF Walk
  <2>4. Known(t, c[i]) => a[i] <= t[c[i]].cost
    BY <1>5
  <2>5. SUFFICES ASSUME Known(t, c[j]) PROVE a[j] <= t[c[j]].cost
    BY <2>1
  <2> HIDE DEF i, j
  <2>6. c[i] # 0
    BY <1>3, <2>1
  <2>7. Known(t, c[i]) /\ t[c[i]].cost + Distance(t[c[i]].at, t[c[j]].at) <= t[c[j]].cost
    BY <1>3, <2>1, <2>3, <2>5, <2>6 DEF PlanForest, Rises
  <2>8. Distance(t[c[i]].at, t[c[j]].at) \in Nat
    BY <1>3, <2>1, Metric
  <2>9. t[c[i]].cost \in Nat /\ t[c[j]].cost \in Nat
    BY <1>3, <2>1, <2>5, <2>7 DEF Known
  <2>10. a[i] \in Nat
    BY <1>2, <2>1
  <2>11. a[i] <= t[c[i]].cost
    BY <2>4, <2>7
  <2>12. \A p, q, dist, u, v \in Int : q = p + dist /\ p <= u /\ u + dist <= v => q <= v
    OBVIOUS
  <2> QED BY <2>2, <2>7, <2>8, <2>9, <2>10, <2>11, <2>12
<1>6. \A k \in 0 .. Len(c) - 1 : k \in T
  <2> HIDE DEF T
  <2>1. Len(c) - 1 \in Nat
    BY <1>0
  <2> QED BY <1>4, <1>5, <2>1, UpTo
<1>7. Len(c) - 1 \in T /\ Len(c) - 1 + 1 = Len(c)
  <2>1. Len(c) - 1 \in 0 .. Len(c) - 1 /\ Len(c) - 1 + 1 = Len(c)
    BY <1>0
  <2> HIDE DEF T
  <2> QED BY <1>6, <2>1
<1>8. Known(t, c[Len(c)]) => a[Len(c)] <= t[c[Len(c)]].cost
  BY <1>7 DEF Known
<1> QED BY <1>8 DEF a, Trees!Length

\* What a shortcut leaves of a path.
Cut(p, i, j) == SubSeq(p, 1, i) \o SubSeq(p, j, Len(p))

LEMMA CutIs ==
  ASSUME NEW V, NEW p \in Seq(V), NEW i \in 1 .. Len(p), NEW j \in 1 .. Len(p), i + 2 <= j
  PROVE  /\ Cut(p, i, j) \in Seq(V) /\ Cut(p, i, j) # <<>>
         /\ Len(Cut(p, i, j)) = i + Len(p) - j + 1
         /\ \A k \in 1 .. i : Cut(p, i, j)[k] = p[k]
         /\ \A k \in 0 .. Len(p) - j : Cut(p, i, j)[i + 1 + k] = p[j + k]
<1> DEFINE u == SubSeq(p, 1, i)
           w == SubSeq(p, j, Len(p))
<1>1. u \in Seq(V) /\ Len(u) = i /\ \A k \in 1 .. i : u[k] = p[k]
  OBVIOUS
<1>2. w \in Seq(V) /\ Len(w) = Len(p) - j + 1 /\ \A k \in 1 .. Len(p) - j + 1 : w[k] = p[j + k - 1]
  OBVIOUS
<1> HIDE DEF u, w
<1>3. /\ u \o w \in Seq(V) /\ Len(u \o w) = i + Len(p) - j + 1
      /\ \A k \in 1 .. i : (u \o w)[k] = p[k]
  <2>1. u \o w \in Seq(V) /\ Len(u \o w) = Len(u) + Len(w)
    BY <1>1, <1>2, ConcatProperties
  <2>2. Len(u) + Len(w) = i + Len(p) - j + 1 /\ i \in Nat
    BY <1>1, <1>2
  <2>3. \A k \in 1 .. Len(u) : (u \o w)[k] = u[k]
    BY <1>1, <1>2
  <2> QED BY <1>1, <2>1, <2>2, <2>3
<1>4. ASSUME NEW k \in 0 .. Len(p) - j PROVE (u \o w)[i + 1 + k] = p[j + k]
  <2>1. k + 1 \in 1 .. Len(p) - j + 1 /\ i + 1 + k > i /\ i + 1 + k <= i + (Len(p) - j + 1)
    OBVIOUS
  <2>2. (u \o w)[i + 1 + k] = w[k + 1]
    BY <1>1, <1>2, <2>1
  <2>3. w[k + 1] = p[j + k]
    BY <1>2, <2>1
  <2> QED BY <2>2, <2>3
<1>5. u \o w # <<>>
  BY <1>3
<1> QED BY <1>3, <1>4, <1>5 DEF u, w, Cut

\* A segment is no longer than the path between its ends.
LEMMA SegmentsAreShort ==
  ASSUME NEW t \in Seq(PlanNodes), NEW p \in Seq(1 .. Len(t)), NEW i \in 1 .. Len(p),
         NEW k \in 0 .. Len(p) - i
  PROVE  Trees!Along(t, p)[i] + Distance(t[p[i]].at, t[p[i + k]].at) <= Trees!Along(t, p)[i + k]
<1> DEFINE a == Trees!Along(t, p)
           n == Len(p) - i
           T == {m \in 0 .. n : a[i] + Distance(t[p[i]].at, t[p[i + m]].at) <= a[i + m]}
<1>1. Len(p) \in Nat \ {0} /\ p # <<>> /\ n \in Nat
  OBVIOUS
<1>2. \A m \in 1 .. Len(p) - 1 : a[m + 1] = a[m] + Distance(t[p[m]].at, t[p[m + 1]].at)
  BY <1>1, AlongSteps
<1>3. \A m \in 1 .. Len(p) : a[m] \in Nat
  BY <1>1, AlongNat
<1>4. \A m \in 1 .. Len(p) : t[p[m]].at \in Points
  BY NodesAre
<1> HIDE DEF a
<1>5. 0 \in T
  <2>1. i + 0 = i /\ Distance(t[p[i]].at, t[p[i]].at) = 0 /\ a[i] \in Nat
    BY <1>3, <1>4, Metric
  <2>2. a[i] + Distance(t[p[i]].at, t[p[i + 0]].at) <= a[i + 0]
    BY <2>1
  <2> QED BY <1>1, <2>2
<1>6. ASSUME NEW m \in 0 .. n - 1, m \in T PROVE m + 1 \in T
  <2> DEFINE d == i + m
             e == i + (m + 1)
  <2>1. d \in 1 .. Len(p) - 1 /\ d \in 1 .. Len(p) /\ e \in 1 .. Len(p) /\ e = d + 1
    BY <1>1
  <2>2. a[i] + Distance(t[p[i]].at, t[p[d]].at) <= a[d]
    BY <1>6
  <2> SUFFICES a[i] + Distance(t[p[i]].at, t[p[e]].at) <= a[e]
    BY <1>1
  <2> HIDE DEF d, e
  <2>3. a[e] = a[d] + Distance(t[p[d]].at, t[p[e]].at)
    BY <1>2, <2>1
  <2>4. /\ Distance(t[p[i]].at, t[p[e]].at)
             <= Distance(t[p[i]].at, t[p[d]].at) + Distance(t[p[d]].at, t[p[e]].at)
        /\ Distance(t[p[i]].at, t[p[e]].at) \in Nat
        /\ Distance(t[p[i]].at, t[p[d]].at) \in Nat
        /\ Distance(t[p[d]].at, t[p[e]].at) \in Nat
    BY <1>4, <2>1, Metric
  <2>5. a[i] \in Nat /\ a[d] \in Nat
    BY <1>3, <2>1
  <2>6. \A u, v, x, y, z \in Nat : u + x <= v /\ z <= x + y => u + z <= v + y
    OBVIOUS
  <2>7. a[i] + Distance(t[p[i]].at, t[p[e]].at) <= a[d] + Distance(t[p[d]].at, t[p[e]].at)
    BY <2>2, <2>4, <2>5, <2>6
  <2> QED BY <2>3, <2>7
<1>7. \A m \in 0 .. n : m \in T
  <2> HIDE DEF T, n
  <2> QED BY <1>1, <1>5, <1>6, UpTo
<1>8. k \in T
  BY <1>7
<1> QED BY <1>8 DEF a

\* A shortcut makes no path longer.
LEMMA CutsShorten ==
  ASSUME NEW t \in Seq(PlanNodes), NEW p \in Seq(1 .. Len(t)), NEW i \in 1 .. Len(p),
         NEW j \in 1 .. Len(p), i + 2 <= j
  PROVE  Trees!Length(t, Cut(p, i, j)) <= Trees!Length(t, p)
<1> DEFINE q == Cut(p, i, j)
           a == Trees!Along(t, p)
           b == Trees!Along(t, q)
           D(x, y) == Distance(t[x].at, t[y].at)
<1>1. /\ q \in Seq(1 .. Len(t)) /\ q # <<>> /\ Len(q) = i + Len(p) - j + 1 /\ Len(q) \in Nat \ {0}
      /\ \A k \in 1 .. i : q[k] = p[k]
      /\ \A k \in 0 .. Len(p) - j : q[i + 1 + k] = p[j + k]
  <2>1. /\ q \in Seq(1 .. Len(t)) /\ q # <<>> /\ Len(q) = i + Len(p) - j + 1
        /\ \A k \in 1 .. i : q[k] = p[k]
        /\ \A k \in 0 .. Len(p) - j : q[i + 1 + k] = p[j + k]
    BY CutIs
  <2>2. i + Len(p) - j + 1 \in Nat \ {0}
    OBVIOUS
  <2> HIDE DEF q
  <2> QED BY <2>1, <2>2
<1> HIDE DEF q
<1>2. /\ Len(p) \in Nat \ {0} /\ p # <<>> /\ a[1] = 0
      /\ \A k \in 1 .. Len(p) - 1 : a[k + 1] = a[k] + D(p[k], p[k + 1])
  BY AlongSteps
<1>3. b[1] = 0 /\ \A k \in 1 .. Len(q) - 1 : b[k + 1] = b[k] + D(q[k], q[k + 1])
  BY <1>1, AlongSteps
<1>4. (\A k \in 1 .. Len(p) : a[k] \in Nat) /\ (\A k \in 1 .. Len(q) : b[k] \in Nat)
  BY <1>1, <1>2, AlongNat
<1>5. \A k \in 0 .. Len(p) - i : a[i] + D(p[i], p[i + k]) <= a[i + k]
  BY SegmentsAreShort
<1>0. \A m \in 1 .. Len(p) : p[m] \in 1 .. Len(t)
  OBVIOUS
<1>6. \A x, y \in 1 .. Len(t) : D(x, y) \in Nat
  BY NodesAre, Metric
<1> HIDE DEF a, b, D
<1>7. b[i] = a[i]
  <2> DEFINE T == {k \in 0 .. i - 1 : b[k + 1] = a[k + 1]}
  <2>1. 0 \in T
    BY <1>2, <1>3
  <2>2. ASSUME NEW k \in 0 .. i - 1 - 1, k \in T PROVE k + 1 \in T
    <3>1. /\ k + 1 \in 1 .. Len(p) - 1 /\ k + 1 \in 1 .. Len(q) - 1
          /\ k + 1 \in 1 .. i /\ k + 1 + 1 \in 1 .. i /\ k + 1 \in 0 .. i - 1
      BY <1>1, <1>2
    <3>2. a[k + 1 + 1] = a[k + 1] + D(p[k + 1], p[k + 1 + 1])
      BY <1>2, <3>1
    <3>3. b[k + 1 + 1] = b[k + 1] + D(p[k + 1], p[k + 1 + 1])
      BY <1>1, <1>3, <3>1
    <3> QED BY <2>2, <3>1, <3>2, <3>3
  <2>3. i - 1 \in T /\ i - 1 + 1 = i
    <3>1. i - 1 \in Nat /\ i - 1 \in 0 .. i - 1 /\ i - 1 + 1 = i
      BY <1>2
    <3> HIDE DEF T
    <3>2. \A k \in 0 .. i - 1 : k \in T
      BY <2>1, <2>2, <3>1, UpTo
    <3> QED BY <3>1, <3>2
  <2> QED BY <2>3
<1>8. b[i + 1] <= a[j]
  <2>1. i \in 1 .. Len(q) - 1 /\ i \in 1 .. i /\ 0 \in 0 .. Len(p) - j /\ i + 1 + 0 = i + 1 /\ j + 0 = j
    BY <1>1, <1>2
  <2>2. b[i + 1] = b[i] + D(q[i], q[i + 1]) /\ q[i] = p[i] /\ q[i + 1] = p[j]
    BY <1>1, <1>3, <2>1
  <2>3. j - i \in 0 .. Len(p) - i /\ i + (j - i) = j
    BY <1>2
  <2>4. a[i] + D(p[i], p[j]) <= a[j]
    BY <1>5, <2>3
  <2> QED BY <1>7, <2>2, <2>4
<1>9. b[i + 1 + (Len(p) - j)] <= a[Len(p)]
  <2> DEFINE n == Len(p) - j
             T == {k \in 0 .. n : b[i + 1 + k] <= a[j + k]}
  <2>1. n \in Nat
    BY <1>2
  <2>2. 0 \in T
    BY <1>8, <2>1
  <2>3. ASSUME NEW k \in 0 .. n - 1, k \in T PROVE k + 1 \in T
    <3> DEFINE x == j + k
               y == i + 1 + k
    <3>1. /\ x \in 1 .. Len(p) - 1 /\ y \in 1 .. Len(q) - 1
          /\ x \in 1 .. Len(p) /\ x + 1 \in 1 .. Len(p) /\ y \in 1 .. Len(q)
          /\ k + 1 \in 0 .. n /\ j + (k + 1) = x + 1 /\ i + 1 + (k + 1) = y + 1
      BY <1>1, <1>2
    <3>2. q[y] = p[x] /\ q[y + 1] = p[x + 1]
      <4>1. k \in 0 .. Len(p) - j /\ k + 1 \in 0 .. Len(p) - j
        BY <1>2
      <4>2. q[i + 1 + k] = p[j + k] /\ q[i + 1 + (k + 1)] = p[j + (k + 1)]
        BY <1>1, <4>1
      <4> QED BY <3>1, <4>2
    <3>3. b[y] <= a[x]
      BY <2>3
    <3> HIDE DEF x, y
    <3>4. a[x + 1] = a[x] + D(p[x], p[x + 1]) /\ b[y + 1] = b[y] + D(p[x], p[x + 1])
      <4>1. a[x + 1] = a[x] + D(p[x], p[x + 1])
        BY <1>2, <3>1
      <4>2. b[y + 1] = b[y] + D(q[y], q[y + 1])
        BY <1>3, <3>1
      <4>3. D(q[y], q[y + 1]) = D(p[x], p[x + 1])
        BY <3>2
      <4>4. b[y + 1] = b[y] + D(p[x], p[x + 1])
        BY <4>2, <4>3
      <4> QED BY <4>1, <4>4
    <3>5. p[x] \in 1 .. Len(t) /\ p[x + 1] \in 1 .. Len(t)
      BY <1>0, <3>1
    <3>6. D(p[x], p[x + 1]) \in Nat /\ a[x] \in Nat /\ b[y] \in Nat
      BY <1>4, <1>6, <3>1, <3>5
    <3>7. b[y + 1] <= a[x + 1]
      BY <3>3, <3>4, <3>6
    <3>8. b[i + 1 + (k + 1)] <= a[j + (k + 1)]
      BY <3>1, <3>7
    <3> QED BY <3>1, <3>8
  <2>4. n \in T
    <3> HIDE DEF T, n
    <3>1. \A k \in 0 .. n : k \in T
      BY <2>1, <2>2, <2>3, UpTo
    <3> QED BY <2>1, <3>1
  <2>5. j + n = Len(p)
    BY <1>2
  <2> QED BY <2>4, <2>5
<1>10. i + 1 + (Len(p) - j) = Len(q)
  BY <1>1, <1>2
<1> QED BY <1>9, <1>10 DEF a, b, q, Trees!Length
-----------------------------------------------------------------------------
(* Growing a tree *)

\* The nearest node is a node.
LEMMA NearestIs ==
  ASSUME NEW t \in Seq(PlanNodes), t # <<>>, NEW p \in Points
  PROVE  Trees!Nearest(t, p) \in 1 .. Len(t)
<1> DEFINE Far(i) == Distance(t[i].at, p)
           S == {i \in DOMAIN t : \A j \in DOMAIN t : Far(i) <= Far(j)}
           V == {Far(i) : i \in DOMAIN t}
<1>1. DOMAIN t = 1 .. Len(t) /\ 1 \in DOMAIN t
  OBVIOUS
<1>2. \A i \in DOMAIN t : Far(i) \in Nat
  BY <1>1, NodesAre, Metric
<1> HIDE DEF Far
<1>3. PICK v \in V : \A w \in V : v <= w
  <2>1. V \in SUBSET Nat /\ V # {}
    BY <1>1, <1>2
  <2> HIDE DEF V
  <2> QED BY <2>1, LeastOfSet
<1>4. S # {}
  BY <1>3
<1>5. S \in SUBSET Nat
  BY <1>1
<1>6. \E n \in S : \A m \in S : n <= m
  <2> HIDE DEF S
  <2> QED BY <1>4, <1>5, LeastOfSet
<1>7. Trees!Min(S) \in S
  <2> HIDE DEF S
  <2> QED BY <1>6 DEF Trees!Min
<1>8. Trees!Nearest(t, p) = Trees!Min(S)
  BY DEF Trees!Nearest, Far
<1> QED BY <1>1, <1>7, <1>8

\* A step ends within reach.
LEMMA SteeredIs ==
  ASSUME NEW u \in Points, NEW p \in Points, NEW q \in Trees!Steered(u, p)
  PROVE  q \in Points /\ Distance(u, q) <= Step
<1>1. CASE Distance(u, p) <= Step
  BY <1>1 DEF Trees!Steered
<1>2. CASE ~(Distance(u, p) <= Step)
  <2>1. q \in Points /\ Distance(u, q) = Step
    BY <1>2 DEF Trees!Steered
  <2> QED BY <2>1, TreesAssumption DEF Trees!RRTAssumption
<1> QED BY <1>1, <1>2

\* A tree with a new leaf is a tree.
LEMMA GrownIs ==
  ASSUME NEW t, Rooted(t), NEW near \in 1 .. Len(t), NEW q \in Points,
         Distance(t[near].at, q) <= Step
  PROVE  /\ Rooted(Trees!Grown(t, q, near))
         /\ Len(Trees!Grown(t, q, near)) = Len(t) + 1
         /\ Trees!Grown(t, q, near)[Len(t) + 1] = Trees!Node(q, near, Trees!Unknown)
         /\ \A i \in 1 .. Len(t) : Trees!Grown(t, q, near)[i] = t[i]
<1> DEFINE n == Len(t)
           node == Trees!Node(q, near, Trees!Unknown)
           g == Trees!Grown(t, q, near)
<1>1. n \in Nat \ {0} /\ t \in Seq(PlanNodes) /\ t # <<>>
  BY DEF Rooted, PlanForest
<1>2. node \in PlanNodes /\ node.at = q /\ node.parent = near /\ node.cost = Trees!Unknown
  BY <1>1 DEF Trees!Node, PlanNodes
<1> HIDE DEF node
<1>3. /\ g \in Seq(PlanNodes) /\ Len(g) = n + 1 /\ g[n + 1] = node /\ g # <<>>
      /\ \A i \in 1 .. n : g[i] = t[i]
  BY <1>1, <1>2 DEF Trees!Grown, node
<1> HIDE DEF g
<1>4. \A i \in 1 .. n + 1 : i \in 1 .. n \/ i = n + 1
  BY <1>1
<1>5. \A i \in 1 .. n : t[i].parent # 0 => t[i].parent \in 1 .. n
  BY <1>1 DEF Rooted, PlanForest, Hops
<1>6. Hops(g)
  <2>1. ASSUME NEW i \in 1 .. n, t[i].parent # 0
        PROVE  /\ g[i].parent \in 1 .. Len(g)
               /\ Trees!SegmentFree(g[g[i].parent].at, g[i].at)
    <3>1. t[i].parent \in 1 .. n /\ Trees!SegmentFree(t[t[i].parent].at, t[i].at)
      BY <2>1 DEF Rooted, PlanForest, Hops
    <3>2. g[i].parent = t[i].parent /\ g[g[i].parent] = t[t[i].parent] /\ t[i].parent \in 1 .. n + 1
      BY <1>1, <1>3, <3>1
    <3> QED BY <1>3, <3>1, <3>2
  <2>2. near \in 1 .. n + 1 /\ g[near] = t[near] /\ t[near].at \in Points
    BY <1>1, <1>3, NodesAre
  <2>3. Trees!SegmentFree(t[near].at, q)
    BY <2>2, StepsAreFree
  <2> QED BY <1>2, <1>3, <1>4, <2>1, <2>2, <2>3 DEF Hops
<1>7. Rises(g)
  <2>1. ASSUME NEW i \in 1 .. n, Known(g, i), g[i].parent # 0
        PROVE  /\ Known(g, g[i].parent)
               /\ g[g[i].parent].cost + Distance(g[g[i].parent].at, g[i].at) <= g[i].cost
    <3>1. g[i] = t[i] /\ t[i].parent \in 1 .. n /\ g[t[i].parent] = t[t[i].parent]
      BY <1>3, <1>5, <2>1
    <3>2. Known(t, i) /\ t[i].parent # 0
      BY <2>1, <3>1 DEF Known
    <3>3. /\ Known(t, t[i].parent)
          /\ t[t[i].parent].cost + Distance(t[t[i].parent].at, t[i].at) <= t[i].cost
      BY <3>2 DEF Rooted, PlanForest, Rises
    <3> QED BY <3>1, <3>3 DEF Known
  <2>2. ~Known(g, n + 1)
    BY <1>2, <1>3 DEF Known
  <2> QED BY <1>3, <1>4, <2>1, <2>2 DEF Rises
<1>8. NoRing(g)
  <2> SUFFICES ASSUME NEW S \in SUBSET (1 .. n + 1), S # {}, \A i \in S : g[i].parent \in S
               PROVE  FALSE
    BY <1>3 DEF NoRing
  <2> DEFINE R == S \ {n + 1}
  <2>1. R \in SUBSET (1 .. n)
    BY <1>4
  <2>2. R # {}
    <3>1. n + 1 \in S => near \in S
      BY <1>2, <1>3
    <3>2. near # n + 1
      BY <1>1
    <3> QED BY <3>1, <3>2
  <2>3. ASSUME NEW i \in R PROVE t[i].parent \in R
    <3>1. g[i] = t[i] /\ t[i].parent \in S
      BY <1>3, <2>1
    <3>2. 0 \notin S /\ n + 1 \notin 1 .. n
      BY <1>1
    <3>3. t[i].parent \in 1 .. n
      BY <1>5, <2>1, <3>1, <3>2
    <3> QED BY <3>1, <3>2, <3>3
  <2>4. NoRing(t)
    BY DEF Rooted, PlanForest
  <2> HIDE DEF R
  <2> QED BY <2>1, <2>2, <2>3, <2>4 DEF NoRing
<1>9. \A i \in 1 .. Len(g) : g[i].parent = 0 <=> i = 1
  <2>1. \A i \in 1 .. n : t[i].parent = 0 <=> i = 1
    BY DEF Rooted
  <2>2. near # 0 /\ n + 1 # 1
    BY <1>1
  <2> QED BY <1>2, <1>3, <1>4, <2>1, <2>2
<1>10. Rooted(g)
  BY <1>3, <1>6, <1>7, <1>8, <1>9 DEF Rooted, PlanForest
<1> QED BY <1>3, <1>10 DEF g, node
LEMMA FollowSteps ==
  ASSUME NEW t, NEW q
  PROVE  /\ ConnectSteps \in Nat
         /\ Trees!Following(t, q)[0] = [t |-> t, met |-> FALSE, stuck |-> FALSE]
         /\ \A k \in 1 .. ConnectSteps :
              Trees!Following(t, q)[k] = Trees!Ahead(Trees!Following(t, q)[k - 1], q)
         /\ Trees!Follow(t, q) = Trees!Following(t, q)[ConnectSteps]
<1> DEFINE n == ConnectSteps
           Start == [t |-> t, met |-> FALSE, stuck |-> FALSE]
           Ok(f, m) == f = [k \in 0 .. m |-> IF k = 0 THEN Start ELSE Trees!Ahead(f[k - 1], q)]
           T == {m \in 0 .. n : \E f : Ok(f, m)}
<1>0. n \in Nat
  BY TreesAssumption DEF Trees!RRTAssumption
<1> HIDE DEF n
<1>1. 0 \in T
  <2>1. Ok([k \in 0 .. 0 |-> Start], 0)
    OBVIOUS
  <2> HIDE DEF Ok
  <2> QED BY <1>0, <2>1
<1>2. ASSUME NEW m \in 0 .. n - 1, m \in T PROVE m + 1 \in T
  <2>1. PICK f : Ok(f, m)
    BY <1>2
  <2> DEFINE g == [k \in 0 .. m + 1 |-> IF k = m + 1 THEN Trees!Ahead(f[m], q) ELSE f[k]]
  <2>2. Ok(g, m + 1)
    <3>1. \A k \in 0 .. m : f[k] = IF k = 0 THEN Start ELSE Trees!Ahead(f[k - 1], q)
      BY <2>1
    <3>2. ASSUME NEW k \in 0 .. m + 1
          PROVE  g[k] = IF k = 0 THEN Start ELSE Trees!Ahead(g[k - 1], q)
      <4>1. CASE k = m + 1
        <5>1. k - 1 = m /\ k # 0 /\ g[k] = Trees!Ahead(f[m], q) /\ g[m] = f[m]
          BY <1>0, <4>1
        <5> HIDE DEF g
        <5> QED BY <5>1
      <4>2. CASE k # m + 1
        <5>1. k \in 0 .. m /\ (k # 0 => k - 1 \in 0 .. m)
          BY <1>0, <4>2
        <5>2. g[k] = f[k] /\ (k # 0 => g[k - 1] = f[k - 1])
          BY <1>0, <4>2, <5>1
        <5> HIDE DEF g
        <5> QED BY <3>1, <5>1, <5>2
      <4> QED BY <4>1, <4>2
    <3>3. g = [k \in 0 .. m + 1 |-> g[k]]
      OBVIOUS
    <3> HIDE DEF g
    <3> QED BY <3>2, <3>3
  <2> HIDE DEF Ok, g
  <2> QED BY <1>0, <2>2
<1> HIDE DEF Ok
<1>3. n \in T
  <2> HIDE DEF T
  <2>1. \A m \in 0 .. n : m \in T
    BY <1>0, <1>1, <1>2, UpTo
  <2> QED BY <1>0, <2>1
<1>4. PICK f : Ok(f, n)
  BY <1>3
<1>5. Ok(Trees!Following(t, q), n)
  BY <1>0, <1>4 DEF Trees!Following, Ok, n
<1>6. \A k \in 0 .. n : Trees!Following(t, q)[k] =
         IF k = 0 THEN Start ELSE Trees!Ahead(Trees!Following(t, q)[k - 1], q)
  BY <1>5 DEF Ok
<1>7. 0 \in 0 .. n /\ \A k \in 1 .. n : k \in 0 .. n /\ k # 0
  BY <1>0
<1>8. Trees!Following(t, q)[0] = Start
  BY <1>6, <1>7
<1>9. \A k \in 1 .. n : Trees!Following(t, q)[k] = Trees!Ahead(Trees!Following(t, q)[k - 1], q)
  BY <1>6, <1>7
<1>10. Trees!Follow(t, q) = Trees!Following(t, q)[n]
  BY DEF Trees!Follow, n
<1> QED BY <1>0, <1>8, <1>9, <1>10 DEF n

\* What following the new node q has made of the tree.
Followed(t, q, s) ==
  /\ s = [t |-> s.t, met |-> s.met, stuck |-> s.stuck]
  /\ Rooted(s.t) /\ s.t[1].at = t[1].at
  /\ s.met => Distance(s.t[Len(s.t)].at, q) <= Step

LEMMA FollowIs ==
  ASSUME NEW t, Rooted(t), NEW q \in Points
  PROVE  Followed(t, q, Trees!Follow(t, q))
<1> DEFINE F(k) == Trees!Following(t, q)[k]
           n == ConnectSteps
           T == {k \in 0 .. n : Followed(t, q, F(k))}
<1>1. /\ n \in Nat /\ F(0) = [t |-> t, met |-> FALSE, stuck |-> FALSE]
      /\ \A k \in 1 .. n : F(k) = Trees!Ahead(F(k - 1), q)
      /\ Trees!Follow(t, q) = F(n)
  BY FollowSteps
<1> HIDE DEF F, n
<1>2. 0 \in T
  BY <1>1 DEF Followed
<1>3. ASSUME NEW s, Followed(t, q, s) PROVE Followed(t, q, Trees!Ahead(s, q))
  <2> DEFINE near == Trees!Nearest(s.t, q)
             next == Trees!Steered(s.t[near].at, q)
             p == CHOOSE p \in next : TRUE
             g == Trees!Grown(s.t, p, near)
  <2>1. CASE s.met \/ s.stuck
    BY <1>3, <2>1 DEF Trees!Ahead
  <2>2. CASE ~(s.met \/ s.stuck) /\ next = {}
    <3>1. Trees!Ahead(s, q) = [s EXCEPT !.stuck = TRUE]
      BY <2>2 DEF Trees!Ahead
    <3> QED BY <1>3, <3>1 DEF Followed
  <2>3. CASE ~(s.met \/ s.stuck) /\ next # {}
    <3>1. Trees!Ahead(s, q) = [s EXCEPT !.t = g, !.met = Distance(p, q) <= Step]
      BY <2>3, Zenon DEF Trees!Ahead
    <3>2. Rooted(s.t) /\ s.t \in Seq(PlanNodes) /\ s.t # <<>> /\ Len(s.t) \in Nat \ {0}
      BY <1>3 DEF Followed, Rooted, PlanForest
    <3>3. near \in 1 .. Len(s.t)
      BY <3>2, NearestIs
    <3>4. s.t[near].at \in Points
      BY <3>2, <3>3, NodesAre
    <3>5. p \in next
      BY <2>3
    <3> HIDE DEF near
    <3>6. p \in Points /\ Distance(s.t[near].at, p) <= Step
      BY <3>4, <3>5, SteeredIs
    <3> HIDE DEF p, g
    <3>7. /\ Rooted(g) /\ Len(g) = Len(s.t) + 1 /\ g[Len(s.t) + 1] = Trees!Node(p, near, Trees!Unknown)
          /\ \A i \in 1 .. Len(s.t) : g[i] = s.t[i]
      BY <3>2, <3>3, <3>6, GrownIs DEF g
    <3>8. g[1].at = t[1].at /\ g[Len(g)].at = p
      <4>1. 1 \in 1 .. Len(s.t)
        BY <3>2
      <4> QED BY <1>3, <3>7, <4>1 DEF Followed, Trees!Node
    <3>9. s = [t |-> s.t, met |-> s.met, stuck |-> s.stuck]
      BY <1>3 DEF Followed
    <3>10. Trees!Ahead(s, q) = [t |-> g, met |-> Distance(p, q) <= Step, stuck |-> s.stuck]
      BY <3>1, <3>9
    <3> DEFINE x == Trees!Ahead(s, q)
    <3>11. x.t = g
      BY <3>10
    <3>12. x.met => Distance(p, q) <= Step
      <4>1. CASE Distance(p, q) <= Step
        BY <4>1
      <4>2. CASE ~(Distance(p, q) <= Step)
        <5>1. (Distance(p, q) <= Step) = FALSE
          BY <4>2
        <5> DEFINE b == Distance(p, q) <= Step
        <5>2. b = FALSE /\ x = [t |-> g, met |-> b, stuck |-> s.stuck]
          BY <3>10, <5>1, Zenon
        <5> HIDE DEF b, x
        <5>3. x = [t |-> g, met |-> FALSE, stuck |-> s.stuck]
          BY <5>2
        <5> QED BY <5>3
      <4> QED BY <4>1, <4>2
    <3>13. x = [t |-> x.t, met |-> x.met, stuck |-> x.stuck]
      <4>1. \A b, c : LET y == [t |-> g, met |-> b, stuck |-> c] IN y = [t |-> y.t, met |-> y.met, stuck |-> y.stuck]
        OBVIOUS
      <4> QED BY <3>10, <4>1, Zenon
    <3> HIDE DEF x
    <3>14. Followed(t, q, x)
      BY <3>7, <3>8, <3>11, <3>12, <3>13 DEF Followed
    <3> QED BY <3>14 DEF x
  <2> QED BY <2>1, <2>2, <2>3
<1>4. ASSUME NEW k \in 0 .. n - 1, k \in T PROVE k + 1 \in T
  <2>1. k + 1 \in 1 .. n /\ k + 1 - 1 = k /\ k + 1 \in 0 .. n
    BY <1>1
  <2>2. F(k + 1) = Trees!Ahead(F(k), q)
    BY <1>1, <2>1
  <2>3. Followed(t, q, F(k + 1))
    BY <1>3, <1>4, <2>2
  <2> QED BY <2>1, <2>3
<1>5. n \in T
  <2> HIDE DEF T
  <2>1. \A k \in 0 .. n : k \in T
    BY <1>1, <1>2, <1>4, UpTo
  <2> QED BY <1>1, <2>1
<1> QED BY <1>1, <1>5

\* The start tree with the goal tree behind it is a forest.
LEMMA AppendedIs ==
  ASSUME NEW t, PlanForest(t), NEW g, PlanForest(g)
  PROVE  /\ PlanForest(Trees!Appended(t, g)) /\ Len(Trees!Appended(t, g)) = Len(t) + Len(g)
         /\ \A i \in 1 .. Len(t) : Trees!Appended(t, g)[i] = t[i]
         /\ \A i \in 1 .. Len(g) : Trees!Appended(t, g)[Len(t) + i].at = g[i].at
<1> DEFINE n == Len(t)
           h == [i \in DOMAIN g |-> Trees!Node(g[i].at, 0, Trees!Unknown)]
           a == Trees!Appended(t, g)
<1>1. /\ n \in Nat \ {0} /\ t \in Seq(PlanNodes) /\ t # <<>>
      /\ Len(g) \in Nat /\ DOMAIN g = 1 .. Len(g) /\ g \in Seq(PlanNodes)
  BY DEF PlanForest
<1>2. \A i \in 1 .. Len(g) : /\ h[i] \in PlanNodes /\ h[i].at = g[i].at /\ h[i].parent = 0
                             /\ h[i].cost = Trees!Unknown
  <2>1. \A i \in 1 .. Len(g) : g[i].at \in Points
    BY <1>1, NodesAre
  <2> QED BY <1>1, <2>1 DEF Trees!Node, PlanNodes
<1>3. h \in Seq(PlanNodes) /\ Len(h) = Len(g)
  BY <1>1, <1>2
<1> HIDE DEF h
<1>4. /\ a \in Seq(PlanNodes) /\ Len(a) = n + Len(g)
      /\ \A i \in 1 .. n : a[i] = t[i]
      /\ \A i \in 1 .. Len(g) : a[n + i] = h[i]
  BY <1>1, <1>3, ConcatProperties DEF Trees!Appended, h
<1> HIDE DEF a
<1>5. \A i \in 1 .. Len(a) : i \in 1 .. n \/ (i - n \in 1 .. Len(g) /\ i = n + (i - n))
  BY <1>1, <1>4
<1>6. \A i \in 1 .. Len(a) : a[i].parent # 0 => i \in 1 .. n /\ a[i] = t[i]
  BY <1>2, <1>4, <1>5
<1>7. \A i \in 1 .. n : t[i].parent # 0 => t[i].parent \in 1 .. n /\ a[t[i].parent] = t[t[i].parent]
  BY <1>4 DEF PlanForest, Hops
<1>8. Hops(a)
  <2> SUFFICES ASSUME NEW i \in 1 .. Len(a), a[i].parent # 0
               PROVE  /\ a[i].parent \in 1 .. Len(a)
                      /\ Trees!SegmentFree(a[a[i].parent].at, a[i].at)
    BY DEF Hops
  <2>1. i \in 1 .. n /\ a[i] = t[i] /\ t[i].parent \in 1 .. n /\ a[t[i].parent] = t[t[i].parent]
    BY <1>6, <1>7
  <2>2. Trees!SegmentFree(t[t[i].parent].at, t[i].at)
    BY <2>1 DEF PlanForest, Hops
  <2> QED BY <1>1, <1>4, <2>1, <2>2
<1>9. Rises(a)
  <2> SUFFICES ASSUME NEW i \in 1 .. Len(a), Known(a, i), a[i].parent # 0
               PROVE  /\ Known(a, a[i].parent)
                      /\ a[a[i].parent].cost + Distance(a[a[i].parent].at, a[i].at) <= a[i].cost
    BY DEF Rises
  <2>1. i \in 1 .. n /\ a[i] = t[i] /\ t[i].parent \in 1 .. n /\ a[t[i].parent] = t[t[i].parent]
    BY <1>6, <1>7
  <2>2. Known(t, i) /\ t[i].parent # 0
    BY <2>1 DEF Known
  <2>3. /\ Known(t, t[i].parent)
        /\ t[t[i].parent].cost + Distance(t[t[i].parent].at, t[i].at) <= t[i].cost
    BY <2>1, <2>2 DEF PlanForest, Rises
  <2> QED BY <2>1, <2>3 DEF Known
<1>10. NoRing(a)
  <2> SUFFICES ASSUME NEW S \in SUBSET (1 .. Len(a)), S # {}, \A i \in S : a[i].parent \in S
               PROVE  FALSE
    BY DEF NoRing
  <2>1. ASSUME NEW i \in S PROVE i \in 1 .. n /\ t[i].parent \in S
    <3>1. a[i].parent # 0
      <4>1. 0 \notin S
        BY <1>1
      <4> QED BY <4>1
    <3> QED BY <1>6, <3>1
  <2>2. NoRing(t)
    BY DEF PlanForest
  <2> QED BY <2>1, <2>2 DEF NoRing
<1>11. a # <<>>
  BY <1>1, <1>4
<1>12. PlanForest(a)
  BY <1>4, <1>8, <1>9, <1>10, <1>11 DEF PlanForest
<1> QED BY <1>2, <1>4, <1>12 DEF a
-----------------------------------------------------------------------------
(* RRT*: a new node, and the neighbours it becomes the parent of *)

\* The root costs nothing, and every cost is known.
Costed(t) == Rooted(t) /\ t[1].cost = 0 /\ \A i \in 1 .. Len(t) : Known(t, i)

Thru(t, i, q) == t[i].cost + Distance(t[i].at, q)

\* A node at q below parent, to which the nodes of R are rewired.
Rewired(t, q, parent, R) ==
  [i \in 1 .. Len(t) + 1 |->
     CASE i = Len(t) + 1 -> Trees!Node(q, parent, Thru(t, parent, q))
       [] i \in R -> Trees!Node(t[i].at, Len(t) + 1, Thru(t, parent, q) + Distance(t[i].at, q))
       [] OTHER -> t[i]]

\* The way through q to the nodes of R is free, and cheaper than theirs.
Cheaper(t, q, parent, R) ==
  /\ Trees!SegmentFree(t[parent].at, q)
  /\ R \subseteq (1 .. Len(t)) \ {parent}
  /\ \A i \in R : /\ Thru(t, parent, q) + Distance(t[i].at, q) < t[i].cost
                  /\ Trees!SegmentFree(q, t[i].at)

\* Costs only fall, so a ring through the new node would have to contain
\* nodes that cost no more than it does: and none of these was rewired.
LEMMA RewiredIs ==
  ASSUME NEW t, Costed(t), NEW q \in Points, NEW parent \in 1 .. Len(t), NEW R,
         Cheaper(t, q, parent, R)
  PROVE  /\ Costed(Rewired(t, q, parent, R)) /\ Len(Rewired(t, q, parent, R)) = Len(t) + 1
         /\ Rewired(t, q, parent, R)[Len(t) + 1] = Trees!Node(q, parent, Thru(t, parent, q))
         /\ \A i \in 1 .. Len(t) : /\ Rewired(t, q, parent, R)[i].at = t[i].at
                                   /\ Rewired(t, q, parent, R)[i].cost \in Nat
                                   /\ Rewired(t, q, parent, R)[i].cost <= t[i].cost
<1> DEFINE n == Len(t)
           c == Thru(t, parent, q)
           node == Trees!Node(q, parent, c)
           Moved(i) == Trees!Node(t[i].at, n + 1, c + Distance(t[i].at, q))
           u == Rewired(t, q, parent, R)
<1>1. n \in Nat \ {0} /\ t \in Seq(PlanNodes) /\ t # <<>> /\ Rooted(t) /\ PlanForest(t)
  BY DEF Costed, Rooted, PlanForest
<1>2. \A i \in 1 .. n : t[i] \in PlanNodes /\ t[i].at \in Points /\ t[i].parent \in Nat /\ t[i].cost \in Nat
  <2>1. \A i \in 1 .. n : t[i].cost # Trees!Unknown
    BY DEF Costed, Known
  <2> QED BY <1>1, <2>1, NodesAre
<1>3. \A i \in 1 .. n : Distance(t[i].at, q) \in Nat /\ Distance(q, t[i].at) = Distance(t[i].at, q)
  BY <1>2, Metric
<1>4. c \in Nat /\ t[parent].cost <= c /\ c = t[parent].cost + Distance(t[parent].at, q)
  BY <1>2, <1>3 DEF Thru
<1>5. /\ R \subseteq 1 .. n /\ parent \notin R
      /\ \A i \in R : c + Distance(t[i].at, q) < t[i].cost /\ Trees!SegmentFree(q, t[i].at)
  BY DEF Cheaper
<1>6. Trees!SegmentFree(t[parent].at, q)
  BY DEF Cheaper
<1>7. DOMAIN u = 1 .. n + 1 /\ u[n + 1] = node /\ \A i \in 1 .. n : u[i] = IF i \in R THEN Moved(i) ELSE t[i]
  <2>1. n + 1 \in 1 .. n + 1 /\ \A i \in 1 .. n : i \in 1 .. n + 1 /\ i # n + 1
    BY <1>1
  <2>2. u = [i \in 1 .. n + 1 |-> CASE i = n + 1 -> node [] i \in R -> Moved(i) [] OTHER -> t[i]]
    BY DEF Rewired
  <2> HIDE DEF n, node, Moved, u
  <2>3. u[n + 1] = node /\ DOMAIN u = 1 .. n + 1
    <3>1. \A i \in R : i # n + 1
      BY <1>5, <2>1 DEF n
    <3> QED BY <2>1, <2>2, <3>1
  <2>4. ASSUME NEW i \in 1 .. n PROVE u[i] = IF i \in R THEN Moved(i) ELSE t[i]
    BY <2>1, <2>2, <2>4
  <2> QED BY <2>3, <2>4
<1> HIDE DEF n, c, u
<1>8. node \in PlanNodes /\ node.at = q /\ node.parent = parent /\ node.cost = c
  <2>1. parent \in Nat
    BY <1>1 DEF n
  <2> QED BY <1>4, <2>1 DEF Trees!Node, PlanNodes
<1>9. \A i \in R : /\ Moved(i) \in PlanNodes /\ Moved(i).at = t[i].at /\ Moved(i).parent = n + 1
                   /\ Moved(i).cost = c + Distance(t[i].at, q)
  <2>1. \A i \in R : t[i].at \in Points /\ Distance(t[i].at, q) \in Nat
    BY <1>2, <1>3, <1>5
  <2> QED BY <1>1, <1>4, <2>1 DEF Trees!Node, PlanNodes
<1> HIDE DEF node, Moved
<1>10. \A i \in 1 .. n + 1 : i \in 1 .. n \/ i = n + 1
  BY <1>1
<1>11. \A i \in 1 .. n + 1 : u[i] \in PlanNodes
  BY <1>2, <1>7, <1>8, <1>9, <1>10
<1>12. u \in Seq(PlanNodes) /\ Len(u) = n + 1 /\ u # <<>>
  <2>1. u = [i \in 1 .. n + 1 |-> u[i]]
    BY <1>7 DEF u, Rewired, n
  <2>2. \A m \in Nat : \A f \in [1 .. m -> PlanNodes] : f \in Seq(PlanNodes) /\ Len(f) = m
    OBVIOUS
  <2>3. u \in [1 .. n + 1 -> PlanNodes] /\ n + 1 \in Nat
    BY <1>1, <1>11, <2>1
  <2>4. u \in Seq(PlanNodes) /\ Len(u) = n + 1
    BY <2>2, <2>3
  <2> QED BY <1>1, <2>4
<1>13. \A i \in 1 .. n : u[i].at = t[i].at /\ u[i].cost \in Nat /\ u[i].cost <= t[i].cost
  <2> TAKE i \in 1 .. n
  <2>1. CASE i \in R
    BY <1>2, <1>3, <1>4, <1>5, <1>7, <1>9, <2>1
  <2>2. CASE i \notin R
    BY <1>2, <1>7, <2>2
  <2> QED BY <2>1, <2>2
<1>14. \A i \in 1 .. n : t[i].parent # 0 => t[i].parent \in 1 .. n
  BY <1>1 DEF PlanForest, Hops, n
<1>15. parent \in 1 .. n /\ n + 1 \in 1 .. n + 1 /\ u[parent] = t[parent]
  BY <1>1, <1>5, <1>7 DEF n
<1>16. Hops(u)
  <2>1. ASSUME NEW i \in 1 .. n, i \notin R, t[i].parent # 0
        PROVE  u[i].parent \in 1 .. n + 1 /\ Trees!SegmentFree(u[u[i].parent].at, u[i].at)
    <3>1. t[i].parent \in 1 .. n /\ Trees!SegmentFree(t[t[i].parent].at, t[i].at)
      BY <1>1, <2>1 DEF PlanForest, Hops, n
    <3>2. u[i] = t[i] /\ u[t[i].parent].at = t[t[i].parent].at
      BY <1>7, <1>13, <2>1, <3>1
    <3> QED BY <1>1, <3>1, <3>2
  <2>2. ASSUME NEW i \in R
        PROVE  u[i].parent \in 1 .. n + 1 /\ Trees!SegmentFree(u[u[i].parent].at, u[i].at)
    <3>1. u[i].parent = n + 1 /\ u[i].at = t[i].at
      BY <1>5, <1>7, <1>9
    <3> QED BY <1>5, <1>7, <1>8, <1>15, <3>1
  <2>3. u[n + 1].parent \in 1 .. n + 1 /\ Trees!SegmentFree(u[u[n + 1].parent].at, u[n + 1].at)
    BY <1>1, <1>6, <1>7, <1>8, <1>15
  <2>4. \A i \in 1 .. n : i \notin R => u[i] = t[i]
    BY <1>7
  <2> QED BY <1>10, <1>12, <2>1, <2>2, <2>3, <2>4 DEF Hops
<1>17. Rises(u)
  <2>1. ASSUME NEW i \in 1 .. n, i \notin R, t[i].parent # 0
        PROVE  u[i].parent \in 1 .. n /\ u[u[i].parent].cost + Distance(u[u[i].parent].at, u[i].at) <= u[i].cost
    <3>1. t[i].parent \in 1 .. n /\ t[t[i].parent].cost + Distance(t[t[i].parent].at, t[i].at) <= t[i].cost
      BY <1>1, <1>14, <2>1 DEF PlanForest, Rises, n, Costed
    <3>2. u[i] = t[i] /\ u[t[i].parent].at = t[t[i].parent].at
      BY <1>7, <1>13, <2>1, <3>1
    <3>3. /\ u[t[i].parent].cost <= t[t[i].parent].cost
          /\ u[t[i].parent].cost \in Nat /\ t[t[i].parent].cost \in Nat /\ t[i].cost \in Nat
      BY <1>2, <1>13, <3>1
    <3>4. Distance(t[t[i].parent].at, t[i].at) \in Nat
      BY <1>2, <3>1, Metric
    <3> QED BY <3>1, <3>2, <3>3, <3>4
  <2>2. ASSUME NEW i \in R
        PROVE  u[i].parent = n + 1 /\ u[n + 1].cost + Distance(u[n + 1].at, u[i].at) <= u[i].cost
    <3>1. u[i].parent = n + 1 /\ u[i].at = t[i].at /\ u[i].cost = c + Distance(t[i].at, q) /\ i \in 1 .. n
      BY <1>5, <1>7, <1>9
    <3>2. u[n + 1].cost = c /\ u[n + 1].at = q
      BY <1>7, <1>8
    <3> QED BY <1>3, <1>4, <3>1, <3>2
  <2>3. u[n + 1].parent = parent /\ u[parent].cost + Distance(u[parent].at, u[n + 1].at) <= u[n + 1].cost
    BY <1>2, <1>3, <1>4, <1>7, <1>8, <1>15
  <2>4. \A i \in 1 .. n : i \notin R => u[i] = t[i]
    BY <1>7
  <2>5. \A i \in 1 .. n + 1 : Known(u, i)
    BY <1>4, <1>7, <1>8, <1>10, <1>13 DEF Known, Trees!Unknown
  <2>6. \A i \in 1 .. n : i \in 1 .. n + 1
    BY <1>1
  <2> QED BY <1>10, <1>12, <1>15, <2>1, <2>2, <2>3, <2>4, <2>5, <2>6 DEF Rises
<1>18. NoRing(u)
  <2> SUFFICES ASSUME NEW S \in SUBSET (1 .. n + 1), S # {}, \A i \in S : u[i].parent \in S
               PROVE  FALSE
    BY <1>12 DEF NoRing
  <2>1. NoRing(t) /\ 0 \notin S
    BY <1>1 DEF PlanForest
  <2>2. CASE n + 1 \notin S
    <3>1. S \in SUBSET (1 .. n)
      BY <1>10, <2>2
    <3>2. \A i \in S : i \notin R /\ t[i].parent \in S
      BY <1>7, <1>9, <2>2, <3>1
    <3> QED BY <2>1, <3>1, <3>2 DEF NoRing, n
  <2>3. CASE n + 1 \in S
    <3> DEFINE L == {i \in S : i \in 1 .. n /\ t[i].cost <= c}
    <3>1. parent \in L
      BY <1>4, <1>7, <1>8, <1>15, <2>3
    <3>2. ASSUME NEW i \in L PROVE t[i].parent \in L
      <4>1. i \in 1 .. n /\ t[i].cost <= c /\ i \notin R
        BY <1>2, <1>3, <1>4, <1>5
      <4>2. t[i].parent \in S /\ t[i].parent # 0
        BY <1>7, <2>1, <4>1
      <4>3. t[i].parent \in 1 .. n /\ t[t[i].parent].cost + Distance(t[t[i].parent].at, t[i].at) <= t[i].cost
        BY <1>1, <1>14, <4>1, <4>2 DEF PlanForest, Rises, n, Costed
      <4>4. /\ Distance(t[t[i].parent].at, t[i].at) \in Nat
            /\ t[t[i].parent].cost \in Nat /\ t[i].cost \in Nat
        BY <1>2, <4>1, <4>3, Metric
      <4>5. t[t[i].parent].cost <= c
        BY <1>4, <4>1, <4>3, <4>4
      <4> QED BY <4>2, <4>3, <4>5
    <3>3. L \in SUBSET (1 .. n)
      OBVIOUS
    <3> HIDE DEF L
    <3> QED BY <2>1, <3>1, <3>2, <3>3 DEF NoRing, n
  <2> QED BY <2>2, <2>3
<1>19. 1 \notin R /\ u[1].cost = 0 /\ 1 \in 1 .. n
  <2>1. t[1].cost = 0 /\ 1 \in 1 .. n
    BY <1>1 DEF Costed
  <2>2. 1 \notin R
    BY <1>3, <1>4, <1>5, <2>1
  <2> QED BY <1>7, <2>1, <2>2
<1>20. \A i \in 1 .. n + 1 : u[i].parent = 0 <=> i = 1
  <2>1. \A i \in 1 .. n : t[i].parent = 0 <=> i = 1
    BY <1>1 DEF Rooted, n
  <2>2. n + 1 # 0 /\ n + 1 # 1 /\ parent # 0
    BY <1>1, <1>15
  <2>3. \A i \in R : i # 1 /\ u[i].parent = n + 1
    BY <1>5, <1>7, <1>9, <1>19
  <2> QED BY <1>7, <1>8, <1>10, <2>1, <2>2, <2>3
<1>21. \A i \in 1 .. n + 1 : Known(u, i)
  BY <1>4, <1>7, <1>8, <1>10, <1>13 DEF Known, Trees!Unknown
<1>22. Costed(u)
  BY <1>12, <1>16, <1>17, <1>18, <1>19, <1>20, <1>21 DEF Costed, Rooted, PlanForest
<1> QED BY <1>7, <1>12, <1>13, <1>22 DEF u, n, node, c

\* The cheapest way to a new node starts at a node of the tree, and is free.
LEMMA BestParentIs ==
  ASSUME Costed(tree), NEW q \in Points, NEW near \in 1 .. Len(tree),
         Distance(tree[near].at, q) <= Step
  PROVE  /\ Trees!BestParent(near, q) \in 1 .. Len(tree)
         /\ Trees!SegmentFree(tree[Trees!BestParent(near, q)].at, q)
<1> DEFINE n == Len(tree)
           C == {near} \cup {i \in Trees!Neighbors(q) : Trees!SegmentFree(tree[i].at, q)}
           Cost(i) == Trees!Through(i, q)
           B == {i \in C : \A j \in C : Cost(i) <= Cost(j)}
           V == {Cost(i) : i \in C}
<1>1. tree \in Seq(PlanNodes) /\ DOMAIN tree = 1 .. n /\ C \subseteq 1 .. n
  BY NodesAre DEF Costed, Rooted, PlanForest, Trees!Neighbors
<1>2. \A i \in 1 .. n : tree[i].at \in Points /\ tree[i].cost \in Nat /\ Distance(tree[i].at, q) \in Nat
  <2>1. \A i \in 1 .. n : tree[i].cost # Trees!Unknown
    BY DEF Costed, Known
  <2>2. \A i \in 1 .. n : tree[i].at \in Points /\ tree[i].cost \in Nat \cup {Trees!Unknown}
    BY <1>1, NodesAre
  <2> QED BY <2>1, <2>2, Metric
<1>3. \A i \in C : Trees!SegmentFree(tree[i].at, q)
  <2>1. Trees!SegmentFree(tree[near].at, q)
    BY <1>2, StepsAreFree
  <2> QED BY <2>1
<1>4. near \in C
  OBVIOUS
<1>5. \A i \in C : Cost(i) \in Nat
  BY <1>1, <1>2 DEF Trees!Through
<1>6. Trees!BestParent(near, q) = IF near \in B THEN near ELSE Trees!Min(B)
  BY DEF Trees!BestParent
<1> HIDE DEF Cost, C
<1>7. PICK v \in V : \A w \in V : v <= w
  <2>1. V \in SUBSET Nat /\ V # {}
    BY <1>4, <1>5
  <2> HIDE DEF V
  <2> QED BY <2>1, LeastOfSet
<1>8. B # {}
  BY <1>7
<1>9. B \in SUBSET Nat
  <2>1. C \subseteq Nat /\ B \subseteq C
    BY <1>1
  <2> HIDE DEF B
  <2> QED BY <2>1
<1>10. \E m \in B : \A k \in B : m <= k
  <2> HIDE DEF B
  <2> QED BY <1>8, <1>9, LeastOfSet
<1>11. Trees!Min(B) \in B
  <2> HIDE DEF B
  <2> QED BY <1>10 DEF Trees!Min
<1>12. Trees!BestParent(near, q) \in C
  BY <1>4, <1>6, <1>11
<1> QED BY <1>1, <1>3, <1>12

-----------------------------------------------------------------------------
(* What holds while a planner runs, and after it has returned *)

PlanCalls ==
  [kind : Trees!Planners, goal : Goals, running : BOOLEAN, found : BOOLEAN,
   best : Nat, bestCost : Nat, active : {"start", "goal"}]

\* Where the planner c promises to end.
Promised(end, c) ==
  /\ c.kind = "region" => end \in Region
  /\ c.kind = "connect" => end = c.goal
  /\ c.kind \notin {"region", "connect"} => Distance(end, c.goal) <= Step

\* While c runs on the tree t, whose goal tree is g.
Planning(t, g, c) ==
  /\ c \in PlanCalls /\ Rooted(t) /\ ~c.found
  /\ c.kind = "connect" => Rooted(g) /\ g[1].at = c.goal
  /\ c.kind # "connect" => g = <<>>
  /\ c.kind \in Trees!Stars => Costed(t)
  /\ c.best # 0 => /\ c.kind \in Trees!Stars /\ c.best \in 1 .. Len(t)
                   /\ Promised(t[c.best].at, c)
                   /\ Thru(t, c.best, c.goal) <= c.bestCost

\* What c has found in t.
Delivered(t, p, c) ==
  /\ c \in PlanCalls
  /\ p \in Seq(1 .. Len(t)) /\ p # <<>> /\ p[1] = 1
  /\ \A k \in 1 .. Len(p) - 1 : Trees!SegmentFree(t[p[k]].at, t[p[k + 1]].at)
  /\ Promised(t[p[Len(p)]].at, c)
  /\ c.kind \in Trees!Stars =>
       Trees!Length(t, p) + Distance(t[p[Len(p)]].at, c.goal) <= c.bestCost

PlanState(t, g, p, c) ==
  /\ PlanForest(t) /\ t[1].parent = 0
  /\ c \in PlanCalls \cup {Trees!Idle}
  /\ c.running => Planning(t, g, c)
  /\ ~c.running => g = <<>>
  /\ c.found => ~c.running /\ Delivered(t, p, c)

PlanInv == PlanState(tree, goalTree, path, call)

\* The branch of a node that is where the planner promised to end.
LEMMA BranchDelivers ==
  ASSUME NEW t, Rooted(t), NEW i \in 1 .. Len(t), NEW c \in PlanCalls, Promised(t[i].at, c),
         c.kind \in Trees!Stars => Known(t, i) /\ Thru(t, i, c.goal) <= c.bestCost
  PROVE  Delivered(t, Trees!Branch(t, i), c)
<1> DEFINE p == Trees!Branch(t, i)
<1>1. PlanForest(t) /\ t \in Seq(PlanNodes)
  BY DEF Rooted, PlanForest
<1>2. Walk(t, p) /\ t[p[1]].parent = 0 /\ p[Len(p)] = i
  BY <1>1, BranchWalks
<1> HIDE DEF p
<1>3. p \in Seq(1 .. Len(t)) /\ p # <<>>
  BY <1>2 DEF Walk
<1>4. p[1] = 1 /\ \A k \in 1 .. Len(p) - 1 : Trees!SegmentFree(t[p[k]].at, t[p[k + 1]].at)
  BY <1>1, <1>2, WalksAreFree
<1>5. ASSUME c.kind \in Trees!Stars
      PROVE  Trees!Length(t, p) + Distance(t[i].at, c.goal) <= c.bestCost
  <2>1. Trees!Length(t, p) <= t[i].cost
    BY <1>1, <1>2, <1>5, WalksCost
  <2>2. Trees!Length(t, p) \in Nat
    BY <1>1, <1>3, AlongNat
  <2>3. t[i].cost \in Nat /\ t[i].at \in Points
    BY <1>1, <1>5, NodesAre DEF Known
  <2>4. c.goal \in Points /\ c.bestCost \in Nat
    <3>1. c.goal \in Goals /\ c.bestCost \in Nat
      BY DEF PlanCalls
    <3> QED BY <3>1, TreesAssumption DEF Trees!RRTAssumption
  <2>5. Distance(t[i].at, c.goal) \in Nat
    BY <2>3, <2>4, Metric
  <2>6. t[i].cost + Distance(t[i].at, c.goal) <= c.bestCost
    BY <1>5 DEF Thru
  <2> QED BY <2>1, <2>2, <2>3, <2>4, <2>5, <2>6
<1> QED BY <1>2, <1>3, <1>4, <1>5 DEF Delivered, p

\* A path through both trees of RRT-Connect.
LEMMA StitchedDelivers ==
  ASSUME NEW t, Rooted(t), NEW g, Rooted(g), NEW c \in PlanCalls, c.kind = "connect",
         g[1].at = c.goal, Distance(t[Len(t)].at, g[Len(g)].at) <= Step
  PROVE  Delivered(Trees!Appended(t, g), Trees!Stitched(t, Len(t), g, Len(g)), c)
<1> DEFINE n == Len(t)
           v == Trees!Branch(t, n)
           w == Trees!Branch(g, Len(g))
           a == Trees!Appended(t, g)
           z == [k \in DOMAIN w |-> w[k] + n]
           r == Trees!Reverse(z)
           p == v \o r
           lv == Len(v)
           lw == Len(w)
<1>1. PlanForest(t) /\ PlanForest(g) /\ t \in Seq(PlanNodes) /\ g \in Seq(PlanNodes) /\ n \in Nat \ {0} /\ Len(g) \in Nat \ {0}
  BY DEF Rooted, PlanForest
<1>2. n \in 1 .. Len(t) /\ Len(g) \in 1 .. Len(g)
  BY <1>1
<1>3. Walk(t, v) /\ v[lv] = n /\ v[1] = 1
  BY <1>1, <1>2, BranchWalks, WalksAreFree
<1>4. Walk(g, w) /\ w[lw] = Len(g) /\ w[1] = 1
  BY <1>1, <1>2, BranchWalks, WalksAreFree
<1>5. /\ PlanForest(a) /\ Len(a) = n + Len(g)
      /\ \A i \in 1 .. n : a[i] = t[i]
      /\ \A i \in 1 .. Len(g) : a[n + i].at = g[i].at
  <2>1. PlanForest(t) /\ PlanForest(g)
    BY <1>1
  <2>2. PlanForest(a) /\ Len(a) = n + Len(g) /\ \A i \in 1 .. n : a[i] = t[i]
    BY <2>1, AppendedIs, Zenon
  <2>3. ASSUME NEW i \in 1 .. Len(g) PROVE a[n + i].at = g[i].at
    BY <2>1, AppendedIs
  <2> QED BY <2>2, <2>3
<1>6. p = Trees!Stitched(t, Len(t), g, Len(g))
  BY DEF Trees!Stitched
<1>7. \A k \in 1 .. lv - 1 : Trees!SegmentFree(t[v[k]].at, t[v[k + 1]].at)
  BY <1>1, <1>3, WalksAreFree
<1>8. \A k \in 1 .. lw - 1 : Trees!SegmentFree(g[w[k + 1]].at, g[w[k]].at)
  <2>1. \A k \in 1 .. lw - 1 : Trees!SegmentFree(g[w[k]].at, g[w[k + 1]].at)
    BY <1>1, <1>4, WalksAreFree
  <2> QED BY <2>1, FreeBothWays
<1>9. v \in Seq(1 .. n) /\ lv \in Nat \ {0} /\ \A k \in 1 .. lv : v[k] \in 1 .. n
  BY <1>3 DEF Walk
<1>10. w \in Seq(1 .. Len(g)) /\ lw \in Nat \ {0} /\ \A k \in 1 .. lw : w[k] \in 1 .. Len(g)
  BY <1>4 DEF Walk
<1> HIDE DEF v, w, a
<1>11. z \in Seq(1 .. Len(a)) /\ Len(z) = lw /\ \A k \in 1 .. lw : z[k] = w[k] + n
  <2>1. \A k \in 1 .. lw : w[k] + n \in 1 .. Len(a)
    BY <1>1, <1>5, <1>10
  <2>2. DOMAIN w = 1 .. lw
    BY <1>10
  <2> QED BY <1>10, <2>1, <2>2
<1> HIDE DEF z
<1>12. r \in Seq(1 .. Len(a)) /\ Len(r) = lw /\ \A k \in 1 .. lw : r[k] = w[lw - k + 1] + n
  <2> HIDE DEF lw
  <2>1. r = [k \in 1 .. lw |-> z[lw - k + 1]]
    BY <1>11 DEF Trees!Reverse
  <2>2. \A k \in 1 .. lw : lw - k + 1 \in 1 .. lw
    BY <1>10
  <2>3. \A k \in 1 .. lw : z[lw - k + 1] \in 1 .. Len(a) /\ z[lw - k + 1] = w[lw - k + 1] + n
    <3>1. \A m \in 1 .. lw : z[m] \in 1 .. Len(a) /\ z[m] = w[m] + n
      BY <1>11
    <3> TAKE k \in 1 .. lw
    <3> DEFINE m == lw - k + 1
    <3>2. m \in 1 .. lw
      BY <2>2
    <3> HIDE DEF m
    <3>3. z[m] \in 1 .. Len(a) /\ z[m] = w[m] + n
      BY <3>1, <3>2
    <3> QED BY <3>3 DEF m
  <2>4. \A m \in Nat : \A S : \A f \in [1 .. m -> S] : f \in Seq(S) /\ Len(f) = m
    OBVIOUS
  <2>5. lw \in Nat
    BY <1>10
  <2> HIDE DEF r
  <2>6. r \in [1 .. lw -> 1 .. Len(a)]
    BY <2>1, <2>3
  <2>7. r \in Seq(1 .. Len(a)) /\ Len(r) = lw
    BY <2>4, <2>5, <2>6
  <2> QED BY <2>1, <2>3, <2>7
<1> HIDE DEF r
<1>13. v \in Seq(1 .. Len(a))
  <2>1. 1 .. n \subseteq 1 .. Len(a)
    BY <1>1, <1>5
  <2>2. \A k \in 1 .. lv : v[k] \in 1 .. Len(a)
    BY <1>9, <2>1
  <2> QED BY <1>9, <2>2
<1>14. /\ p \in Seq(1 .. Len(a)) /\ Len(p) = lv + lw
       /\ \A k \in 1 .. lv : p[k] = v[k]
       /\ \A k \in 1 .. lw : p[lv + k] = w[lw - k + 1] + n
  <2> DEFINE S == 1 .. Len(a)
  <2>1. v \in Seq(S) /\ r \in Seq(S) /\ Len(r) = lw /\ lv \in Nat /\ lw \in Nat
    BY <1>9, <1>10, <1>12, <1>13
  <2> HIDE DEF S
  <2>2. /\ p \in Seq(S) /\ Len(p) = Len(v) + Len(r)
        /\ \A k \in 1 .. Len(v) + Len(r) : p[k] = IF k <= Len(v) THEN v[k] ELSE r[k - Len(v)]
    BY <2>1, ConcatProperties
  <2> HIDE DEF p, lv, lw
  <2>3. Len(v) = lv
    BY DEF lv
  <2>4. \A k \in 1 .. lv : k \in 1 .. lv + lw /\ k <= lv
    BY <2>1
  <2>5. \A k \in 1 .. lw : lv + k \in 1 .. lv + lw /\ ~(lv + k <= lv) /\ lv + k - lv = k
    BY <2>1
  <2>6. \A k \in 1 .. lw : p[lv + k] = r[k]
    BY <2>1, <2>2, <2>3, <2>5
  <2> QED BY <1>12, <2>1, <2>2, <2>3, <2>4, <2>6 DEF S
<1> HIDE DEF p, lv, lw
<1>15. p # <<>> /\ p[1] = 1
  <2>1. 1 \in 1 .. lv /\ Len(p) # 0
    BY <1>9, <1>10, <1>14
  <2> QED BY <1>3, <1>14, <2>1
<1>16. a[p[lv]].at = t[n].at /\ a[p[lv + 1]].at = g[Len(g)].at
  <2>1. lv \in 1 .. lv /\ 1 \in 1 .. lw /\ lw - 1 + 1 = lw
    BY <1>9, <1>10
  <2>2. p[lv] = n /\ p[lv + 1] = n + Len(g)
    BY <1>1, <1>3, <1>4, <1>14, <2>1
  <2> QED BY <1>2, <1>5, <2>2
<1>17. ASSUME NEW k \in 1 .. Len(p) - 1 PROVE Trees!SegmentFree(a[p[k]].at, a[p[k + 1]].at)
  <2>1. CASE k < lv
    <3>1. k \in 1 .. lv - 1 /\ k \in 1 .. lv /\ k + 1 \in 1 .. lv
      BY <1>9, <2>1
    <3>2. a[p[k]] = t[v[k]] /\ a[p[k + 1]] = t[v[k + 1]]
      BY <1>5, <1>9, <1>14, <3>1
    <3> QED BY <1>7, <3>1, <3>2
  <2>2. CASE k = lv
    <3>1. t[n].at \in Points /\ g[Len(g)].at \in Points
      BY <1>1, <1>2, NodesAre
    <3>2. Trees!SegmentFree(t[n].at, g[Len(g)].at)
      BY <3>1, StepsAreFree
    <3> QED BY <1>16, <2>2, <3>2
  <2>3. CASE k > lv
    <3> DEFINE h == k - lv
               m == lw - h
    <3>1. /\ h \in 1 .. lw /\ h + 1 \in 1 .. lw /\ k = lv + h /\ k + 1 = lv + (h + 1)
          /\ m \in 1 .. lw - 1 /\ m \in 1 .. lw /\ m + 1 \in 1 .. lw
          /\ lw - h + 1 = m + 1 /\ lw - (h + 1) + 1 = m
      BY <1>9, <1>10, <1>14, <2>3
    <3> HIDE DEF h, m
    <3>2. p[k] = w[m + 1] + n /\ p[k + 1] = w[m] + n
      BY <1>14, <3>1
    <3>3. w[m + 1] \in 1 .. Len(g) /\ w[m] \in 1 .. Len(g)
      BY <1>10, <3>1
    <3>4. p[k] = n + w[m + 1] /\ p[k + 1] = n + w[m]
      BY <1>1, <3>2, <3>3
    <3>5. a[p[k]].at = g[w[m + 1]].at /\ a[p[k + 1]].at = g[w[m]].at
      BY <1>5, <3>3, <3>4
    <3> QED BY <1>8, <3>1, <3>5
  <2> QED BY <1>9, <2>1, <2>2, <2>3
<1>18. a[p[Len(p)]].at = c.goal
  <2>1. lw \in 1 .. lw /\ lw - lw + 1 = 1 /\ 1 \in 1 .. Len(g) /\ n + 1 = 1 + n
    BY <1>1, <1>10
  <2>2. p[Len(p)] = n + 1
    BY <1>4, <1>14, <2>1
  <2> QED BY <1>5, <2>1, <2>2
<1>19. Promised(a[p[Len(p)]].at, c) /\ c.kind \notin Trees!Stars
  BY <1>18 DEF Promised, Trees!Stars
<1>20. Delivered(a, p, c)
  BY <1>14, <1>15, <1>17, <1>19 DEF Delivered
<1> QED BY <1>6, <1>20 DEF a

-----------------------------------------------------------------------------
(* The planners' steps *)

LEMMA RootsAre == /\ Roots \subseteq Points /\ Goals \subseteq Points
                  /\ \A p \in Points : Trees!Node(p, 0, Trees!Unknown).at = p
BY TreesAssumption DEF Trees!RRTAssumption, Trees!Node

LEMMA PlanInit == Trees!Init => PlanInv
<1> SUFFICES ASSUME Trees!Init PROVE PlanInv
  OBVIOUS
<1>1. PICK root \in Roots : tree = <<Trees!Node(root, 0, Trees!Unknown)>>
  BY DEF Trees!Init
<1>2. Rooted(tree)
  BY <1>1, RootsAre, LoneNode
<1>3. PlanForest(tree) /\ tree[1].parent = 0
  BY <1>1, <1>2 DEF Rooted, Trees!Node
<1>4. call = Trees!Idle /\ goalTree = <<>>
  BY DEF Trees!Init
<1> QED BY <1>3, <1>4 DEF PlanInv, PlanState, Trees!Idle

LEMMA SetRootKeeps ==
  ASSUME PlanInv, Trees!SetRoot
  PROVE  PlanInv'
<1>1. PICK root \in Roots : tree' = <<Trees!Node(root, 0, Trees!Unknown)>>
  BY DEF Trees!SetRoot
<1>2. Rooted(tree')
  BY <1>1, RootsAre, LoneNode
<1>3. PlanForest(tree') /\ tree'[1].parent = 0
  BY <1>1, <1>2 DEF Rooted, Trees!Node
<1>4. call' = Trees!Idle /\ goalTree' = <<>>
  BY DEF Trees!SetRoot, Trees!Running, PlanInv, PlanState
<1> QED BY <1>3, <1>4 DEF PlanInv, PlanState, Trees!Idle

\* RRT* sets the cost of the root.
LEMMA ZeroedIs ==
  ASSUME NEW t, Rooted(t), \A i \in 2 .. Len(t) : Known(t, i), NEW u, DOMAIN u = DOMAIN t,
         \A i \in DOMAIN t : u[i] = [t[i] EXCEPT !.cost = IF i = 1 THEN 0 ELSE @],
         u = [i \in DOMAIN t |-> u[i]]
  PROVE  Costed(u)
<1> DEFINE n == Len(t)
<1>1. n \in Nat \ {0} /\ t \in Seq(PlanNodes) /\ DOMAIN t = 1 .. n /\ PlanForest(t)
  BY DEF Rooted, PlanForest
<1>2. \A i \in 1 .. n : i = 1 \/ i \in 2 .. n
  BY <1>1
<1>3. \A i \in 1 .. n : t[i].cost \in Nat \cup {Trees!Unknown} /\ t[i] \in PlanNodes
  BY <1>1, NodesAre
<1>4. ASSUME NEW i \in 1 .. n
      PROVE  /\ u[i] \in PlanNodes /\ u[i].at = t[i].at /\ u[i].parent = t[i].parent
             /\ u[i].cost \in Nat /\ u[i].cost = IF i = 1 THEN 0 ELSE t[i].cost
  <2>1. u[i] = [t[i] EXCEPT !.cost = IF i = 1 THEN 0 ELSE @]
    BY <1>1
  <2>2. i # 1 => t[i].cost \in Nat
    BY <1>2, <1>3 DEF Known, n
  <2>3. t[i] = [at |-> t[i].at, parent |-> t[i].parent, cost |-> t[i].cost] /\ t[i].at \in Points /\ t[i].parent \in Nat
    BY <1>3 DEF PlanNodes
  <2>4. u[i] = [at |-> t[i].at, parent |-> t[i].parent, cost |-> IF i = 1 THEN 0 ELSE t[i].cost]
    BY <2>1, <2>3
  <2> QED BY <2>2, <2>3, <2>4 DEF PlanNodes
<1>5. u \in Seq(PlanNodes) /\ Len(u) = n /\ u # <<>>
  <2>1. \A m \in Nat : \A S : \A f \in [1 .. m -> S] : f \in Seq(S) /\ Len(f) = m
    OBVIOUS
  <2>2. u \in [1 .. n -> PlanNodes]
    BY <1>1, <1>4
  <2>3. u \in Seq(PlanNodes) /\ Len(u) = n
    BY <1>1, <2>1, <2>2
  <2> QED BY <1>1, <2>3
<1> HIDE DEF n
<1>6. \A i \in 1 .. n : t[i].parent # 0 => t[i].parent \in 1 .. n
  BY <1>1 DEF PlanForest, Hops, n
<1>7. Hops(u)
  <2>1. ASSUME NEW i \in 1 .. n, u[i].parent # 0
        PROVE  u[i].parent \in 1 .. n /\ Trees!SegmentFree(u[u[i].parent].at, u[i].at)
    <3>1. t[i].parent \in 1 .. n /\ Trees!SegmentFree(t[t[i].parent].at, t[i].at)
      BY <1>1, <1>4, <2>1 DEF PlanForest, Hops, n
    <3>2. u[i].parent = t[i].parent /\ u[i].at = t[i].at /\ u[t[i].parent].at = t[t[i].parent].at
      BY <1>4, <3>1
    <3> QED BY <3>1, <3>2
  <2> QED BY <1>5, <2>1 DEF Hops
<1>8. \A i \in 1 .. n : Known(u, i)
  <2>1. \A x \in Nat : x # Trees!Unknown
    BY DEF Trees!Unknown
  <2>2. \A i \in 1 .. n : u[i].cost \in Nat
    BY <1>4
  <2> QED BY <2>1, <2>2 DEF Known
<1>9. Rises(u)
  <2>1. ASSUME NEW i \in 1 .. n, u[i].parent # 0
        PROVE  u[i].parent \in 1 .. n /\ u[u[i].parent].cost + Distance(u[u[i].parent].at, u[i].at) <= u[i].cost
    <3>1. t[i].parent \in 1 .. n /\ t[i].parent # 0 /\ u[i].parent = t[i].parent
      BY <1>4, <1>6, <2>1
    <3>2. i # 1 /\ i \in 2 .. n
      BY <1>2, <3>1 DEF Rooted, n
    <3>3. Known(t, i)
      BY <3>2 DEF n
    <3>4. Known(t, t[i].parent) /\ t[t[i].parent].cost + Distance(t[t[i].parent].at, t[i].at) <= t[i].cost
      BY <1>1, <3>1, <3>3 DEF PlanForest, Rises, n
    <3>5. /\ u[i].at = t[i].at /\ u[i].cost = t[i].cost /\ u[i].cost \in Nat
          /\ u[t[i].parent].at = t[t[i].parent].at
          /\ u[t[i].parent].cost \in Nat /\ u[t[i].parent].cost \in {0, t[t[i].parent].cost}
      BY <1>4, <3>1, <3>2
    <3>6. t[t[i].parent].cost \in Nat
      BY <1>3, <3>1, <3>4 DEF Known
    <3>7. Distance(t[t[i].parent].at, t[i].at) \in Nat
      BY <1>1, <3>1, NodesAre, Metric DEF n
    <3> QED BY <3>1, <3>4, <3>5, <3>6, <3>7
  <2> QED BY <1>5, <1>8, <2>1 DEF Rises
<1>10. NoRing(u)
  <2>1. NoRing(t)
    BY <1>1 DEF PlanForest
  <2> QED BY <1>4, <1>5, <2>1 DEF NoRing, n
<1>11. \A i \in 1 .. n : u[i].parent = 0 <=> i = 1
  BY <1>4 DEF Rooted, n
<1>12. u[1].cost = 0
  BY <1>1, <1>4
<1> QED BY <1>5, <1>7, <1>8, <1>9, <1>10, <1>11, <1>12 DEF Costed, Rooted, PlanForest

LEMMA BeginKeeps ==
  ASSUME Careful, PlanInv, NEW kind \in Trees!Planners, NEW goal \in Goals, Trees!Begin(kind, goal)
  PROVE  PlanInv'
<1>1. PlanForest(tree) /\ tree[1].parent = 0 /\ tree \in Seq(PlanNodes) /\ Len(tree) \in Nat \ {0}
  BY DEF PlanInv, PlanState, PlanForest
<1>2. /\ \A i \in 2 .. Len(tree) : tree[i].parent # 0
      /\ kind \in Trees!Stars => \A i \in 2 .. Len(tree) : Known(tree, i)
  BY DEF Trees!Begin, Trees!UsableAgain, Known
<1>3. Rooted(tree)
  <2>1. \A i \in 1 .. Len(tree) : i = 1 \/ i \in 2 .. Len(tree)
    BY <1>1
  <2>2. \A i \in 2 .. Len(tree) : i # 1
    BY <1>1
  <2> QED BY <1>1, <1>2, <2>1, <2>2 DEF Rooted
<1>4. call' = [kind |-> kind, goal |-> goal, running |-> TRUE, found |-> FALSE,
               best |-> 0, bestCost |-> 0, active |-> "start"]
  BY DEF Trees!Begin
<1>5. call' \in PlanCalls
  BY <1>4 DEF PlanCalls
<1>6. /\ call'.kind = kind /\ call'.goal = goal /\ call'.running = TRUE /\ call'.found = FALSE
      /\ call'.best = 0
  BY <1>4
<1>7. kind = "connect" => Rooted(goalTree') /\ goalTree'[1].at = goal
  <2> SUFFICES ASSUME kind = "connect" PROVE Rooted(goalTree') /\ goalTree'[1].at = goal
    OBVIOUS
  <2>1. goalTree' = <<Trees!Node(goal, 0, Trees!Unknown)>>
    BY DEF Trees!Begin
  <2>2. goal \in Points
    BY RootsAre
  <2> QED BY <2>1, <2>2, RootsAre, LoneNode
<1>8. kind # "connect" => goalTree' = <<>>
  BY DEF Trees!Begin
<1>9. CASE kind \in Trees!Stars
  <2> DEFINE Ask == {i \in 2 .. Len(tree) : tree[i].cost = Trees!Unknown}
  <2>1. Ask = {}
    BY <1>2, <1>9 DEF Known
  <2>2. PICK junk \in [Ask -> Garbage] :
          tree' = [i \in DOMAIN tree |->
                     [tree[i] EXCEPT !.cost = IF i = 1 THEN 0
                                              ELSE IF i \in DOMAIN junk THEN junk[i] ELSE @]]
    BY <1>9 DEF Trees!Begin
  <2> HIDE DEF Ask
  <2>3. DOMAIN junk = {}
    BY <2>1, <2>2
  <2>4. \A i : i \notin DOMAIN junk
    BY <2>3
  <2>5. /\ DOMAIN tree' = DOMAIN tree
        /\ \A i \in DOMAIN tree : tree'[i] = [tree[i] EXCEPT !.cost = IF i = 1 THEN 0 ELSE @]
        /\ tree' = [i \in DOMAIN tree |-> tree'[i]]
    BY <2>2, <2>4
  <2>6. Costed(tree')
    BY <1>2, <1>3, <1>9, <2>5, ZeroedIs
  <2>7. Rooted(tree') /\ PlanForest(tree') /\ tree'[1].parent = 0
    <3>1. Rooted(tree') /\ PlanForest(tree')
      BY <2>6 DEF Costed, Rooted
    <3>2. 1 \in 1 .. Len(tree')
      BY <3>1 DEF PlanForest
    <3> QED BY <3>1, <3>2 DEF Rooted
  <2> QED BY <1>5, <1>6, <1>7, <1>8, <2>6, <2>7 DEF PlanInv, PlanState, Planning
<1>10. CASE kind \notin Trees!Stars
  <2>1. tree' = tree
    BY <1>10 DEF Trees!Begin
  <2> QED BY <1>1, <1>3, <1>5, <1>6, <1>7, <1>8, <1>10, <2>1 DEF PlanInv, PlanState, Planning
<1> QED BY <1>9, <1>10

\* A call that ends, with a path or without.
LEMMA ReturnIs ==
  ASSUME NEW c \in PlanCalls, NEW f \in BOOLEAN
  PROVE  LET r == [c EXCEPT !.running = FALSE, !.found = f, !.active = "start"]
         IN  /\ r \in PlanCalls /\ r.kind = c.kind /\ r.goal = c.goal /\ r.bestCost = c.bestCost
             /\ r.running = FALSE /\ r.found = f
<1> DEFINE r == [c EXCEPT !.running = FALSE, !.found = f, !.active = "start"]
<1>1. r.kind = c.kind /\ r.goal = c.goal /\ r.bestCost = c.bestCost /\ r.running = FALSE /\ r.found = f
  BY DEF PlanCalls
<1>2. r \in PlanCalls
  BY DEF PlanCalls
<1> QED BY <1>1, <1>2

\* Where a planner ends depends on its kind and its goal.
LEMMA StillPromised ==
  ASSUME NEW p, NEW c, NEW r, r.kind = c.kind /\ r.goal = c.goal, Promised(p, c)
  PROVE  Promised(p, r)
BY DEF Promised

LEMMA StopKeeps ==
  ASSUME PlanInv, Trees!Stop
  PROVE  PlanInv'
<1>1. call.running /\ Planning(tree, goalTree, call) /\ tree' = tree /\ goalTree' = <<>>
  BY DEF Trees!Stop, Trees!Running, PlanInv, PlanState
<1>2. call \in PlanCalls /\ PlanForest(tree) /\ tree[1].parent = 0 /\ Rooted(tree)
  BY <1>1 DEF Planning, PlanInv, PlanState
<1>3. CASE call.best = 0
  <2>1. call' = Trees!Return(FALSE)
    BY <1>3 DEF Trees!Stop
  <2>2. call' \in PlanCalls /\ call'.running = FALSE /\ call'.found = FALSE
    BY <1>2, <2>1, ReturnIs DEF Trees!Return
  <2> QED BY <1>1, <1>2, <2>2 DEF PlanInv, PlanState
<1>4. CASE call.best # 0
  <2>1. path' = Trees!Branch(tree, call.best) /\ call' = Trees!Return(TRUE)
    BY <1>4 DEF Trees!Stop, Trees!Finish
  <2>2. /\ call' \in PlanCalls /\ call'.running = FALSE /\ call'.found = TRUE
        /\ call'.kind = call.kind /\ call'.goal = call.goal /\ call'.bestCost = call.bestCost
    BY <1>2, <2>1, ReturnIs DEF Trees!Return
  <2>3. /\ call.best \in 1 .. Len(tree) /\ Promised(tree[call.best].at, call) /\ call.kind \in Trees!Stars
        /\ Thru(tree, call.best, call.goal) <= call.bestCost /\ Costed(tree)
    BY <1>1, <1>4 DEF Planning
  <2>4. Promised(tree[call.best].at, call')
    BY <2>2, <2>3, StillPromised
  <2>5. Known(tree, call.best) /\ Thru(tree, call.best, call'.goal) <= call'.bestCost
    BY <2>2, <2>3 DEF Costed
  <2>6. Delivered(tree, path', call')
    BY <1>2, <2>1, <2>2, <2>3, <2>4, <2>5, BranchDelivers
  <2> QED BY <1>1, <1>2, <2>2, <2>6 DEF PlanInv, PlanState
<1> QED BY <1>3, <1>4

LEMMA GrowTowardKeeps ==
  ASSUME PlanInv, NEW sample \in Points, Trees!GrowToward(sample)
  PROVE  PlanInv'
<1> DEFINE near == Trees!Nearest(tree, sample)
<1>1. /\ call.running /\ Planning(tree, goalTree, call) /\ goalTree' = goalTree
      /\ call.kind \in {"rrt", "region"}
  BY DEF Trees!GrowToward, Trees!Running, PlanInv, PlanState
<1>2. /\ call \in PlanCalls /\ Rooted(tree) /\ tree \in Seq(PlanNodes) /\ tree # <<>> /\ ~call.found
      /\ goalTree = <<>> /\ call.best = 0 /\ call.kind \notin Trees!Stars /\ call.kind # "connect"
  BY <1>1 DEF Planning, Rooted, PlanForest, Trees!Stars
<1>3. PICK q \in Trees!Steered(tree[near].at, sample) :
        /\ tree' = Trees!Grown(tree, q, near)
        /\ IF Trees!Arrived(q) THEN Trees!Finish(Trees!Branch(tree', Len(tree')))
           ELSE UNCHANGED <<path, call>>
  BY DEF Trees!GrowToward
<1>4. near \in 1 .. Len(tree) /\ tree[near].at \in Points
  BY <1>2, NearestIs, NodesAre
<1> HIDE DEF near
<1>5. q \in Points /\ Distance(tree[near].at, q) <= Step
  BY <1>4, SteeredIs
<1>6. /\ Rooted(tree') /\ Len(tree') = Len(tree) + 1
      /\ tree'[Len(tree) + 1] = Trees!Node(q, near, Trees!Unknown)
  BY <1>2, <1>3, <1>4, <1>5, GrownIs
<1>7. PlanForest(tree') /\ tree'[1].parent = 0 /\ Len(tree') \in 1 .. Len(tree') /\ tree'[Len(tree')].at = q
  <2>1. PlanForest(tree') /\ 1 \in 1 .. Len(tree') /\ Len(tree') \in 1 .. Len(tree')
    BY <1>6 DEF Rooted, PlanForest
  <2> QED BY <1>6, <2>1 DEF Rooted, Trees!Node
<1>8. CASE Trees!Arrived(q)
  <2>1. path' = Trees!Branch(tree', Len(tree')) /\ call' = Trees!Return(TRUE)
    BY <1>3, <1>8 DEF Trees!Finish
  <2>2. /\ call' \in PlanCalls /\ call'.running = FALSE /\ call'.found = TRUE
        /\ call'.kind = call.kind /\ call'.goal = call.goal
    BY <1>2, <2>1, ReturnIs DEF Trees!Return
  <2>3. Promised(q, call)
    BY <1>1, <1>8 DEF Trees!Arrived, Promised
  <2>4. Promised(tree'[Len(tree')].at, call')
    BY <1>7, <2>2, <2>3, StillPromised
  <2>5. Delivered(tree', path', call')
    BY <1>2, <1>6, <1>7, <2>1, <2>2, <2>4, BranchDelivers
  <2> QED BY <1>1, <1>2, <1>7, <2>2, <2>5 DEF PlanInv, PlanState
<1>9. CASE ~Trees!Arrived(q)
  <2>1. call' = call
    BY <1>3, <1>9
  <2>2. Planning(tree', goalTree', call')
    BY <1>1, <1>2, <1>6, <2>1 DEF Planning
  <2> QED BY <1>1, <1>2, <1>7, <2>1, <2>2 DEF PlanInv, PlanState
<1> QED BY <1>8, <1>9

\* Behind the waypoint i where a shortcut to j begins.
LEMMA BeyondCut ==
  ASSUME NEW n \in Nat, NEW i \in 1 .. n, NEW j \in 1 .. n, NEW k \in 1 .. i + n - j, k > i
  PROVE  /\ k - i - 1 \in 0 .. n - j /\ k - i \in 0 .. n - j
         /\ i + 1 + (k - i - 1) = k /\ i + 1 + (k - i) = k + 1
         /\ j + (k - i) = j + (k - i - 1) + 1 /\ j + (k - i - 1) \in 1 .. n - 1
OBVIOUS

LEMMA CutDelivers ==
  ASSUME NEW t \in Seq(PlanNodes), NEW p, NEW c, Delivered(t, p, c),
         NEW i \in 1 .. Len(p), NEW j \in 1 .. Len(p), i + 2 <= j,
         Trees!SegmentFree(t[p[i]].at, t[p[j]].at)
  PROVE  Delivered(t, Cut(p, i, j), c)
<1> DEFINE n == Len(p)
           V == 1 .. Len(t)
           s == Cut(p, i, j)
           l == Len(s)
<1>1. /\ c \in PlanCalls /\ p \in Seq(1 .. Len(t)) /\ p # <<>> /\ p[1] = 1
      /\ \A k \in 1 .. n - 1 : Trees!SegmentFree(t[p[k]].at, t[p[k + 1]].at)
      /\ Promised(t[p[n]].at, c)
      /\ c.kind \in Trees!Stars => Trees!Length(t, p) + Distance(t[p[n]].at, c.goal) <= c.bestCost
  BY DEF Delivered
<1>2. n \in Nat \ {0} /\ p \in Seq(V) /\ \A k \in 1 .. n : p[k] \in 1 .. Len(t)
  BY <1>1
<1>3. /\ s \in Seq(V) /\ s # <<>> /\ l = i + n - j + 1
      /\ \A k \in 1 .. i : s[k] = p[k]
      /\ \A k \in 0 .. n - j : s[i + 1 + k] = p[j + k]
  <2> HIDE DEF V
  <2> QED BY <1>2, CutIs
<1> HIDE DEF s, l, n, V
<1>4. i \in 1 .. n /\ j \in 1 .. n
  BY DEF n
<1>5. s[1] = 1
  <2>1. 1 \in 1 .. i
    BY <1>2, <1>4
  <2> QED BY <1>1, <1>3, <2>1
<1>6. s[l] = p[n]
  <2>1. n - j \in 0 .. n - j /\ i + 1 + (n - j) = i + n - j + 1 /\ j + (n - j) = n
    BY <1>2, <1>4
  <2> QED BY <1>3, <2>1
<1>7. ASSUME NEW k \in 1 .. l - 1 PROVE Trees!SegmentFree(t[s[k]].at, t[s[k + 1]].at)
  <2>1. k \in 1 .. i + n - j
    BY <1>2, <1>3, <1>4
  <2>2. CASE k < i
    <3>1. k \in 1 .. i /\ k + 1 \in 1 .. i /\ k \in 1 .. n - 1
      BY <1>2, <1>4, <2>2
    <3> QED BY <1>1, <1>3, <3>1
  <2>3. CASE k = i
    <3>1. i \in 1 .. i /\ 0 \in 0 .. n - j /\ i + 1 + 0 = i + 1 /\ j + 0 = j
      BY <1>2, <1>4
    <3>2. s[k] = p[i] /\ s[k + 1] = p[j]
      BY <1>3, <2>3, <3>1
    <3> QED BY <3>2
  <2>4. CASE k > i
    <3> DEFINE h == k - i - 1
               m == j + h
    <3>1. /\ h \in 0 .. n - j /\ k - i \in 0 .. n - j /\ i + 1 + h = k /\ i + 1 + (k - i) = k + 1
          /\ j + (k - i) = m + 1 /\ m \in 1 .. n - 1
      BY <1>2, <1>4, <2>1, <2>4, BeyondCut
    <3>2. m = j + h
      OBVIOUS
    <3> HIDE DEF h, m
    <3>3. s[k] = p[m] /\ s[k + 1] = p[m + 1]
      BY <1>3, <3>1, <3>2
    <3> QED BY <1>1, <3>1, <3>3
  <2> QED BY <1>4, <2>1, <2>2, <2>3, <2>4
<1>8. ASSUME c.kind \in Trees!Stars
      PROVE  Trees!Length(t, s) + Distance(t[s[l]].at, c.goal) <= c.bestCost
  <2>1. Trees!Length(t, p) + Distance(t[p[n]].at, c.goal) <= c.bestCost
    BY <1>1, <1>8
  <2>2. Trees!Length(t, s) <= Trees!Length(t, p)
    BY <1>1, CutsShorten DEF s
  <2>3. Trees!Length(t, s) \in Nat /\ Trees!Length(t, p) \in Nat
    BY <1>1, <1>3, AlongNat DEF V
  <2>4. Distance(t[p[n]].at, c.goal) \in Nat /\ c.bestCost \in Nat
    <3>1. c.goal \in Points /\ c.bestCost \in Nat
      BY <1>1, RootsAre DEF PlanCalls
    <3>2. p[n] \in 1 .. Len(t)
      BY <1>2
    <3>3. t[p[n]].at \in Points
      BY <3>2, NodesAre
    <3> QED BY <3>1, <3>3, Metric
  <2> QED BY <1>6, <2>1, <2>2, <2>3, <2>4
<1>9. Delivered(t, s, c)
  BY <1>1, <1>3, <1>5, <1>6, <1>7, <1>8 DEF Delivered, V, l
<1> QED BY <1>9 DEF s

LEMMA ShortcutKeeps ==
  ASSUME PlanInv, NEW i \in DOMAIN path, NEW j \in DOMAIN path, Trees!Shortcut(i, j)
  PROVE  PlanInv'
<1>1. /\ ~call.running /\ call.found /\ tree' = tree /\ call' = call /\ goalTree' = goalTree
      /\ path' = Cut(path, i, j) /\ j >= i + 2 /\ Trees!SegmentFree(tree[path[i]].at, tree[path[j]].at)
  BY DEF Trees!Shortcut, Trees!Running, Cut
<1>2. Delivered(tree, path, call) /\ tree \in Seq(PlanNodes)
  BY <1>1 DEF PlanInv, PlanState, PlanForest
<1>3. i \in 1 .. Len(path) /\ j \in 1 .. Len(path)
  <2>1. path \in Seq(1 .. Len(tree))
    BY <1>2 DEF Delivered
  <2> QED BY <2>1
<1>4. i + 2 <= j
  <2>1. i \in Int /\ j \in Int
    BY <1>3
  <2> QED BY <1>1, <2>1
<1>5. Delivered(tree, Cut(path, i, j), call)
  BY <1>1, <1>2, <1>3, <1>4, CutDelivers
<1> QED BY <1>1, <1>5 DEF PlanInv, PlanState

\* A better end of the path.
Better(c, best, cost) == [c EXCEPT !.best = best, !.bestCost = cost]

LEMMA BetterIs ==
  ASSUME NEW c \in PlanCalls, NEW best \in Nat, NEW cost \in Nat
  PROVE  LET r == Better(c, best, cost)
         IN  /\ r \in PlanCalls /\ r.kind = c.kind /\ r.goal = c.goal /\ r.best = best /\ r.bestCost = cost
             /\ r.running = c.running /\ r.found = c.found
<1> DEFINE r == Better(c, best, cost)
<1>1. r \in PlanCalls /\ r.kind = c.kind /\ r.goal = c.goal /\ r.best = best /\ r.bestCost = cost
  BY DEF PlanCalls, Better
<1>2. r.running = c.running /\ r.found = c.found
  BY DEF PlanCalls, Better
<1> QED BY <1>1, <1>2

LEMMA StarGrowKeeps ==
  ASSUME PlanInv, NEW sample \in Points, Trees!StarGrow(sample)
  PROVE  PlanInv'
<1> DEFINE near == Trees!Nearest(tree, sample)
           n == Len(tree)
           Parent(q) == Trees!BestParent(near, q)
           Moves(q) == {i \in Trees!Kept(q) \ {Parent(q)} : Trees!Rewires(i, q, Thru(tree, Parent(q), q))}
           Total(q) == Thru(tree, Parent(q), q) + Distance(q, call.goal)
<1>1. /\ call.running /\ Planning(tree, goalTree, call) /\ goalTree' = goalTree /\ path' = path
      /\ call.kind \in Trees!Stars
  BY DEF Trees!StarGrow, Trees!Running, PlanInv, PlanState
<1>2. /\ call \in PlanCalls /\ Costed(tree) /\ tree \in Seq(PlanNodes) /\ tree # <<>> /\ ~call.found
      /\ goalTree = <<>> /\ call.kind \notin {"connect", "region"} /\ n \in Nat \ {0}
  BY <1>1 DEF Planning, Rooted, PlanForest, Trees!Stars
<1>3. PICK q \in Trees!Steered(tree[near].at, sample) :
        /\ tree' = Rewired(tree, q, Parent(q), Moves(q))
        /\ call' = IF Distance(q, call.goal) <= Step /\ (call.best = 0 \/ Total(q) < call.bestCost)
                   THEN [call EXCEPT !.best = n + 1, !.bestCost = Total(q)] ELSE call
  BY DEF Trees!StarGrow, Rewired, Thru, Trees!Through
<1>4. near \in 1 .. n /\ tree[near].at \in Points
  BY <1>2, NearestIs, NodesAre
<1> HIDE DEF near
<1>5. q \in Points /\ Distance(tree[near].at, q) <= Step
  BY <1>4, SteeredIs
<1>6. Parent(q) \in 1 .. n /\ Trees!SegmentFree(tree[Parent(q)].at, q)
  BY <1>2, <1>4, <1>5, BestParentIs
<1>7. Cheaper(tree, q, Parent(q), Moves(q))
  <2>1. Trees!Kept(q) \subseteq 1 .. n
    BY <1>2, NodesAre DEF Trees!Kept, Trees!Neighbors
  <2>2. \A i \in Moves(q) : /\ Thru(tree, Parent(q), q) + Distance(tree[i].at, q) < tree[i].cost
                            /\ Trees!SegmentFree(q, tree[i].at)
    BY DEF Trees!Rewires
  <2> QED BY <1>6, <2>1, <2>2 DEF Cheaper
<1> DEFINE parent == Parent(q)
           cost == Thru(tree, parent, q)
           total == Total(q)
           R == Moves(q)
<1>8. parent \in 1 .. n /\ Cheaper(tree, q, parent, R) /\ tree' = Rewired(tree, q, parent, R)
  BY <1>3, <1>6, <1>7
<1>9. total = cost + Distance(q, call.goal)
  OBVIOUS
<1>10. call' = IF Distance(q, call.goal) <= Step /\ (call.best = 0 \/ total < call.bestCost)
               THEN [call EXCEPT !.best = n + 1, !.bestCost = total] ELSE call
  BY <1>3
<1> HIDE DEF parent, total, R, Parent, Total, Moves
<1>11. /\ Costed(tree') /\ Len(tree') = n + 1 /\ tree'[n + 1] = Trees!Node(q, parent, cost)
       /\ \A i \in 1 .. n : tree'[i].at = tree[i].at /\ tree'[i].cost \in Nat /\ tree'[i].cost <= tree[i].cost
  BY <1>2, <1>5, <1>8, RewiredIs
<1>12. cost \in Nat
  <2>1. tree[parent].at \in Points /\ tree[parent].cost \in Nat
    BY <1>2, <1>8, NodesAre DEF Costed, Known
  <2>2. Distance(tree[parent].at, q) \in Nat
    BY <1>5, <2>1, Metric
  <2> QED BY <2>1, <2>2 DEF Thru
<1> HIDE DEF cost
<1>13. call.goal \in Points /\ call.bestCost \in Nat /\ Distance(q, call.goal) \in Nat
  <2>1. call.goal \in Points /\ call.bestCost \in Nat
    BY <1>2, RootsAre DEF PlanCalls
  <2> QED BY <1>5, <2>1, Metric
<1>14. Rooted(tree') /\ PlanForest(tree') /\ tree'[1].parent = 0 /\ n + 1 \in 1 .. Len(tree')
  <2>1. Rooted(tree') /\ PlanForest(tree') /\ 1 \in 1 .. Len(tree') /\ n + 1 \in 1 .. Len(tree')
    BY <1>2, <1>11 DEF Costed, Rooted
  <2> QED BY <2>1 DEF Rooted
<1>15. CASE Distance(q, call.goal) <= Step /\ (call.best = 0 \/ total < call.bestCost)
  <2>1. call' = Better(call, n + 1, total)
    BY <1>10, <1>15 DEF Better
  <2>2. n + 1 \in Nat /\ total \in Nat
    BY <1>2, <1>9, <1>12, <1>13
  <2>3. /\ call' \in PlanCalls /\ call'.kind = call.kind /\ call'.goal = call.goal
        /\ call'.running = call.running /\ call'.found = call.found
        /\ call'.best = n + 1 /\ call'.bestCost = total
    <3> DEFINE m == n + 1
    <3>1. call \in PlanCalls /\ m \in Nat /\ total \in Nat /\ call' = Better(call, m, total)
      BY <1>2, <2>1, <2>2
    <3> HIDE DEF m
    <3>2. /\ call' \in PlanCalls /\ call'.kind = call.kind /\ call'.goal = call.goal
          /\ call'.best = m /\ call'.bestCost = total
      BY <3>1, BetterIs
    <3>3. call'.running = call.running /\ call'.found = call.found
      BY <3>1, BetterIs
    <3> QED BY <3>2, <3>3 DEF m
  <2>4. tree'[n + 1].at = q /\ tree'[n + 1].cost = cost
    BY <1>11 DEF Trees!Node
  <2>5. Promised(tree'[call'.best].at, call')
    BY <1>2, <1>15, <2>3, <2>4 DEF Promised
  <2>6. Thru(tree', call'.best, call'.goal) <= call'.bestCost
    <3>1. Thru(tree', call'.best, call'.goal) = total /\ call'.bestCost = total
      BY <1>9, <2>3, <2>4 DEF Thru
    <3> QED BY <2>2, <3>1
  <2>7. Planning(tree', goalTree', call')
    BY <1>1, <1>2, <1>11, <1>14, <2>3, <2>5, <2>6 DEF Planning
  <2> QED BY <1>1, <1>2, <1>14, <2>3, <2>7 DEF PlanInv, PlanState
<1>16. CASE ~(Distance(q, call.goal) <= Step /\ (call.best = 0 \/ total < call.bestCost))
  <2>1. call' = call
    BY <1>10, <1>16
  <2>2. ASSUME call.best # 0
        PROVE  /\ call.best \in 1 .. Len(tree') /\ Promised(tree'[call.best].at, call)
               /\ Thru(tree', call.best, call.goal) <= call.bestCost
    <3> DEFINE b == call.best
    <3>1. b \in 1 .. n /\ Promised(tree[b].at, call) /\ Thru(tree, b, call.goal) <= call.bestCost
      BY <1>1, <2>2 DEF Planning
    <3> HIDE DEF b
    <3>2. /\ tree'[b].at = tree[b].at /\ tree'[b].cost \in Nat /\ tree'[b].cost <= tree[b].cost
          /\ b \in 1 .. Len(tree')
      BY <1>2, <1>11, <3>1
    <3>3. tree[b].cost \in Nat /\ tree[b].at \in Points
      BY <1>2, <3>1, NodesAre DEF Costed, Known
    <3>4. Distance(tree[b].at, call.goal) \in Nat
      BY <1>13, <3>3, Metric
    <3>5. Thru(tree', b, call.goal) <= call.bestCost
      <4>1. tree[b].cost + Distance(tree[b].at, call.goal) <= call.bestCost
        BY <3>1 DEF Thru
      <4>2. Thru(tree', b, call.goal) = tree'[b].cost + Distance(tree[b].at, call.goal)
        BY <3>2 DEF Thru
      <4> QED BY <1>13, <3>2, <3>3, <3>4, <4>1, <4>2
    <3> QED BY <3>1, <3>2, <3>5 DEF b
  <2>3. Planning(tree', goalTree', call')
    BY <1>1, <1>2, <1>11, <1>14, <2>1, <2>2 DEF Planning
  <2> QED BY <1>1, <1>2, <1>14, <2>1, <2>3 DEF PlanInv, PlanState
<1> QED BY <1>15, <1>16

\* RRT-Connect takes turns.
LEMMA SwapIs ==
  ASSUME NEW c \in PlanCalls
  PROVE  LET r == [c EXCEPT !.active = IF @ = "start" THEN "goal" ELSE "start"]
         IN  /\ r \in PlanCalls /\ r.kind = c.kind /\ r.goal = c.goal /\ r.running = c.running
             /\ r.found = c.found /\ r.best = c.best
<1> DEFINE r == [c EXCEPT !.active = IF @ = "start" THEN "goal" ELSE "start"]
<1>1. r \in PlanCalls /\ r.kind = c.kind /\ r.goal = c.goal /\ r.best = c.best
  BY DEF PlanCalls
<1>2. r.running = c.running /\ r.found = c.found
  BY DEF PlanCalls
<1> QED BY <1>1, <1>2

LEMMA TurnKeeps ==
  ASSUME PlanInv, call.running, call.kind = "connect", Trees!Swap,
         Rooted(tree'), Rooted(goalTree'), goalTree'[1].at = call.goal
  PROVE  PlanInv'
<1>1. Planning(tree, goalTree, call)
  BY DEF PlanInv, PlanState
<1>2. call \in PlanCalls /\ ~call.found /\ call.best = 0 /\ call.kind \notin Trees!Stars
  BY <1>1 DEF Planning, Trees!Stars
<1>3. /\ call' \in PlanCalls /\ call'.kind = call.kind /\ call'.goal = call.goal
      /\ call'.running = call.running /\ call'.found = call.found /\ call'.best = call.best
  BY <1>2, SwapIs DEF Trees!Swap
<1>4. PlanForest(tree') /\ tree'[1].parent = 0
  <2>1. PlanForest(tree') /\ 1 \in 1 .. Len(tree')
    BY DEF Rooted, PlanForest
  <2> QED BY <2>1 DEF Rooted
<1>5. Planning(tree', goalTree', call')
  BY <1>2, <1>3 DEF Planning
<1> QED BY <1>2, <1>3, <1>4, <1>5 DEF PlanInv, PlanState

LEMMA ConnectRefusedKeeps ==
  ASSUME PlanInv, NEW sample \in Points, Trees!ConnectRefused(sample)
  PROVE  PlanInv'
<1>1. /\ call.running /\ call.kind = "connect" /\ Trees!Swap
      /\ tree' = tree /\ goalTree' = goalTree /\ path' = path
  BY DEF Trees!ConnectRefused, Trees!Running
<1>2. Rooted(tree) /\ Rooted(goalTree) /\ goalTree[1].at = call.goal
  BY <1>1 DEF PlanInv, PlanState, Planning
<1>3. Rooted(tree') /\ Rooted(goalTree') /\ goalTree'[1].at = call.goal
  BY <1>1, <1>2
<1> QED BY <1>1, <1>3, TurnKeeps

LEMMA ConnectGrowKeeps ==
  ASSUME PlanInv, NEW sample \in Points, Trees!ConnectGrow(sample)
  PROVE  PlanInv'
<1> DEFINE mine == Trees!Active
           theirs == Trees!Other
           near == Trees!Nearest(mine, sample)
           Bigger(q) == Trees!Grown(mine, q, near)
           Chased(q) == Trees!Follow(theirs, q)
           T(q) == IF call.active = "start" THEN Bigger(q) ELSE Chased(q).t
           G(q) == IF call.active = "start" THEN Chased(q).t ELSE Bigger(q)
<1>1. call.running /\ call.kind = "connect" /\ Planning(tree, goalTree, call)
  BY DEF Trees!ConnectGrow, Trees!Running, PlanInv, PlanState
<1>2. /\ call \in PlanCalls /\ Rooted(tree) /\ Rooted(goalTree) /\ goalTree[1].at = call.goal
      /\ call.kind \notin Trees!Stars
  BY <1>1 DEF Planning, Trees!Stars
<1>3. PICK q \in Trees!Steered(mine[near].at, sample) :
        IF Chased(q).met
        THEN /\ tree' = Trees!Appended(T(q), G(q)) /\ goalTree' = <<>>
             /\ Trees!Finish(Trees!Stitched(T(q), Len(T(q)), G(q), Len(G(q))))
        ELSE tree' = T(q) /\ goalTree' = G(q) /\ Trees!Swap
  BY DEF Trees!ConnectGrow
<1>4. Rooted(mine) /\ Rooted(theirs) /\ mine \in Seq(PlanNodes) /\ mine # <<>> /\ Len(mine) \in Nat \ {0}
  <2>1. Rooted(mine) /\ Rooted(theirs)
    BY <1>2 DEF Trees!Active, Trees!Other
  <2> QED BY <2>1 DEF Rooted, PlanForest
<1> DEFINE grown == Bigger(q)
           other == Chased(q)
           t == T(q)
           g == G(q)
<1>5. /\ t = IF call.active = "start" THEN grown ELSE other.t
      /\ g = IF call.active = "start" THEN other.t ELSE grown
  OBVIOUS
<1>6. call.active = "start" => mine = tree /\ theirs = goalTree
  BY DEF Trees!Active, Trees!Other
<1>7. call.active # "start" => mine = goalTree /\ theirs = tree
  BY DEF Trees!Active, Trees!Other
<1> HIDE DEF mine, theirs, t, g, T, G
<1>8. near \in 1 .. Len(mine) /\ mine[near].at \in Points
  BY <1>4, NearestIs, NodesAre
<1> HIDE DEF near
<1>9. q \in Points /\ Distance(mine[near].at, q) <= Step
  BY <1>8, SteeredIs
<1>10. /\ Rooted(grown) /\ Len(grown) = Len(mine) + 1
       /\ grown[Len(mine) + 1] = Trees!Node(q, near, Trees!Unknown)
       /\ \A i \in 1 .. Len(mine) : grown[i] = mine[i]
  BY <1>4, <1>8, <1>9, GrownIs
<1>11. Followed(theirs, q, other)
  BY <1>4, <1>9, FollowIs
<1> HIDE DEF grown, other, Bigger, Chased
<1>12. grown[1].at = mine[1].at /\ grown[Len(grown)].at = q
  <2>1. 1 \in 1 .. Len(mine)
    BY <1>4
  <2> QED BY <1>10, <2>1 DEF Trees!Node
<1>13. Rooted(other.t) /\ other.t[1].at = theirs[1].at
  BY <1>11 DEF Followed
<1>14. Rooted(t) /\ Rooted(g) /\ g[1].at = call.goal
  <2>1. CASE call.active = "start"
    BY <1>2, <1>5, <1>6, <1>10, <1>13, <2>1
  <2>2. CASE call.active # "start"
    BY <1>2, <1>5, <1>7, <1>10, <1>12, <1>13, <2>2
  <2> QED BY <2>1, <2>2
<1>15. CASE other.met
  <2>1. /\ tree' = Trees!Appended(t, g) /\ goalTree' = <<>>
        /\ Trees!Finish(Trees!Stitched(t, Len(t), g, Len(g)))
    BY <1>3, <1>15 DEF t, g, other
  <2>2. path' = Trees!Stitched(t, Len(t), g, Len(g)) /\ call' = Trees!Return(TRUE)
    BY <2>1 DEF Trees!Finish
  <2>3. /\ call' \in PlanCalls /\ call'.running = FALSE /\ call'.found = TRUE
        /\ call'.kind = call.kind /\ call'.goal = call.goal
    BY <1>2, <2>2, ReturnIs DEF Trees!Return
  <2>4. Distance(other.t[Len(other.t)].at, q) <= Step /\ other.t[Len(other.t)].at \in Points
    <3>1. Distance(other.t[Len(other.t)].at, q) <= Step
      BY <1>11, <1>15 DEF Followed
    <3>2. other.t \in Seq(PlanNodes) /\ Len(other.t) \in 1 .. Len(other.t)
      BY <1>13 DEF Rooted, PlanForest
    <3> QED BY <3>1, <3>2, NodesAre
  <2>5. Distance(t[Len(t)].at, g[Len(g)].at) <= Step
    <3>1. CASE call.active = "start"
      <4>1. t[Len(t)].at = q /\ g[Len(g)].at = other.t[Len(other.t)].at
        BY <1>5, <1>12, <3>1
      <4>2. Distance(q, other.t[Len(other.t)].at) = Distance(other.t[Len(other.t)].at, q)
        BY <1>9, <2>4, Metric
      <4> QED BY <2>4, <4>1, <4>2
    <3>2. CASE call.active # "start"
      BY <1>5, <1>12, <2>4, <3>2
    <3> QED BY <3>1, <3>2
  <2>6. Delivered(tree', path', call')
    BY <1>1, <1>14, <2>1, <2>2, <2>3, <2>5, StitchedDelivers
  <2>7. PlanForest(tree') /\ tree'[1].parent = 0
    <3>1. PlanForest(t) /\ PlanForest(g) /\ 1 \in 1 .. Len(t) /\ t[1].parent = 0
      <4>1. PlanForest(t) /\ PlanForest(g) /\ 1 \in 1 .. Len(t)
        BY <1>14 DEF Rooted, PlanForest
      <4> QED BY <1>14, <4>1 DEF Rooted
    <3>2. PlanForest(tree') /\ \A i \in 1 .. Len(t) : tree'[i] = t[i]
      BY <2>1, <3>1, AppendedIs, Zenon
    <3> QED BY <3>1, <3>2
  <2> QED BY <2>1, <2>3, <2>6, <2>7 DEF PlanInv, PlanState
<1>16. CASE ~other.met
  <2>1. tree' = t /\ goalTree' = g /\ Trees!Swap
    BY <1>3, <1>16 DEF t, g, other
  <2>2. Rooted(tree') /\ Rooted(goalTree') /\ goalTree'[1].at = call.goal
    BY <1>14, <2>1
  <2> QED BY <1>1, <2>1, <2>2, TurnKeeps
<1> QED BY <1>15, <1>16

LEMMA PlanNextKeeps == Careful /\ PlanInv /\ [Trees!Next]_(Trees!vars) => PlanInv'
<1> SUFFICES ASSUME Careful, PlanInv, [Trees!Next]_(Trees!vars) PROVE PlanInv'
  OBVIOUS
<1>1. CASE Trees!SetRoot
  BY <1>1, SetRootKeeps
<1>2. ASSUME NEW kind \in Trees!Planners, NEW goal \in Goals, Trees!Begin(kind, goal) PROVE PlanInv'
  BY <1>2, BeginKeeps
<1>3. ASSUME NEW sample \in Points, Trees!GrowToward(sample) PROVE PlanInv'
  BY <1>3, GrowTowardKeeps
<1>4. ASSUME NEW sample \in Points, Trees!StarGrow(sample) PROVE PlanInv'
  BY <1>4, StarGrowKeeps
<1>5. ASSUME NEW sample \in Points, Trees!ConnectRefused(sample) PROVE PlanInv'
  BY <1>5, ConnectRefusedKeeps
<1>6. ASSUME NEW sample \in Points, Trees!ConnectGrow(sample) PROVE PlanInv'
  BY <1>6, ConnectGrowKeeps
<1>7. ASSUME NEW i \in DOMAIN path, NEW j \in DOMAIN path, Trees!Shortcut(i, j) PROVE PlanInv'
  BY <1>7, ShortcutKeeps
<1>8. CASE Trees!Stop
  BY <1>8, StopKeeps
<1>9. CASE UNCHANGED Trees!vars
  BY <1>9 DEF Trees!vars, PlanInv
<1> QED BY <1>1, <1>2, <1>3, <1>4, <1>5, <1>6, <1>7, <1>8, <1>9 DEF Trees!Next

\* On trees that callers reuse as they may, the invariant holds.
THEOREM PlannersInvariant == Careful => (Trees!Spec => []PlanInv)
<1> SUFFICES ASSUME Careful PROVE Trees!Spec => []PlanInv
  OBVIOUS
<1>1. Trees!Init => PlanInv
  BY PlanInit
<1>2. PlanInv /\ [Trees!Next]_(Trees!vars) => PlanInv'
  BY PlanNextKeeps
<1> QED BY <1>1, <1>2, PTL DEF Trees!Spec

LEMMA PlanInvImplies == PlanInv => TreesGivePaths
<1> SUFFICES ASSUME PlanInv PROVE TreesGivePaths
  OBVIOUS
<1>1. PlanForest(tree) /\ tree \in Seq(PlanNodes) /\ DOMAIN tree = 1 .. Len(tree)
  BY NodesAre DEF PlanInv, PlanState, PlanForest
<1>2. \A i \in DOMAIN tree : tree[Trees!Branch(tree, i)[1]].parent = 0
  BY <1>1, BranchWalks
<1>3. \A i \in DOMAIN goalTree : Trees!Branch(goalTree, i)[1] = 1
  <2>1. CASE goalTree = <<>>
    BY <2>1
  <2>2. CASE goalTree # <<>>
    <3>1. Rooted(goalTree)
      BY <2>2 DEF PlanInv, PlanState, Planning
    <3>2. PlanForest(goalTree) /\ DOMAIN goalTree = 1 .. Len(goalTree)
      BY <3>1, NodesAre DEF Rooted, PlanForest
    <3> QED BY <3>1, <3>2, BranchWalks, WalksAreFree
  <2> QED BY <2>1, <2>2
<1>4. ASSUME NEW i \in DOMAIN tree, tree[i].cost # Trees!Unknown
      PROVE  Trees!Length(tree, Trees!Branch(tree, i)) <= tree[i].cost
  <2> DEFINE w == Trees!Branch(tree, i)
  <2>1. Walk(tree, w) /\ w[Len(w)] = i
    BY <1>1, BranchWalks
  <2> HIDE DEF w
  <2>2. Known(tree, w[Len(w)])
    BY <1>4, <2>1 DEF Known
  <2>3. Trees!Length(tree, w) <= tree[w[Len(w)]].cost
    BY <1>1, <2>1, <2>2, WalksCost
  <2> QED BY <2>1, <2>3 DEF w
<1>5. ASSUME call.found PROVE Delivered(tree, path, call)
  BY <1>5 DEF PlanInv, PlanState
<1>6. Trees!Last(path) = path[Len(path)]
  BY DEF Trees!Last
<1>7. Trees!ParentsEnd
  BY <1>2, <1>3 DEF Trees!ParentsEnd
<1>8. Trees!CostsCoverLengths
  BY <1>4, <1>5, <1>6 DEF Trees!CostsCoverLengths, Delivered
<1>9. Trees!PathUsable
  BY <1>5, <1>6 DEF Trees!PathUsable, Delivered, Promised
<1> QED BY <1>7, <1>8, <1>9 DEF TreesGivePaths

(***************************************************************************)
(* RRT, RRT-Connect, RRT* and informed RRT*, called any number of times on *)
(* one tree as their callers must, keep it a forest in which every walk    *)
(* ends and no cost is below the length it stands for; and what they or    *)
(* nuc_rrt_shortcut_path return starts at the root, is free, and ends      *)
(* where it was promised: for all points, obstacles and metrics.           *)
(***************************************************************************)
THEOREM PlannersGivePaths == Careful => (Trees!Spec => []TreesGivePaths)
BY PlannersInvariant, PlanInvImplies, PTL
=============================================================================
