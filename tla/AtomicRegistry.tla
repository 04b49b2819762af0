--------------------------- MODULE AtomicRegistry ---------------------------
(***************************************************************************)
(* The registry of AtomicI64 handles in                                    *)
(* src/stdlib/runtime/nucleor_llvm_rt.c: an open-addressing table that     *)
(* every operation on a cell consults before it touches the cell.  Each    *)
(* call does its work on the table under one lock and is one step.  A      *)
(* freed cell is retired, not given back: its address is not used again,   *)
(* and its entry stays.                                                    *)
(***************************************************************************)
EXTENDS Integers

CONSTANTS Handles,     \* addresses of cells
          NoHandle,    \* 0, the handle of an empty entry
          Cap,         \* NUC_ATOMIC_I64_REG_CAP
          Hashes       \* what the hash function may be

ASSUME RegistryAssumption ==
  /\ NoHandle \notin Handles
  /\ Cap \in Nat \ {0}
  /\ Hashes \subseteq [Handles -> 0 .. Cap - 1]

VARIABLES hash,
          registry,    \* per entry, the handle in it
          made,        \* handles of registered cells
          active,      \* those that were not freed
          panicked     \* the process has ended on a full registry

vars == <<hash, registry, made, active, panicked>>

Entries == 0 .. Cap - 1
Entry(h, probe) == (hash[h] + probe) % Cap

Init ==
  /\ hash \in Hashes
  /\ registry = [e \in Entries |-> NoHandle]
  /\ made = {} /\ active = {}
  /\ panicked = FALSE

\* The search along the entries of h ends at this probe.
EndsAt(h, probe) ==
  /\ registry[Entry(h, probe)] \in {NoHandle, h}
  /\ \A earlier \in 0 .. probe - 1 : registry[Entry(h, earlier)] \notin {NoHandle, h}

\* Mutant: only the first entry is looked at.
FoundAtHome(h) == registry[Entry(h, 0)] = h

Found(h) == \E probe \in Entries : EndsAt(h, probe) /\ registry[Entry(h, probe)] = h

\* An operation on h touches the cell, or does nothing and returns 0.
Usable(h) == Found(h) /\ h \in active

\* calloc returns an address that no cell has.
New(h) ==
  /\ ~panicked
  /\ h \notin made
  /\ \E probe \in Entries :
       /\ EndsAt(h, probe)
       /\ registry' = [registry EXCEPT ![Entry(h, probe)] = h]
  /\ made' = made \cup {h}
  /\ active' = active \cup {h}
  /\ UNCHANGED <<hash, panicked>>

NewPanics(h) ==
  /\ ~panicked
  /\ h \notin made
  /\ \A probe \in Entries : registry[Entry(h, probe)] \notin {NoHandle, h}
  /\ panicked' = TRUE
  /\ UNCHANGED <<hash, registry, made, active>>

\* The caller may pass any address, one of no cell too.
Free(h) ==
  /\ ~panicked
  /\ active' = IF Found(h) THEN active \ {h} ELSE active
  /\ UNCHANGED <<hash, registry, made, panicked>>

Next == \E h \in Handles : New(h) \/ NewPanics(h) \/ Free(h)

Spec == Init /\ [][Next]_vars

-----------------------------------------------------------------------------
TypeOK ==
  /\ hash \in [Handles -> Entries]
  /\ registry \in [Entries -> Handles \cup {NoHandle}]
  /\ made \subseteq Handles /\ active \subseteq made
  /\ panicked \in BOOLEAN

(***************************************************************************)
(* The search finds a handle exactly if its cell was registered, whatever  *)
(* collides with it, however full the registry is and whatever was freed:  *)
(* no live cell is refused as forged and no forged handle is let through.  *)
(***************************************************************************)
RegisteredAreFound == \A h \in Handles : Found(h) <=> h \in made

(***************************************************************************)
(* The process ends on a full registry only if every entry holds a handle  *)
(* that was made, each entry a different one.                              *)
(***************************************************************************)
PanicsOnlyWhenFull ==
  panicked => /\ \A e \in Entries : registry[e] \in made
              /\ \A d, e \in Entries : registry[d] = registry[e] => d = e
=============================================================================
