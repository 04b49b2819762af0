------------------------------ MODULE Clifford ------------------------------
(***************************************************************************)
(* The stabilizer tableau simulator of the Clifford rod                    *)
(* (src/stdlib/runtime/clifford_rt.c).  A row of the tableau is a Pauli    *)
(* string with a sign: the qubits whose X bit is set, the qubits whose Z   *)
(* bit is set (both: a Y), and the phase bit.  Rows 0 .. N-1 are the       *)
(* destabilizers, rows N .. 2N-1 the stabilizers.                          *)
(*                                                                         *)
(* A tableau starts either as the state |0..0> (nuc_cliff_init) or blank,  *)
(* for a code whose generators are added one by one (nuc_cliff_init_code). *)
(* psi is not in the code: it is the state vector the tableau stands for,  *)
(* moved along by the textbook definition of each gate and measurement.    *)
(***************************************************************************)
EXTENDS Integers, Sequences, FiniteSets, FiniteSetsExt

CONSTANTS N,             \* qubits of the tableau
          CodeGates      \* gates a code under construction is given

CliffordAssumption == N \in Nat \ {0} /\ CodeGates \subseteq {"h", "s", "cnot"}

VARIABLES tab,     \* t->tab
          code,    \* made by nuc_cliff_init_code and not reset since
          psi      \* the state vector, up to scale and global phase

vars == <<tab, code, psi>>

Qubits == 0 .. N - 1
Row == [x: SUBSET Qubits, z: SUBSET Qubits, p: {0, 1}]
Identity == [x |-> {}, z |-> {}, p |-> 0]
Stabilizers == N .. 2 * N - 1

Xor(A, B) == (A \ B) \cup (B \ A)
Parity(S) == Cardinality(S) % 2
Commute(a, b) == Parity(a.x \cap b.z) = Parity(a.z \cap b.x)
Pauli(r) == [r EXCEPT !.p = 0]
Active(r) == Pauli(r) # Identity

-----------------------------------------------------------------------------
(* Products of rows *)

Letter(r, q) == (IF q \in r.x THEN 1 ELSE 0) + (IF q \in r.z THEN 2 ELSE 0)

PhaseOf(a, b) ==
  IF 0 \in {a, b} \/ a = b THEN 0
  ELSE IF <<a, b>> \in {<<1, 3>>, <<3, 2>>, <<2, 1>>} THEN 1 ELSE -1

RowMultPhase(a, b) ==
  LET quarter(q) == PhaseOf(Letter(a, q), Letter(b, q))
      phase == 2 * a.p + 2 * b.p + MapThenSumSet(quarter, Qubits)
  IN IF phase % 4 >= 2 THEN 1 ELSE 0

RowMult(a, b) == [x |-> Xor(a.x, b.x), z |-> Xor(a.z, b.z), p |-> RowMultPhase(a, b)]

-----------------------------------------------------------------------------
(* The state vector: amplitudes are Gaussian integers, indexed by the set  *)
(* of qubits that are 1.                                                   *)

Basis == SUBSET Qubits
Scale(k, a) == <<k * a[1], k * a[2]>>
Plus(a, b) == <<a[1] + b[1], a[2] + b[2]>>
TimesI(a) == <<-a[2], a[1]>>
IPower(k, a) == CASE k % 4 = 0 -> a [] k % 4 = 1 -> TimesI(a)
                  [] k % 4 = 2 -> Scale(-1, a) [] OTHER -> Scale(-1, TimesI(a))
Sign(k) == IF k % 2 = 0 THEN 1 ELSE -1

\* Divides by the first amplitude that is not 0, which leaves 0, 1, -1, i and -i.
Normal(v) ==
  LET support == {b \in Basis : v[b] # <<0, 0>>}
      w == v[CHOOSE b \in support : TRUE]
      unit == w[1] * w[1] + w[2] * w[2]
      over(a) == <<(a[1] * w[1] + a[2] * w[2]) \div unit, (a[2] * w[1] - a[1] * w[2]) \div unit>>
  IN IF support = {} THEN v ELSE [b \in Basis |-> over(v[b])]

Applied(r, v) ==
  [b \in Basis |-> LET from == Xor(b, r.x) IN
     IPower(2 * r.p + Cardinality(r.x \cap r.z) + 2 * Cardinality(from \cap r.z), v[from])]

Gate(g, q, t, v) ==
  CASE g = "h"    -> [b \in Basis |-> Plus(v[b \ {q}], Scale(Sign(Cardinality(b \cap {q})), v[b \cup {q}]))]
    [] g = "s"    -> [b \in Basis |-> IPower(Cardinality(b \cap {q}), v[b])]
    [] g = "cnot" -> [b \in Basis |-> v[IF q \in b THEN Xor(b, {t}) ELSE b]]
    [] g = "x"    -> Applied([Identity EXCEPT !.x = {q}], v)
    [] g = "z"    -> Applied([Identity EXCEPT !.z = {q}], v)
    [] g = "y"    -> Applied([Identity EXCEPT !.x = {q}, !.z = {q}], v)

Projected(q, outcome, v) == [b \in Basis |-> IF (q \in b) = (outcome = 1) THEN v[b] ELSE <<0, 0>>]

-----------------------------------------------------------------------------
(* Gates: each is applied to every row *)

Moved(S, q, T, t) == IF q \in S THEN Xor(T, {t}) ELSE T
Flip(r, when) == [r EXCEPT !.p = IF when THEN 1 - @ ELSE @]

HRow(r, q) ==
  LET swapped(A, B) == (A \ {q}) \cup (B \cap {q})
  IN [Flip(r, q \in r.x \cap r.z) EXCEPT !.x = swapped(r.x, r.z), !.z = swapped(r.z, r.x)]

SRow(r, q) == [Flip(r, q \in r.x \cap r.z) EXCEPT !.z = Moved(r.x, q, @, q)]

CnotRow(r, c, t) ==
  [Flip(r, c \in r.x /\ t \in r.z /\ (t \in r.x <=> c \in r.z))
     EXCEPT !.x = Moved(r.x, c, @, t), !.z = Moved(r.z, t, @, c)]

XRow(r, q) == Flip(r, q \in r.z)
ZRow(r, q) == Flip(r, q \in r.x)
YRow(r, q) == Flip(r, (q \in r.x) # (q \in r.z))

GateRow(g, r, q, t) ==
  CASE g = "h" -> HRow(r, q) [] g = "s" -> SRow(r, q) [] g = "cnot" -> CnotRow(r, q, t)
    [] g = "x" -> XRow(r, q) [] g = "z" -> ZRow(r, q) [] g = "y" -> YRow(r, q)

Apply(g, q, t) ==
  /\ g = "cnot" <=> q # t
  /\ code => g \in CodeGates
  /\ tab' = [i \in DOMAIN tab |-> GateRow(g, tab[i], q, t)]
  /\ psi' = IF code THEN psi ELSE Normal(Gate(g, q, t, psi))
  /\ UNCHANGED code

-----------------------------------------------------------------------------
(* Measurement of a qubit in the Z basis *)

Random(q) == {i \in Stabilizers : q \in tab[i].x}

\* Mutant: the destabilizer keeps its old row.
MeasureRandomKeeps(q, outcome) ==
  /\ Random(q) # {}
  /\ LET p == Min(Random(q))
     IN tab' = [i \in DOMAIN tab |->
                  IF i = p THEN [x |-> {}, z |-> {q}, p |-> outcome]
                  ELSE IF q \in tab[i].x THEN RowMult(tab[i], tab[p]) ELSE tab[i]]
  /\ psi' = IF code THEN psi ELSE Normal(Projected(q, outcome, psi))
  /\ UNCHANGED code

\* The first stabilizer with an X on the qubit clears the others, becomes the
\* destabilizer, and leaves its place to Z_q with the random sign.
MeasureRandom(q, outcome) ==
  /\ Random(q) # {}
  /\ LET p == Min(Random(q))
     IN tab' = [i \in DOMAIN tab |->
                  CASE i = p -> [x |-> {}, z |-> {q}, p |-> outcome]
                    [] i = p - N -> tab[p]
                    [] OTHER -> IF q \in tab[i].x THEN RowMult(tab[i], tab[p]) ELSE tab[i]]
  /\ psi' = IF code THEN psi ELSE Normal(Projected(q, outcome, psi))
  /\ UNCHANGED code

\* The stabilizers whose destabilizer has an X on the qubit, multiplied in order.
Outcome(q) ==
  LET product[i \in 0 .. N] ==
        IF i = 0 THEN Identity
        ELSE IF q \in tab[i - 1].x THEN RowMult(product[i - 1], tab[N + i - 1]) ELSE product[i - 1]
  IN product[N].p

MeasureFixed(q) ==
  /\ Random(q) = {}
  /\ ~code
  /\ psi' = Normal(Projected(q, Outcome(q), psi))
  /\ UNCHANGED <<tab, code>>

-----------------------------------------------------------------------------
(* Codes: the group of the generators, and the generators that are added *)

Columns == 0 .. 2 * N - 1
Bits(r) == {2 * q : q \in r.x} \cup {2 * q + 1 : q \in r.z}

Generators == {Bits(tab[s]) : s \in {s \in Stabilizers : Active(tab[s])}}

\* The generators in row order, without the blank ones.
GeneratorList ==
  LET list[s \in N - 1 .. 2 * N - 1] ==
        IF s = N - 1 THEN <<>>
        ELSE IF Active(tab[s]) THEN list[s - 1] \o <<Bits(tab[s])>> ELSE list[s - 1]
  IN list[2 * N - 1]

\* One column of the elimination: pivot row below the rows done, swapped up,
\* and added to every other row that has the column.
Eliminated(m, c) ==
  LET found == {r \in (m.rank + 1) .. Len(m.gen) : c \in m.gen[r]}
      up == [m.gen EXCEPT ![m.rank + 1] = m.gen[Min(found)], ![Min(found)] = m.gen[m.rank + 1]]
      clear(r) == IF r # m.rank + 1 /\ c \in up[r] THEN Xor(up[r], up[m.rank + 1]) ELSE up[r]
  IN IF found = {} THEN m
     ELSE [gen |-> [r \in DOMAIN m.gen |-> clear(r)], rank |-> m.rank + 1, pivot |-> Append(m.pivot, c)]

Echelon ==
  LET after[c \in 0 .. 2 * N] ==
        IF c = 0 THEN [gen |-> GeneratorList, rank |-> 0, pivot |-> <<>>] ELSE Eliminated(after[c - 1], c - 1)
  IN after[2 * N]

InStabilizerGroup(e) ==
  LET m == Echelon
      target[r \in 0 .. m.rank] ==
        IF r = 0 THEN Bits(e)
        ELSE IF m.pivot[r] \in target[r - 1] THEN Xor(target[r - 1], m.gen[r]) ELSE target[r - 1]
  IN target[m.rank] = {}

CommutesWithAll(e) == \A s \in Stabilizers : Commute(e, tab[s])
ErrorDetectable(e) == ~CommutesWithAll(e)

\* The exhaustive counts that rate a code.  A Pauli string is a row without sign.
Paulis == {r \in Row : r.p = 0}
Weight(r) == Cardinality(r.x \cup r.z)
Dimension == Cardinality({s \in Stabilizers : Active(tab[s])})
Logical(e) == CommutesWithAll(e) /\ ~InStabilizerGroup(e)

GeneratorProduct(T) == {c \in Columns : Parity({s \in T : c \in Bits(tab[s])}) = 1}
StabilizerWeightCount(w) ==
  LET weight(T) == Cardinality({c \div 2 : c \in GeneratorProduct(T)})
  IN Cardinality({T \in SUBSET {s \in Stabilizers : Active(tab[s])} : weight(T) = w})

LogicalWeightCount(w) == IF w = 0 THEN 0 ELSE Cardinality({e \in Paulis : Weight(e) = w /\ Logical(e)})
\* The code gives up at a weight with more than 50 million candidates, of
\* which codes of fewer than 14 qubits have none.
CodeDistance == LET weights == {Weight(e) : e \in {e \in Paulis : Active(e) /\ Logical(e)}}
                IN IF weights = {} THEN 0 ELSE Min(weights)

CountDetectable == Cardinality({e \in Paulis : Weight(e) = 1 /\ ErrorDetectable(e)})

\* A destabilizer of one letter: the first X or Z, qubit by qubit, that
\* anticommutes with the new generator and with no other; none: a blank row.
OneLetter(q) == <<[Identity EXCEPT !.x = {q}], [Identity EXCEPT !.z = {q}]>>
Destabilizer(e, row) ==
  LET candidate(k) == OneLetter(k \div 2)[(k % 2) + 1]
      good == {k \in Columns : /\ ~Commute(candidate(k), e)
                               /\ \A s \in Stabilizers \ {row} : Commute(candidate(k), tab[s])}
  IN IF good = {} THEN Identity ELSE candidate(Min(good))

AddStabilizer(e) ==
  /\ code
  /\ ~InStabilizerGroup(e)
  /\ CommutesWithAll(e)
  /\ LET blank == {s \in Stabilizers : ~Active(tab[s])}
         row == Min(blank)
     IN /\ blank # {}
        /\ tab' = [tab EXCEPT ![row] = e, ![row - N] = Destabilizer(e, row)]
  /\ UNCHANGED <<code, psi>>

-----------------------------------------------------------------------------
Zero == [i \in 0 .. 2 * N - 1 |->
           IF i < N THEN [Identity EXCEPT !.x = {i}] ELSE [Identity EXCEPT !.z = {i - N}]]
ZeroState == [b \in Basis |-> IF b = {} THEN <<1, 0>> ELSE <<0, 0>>]

Init ==
  /\ code \in BOOLEAN
  /\ tab = IF code THEN [i \in 0 .. 2 * N - 1 |-> Identity] ELSE Zero
  /\ psi = ZeroState

Reset ==
  /\ tab' = Zero
  /\ code' = FALSE
  /\ psi' = ZeroState

Next ==
  \/ \E g \in {"h", "s", "cnot", "x", "z", "y"}, q, t \in Qubits : Apply(g, q, t)
  \/ \E q \in Qubits, outcome \in {0, 1} : MeasureRandom(q, outcome)
  \/ \E q \in Qubits : MeasureFixed(q)
  \/ \E e \in Row : AddStabilizer(e)
  \/ Reset

Spec == Init /\ [][Next]_vars

-----------------------------------------------------------------------------
(***************************************************************************)
(* Every stabilizer row fixes the state vector, sign included, and the     *)
(* vector is not 0: gates, products of rows and both branches of           *)
(* nuc_cliff_measure agree with quantum mechanics, in particular an        *)
(* outcome reported as certain is the one that is possible.                *)
(***************************************************************************)
StabilizersFixState ==
  code \/ /\ \E b \in Basis : psi[b] # <<0, 0>>
          /\ \A s \in Stabilizers : Applied(tab[s], psi) = psi

(***************************************************************************)
(* The tableau stays symplectic: each destabilizer anticommutes with its   *)
(* own stabilizer and commutes with all other rows, which is what the      *)
(* certain outcomes of nuc_cliff_measure are read from.                    *)
(***************************************************************************)
Symplectic ==
  code \/ \A i, j \in DOMAIN tab : Commute(tab[i], tab[j]) <=> (i - j) \notin {N, -N}

(***************************************************************************)
(* The generators of a code commute and are independent, and the Gaussian  *)
(* elimination of pauli_in_stabilizer_group decides membership in the      *)
(* group they generate, for every Pauli string.                            *)
(***************************************************************************)
Sums(S) == {{c \in Columns : Parity({g \in T : c \in g}) = 1} : T \in SUBSET S}
CodeIsSound ==
  code => /\ \A s, t \in Stabilizers : Commute(tab[s], tab[t])
          /\ Cardinality(Sums(Generators)) = 2 ^ Dimension
          /\ \A e \in Row : InStabilizerGroup(e) <=> Bits(e) \in Sums(Generators)

(***************************************************************************)
(* The counts that rate a code agree with each other: products of the      *)
(* generators by weight make up the whole group, logical operators the     *)
(* rest of what commutes with it, the distance is the least weight that    *)
(* has one, and an error of one letter escapes nuc_cliff_error_detectable  *)
(* exactly if it is counted as a generator product or as logical.          *)
(***************************************************************************)
CountsAgree ==
  code => LET sum(count(_)) == MapThenSumSet(count, 0 .. N)
              logical == {w \in 1 .. N : LogicalWeightCount(w) > 0}
          IN /\ sum(StabilizerWeightCount) = 2 ^ Dimension
             /\ sum(LogicalWeightCount) = 2 ^ (2 * N - Dimension) - 2 ^ Dimension
             /\ CodeDistance = IF logical = {} THEN 0 ELSE Min(logical)
             /\ CountDetectable = 3 * N - StabilizerWeightCount(1) - LogicalWeightCount(1)
=============================================================================
