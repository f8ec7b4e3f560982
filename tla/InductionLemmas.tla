-------------------------- MODULE InductionLemmas --------------------------
(***************************************************************************)
(* Induction over the natural numbers with sets in place of predicates,    *)
(* and what it says of a recursive function along a sequence: such a       *)
(* function exists, so the CHOOSE behind its definition picks one.         *)
(***************************************************************************)
EXTENDS Integers, Sequences, WellFoundedInduction, TLAPS

\* A nonempty set of natural numbers has a least element.
LEMMA LeastElement ==
    ASSUME NEW T, T \subseteq Nat, T # {}
    PROVE  \E m \in T : \A j \in T : m <= j
<1>1. \E m \in T : \A j \in T : <<j, m>> \notin OpToRel(<, Nat)
  BY NatLessThanWellFounded, WFMin
<1>2. PICK m \in T : \A j \in T : <<j, m>> \notin OpToRel(<, Nat)
  BY <1>1
<1>3. \A j \in T : ~(j < m)
  BY <1>2 DEF OpToRel
<1> QED
  BY <1>3

\* S is the set of the numbers for which the claim holds.
LEMMA UpTo ==
    ASSUME NEW N \in Nat, NEW S, 0 \in S,
           \A n \in 0 .. N - 1 : n \in S => n + 1 \in S
    PROVE  \A n \in 0 .. N : n \in S
<1> DEFINE T == {n \in 0 .. N : n \notin S}
<1> SUFFICES ASSUME T # {} PROVE FALSE
  OBVIOUS
<1>1. PICK m \in T : \A j \in T : m <= j
  <2>1. T \subseteq Nat
    OBVIOUS
  <2> HIDE DEF T
  <2> QED
    BY <2>1, LeastElement
<1>2. m \in 0 .. N /\ m \notin S
  OBVIOUS
<1>3. m - 1 \in 0 .. N - 1 /\ m - 1 \notin T
  BY <1>1, <1>2
<1>4. m - 1 \in S
  BY <1>3
<1> QED
  BY <1>2, <1>3, <1>4

\* The functions that start with base and take a step for each place up to N.
Steps(N, A) == [(1 .. N) \X A -> A]
Recursion(N, A, base, step, g) ==
    /\ g \in [0 .. N -> A]
    /\ g[0] = base
    /\ \A n \in 1 .. N : g[n] = step[<<n, g[n - 1]>>]

\* There is such a function.
LEMMA RecursionExists ==
    ASSUME NEW N \in Nat, NEW A, NEW base \in A, NEW step \in Steps(N, A)
    PROVE  \E g : Recursion(N, A, base, step, g)
<1> USE DEF Steps
<1> DEFINE Good(n, g) == /\ g \in [0 .. n -> A] /\ g[0] = base
                         /\ \A i \in 1 .. n : g[i] = step[<<i, g[i - 1]>>]
           S == {n \in 0 .. N : \E g : Good(n, g)}
<1>1. 0 \in S
  <2>1. Good(0, [i \in 0 .. 0 |-> base])
    OBVIOUS
  <2> HIDE DEF Good
  <2> QED
    BY <2>1
<1>2. ASSUME NEW n \in 0 .. N - 1, n \in S
      PROVE  n + 1 \in S
  <2>1. PICK g : Good(n, g)
    BY <1>2
  <2> DEFINE h == [i \in 0 .. n + 1 |-> IF i <= n THEN g[i] ELSE step[<<i, g[i - 1]>>]]
  <2>2. g[n] \in A /\ <<n + 1, g[n]>> \in (1 .. N) \X A
    BY <2>1
  <2>3. step[<<n + 1, g[n]>>] \in A
    BY <2>2
  <2>4. h \in [0 .. n + 1 -> A]
    BY <2>1, <2>3
  <2>5. h[0] = base
    BY <2>1
  <2>6. ASSUME NEW i \in 1 .. n + 1
        PROVE  h[i] = step[<<i, h[i - 1]>>]
    <3>1. h[i - 1] = g[i - 1]
      OBVIOUS
    <3> QED
      BY <2>1, <3>1
  <2>7. Good(n + 1, h)
    BY <2>4, <2>5, <2>6
  <2> HIDE DEF Good
  <2> QED
    BY <2>7
<1>3. N \in S
  <2> HIDE DEF S
  <2> QED
    BY <1>1, <1>2, UpTo
<1>4. PICK g : Good(N, g)
  BY <1>3
<1> QED
  BY <1>4 DEF Recursion
=============================================================================
