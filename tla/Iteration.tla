------------------------------ MODULE Iteration ------------------------------
(***************************************************************************)
(* Induction over the naturals as the proofs of this project need it: over *)
(* sets, which a prover instantiates, where the theorems of the library    *)
(* take a predicate; and that a function defined by iterating a step, as   *)
(* the loops of the models are, is what its definition says.               *)
(***************************************************************************)
EXTENDS Integers, WellFoundedInduction, TLAPS

\* A set of naturals that holds 0 and the successor of each of its members
\* holds them all: the least number outside it would have a predecessor.
LEMMA NatSetInduction ==
  ASSUME NEW S \in SUBSET Nat, 0 \in S, \A n \in S : n + 1 \in S
  PROVE  S = Nat
<1> DEFINE T == Nat \ S
<1>1. SUFFICES ASSUME T # {} PROVE FALSE
  OBVIOUS
<1>2. \E x \in T : \A y \in T : <<y, x>> \notin OpToRel(<, Nat)
  <2>1. T \subseteq Nat
    OBVIOUS
  <2> HIDE DEF T
  <2> QED BY <1>1, <2>1, NatLessThanWellFounded, WFMin
<1>3. \A x, y \in Nat : y < x => <<y, x>> \in OpToRel(<, Nat)
  BY DEF OpToRel
<1>4. PICK x \in T : \A y \in T : ~(y < x)
  BY <1>2, <1>3
<1>5. x # 0 /\ x - 1 \in Nat /\ x - 1 < x
  BY <1>4
<1>6. x - 1 \in S
  BY <1>4, <1>5
<1> QED BY <1>4, <1>5, <1>6

\* The same for the numbers up to a bound, those a loop counts through.
LEMMA LoopInduction ==
  ASSUME NEW N \in Nat, NEW S, 0 \in S, \A n \in 0..(N - 1) : n \in S => n + 1 \in S
  PROVE  0..N \subseteq S
<1> DEFINE T == {n \in Nat : n <= N => n \in S}
<1>1. T \in SUBSET Nat /\ 0 \in T /\ \A n \in T : n + 1 \in T
  OBVIOUS
<1>2. T = Nat
  <2> HIDE DEF T
  <2> QED BY <1>1, NatSetInduction
<1> QED BY <1>2

\* g iterates a step from a base, the n-th step being step[n].
Iterates(g, N, S, base, step) ==
    /\ g \in [0..N -> S]
    /\ g[0] = base
    /\ \A n \in 1..N : g[n] = step[n][g[n - 1]]

\* There is such a function: what a loop's recursive definition chooses.
LEMMA IterationExists ==
  ASSUME NEW N \in Nat, NEW S, NEW base \in S, NEW step \in [1..N -> [S -> S]]
  PROVE  \E g : Iterates(g, N, S, base, step)
<1> DEFINE Upto(k, g) == /\ g \in [0..k -> S] /\ g[0] = base
                         /\ \A n \in 1..k : g[n] = step[n][g[n - 1]]
           K == {k \in Nat : k <= N => \E g : Upto(k, g)}
<1>1. 0 \in K
  <2>1. Upto(0, [i \in 0..0 |-> base])
    OBVIOUS
  <2> QED BY <2>1
<1>2. ASSUME NEW k \in K PROVE k + 1 \in K
  <2>1. SUFFICES ASSUME k + 1 <= N PROVE \E g : Upto(k + 1, g)
    OBVIOUS
  <2>2. PICK g : Upto(k, g)
    BY <2>1
  <2> DEFINE h == [n \in 0..(k + 1) |-> IF n = k + 1 THEN step[k + 1][g[k]] ELSE g[n]]
  <2>3. step[k + 1][g[k]] \in S
    BY <2>1, <2>2
  <2>4. h \in [0..(k + 1) -> S] /\ h[0] = base
    BY <2>2, <2>3
  <2>5. ASSUME NEW n \in 1..(k + 1) PROVE h[n] = step[n][h[n - 1]]
    BY <2>2
  <2> QED BY <2>4, <2>5
<1>3. N \in K
  <2>1. K \in SUBSET Nat
    OBVIOUS
  <2> HIDE DEF K
  <2> QED BY <1>1, <1>2, <2>1, NatSetInduction
<1> QED BY <1>3 DEF Iterates

\* A set of naturals with a bound has a greatest member.
LEMMA GreatestExists ==
  ASSUME NEW N \in Nat, NEW S \in SUBSET (0..N), S # {}
  PROVE  \E x \in S : \A y \in S : x >= y
<1> DEFINE Bounds == {n \in 0..N : \A y \in S : y <= N - n}
<1>1. SUFFICES ASSUME \A x \in S : \E y \in S : y > x PROVE FALSE
  OBVIOUS
<1>2. 0 \in Bounds
  OBVIOUS
<1>3. ASSUME NEW n \in 0..(N - 1), n \in Bounds PROVE n + 1 \in Bounds
  <2>1. \A y \in S : y # N - n
    BY <1>1, <1>3
  <2> QED BY <1>3, <2>1
<1>4. N \in Bounds
  <2> HIDE DEF Bounds
  <2> QED BY <1>2, <1>3, LoopInduction
<1>5. \A y \in S : y = 0
  BY <1>4
<1>6. PICK x \in S : TRUE
  OBVIOUS
<1>7. PICK y \in S : y > x
  BY <1>1
<1> QED BY <1>5, <1>7

\* And a least one.
LEMMA LeastExists ==
  ASSUME NEW N \in Nat, NEW S \in SUBSET (0..N), S # {}
  PROVE  \E x \in S : \A y \in S : x <= y
<1> DEFINE T == {n \in 0..N : N - n \in S}
<1>1. \A x \in S : N - x \in T
  OBVIOUS
<1>2. T \in SUBSET (0..N) /\ T # {}
  BY <1>1
<1>3. \E n \in T : \A k \in T : n >= k
  <2> HIDE DEF T
  <2> QED BY <1>2, GreatestExists
<1>4. PICK n \in T : \A k \in T : n >= k
  BY <1>3
<1>5. \A y \in S : n >= N - y
  BY <1>1, <1>4
<1>6. N - n \in S /\ \A y \in S : N - n <= y
  BY <1>4, <1>5
<1> QED BY <1>6
=============================================================================
