------------------------------ MODULE Induction ------------------------------
(***************************************************************************)
(* Induction over numbers in terms of sets, and functions defined by       *)
(* recursion over an interval.  The provers here do not instantiate a      *)
(* theorem about operators (NatInduction, NatInductiveDef); these are      *)
(* about sets and functions, and rest on WFMin: a set of numbers that is   *)
(* not empty has a least element.                                          *)
(***************************************************************************)
EXTENDS Integers, WellFoundedInduction, TLAPS

\* A set of numbers has a least element.
LEMMA LeastNumber ==
  ASSUME NEW N, N \subseteq Nat, N # {}
  PROVE  \E n \in N : \A k \in N : n <= k
<1>1. PICK n \in N : \A k \in N : ~(<<k, n>> \in OpToRel(<, Nat))
  BY WFMin, NatLessThanWellFounded, Zenon
<1>2. \A k \in N : k \in Nat /\ n \in Nat
  OBVIOUS
<1>3. \A k \in N : ~(k < n)
  BY <1>1, <1>2, Zenon DEF OpToRel
<1> QED
  BY <1>2, <1>3

\* Induction from 0 up to n, which may be any number.
LEMMA UpTo ==
  ASSUME NEW n \in Nat, NEW T, 0 \in T, \A i \in 0..n - 1 : i \in T => i + 1 \in T
  PROVE  \A i \in 0..n : i \in T
<1> DEFINE N == {i \in 0..n : i \notin T}
<1> SUFFICES ASSUME N # {} PROVE FALSE
  OBVIOUS
<1>1. N \subseteq Nat
  OBVIOUS
<1>2. PICK i \in N : \A k \in N : i <= k
  <2> HIDE DEF N
  <2> QED
    BY <1>1, LeastNumber
<1>3. i - 1 \in 0..n - 1 /\ i - 1 \notin N
  BY <1>2
<1> QED
  BY <1>2, <1>3

\* All numbers.
LEMMA AllNumbers ==
  ASSUME NEW T, 0 \in T, \A i \in Nat : i \in T => i + 1 \in T
  PROVE  \A i \in Nat : i \in T
<1> SUFFICES ASSUME NEW n \in Nat PROVE n \in T
  OBVIOUS
<1> QED
  BY UpTo

\* g is the function on 0..n with a first value and a step to each next one.
Follow(g, n, base, step) ==
  g = [i \in 0..n |-> IF i = 0 THEN base ELSE step[i][g[i - 1]]]

\* A first value and steps define a function on 0..n, and into S if they stay
\* in S: the finite approximations exist by induction.
LEMMA Recursion ==
  ASSUME NEW n \in Nat, NEW S, NEW base \in S, NEW step \in [1..n -> [S -> S]]
  PROVE  \E g \in [0..n -> S] : Follow(g, n, base, step)
<1> DEFINE Part(m) ==
      {g \in [0..m -> S] : g[0] = base /\ \A i \in 1..m : g[i] = step[i][g[i - 1]]}
<1> DEFINE T == {m \in 0..n : Part(m) # {}}
<1>1. 0 \in T
  <2>1. [i \in 0..0 |-> base] \in Part(0)
    OBVIOUS
  <2> QED
    BY <2>1
<1>2. \A m \in 0..n - 1 : m \in T => m + 1 \in T
  <2> SUFFICES ASSUME NEW m \in 0..n - 1, m \in T PROVE m + 1 \in T
    OBVIOUS
  <2>0. PICK g \in Part(m) : TRUE
    OBVIOUS
  <2> DEFINE h == [i \in 0..m + 1 |-> IF i = m + 1 THEN step[m + 1][g[m]] ELSE g[i]]
  <2>1. m \in 0..m /\ g[m] \in S /\ step[m + 1] \in [S -> S]
    OBVIOUS
  <2>2. h \in [0..m + 1 -> S]
    BY <2>1
  <2>3. h[0] = base
    OBVIOUS
  <2>4. ASSUME NEW i \in 1..m + 1 PROVE h[i] = step[i][h[i - 1]]
    <3>1. CASE i = m + 1
      BY <3>1
    <3>2. CASE i \in 1..m
      <4>1. h[i] = g[i] /\ h[i - 1] = g[i - 1]
        BY <3>2
      <4> QED
        BY <3>2, <4>1
    <3> QED
      BY <3>1, <3>2
  <2>5. h \in Part(m + 1)
    BY <2>2, <2>3, <2>4
  <2>6. Part(m + 1) # {}
    <3> HIDE DEF h, Part
    <3> QED
      BY <2>5
  <2>7. m + 1 \in 0..n
    OBVIOUS
  <2> QED
    <3> HIDE DEF Part
    <3> QED
      BY <2>6, <2>7
<1>3. n \in T
  <2> HIDE DEF T
  <2>1. \A m \in 0..n : m \in T
    BY <1>1, <1>2, UpTo
  <2> QED
    BY <2>1
<1>4. PICK g \in Part(n) : TRUE
  BY <1>3
<1>5. g = [i \in 0..n |-> IF i = 0 THEN base ELSE step[i][g[i - 1]]]
  <2> DEFINE h == [i \in 0..n |-> IF i = 0 THEN base ELSE step[i][g[i - 1]]]
  <2>1. \A i \in 0..n : g[i] = h[i]
    BY <1>4
  <2>2. g = [i \in 0..n |-> g[i]] /\ h = [i \in 0..n |-> h[i]]
    BY <1>4
  <2> HIDE DEF h
  <2> QED
    BY <2>1, <2>2 DEF h
<1> QED
  BY <1>4, <1>5 DEF Follow
=============================================================================
