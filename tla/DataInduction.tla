---------------------------- MODULE DataInduction ----------------------------
(***************************************************************************)
(* Induction over numbers, stated for sets instead of predicates, and what  *)
(* it gives: that recursive definitions of sums define something.           *)
(***************************************************************************)
EXTENDS Integers, WellFoundedInduction, TLAPS

\* The order of the natural numbers as a relation.
Below == {pair \in Nat \X Nat : pair[1] < pair[2]}

LEMMA BelowIsWellFounded == IsWellFoundedOn(Below, Nat)
  BY NatLessThanWellFounded DEF OpToRel, Below

\* Every set of natural numbers that is not empty has a smallest element.
LEMMA Smallest ==
    ASSUME NEW S, S \subseteq Nat, S # {}
    PROVE  \E n \in S : \A m \in S : n <= m
<1>1. \E n \in S : \A m \in S : <<m, n>> \notin Below
  BY BelowIsWellFounded, WFMin
<1>2. PICK n \in S : \A m \in S : <<m, n>> \notin Below
  BY <1>1
<1>3. ASSUME NEW m \in S PROVE n <= m
  <2>1. <<m, n>> \in Nat \X Nat /\ n \in Nat /\ m \in Nat
    OBVIOUS
  <2>2. ~(<<m, n>>[1] < <<m, n>>[2])
    BY <1>2, <2>1 DEF Below
  <2> QED
    BY <2>1, <2>2
<1> QED
  BY <1>3

\* Induction: a set with 0 and with the successors of its elements.
LEMMA Induction ==
    ASSUME NEW S, 0 \in S, \A n \in Nat : n \in S => n + 1 \in S
    PROVE  Nat \subseteq S
<1> SUFFICES ASSUME Nat \ S # {} PROVE FALSE
  OBVIOUS
<1>1. PICK n \in Nat \ S : \A m \in Nat \ S : n <= m
  BY Smallest
<1>2. n # 0 /\ n - 1 \in Nat
  BY <1>1
<1>3. n - 1 \in S
  BY <1>1, <1>2
<1> QED
  BY <1>1, <1>2, <1>3

\* The same from a number up to another.
LEMMA InductionUpTo ==
    ASSUME NEW a \in Int, NEW b \in Int, NEW S,
           a <= b => a \in S,
           \A n \in a .. b - 1 : n \in S => n + 1 \in S
    PROVE  a .. b \subseteq S
<1> DEFINE T == {n \in Nat : a + n <= b => a + n \in S}
<1>1. 0 \in T
  OBVIOUS
<1>2. ASSUME NEW n \in Nat, n \in T PROVE n + 1 \in T
  <2>1. CASE a + (n + 1) <= b
    <3>1. a + n \in S /\ a + n \in a .. b - 1
      BY <1>2, <2>1
    <3>2. (a + n) + 1 \in S
      BY <3>1
    <3> QED
      BY <3>2
  <2> QED
    BY <2>1
<1>3. Nat \subseteq T
  <2> HIDE DEF T
  <2> QED
    BY <1>1, <1>2, Induction
<1>4. ASSUME NEW m \in a .. b PROVE m \in S
  <2>1. m - a \in T /\ a + (m - a) = m
    BY <1>3
  <2> QED
    BY <2>1
<1> QED
  BY <1>4

-----------------------------------------------------------------------------
(* The definitions below give the lemmas' hypotheses names, by which the    *)
(* provers find them.                                                       *)

\* g and h agree at a, and at each number when they do at the one before.
AgreeStepwise(g, h, a, b) ==
    /\ g[a] = h[a]
    /\ \A i \in a .. b : i # a /\ g[i - 1] = h[i - 1] => g[i] = h[i]

\* Then they agree.
LEMMA Agreement ==
    ASSUME NEW a \in Int, NEW b \in Int, NEW g, NEW h, AgreeStepwise(g, h, a, b)
    PROVE  \A i \in a .. b : g[i] = h[i]
<1> DEFINE S == {i \in a .. b : g[i] = h[i]}
<1>0. /\ g[a] = h[a]
      /\ \A i \in a .. b : i # a /\ g[i - 1] = h[i - 1] => g[i] = h[i]
  BY DEF AgreeStepwise
<1>1. a <= b => a \in S
  BY <1>0
<1>2. ASSUME NEW i \in a .. b - 1, i \in S PROVE i + 1 \in S
  <2>1. i + 1 # a /\ (i + 1) - 1 = i /\ i + 1 \in a .. b
    OBVIOUS
  <2>2. g[i] = h[i]
    BY <1>2
  <2>3. g[i + 1] = h[i + 1]
    BY <1>0, <2>1, <2>2
  <2> QED
    BY <2>1, <2>3
<1>3. a .. b \subseteq S
  <2> HIDE DEF S
  <2> QED
    BY <1>1, <1>2, InductionUpTo
<1> QED
  BY <1>3

\* g has x at a, and step makes each value from the one before.
IsRecursive(g, a, b, X, x, step) ==
    /\ g \in [a .. b -> X]
    /\ g[a] = x
    /\ \A i \in a .. b : i # a => g[i] = step[<<i, g[i - 1]>>]

IsStep(step, a, b, X) == step \in [(a .. b) \X X -> X]

\* A recursive definition over numbers defines a function.
LEMMA Recursion ==
    ASSUME NEW a \in Int, NEW b \in Int, a <= b,
           NEW X, NEW x \in X, NEW step, IsStep(step, a, b, X)
    PROVE  \E g : IsRecursive(g, a, b, X, x, step)
<1>0. step \in [(a .. b) \X X -> X]
  BY DEF IsStep
<1> DEFINE Made(n, g) ==
        /\ g[a] = x
        /\ \A i \in a .. n : i # a => g[i] = step[<<i, g[i - 1]>>]
<1> DEFINE S == {n \in a .. b : \E g \in [a .. n -> X] : Made(n, g)}
<1>1. a \in S
  <2> DEFINE g == [i \in a .. a |-> x]
  <2>1. g \in [a .. a -> X] /\ Made(a, g)
    OBVIOUS
  <2>2. a \in a .. b
    OBVIOUS
  <2> HIDE DEF g, Made
  <2> QED
    BY <2>1, <2>2
<1>2. ASSUME NEW n \in a .. b - 1, n \in S PROVE n + 1 \in S
  <2>1. PICK g \in [a .. n -> X] : Made(n, g)
    BY <1>2
  <2> DEFINE h == [i \in a .. n + 1 |-> IF i = n + 1 THEN step[<<n + 1, g[n]>>] ELSE g[i]]
  <2>2. step[<<n + 1, g[n]>>] \in X
    <3>1. g[n] \in X /\ n + 1 \in a .. b
      OBVIOUS
    <3> QED
      BY <1>0, <3>1
  <2>3. h \in [a .. n + 1 -> X]
    BY <2>2
  <2>4. h[a] = x
    BY <2>1
  <2>5. ASSUME NEW i \in a .. n + 1, i # a PROVE h[i] = step[<<i, h[i - 1]>>]
    <3>1. h[i - 1] = g[i - 1]
      BY <2>5
    <3>2. CASE i = n + 1
      <4>1. h[n + 1] = step[<<n + 1, g[n]>>] /\ i - 1 = n
        BY <3>2
      <4> HIDE DEF h
      <4> QED
        BY <3>1, <3>2, <4>1
    <3>3. CASE i # n + 1
      <4>1. i \in a .. n
        BY <3>3
      <4>2. h[i] = g[i]
        BY <3>3
      <4> HIDE DEF h
      <4> QED
        BY <2>1, <2>5, <3>1, <4>1, <4>2
    <3> QED
      BY <3>2, <3>3
  <2>6. Made(n + 1, h)
    BY <2>4, <2>5
  <2> HIDE DEF h, Made
  <2>7. n + 1 \in a .. b
    OBVIOUS
  <2> QED
    BY <2>3, <2>6, <2>7
<1>3. a .. b \subseteq S
  <2> HIDE DEF S
  <2> QED
    BY <1>1, <1>2, InductionUpTo
<1>4. b \in a .. b
  OBVIOUS
<1> QED
  BY <1>3, <1>4 DEF IsRecursive
=============================================================================
