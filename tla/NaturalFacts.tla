---------------------------- MODULE NaturalFacts ----------------------------
(***************************************************************************)
(* Extrema, induction and recursion over the natural numbers, in a form    *)
(* that speaks of sets and functions only, so that the provers can apply   *)
(* them: what holds of a number is membership in a set, and one step of a  *)
(* recursion is a function.  The proofs use them for what the code         *)
(* computes as a maximum (a fork point, the highest certificate of a       *)
(* chain) or in a loop (the walk over a chain, a sum, the list of members).*)
(***************************************************************************)
EXTENDS Integers, WellFoundedInduction, TLAPS

(* Every nonempty set of naturals has a least element. *)
LEMMA LeastExists ==
    ASSUME NEW T, T \subseteq Nat, T # {}
    PROVE  \E m \in T : \A n \in T : m <= n
<1>1. \E m \in T : \A n \in T : ~(<<n, m>> \in OpToRel(<, Nat))
  BY NatLessThanWellFounded, WFMin
<1>2. PICK m \in T : \A n \in T : ~(<<n, m>> \in OpToRel(<, Nat))
  BY <1>1
<1>3. ASSUME NEW n \in T PROVE m <= n
  <2>1. n \in Nat /\ m \in Nat
    OBVIOUS
  <2>2. ~(n < m)
    BY <1>2, <2>1 DEF OpToRel
  <2> QED BY <2>1, <2>2
<1> QED BY <1>3

(* Every nonempty set of naturals with a bound has a greatest element. *)
LEMMA GreatestExists ==
    ASSUME NEW b \in Nat, NEW T, T \subseteq 0..b, T # {}
    PROVE  \E m \in T : \A n \in T : n <= m
<1> DEFINE D == {b - n : n \in T}
<1>0. \A n \in T : n \in Nat /\ b - n \in Nat
  OBVIOUS
<1>1. D \subseteq Nat /\ D # {}
  BY <1>0
<1>2. PICK d \in D : \A e \in D : d <= e
  BY <1>1, LeastExists
<1>3. PICK m \in T : d = b - m
  BY <1>2
<1>4. \A n \in T : n <= m
  <2> TAKE n \in T
  <2>1. d <= b - n
    BY <1>2
  <2> QED BY <1>0, <1>3, <2>1
<1> QED BY <1>4

(* Induction from a to b: a set that holds a, and with every number below b
   its successor, holds every number in between. *)
LEMMA InductionUpTo ==
    ASSUME NEW a \in Int, NEW b \in Int, NEW T, a \in T,
           \A n \in a..b : n # a /\ n - 1 \in T => n \in T
    PROVE  \A n \in a..b : n \in T
<1> DEFINE D == {k \in Nat : a + k <= b /\ a + k \notin T}
<1>1. SUFFICES ASSUME D # {} PROVE FALSE
  <2> SUFFICES ASSUME NEW n \in a..b, n \notin T PROVE D # {}
    BY <1>1
  <2>1. n - a \in Nat /\ a + (n - a) = n /\ n <= b
    OBVIOUS
  <2>2. n - a \in D
    BY <2>1
  <2> QED BY <2>2
<1>2. D \subseteq Nat
  OBVIOUS
<1>3. PICK k \in D : \A j \in D : k <= j
  <2> HIDE DEF D
  <2> QED BY <1>1, <1>2, LeastExists
<1>4. k \in Nat /\ a + k <= b /\ a + k \notin T
  OBVIOUS
<1>5. k # 0
  <2> SUFFICES ASSUME k = 0 PROVE FALSE
    OBVIOUS
  <2>1. a + k = a
    OBVIOUS
  <2> QED BY <1>4, <2>1
<1>6. k - 1 \in Nat /\ a + (k - 1) <= b /\ ~(k <= k - 1)
  BY <1>4, <1>5
<1>7. a + (k - 1) \in T
  BY <1>3, <1>6
<1>8. a + k \in a..b /\ a + k # a /\ (a + k) - 1 = a + (k - 1)
  BY <1>4, <1>5
<1>9. a + k \in T
  BY <1>7, <1>8
<1> QED BY <1>4, <1>9

\* A loop from a to b over values in V: the body takes the value before a
\* round and the round to the value after it; a run starts with a value.
IsBody(body, V, a, b) == body \in [V -> [a..b -> V]]
IsRun(g, V, a, b, start, body) ==
    /\ g \in [a..b -> V]
    /\ g[a] = start
    /\ \A n \in a..b : n # a => g[n] = body[g[n - 1]][n]

(* Recursion from a to b: every loop has a run. *)
LEMMA IterationExists ==
    ASSUME NEW a \in Int, NEW b \in Int, a <= b, NEW V, NEW start \in V,
           NEW body, IsBody(body, V, a, b)
    PROVE  \E g : IsRun(g, V, a, b, start, body)
<1>0. body \in [V -> [a..b -> V]]
  BY DEF IsBody
<1> DEFINE Run(g, n) == /\ g \in [a..n -> V] /\ g[a] = start
                        /\ \A i \in a..n : i # a => g[i] = body[g[i - 1]][i]
           T == {n \in a..b : \E g \in [a..n -> V] : Run(g, n)}
<1>1. a \in T
  <2> DEFINE g == [i \in a..a |-> start]
  <2>1. g \in [a..a -> V] /\ Run(g, a)
    OBVIOUS
  <2>2. a \in a..b
    OBVIOUS
  <2> HIDE DEF g
  <2> QED BY <2>1, <2>2
<1>2. ASSUME NEW n \in a..b, n # a, n - 1 \in T PROVE n \in T
  <2>1. PICK g \in [a..(n - 1) -> V] : Run(g, n - 1)
    BY <1>2
  <2>2. n - 1 \in a..(n - 1) /\ a \in a..(n - 1)
    BY <1>2
  <2>3. g[n - 1] \in V
    BY <2>2
  <2> DEFINE x == body[g[n - 1]][n]
  <2>5. x \in V
    BY <1>0, <2>3
  <2> HIDE DEF x
  <2> DEFINE h == [i \in a..n |-> IF i = n THEN x ELSE g[i]]
  <2>6. \A i \in a..n : i # n => i \in a..(n - 1)
    OBVIOUS
  <2>7. \A i \in a..n : (IF i = n THEN x ELSE g[i]) \in V
    BY <2>5, <2>6
  <2>8. h \in [a..n -> V]
    BY <2>7
  <2>9. h[a] = start
    BY <1>2, <2>1, <2>2
  <2>10. ASSUME NEW i \in a..n, i # a PROVE h[i] = body[h[i - 1]][i]
    <3>1. i \in Int /\ n \in Int /\ i - 1 \in a..n /\ i - 1 # n
      BY <2>10
    <3>2. h[i - 1] = g[i - 1]
      BY <3>1
    <3>3. CASE i = n
      BY <3>1, <3>2, <3>3 DEF x
    <3>4. CASE i # n
      <4>1. i \in a..(n - 1) /\ h[i] = g[i]
        BY <2>10, <3>4
      <4> QED BY <2>1, <2>10, <3>2, <4>1
    <3> QED BY <3>3, <3>4
  <2> HIDE DEF h
  <2>11. Run(h, n)
    BY <2>8, <2>9, <2>10
  <2> QED BY <2>8, <2>11
<1>3. b \in a..b
  OBVIOUS
<1>4. \A n \in a..b : n # a /\ n - 1 \in T => n \in T
  BY <1>2
<1>5. b \in T
  <2> HIDE DEF T
  <2> QED BY <1>1, <1>3, <1>4, InductionUpTo
<1> QED BY <1>5 DEF IsRun
=============================================================================
