-------------------------------- MODULE Loops --------------------------------
(***************************************************************************)
(* Loops, as recursive functions on the numbers: a function whose value at *)
(* n is Body of its values below n exists, whatever Body is.  c stands for *)
(* what else the body depends on.  A module that proves something about a  *)
(* loop takes an instance of this one for the body of that loop.           *)
(***************************************************************************)
EXTENDS Integers, WellFoundedInduction, TLAPS

CONSTANT Body(_, _, _)

-----------------------------------------------------------------------------
(* Induction over the numbers, on the set of those that have a property:   *)
(* from there being a least number in every other set of numbers.          *)

LEMMA LessThan == OpToRel(<, Nat) = { p \in Nat \X Nat : p[1] < p[2] }
BY DEF OpToRel

LEMMA Least ==
    ASSUME NEW T, T \subseteq Nat, T # {}
    PROVE  \E k \in T : \A j \in T : k <= j
<1> DEFINE R == { p \in Nat \X Nat : p[1] < p[2] }
<1>1. IsWellFoundedOn(R, Nat)
  BY NatLessThanWellFounded, LessThan
<1>2. \A j, k \in Nat : j < k => <<j, k>> \in R
  OBVIOUS
<1> HIDE DEF R
<1>3. PICK k \in T : \A j \in T : <<j, k>> \notin R
  BY <1>1, WFMin
<1>4. ASSUME NEW j \in T
      PROVE  k <= j
  <2>1. j \in Nat /\ k \in Nat /\ <<j, k>> \notin R
    BY <1>3
  <2>2. ~(j < k)
    BY <2>1, <1>2
  <2> QED  BY <2>1, <2>2
<1> QED  BY <1>4

LEMMA Induction ==
    ASSUME NEW T, 0 \in T, \A n \in Nat : n \in T => n + 1 \in T
    PROVE  Nat \subseteq T
<1> SUFFICES ASSUME Nat \ T # {}  PROVE FALSE
  OBVIOUS
<1>1. PICK n \in Nat \ T : \A k \in Nat \ T : n <= k
  BY Least
<1>2. n # 0 /\ n - 1 \in Nat
  BY <1>1
<1>3. n - 1 \in T
  BY <1>1, <1>2
<1> QED  BY <1>2, <1>3

LEMMA StrongInduction ==
    ASSUME NEW T, \A n \in Nat : 0..(n - 1) \subseteq T => n \in T
    PROVE  Nat \subseteq T
<1> SUFFICES ASSUME Nat \ T # {}  PROVE FALSE
  OBVIOUS
<1>1. PICK n \in Nat \ T : \A k \in Nat \ T : n <= k
  BY Least
<1>2. 0..(n - 1) \subseteq T
  BY <1>1
<1> QED  BY <1>1, <1>2

-----------------------------------------------------------------------------

\* The body looks at nothing but the values below n.
LooksBelow(c) ==
    \A f, g : \A n \in Nat :
        (\A m \in 0..(n - 1) : f[m] = g[m]) => Body(c, f, n) = Body(c, g, n)

\* f is what the loop computes up to n.
Computes(c, f, n) == f = [k \in 0..n |-> Body(c, f, k)]

\* Two functions that the loop computes agree where both have a value.
LEMMA Agree ==
    ASSUME NEW c, LooksBelow(c), NEW f, NEW g, NEW m \in Nat, NEW n \in Nat,
           Computes(c, f, m), Computes(c, g, n), m <= n
    PROVE  \A k \in 0..m : f[k] = g[k]
<1> DEFINE S == {k \in Nat : k <= m => \A j \in 0..k : f[j] = g[j]}
<1>1. ASSUME NEW k \in 0..m, \A j \in 0..(k - 1) : f[j] = g[j] PROVE f[k] = g[k]
  <2>1. f[k] = Body(c, f, k)
    BY DEF Computes
  <2>2. g[k] = Body(c, g, k)
    <3>1. k \in 0..n
      OBVIOUS
    <3> QED
      BY <3>1 DEF Computes
  <2>3. Body(c, f, k) = Body(c, g, k)
    BY <1>1 DEF LooksBelow
  <2> QED
    BY <2>1, <2>2, <2>3
<1>2. 0 \in S
  BY <1>1
<1>3. ASSUME NEW k \in Nat, k \in S PROVE k + 1 \in S
  BY <1>1, <1>3
<1>4. Nat \subseteq S
  <2> HIDE DEF S
  <2> QED
    BY <1>2, <1>3, Induction
<1> QED
  BY <1>4

\* The loop computes something up to every number.
LEMMA ComputesSomething ==
    ASSUME NEW c, LooksBelow(c)
    PROVE  \A n \in Nat : \E f : Computes(c, f, n)
<1> DEFINE S == {n \in Nat : \E f : Computes(c, f, n)}
<1>1. 0 \in S
  <2> DEFINE f == [k \in 0..0 |-> Body(c, <<>>, k)]
  <2>1. Body(c, f, 0) = Body(c, <<>>, 0)
    <3> HIDE DEF f
    <3> QED  BY DEF LooksBelow
  <2>2. Computes(c, f, 0)
    BY <2>1 DEF Computes
  <2> QED
    BY <2>2
<1>2. ASSUME NEW n \in Nat, n \in S PROVE n + 1 \in S
  <2>1. PICK f : Computes(c, f, n)
    BY <1>2
  <2> DEFINE g == [k \in 0..(n + 1) |-> IF k <= n THEN f[k] ELSE Body(c, f, n + 1)]
  <2>2. \A k \in 0..n : g[k] = f[k]
    OBVIOUS
  <2>3. g[n + 1] = Body(c, f, n + 1)
    OBVIOUS
  <2>4. DOMAIN g = 0..(n + 1) /\ g = [k \in 0..(n + 1) |-> g[k]]
    OBVIOUS
  <2> HIDE DEF g
  <2>5. ASSUME NEW k \in 0..(n + 1) PROVE g[k] = Body(c, g, k)
    <3>1. Body(c, g, k) = Body(c, f, k)
      BY <2>2 DEF LooksBelow
    <3>2. CASE k <= n
      BY <2>1, <2>2, <3>1, <3>2 DEF Computes
    <3>3. CASE k = n + 1
      BY <2>3, <3>1, <3>3
    <3> QED
      BY <3>2, <3>3
  <2>6. Computes(c, g, n + 1)
    BY <2>4, <2>5 DEF Computes
  <2> QED
    BY <2>6
<1>3. Nat \subseteq S
  <2> HIDE DEF S
  <2> QED
    BY <1>1, <1>2, Induction
<1> QED
  BY <1>3

\* The loop computes a function on all the numbers.
LEMMA LoopComputes ==
    ASSUME NEW c, LooksBelow(c)
    PROVE  \E f : f = [n \in Nat |-> Body(c, f, n)]
<1> DEFINE upTo(n) == CHOOSE f : Computes(c, f, n)
           h == [n \in Nat |-> upTo(n)[n]]
<1>1. ASSUME NEW n \in Nat PROVE Computes(c, upTo(n), n)
  BY ComputesSomething
<1>2. DOMAIN h = Nat /\ h = [n \in Nat |-> h[n]]
  OBVIOUS
<1>3. \A n \in Nat : h[n] = upTo(n)[n]
  OBVIOUS
<1> HIDE DEF upTo, h
<1>4. ASSUME NEW n \in Nat, NEW m \in 0..n PROVE upTo(n)[m] = h[m]
  BY <1>1, <1>3, Agree
<1>5. ASSUME NEW n \in Nat PROVE h[n] = Body(c, h, n)
  <2>1. upTo(n)[n] = Body(c, upTo(n), n)
    BY <1>1 DEF Computes
  <2>2. Body(c, upTo(n), n) = Body(c, h, n)
    BY <1>4 DEF LooksBelow
  <2> QED
    BY <1>3, <2>1, <2>2
<1> QED
  BY <1>2, <1>5
=============================================================================
