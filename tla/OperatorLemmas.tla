---------------------------- MODULE OperatorLemmas --------------------------
(***************************************************************************)
(* What the operators of the models compute and keep to: facts about the   *)
(* arithmetic of one tile, for every integer width, and about sums, for    *)
(* every finite set of terms, that the proofs about components cite.       *)
(*                                                                         *)
(* An induction is a choice of a least counterexample (LeastNat).          *)
(***************************************************************************)
EXTENDS TileOps, Sums, TLAPS, WellFoundedInduction, FiniteSetTheorems

-----------------------------------------------------------------------------
(* Induction                                                               *)

\* Every set of naturals that is not empty has a least member.
LEMMA LeastNat ==
  ASSUME NEW S \in SUBSET Nat, S # {}
  PROVE  \E n \in S : \A m \in S : n <= m
<1>1. IsWellFoundedOn(OpToRel(<, Nat), Nat)
  BY NatLessThanWellFounded
<1>2. PICK n \in S : \A m \in S : ~(<<m, n>> \in OpToRel(<, Nat))
  BY <1>1, WFMin
<1>3. \A m \in S : <<m, n>> \in Nat \X Nat
  OBVIOUS
<1>4. \A m \in S : ~(m < n)
  BY <1>2, <1>3 DEF OpToRel
<1>5. QED
  BY <1>4

-----------------------------------------------------------------------------
(* Sums                                                                    *)

\* The first element the sum takes from a set.
Some(s) == CHOOSE x \in s : TRUE

\* h adds up the values of g over the subsets of S of k elements or fewer.
AddsUp(h, g, S, k) ==
  \A s \in SUBSET S :
    Cardinality(s) <= k => h[s] = IF s = {} THEN 0 ELSE g[Some(s)] + h[s \ {Some(s)}]

LEMMA SomeIn ==
  ASSUME NEW s, s # {}
  PROVE  Some(s) \in s
BY DEF Some

LEMMA AddsUpExists ==
  ASSUME NEW S, IsFiniteSet(S), NEW g
  PROVE  \A k \in Nat : \E h : h = [s \in SUBSET S |-> h[s]] /\ AddsUp(h, g, S, k)
<1> DEFINE Bad == {k \in Nat : ~ \E h : h = [s \in SUBSET S |-> h[s]] /\ AddsUp(h, g, S, k)}
<1> SUFFICES ASSUME Bad # {} PROVE FALSE
  OBVIOUS
<1>0. Bad \in SUBSET Nat
  OBVIOUS
<1>1. PICK k \in Bad : \A m \in Bad : k <= m
  <2> HIDE DEF Bad
  <2>1. QED BY <1>0, LeastNat
<1>2. CASE k = 0
  <2> DEFINE h == [s \in SUBSET S |-> 0]
  <2>1. \A s \in SUBSET S : IsFiniteSet(s) /\ (Cardinality(s) <= 0 => s = {})
    BY FS_Subset, FS_EmptySet, FS_CardinalityType
  <2>2. AddsUp(h, g, S, 0)
    BY <2>1 DEF AddsUp
  <2>3. QED
    BY <1>2, <2>2
<1>3. CASE k # 0
  <2>1. k - 1 \in Nat /\ k - 1 \notin Bad
    <3>1. k \in Nat
      OBVIOUS
    <3>2. k - 1 \in Nat /\ ~(k <= k - 1)
      BY <3>1, <1>3
    <3>3. QED
      BY <3>2, <1>1
  <2>2. PICK h : AddsUp(h, g, S, k - 1)
    BY <2>1
  <2> DEFINE hh == [s \in SUBSET S |-> IF s = {} THEN 0 ELSE g[Some(s)] + h[s \ {Some(s)}]]
  <2>3. ASSUME NEW s \in SUBSET S, Cardinality(s) <= k, s # {}
        PROVE  hh[s \ {Some(s)}] = h[s \ {Some(s)}]
    <3> DEFINE u == s \ {Some(s)}
    <3>1. IsFiniteSet(s)
      BY FS_Subset
    <3>2. Some(s) \in s
      BY <2>3, SomeIn
    <3>4. Cardinality(u) = Cardinality(s) - 1 /\ Cardinality(s) \in Nat
      BY <3>1, <3>2, FS_RemoveElement, FS_CardinalityType
    <3>5. Cardinality(u) <= k - 1 /\ u \in SUBSET S
      BY <3>4, <2>3, <1>1
    <3>3. QED
      BY <3>5, <2>2, <2>3 DEF AddsUp
  <2>4. AddsUp(hh, g, S, k)
    BY <2>3 DEF AddsUp
  <2>5. hh = [s \in SUBSET S |-> hh[s]]
    OBVIOUS
  <2> HIDE DEF hh
  <2>6. QED
    BY <2>4, <2>5
<1>4. QED
  BY <1>2, <1>3

LEMMA SumStep ==
  ASSUME NEW S, IsFiniteSet(S), NEW g
  PROVE  \E h : AddsUp(h, g, S, Cardinality(S)) /\ SumOver(g, S) = h[S]
<1> DEFINE F(h) == [s \in SUBSET S |-> IF s = {} THEN 0 ELSE g[Some(s)] + h[s \ {Some(s)}]]
<1>0. SumOver(g, S) = (CHOOSE h : h = F(h))[S]
  BY DEF SumOver, MapThenSumSet, MapThenFoldSet, Some
<1>1. \E h : h = F(h)
  <2>1. PICK h : h = [s \in SUBSET S |-> h[s]] /\ AddsUp(h, g, S, Cardinality(S))
    BY AddsUpExists, FS_CardinalityType
  <2>2. \A s \in SUBSET S : Cardinality(s) <= Cardinality(S)
    BY FS_Subset
  <2>3. \A s \in SUBSET S : h[s] = IF s = {} THEN 0 ELSE g[Some(s)] + h[s \ {Some(s)}]
    BY <2>1, <2>2 DEF AddsUp
  <2>4. QED BY <2>1, <2>3
<1>2. PICK h : h = F(h) /\ SumOver(g, S) = h[S]
  BY <1>0, <1>1
<1>3. AddsUp(h, g, S, Cardinality(S))
  BY <1>2 DEF AddsUp
<1>4. QED
  BY <1>2, <1>3

\* The sum does not depend on the order in which its terms are taken.
LEMMA AddsUpAnyOrder ==
  ASSUME NEW S, IsFiniteSet(S), NEW g, \A x \in S : g[x] \in Int,
         NEW h, AddsUp(h, g, S, Cardinality(S))
  PROVE  \A s \in SUBSET S : h[s] \in Int /\ \A e \in s : h[s] = g[e] + h[s \ {e}]
<1> DEFINE Good(s) == h[s] \in Int /\ \A e \in s : h[s] = g[e] + h[s \ {e}]
           Bad == {k \in Nat : \E s \in SUBSET S : Cardinality(s) = k /\ ~Good(s)}
<1>0. \A s \in SUBSET S : /\ IsFiniteSet(s) /\ Cardinality(s) \in Nat
                          /\ Cardinality(s) <= Cardinality(S)
  BY FS_Subset, FS_CardinalityType
<1>1. SUFFICES ASSUME Bad # {} PROVE FALSE
  BY <1>0
<1>2. PICK k \in Bad : \A m \in Bad : k <= m
  <2>1. Bad \in SUBSET Nat
    OBVIOUS
  <2> HIDE DEF Bad
  <2>2. QED BY <1>1, <2>1, LeastNat
<1>3. PICK s \in SUBSET S : Cardinality(s) = k /\ ~Good(s)
  OBVIOUS
<1>4. ASSUME NEW u \in SUBSET S, Cardinality(u) < k PROVE Good(u)
  <2>1. Cardinality(u) \in Nat /\ Cardinality(u) \notin Bad
    BY <1>0, <1>2, <1>4
  <2>2. QED
    BY <2>1
<1>5. ASSUME NEW u \in SUBSET S
      PROVE  h[u] = IF u = {} THEN 0 ELSE g[Some(u)] + h[u \ {Some(u)}]
  BY <1>0 DEF AddsUp
<1>6. ASSUME NEW u \in SUBSET S, NEW e \in u
      PROVE  Cardinality(u \ {e}) = Cardinality(u) - 1 /\ u \ {e} \in SUBSET S
  BY <1>0, FS_RemoveElement
<1> HIDE DEF Good, Bad
<1>7. CASE s = {}
  <2>1. h[s] = 0
    BY <1>5, <1>7
  <2>2. Good(s)
    BY <1>7, <2>1 DEF Good
  <2>3. QED
    BY <1>3, <2>2
<1>8. CASE s # {}
  <2> DEFINE x == Some(s)
  <2>1. x \in s
    BY <1>8, SomeIn
  <2>2. h[s] = g[x] + h[s \ {x}]
    BY <1>5, <1>8
  <2> HIDE DEF x
  <2>3. Good(s \ {x})
    BY <1>0, <1>3, <1>4, <1>6, <2>1
  <2>4. h[s] \in Int /\ g[x] \in Int
    BY <2>1, <2>2, <2>3 DEF Good
  <2>5. ASSUME NEW e \in s, e # x
        PROVE  h[s] = g[e] + h[s \ {e}]
    <3>1. h[s \ {x}] = g[e] + h[(s \ {x}) \ {e}]
      BY <2>3, <2>5 DEF Good
    <3>2. Good(s \ {e})
      BY <1>0, <1>3, <1>4, <1>6
    <3>3. h[s \ {e}] = g[x] + h[(s \ {e}) \ {x}]
      BY <2>1, <2>5, <3>2 DEF Good
    <3>4. (s \ {e}) \ {x} = (s \ {x}) \ {e}
      OBVIOUS
    <3>5. Good((s \ {x}) \ {e})
      <4>1. Cardinality((s \ {x}) \ {e}) = Cardinality(s \ {x}) - 1 /\ (s \ {x}) \ {e} \in SUBSET S
        BY <1>6, <2>1, <2>5
      <4>2. QED
        BY <4>1, <1>0, <1>3, <1>4, <1>6, <2>1
    <3>6. g[e] \in Int /\ h[(s \ {x}) \ {e}] \in Int
      BY <3>5 DEF Good
    <3>7. h[(s \ {e}) \ {x}] = h[(s \ {x}) \ {e}]
      BY <3>4
    <3> DEFINE y == h[(s \ {x}) \ {e}]
    <3>8. /\ h[s] = g[x] + (g[e] + y) /\ h[s \ {e}] = g[x] + y
          /\ y \in Int /\ g[e] \in Int /\ g[x] \in Int
      BY <2>2, <2>4, <3>1, <3>3, <3>6, <3>7
    <3> HIDE DEF y
    <3>9. QED
      BY <3>8
  <2>6. Good(s)
    BY <2>2, <2>4, <2>5 DEF Good
  <2>7. QED
    BY <1>3, <2>6
<1>9. QED
  BY <1>7, <1>8

\* Two tables of the same terms agree where both have one.
LEMMA AddsUpUnique ==
  ASSUME NEW S, IsFiniteSet(S), NEW T \in SUBSET S, NEW g, NEW g2,
         \A x \in T : g[x] = g2[x] /\ g[x] \in Int,
         NEW h, AddsUp(h, g, S, Cardinality(S)),
         NEW h2, AddsUp(h2, g2, T, Cardinality(T))
  PROVE  \A s \in SUBSET T : h[s] = h2[s]
<1> DEFINE Bad == {k \in Nat : \E s \in SUBSET T : Cardinality(s) = k /\ h[s] # h2[s]}
<1>0. \A s \in SUBSET T : /\ IsFiniteSet(s) /\ Cardinality(s) \in Nat /\ s \in SUBSET S
                          /\ Cardinality(s) <= Cardinality(S)
                          /\ Cardinality(s) <= Cardinality(T)
  BY FS_Subset, FS_CardinalityType
<1>1. SUFFICES ASSUME Bad # {} PROVE FALSE
  BY <1>0
<1>2. PICK k \in Bad : \A m \in Bad : k <= m
  <2>1. Bad \in SUBSET Nat
    OBVIOUS
  <2> HIDE DEF Bad
  <2>2. QED BY <1>1, <2>1, LeastNat
<1>3. PICK s \in SUBSET T : Cardinality(s) = k /\ h[s] # h2[s]
  OBVIOUS
<1>4. /\ h[s] = IF s = {} THEN 0 ELSE g[Some(s)] + h[s \ {Some(s)}]
      /\ h2[s] = IF s = {} THEN 0 ELSE g2[Some(s)] + h2[s \ {Some(s)}]
  BY <1>0 DEF AddsUp
<1>5. s # {}
  BY <1>3, <1>4
<1>6. Some(s) \in s
  BY <1>5, SomeIn
<1>7. Cardinality(s \ {Some(s)}) = k - 1 /\ k - 1 \in Nat /\ s \ {Some(s)} \in SUBSET T
  <2>1. IsFiniteSet(s) /\ Cardinality(s) \in Nat /\ k \in Nat
    BY <1>0, <1>3
  <2>2. Cardinality(s \ {Some(s)}) = k - 1 /\ IsFiniteSet(s \ {Some(s)})
    BY <1>3, <1>6, <2>1, FS_RemoveElement
  <2>3. QED
    BY <2>1, <2>2, FS_CardinalityType
<1>8. ~(k <= k - 1)
  BY <1>7
<1>9. h[s \ {Some(s)}] = h2[s \ {Some(s)}]
  BY <1>2, <1>7, <1>8
<1>10. QED
  BY <1>3, <1>4, <1>5, <1>6, <1>9

LEMMA SumEmpty ==
  ASSUME NEW g
  PROVE  SumOver(g, {}) = 0
<1>1. IsFiniteSet({}) /\ Cardinality({}) = 0
  BY FS_EmptySet
<1>2. PICK h : AddsUp(h, g, {}, Cardinality({})) /\ SumOver(g, {}) = h[{}]
  BY <1>1, SumStep
<1>3. QED
  BY <1>1, <1>2 DEF AddsUp

LEMMA SumInt ==
  ASSUME NEW S, IsFiniteSet(S), NEW g, \A x \in S : g[x] \in Int
  PROVE  SumOver(g, S) \in Int
<1>1. PICK h : AddsUp(h, g, S, Cardinality(S)) /\ SumOver(g, S) = h[S]
  BY SumStep
<1>2. QED
  BY <1>1, AddsUpAnyOrder

\* Any element may be taken first.
LEMMA SumRemove ==
  ASSUME NEW S, IsFiniteSet(S), NEW g, \A x \in S : g[x] \in Int, NEW e \in S
  PROVE  SumOver(g, S) = g[e] + SumOver(g, S \ {e})
<1>1. PICK h : AddsUp(h, g, S, Cardinality(S)) /\ SumOver(g, S) = h[S]
  BY SumStep
<1>2. h[S] = g[e] + h[S \ {e}]
  BY <1>1, AddsUpAnyOrder
<1> DEFINE T == S \ {e}
<1>3. IsFiniteSet(T) /\ T \in SUBSET S
  BY FS_Subset
<1>4. PICK h2 : AddsUp(h2, g, T, Cardinality(T)) /\ SumOver(g, T) = h2[T]
  BY <1>3, SumStep
<1> HIDE DEF T
<1>5. h[T] = h2[T]
  BY <1>1, <1>3, <1>4, AddsUpUnique
<1>6. QED
  BY <1>1, <1>2, <1>4, <1>5 DEF T

\* A sum depends on the terms that it adds up only.
LEMMA SumSame ==
  ASSUME NEW S, IsFiniteSet(S), NEW g, NEW g2,
         \A x \in S : g[x] = g2[x] /\ g[x] \in Int
  PROVE  SumOver(g, S) = SumOver(g2, S)
<1>1. PICK h : AddsUp(h, g, S, Cardinality(S)) /\ SumOver(g, S) = h[S]
  BY SumStep
<1>2. PICK h2 : AddsUp(h2, g2, S, Cardinality(S)) /\ SumOver(g2, S) = h2[S]
  BY SumStep
<1>3. h[S] = h2[S]
  BY <1>1, <1>2, AddsUpUnique
<1>4. QED
  BY <1>1, <1>2, <1>3

-----------------------------------------------------------------------------
(* One tile                                                                *)

LEMMA ClampRange ==
  ASSUME NEW x \in Int
  PROVE  ClampI16(x) \in I16
BY HalfAssumption DEF ClampI16, I16

LEMMA DecayInt ==
  ASSUME NEW q, q.decay \in U16, NEW x \in Int
  PROVE  /\ Decay(q, x) \in Int
         /\ x >= 0 => Decay(q, x) \in 0 .. x
         /\ x <= 0 => Decay(q, x) \in x .. 0
         /\ x > 0 /\ x <= q.decay => Decay(q, x) = 0
         /\ x < 0 /\ -x <= q.decay => Decay(q, x) = 0
BY HalfAssumption DEF Decay, U16

LEMMA AccumulateRange ==
  ASSUME NEW q, q.decay \in U16, NEW x \in I16, NEW delta \in Int
  PROVE  Accumulate(q, x, delta) \in I16
<1>1. x + delta \in Int
  BY HalfAssumption DEF I16
<1>2. QED
  BY <1>1, DecayInt, ClampRange DEF Accumulate

\* Inside the 16-bit range the conversion changes nothing.
LEMMA ToI16Identity ==
  ASSUME NEW x \in I16
  PROVE  ToI16(x) = x
<1>1. x + Half \in 0 .. 2 * Half - 1
  BY HalfAssumption DEF I16
<1>2. (x + Half) % (2 * Half) = x + Half
  BY <1>1, HalfAssumption
<1>3. QED
  BY <1>2, HalfAssumption DEF ToI16, I16

\* Whatever it wraps to, the conversion yields a 16-bit value.
LEMMA ToI16Range ==
  ASSUME NEW x \in Int
  PROVE  ToI16(x) \in I16
<1>1. (x + Half) % (2 * Half) \in 0 .. 2 * Half - 1
  BY HalfAssumption
<1>2. QED
  BY <1>1, HalfAssumption DEF ToI16, I16

LEMMA DecayLockedRange ==
  ASSUME NEW q, q.decay \in U16, NEW x \in I16
  PROVE  DecayLocked(q, x) \in I16
<1>1. /\ x - q.decay \in Int
      /\ x + q.decay \in Int
      /\ 0 \in I16
  BY HalfAssumption DEF I16, U16
<1>2. /\ ToI16(x - q.decay) \in I16
      /\ ToI16(x + q.decay) \in I16
  BY <1>1, ToI16Range
<1>3. QED
  BY <1>1, <1>2 DEF DecayLocked

\* Up to the documented bound of decay16 (0..32767) a locked tile's decay does
\* not wrap: it shrinks the accumulator and stops at 0.
LEMMA DecayLockedShrinks ==
  ASSUME NEW q, q.decay \in 0 .. Half - 1, NEW x \in I16
  PROVE  LET y == DecayLocked(q, x) IN
           /\ Magnitude(y) <= Magnitude(x)
           /\ (x >= 0 => y >= 0) /\ (x <= 0 => y <= 0)
           /\ (q.decay > 0 /\ y = x => x = 0)
<1>1. CASE x > 0
  <2>1. x - q.decay \in I16
    BY <1>1, HalfAssumption DEF I16
  <2>2. ToI16(x - q.decay) = x - q.decay
    BY <2>1, ToI16Identity
  <2>3. QED
    BY <1>1, <2>2, HalfAssumption DEF DecayLocked, Magnitude, I16
<1>2. CASE x < 0
  <2>1. x + q.decay \in I16
    BY <1>2, HalfAssumption DEF I16
  <2>2. ToI16(x + q.decay) = x + q.decay
    BY <2>1, ToI16Identity
  <2>3. QED
    BY <1>2, <2>2, HalfAssumption DEF DecayLocked, Magnitude, I16
<1>3. CASE x = 0
  BY <1>3 DEF DecayLocked, Magnitude
<1>4. QED
  BY <1>1, <1>2, <1>3, HalfAssumption DEF I16

LEMMA Clamp15Range ==
  ASSUME NEW x \in Int
  PROVE  Clamp15(x) \in 0 .. 15
BY DEF Clamp15

\* The magnitude part of the four-bit view never reaches the sign bit.
LEMMA ThrNormRange ==
  ASSUME NEW q, q.lo \in I16, q.hi \in I16, NEW x \in I16
  PROVE  ThrNorm(q, x) \in 0 .. 15
<1> DEFINE lo == Magnitude(q.lo)
           hi == Magnitude(q.hi)
           scale == IF lo > hi THEN lo ELSE hi
           size == IF Magnitude(x) < scale THEN Magnitude(x) ELSE scale
           scaled == (size * 7 + scale \div 2) \div scale
<1>1. lo \in Nat /\ hi \in Nat /\ Magnitude(x) \in Nat
  BY HalfAssumption DEF Magnitude, I16
<1>2. scale \in Nat /\ size \in 0 .. scale
  <2> HIDE DEF lo, hi
  <2>1. QED
    BY <1>1
<1>3. ASSUME scale > 0 PROVE scaled \in 0 .. 7
  <2> HIDE DEF scale, size
  <2>1. scale \div 2 \in Nat /\ 2 * (scale \div 2) <= scale
    BY <1>2, <1>3
  <2> DEFINE top == size * 7 + scale \div 2
  <2>2. top \in Nat /\ top < 8 * scale
    BY <1>2, <1>3, <2>1
  <2> HIDE DEF top
  <2>3. top \div scale \in 0 .. 7
    BY <1>2, <1>3, <2>2
  <2>4. QED
    BY <2>3 DEF top
<1>4. ThrNorm(q, x) = IF scale <= 0 THEN 15 ELSE IF x < 0 THEN 8 + scaled ELSE scaled
  BY DEF ThrNorm
<1> HIDE DEF scale, scaled
<1>5. QED
  BY <1>2, <1>3, <1>4

-----------------------------------------------------------------------------
(* Sums of terms of a known size                                           *)

\* Terms of magnitude up to b add up to at most as many times b.
LEMMA SumBounds ==
  ASSUME NEW S, IsFiniteSet(S), NEW b \in Nat, NEW g, \A x \in S : g[x] \in -b .. b
  PROVE  /\ SumOver(g, S) \in Int
         /\ -(Cardinality(S) * b) <= SumOver(g, S)
         /\ SumOver(g, S) <= Cardinality(S) * b
<1> DEFINE Good(s) == -(Cardinality(s) * b) <= SumOver(g, s) /\ SumOver(g, s) <= Cardinality(s) * b
           Bad == {k \in Nat : \E s \in SUBSET S : Cardinality(s) = k /\ ~Good(s)}
<1>0. \A s \in SUBSET S : IsFiniteSet(s) /\ Cardinality(s) \in Nat /\ SumOver(g, s) \in Int
  BY FS_Subset, FS_CardinalityType, SumInt
<1>1. SUFFICES ASSUME Bad # {} PROVE FALSE
  BY <1>0
<1>2. PICK k \in Bad : \A m \in Bad : k <= m
  <2>1. Bad \in SUBSET Nat
    OBVIOUS
  <2> HIDE DEF Bad
  <2>2. QED BY <1>1, <2>1, LeastNat
<1>3. PICK s \in SUBSET S : Cardinality(s) = k /\ ~Good(s)
  OBVIOUS
<1>4. s # {}
  <2> SUFFICES ASSUME s = {} PROVE Good(s)
    BY <1>3
  <2>1. Cardinality(s) = 0 /\ SumOver(g, s) = 0
    BY SumEmpty, FS_EmptySet
  <2>2. QED
    BY <2>1
<1>5. PICK e \in s : TRUE
  BY <1>4
<1> DEFINE u == s \ {e}
<1>6. Cardinality(u) = k - 1 /\ k \in Nat /\ u \in SUBSET S
  BY <1>0, <1>3, FS_RemoveElement
<1>7. Good(u)
  <2>1. Cardinality(u) \in Nat /\ ~(k <= Cardinality(u))
    BY <1>0, <1>6
  <2>2. Cardinality(u) \notin Bad
    BY <1>2, <2>1
  <2>3. QED
    BY <1>6, <2>1, <2>2
<1>8. SumOver(g, s) = g[e] + SumOver(g, u)
  BY <1>0, SumRemove
<1>9. (k - 1) * b = k * b - b /\ g[e] \in -b .. b /\ k * b \in Int
  BY <1>6
<1>10. Good(s)
  BY <1>0, <1>3, <1>6, <1>7, <1>8, <1>9
<1>11. QED
  BY <1>3, <1>10

\* Terms that are not negative add up to a sum that is not.
LEMMA SumNat ==
  ASSUME NEW S, IsFiniteSet(S), NEW g, \A x \in S : g[x] \in Nat
  PROVE  SumOver(g, S) \in Nat
<1> DEFINE Bad == {k \in Nat : \E s \in SUBSET S : Cardinality(s) = k /\ SumOver(g, s) \notin Nat}
<1>0. \A s \in SUBSET S : IsFiniteSet(s) /\ Cardinality(s) \in Nat
  BY FS_Subset, FS_CardinalityType
<1>1. SUFFICES ASSUME Bad # {} PROVE FALSE
  BY <1>0
<1>2. PICK k \in Bad : \A m \in Bad : k <= m
  <2>1. Bad \in SUBSET Nat
    OBVIOUS
  <2> HIDE DEF Bad
  <2>2. QED BY <1>1, <2>1, LeastNat
<1>3. PICK s \in SUBSET S : Cardinality(s) = k /\ SumOver(g, s) \notin Nat
  OBVIOUS
<1>4. s # {}
  BY <1>3, SumEmpty
<1>5. PICK e \in s : TRUE
  BY <1>4
<1> DEFINE u == s \ {e}
<1>6. Cardinality(u) = k - 1 /\ k \in Nat /\ u \in SUBSET S
  BY <1>0, <1>3, FS_RemoveElement
<1>7. SumOver(g, u) \in Nat
  <2>1. Cardinality(u) \in Nat /\ ~(k <= Cardinality(u))
    BY <1>0, <1>6
  <2>2. Cardinality(u) \notin Bad
    BY <1>2, <2>1
  <2>3. QED
    BY <1>6, <2>1, <2>2
<1>8. SumOver(g, s) = g[e] + SumOver(g, u)
  BY <1>0, SumRemove
<1>9. QED
  BY <1>3, <1>7, <1>8

\* The sum of a range of terms, taken one after the other.
LEMMA SumRange ==
  ASSUME NEW k \in Nat, NEW g, \A x \in 0 .. k : g[x] \in Int
  PROVE  SumOver(g, 0 .. k) = SumOver(g, 0 .. k - 1) + g[k]
<1>1. IsFiniteSet(0 .. k) /\ IsFiniteSet(0 .. k - 1) /\ k \in 0 .. k
  BY FS_Interval
<1>2. (0 .. k) \ {k} = 0 .. k - 1
  OBVIOUS
<1>3. SumOver(g, 0 .. k - 1) \in Int
  BY <1>1, SumInt
<1>4. SumOver(g, 0 .. k) = g[k] + SumOver(g, 0 .. k - 1)
  BY <1>1, <1>2, SumRemove
<1>5. QED
  BY <1>3, <1>4
=============================================================================
