------------------------------ MODULE TileProofs ----------------------------
(***************************************************************************)
(* Proofs about one tile: about TileLife, for every integer width, every   *)
(* set of parameters and every input, and about the row pipeline that      *)
(* makes that input, for every number of lanes, every frame and weights.   *)
(***************************************************************************)
EXTENDS TileLife, RowPipeline, OperatorLemmas

-----------------------------------------------------------------------------
(* The accumulator and the lock                                            *)

\* A decay beyond the documented bound outweighs every input.
WideDecayStaysAtZero == p.decay >= Half => thr = 0

IInv == TypeOK /\ LockInRange /\ WideDecayStaysAtZero

LEMMA InitIInv == Init => IInv
<1>1. 0 \in I16
  BY HalfAssumption DEF I16
<1>2. QED
  BY <1>1 DEF Init, IInv, TypeOK, LockInRange, WideDecayStaysAtZero

LEMMA NextIInv == IInv /\ [Next]_vars => IInv'
<1> SUFFICES ASSUME IInv, [Next]_vars PROVE IInv'
  OBVIOUS
<1>p. p.decay \in U16 /\ 0 \in I16 /\ thr \in I16
  BY HalfAssumption, ParamsAssumption DEF IInv, TypeOK, I16
<1>1. ASSUME NEW delta \in Deltas, FreshTick(delta)
      PROVE  IInv'
  <2>1. delta \in -Half .. Half
    BY DeltasAssumption
  <2>2. TypeOK'
    <3>1. thr' \in I16
      BY <1>1, <1>p, <2>1, AccumulateRange, HalfAssumption DEF FreshTick
    <3>2. locked' \in BOOLEAN
      BY <1>1 DEF FreshTick, Fuses, InRange
    <3>3. QED
      BY <1>1, <3>1, <3>2 DEF FreshTick, IInv, TypeOK
  <2>3. LockInRange'
    BY <1>1 DEF FreshTick, LockInRange, Fuses, InRange
  <2>4. WideDecayStaysAtZero'
    <3> SUFFICES ASSUME p.decay >= Half PROVE thr' = 0
      BY <1>1 DEF FreshTick, WideDecayStaysAtZero
    <3>1. thr = 0
      BY DEF IInv, WideDecayStaysAtZero
    <3>2. Decay(p, 0 + delta) = 0
      BY <1>p, <2>1, DecayInt, HalfAssumption DEF Decay, U16
    <3>3. QED
      BY <1>1, <3>1, <3>2, HalfAssumption DEF FreshTick, Accumulate, ClampI16
  <2>5. QED
    BY <2>2, <2>3, <2>4 DEF IInv
<1>2. CASE HeldTick
  <2>1. TypeOK'
    BY <1>2, <1>p, DecayLockedRange DEF HeldTick, IInv, TypeOK, InRange
  <2>2. LockInRange'
    BY <1>2 DEF HeldTick, LockInRange, InRange
  <2>3. WideDecayStaysAtZero'
    BY <1>2 DEF HeldTick, IInv, WideDecayStaysAtZero, DecayLocked
  <2>4. QED
    BY <2>1, <2>2, <2>3 DEF IInv
<1>3. CASE Collapse
  BY <1>3, <1>p DEF Collapse, IInv, TypeOK, LockInRange, WideDecayStaysAtZero
<1>4. CASE UNCHANGED vars
  BY <1>4 DEF vars, IInv, TypeOK, LockInRange, WideDecayStaysAtZero, InRange
<1>5. QED
  BY <1>1, <1>2, <1>3, <1>4 DEF Next

LEMMA AlwaysIInv == Spec => []IInv
BY InitIInv, NextIInv, PTL DEF Spec

\* The invariant of docs/CONTRACT_v02.md 6.6: with fixed parameters, a locked
\* tile's accumulator is in its fuse range in every state.
THEOREM LockedInRange == Spec => []LockInRange
<1>1. IInv => LockInRange
  BY DEF IInv
<1>2. QED
  BY AlwaysIInv, <1>1, PTL

\* With fixed parameters the decay of a locked tile never wraps and never
\* takes the accumulator past 0, for every decay16 a bake can hold.
THEOREM HeldDecayNeverWraps == Spec => HeldDecayShrinks
<1> DEFINE Shrinks ==
      locked => /\ Magnitude(thr') <= Magnitude(thr)
                /\ (thr >= 0 => thr' >= 0) /\ (thr <= 0 => thr' <= 0)
                /\ (p.decay > 0 /\ thr' = thr => thr = 0)
<1>1. IInv /\ [Next]_vars => [Shrinks]_vars
  <2> SUFFICES ASSUME IInv, locked, Next PROVE Shrinks
    OBVIOUS
  <2>p. p.decay \in U16 /\ thr \in I16
    BY ParamsAssumption DEF IInv, TypeOK
  <2>1. CASE HeldTick
    <3>1. CASE p.decay \in 0 .. Half - 1
      BY <2>1, <2>p, <3>1, DecayLockedShrinks DEF HeldTick
    <3>2. CASE p.decay >= Half
      BY <2>1, <3>2 DEF HeldTick, IInv, WideDecayStaysAtZero, DecayLocked, Magnitude
    <3>3. QED
      BY <3>1, <3>2, <2>p, HalfAssumption DEF U16
  <2>2. CASE Collapse
    BY <2>2, <2>p, HalfAssumption DEF Collapse, Magnitude, I16
  <2>3. QED
    BY <2>1, <2>2 DEF Next, FreshTick
<1>2. QED
  BY <1>1, AlwaysIInv, PTL DEF Spec, HeldDecayShrinks

\* A tile of priority 7 locks only by the drain: what carries it into its range
\* is its decay, also where the input saturates.
THEOREM DrainOnlyFuses == Spec => DrainFuse
<1> DEFINE Drains ==
      ~locked /\ locked' /\ p.prio = DecayFuseOnly =>
        \E delta \in Deltas : /\ thr' = Accumulate(p, thr, delta)
                              /\ ~InRange(p, thr + delta)
                              /\ Magnitude(thr') < Magnitude(thr + delta)
<1>1. IInv /\ [Next]_vars => [Drains]_vars
  <2> SUFFICES ASSUME IInv, Next, ~locked, locked', p.prio = DecayFuseOnly
               PROVE  \E delta \in Deltas : /\ thr' = Accumulate(p, thr, delta)
                                            /\ ~InRange(p, thr + delta)
                                            /\ Magnitude(thr') < Magnitude(thr + delta)
    BY DEF vars
  <2>1. PICK delta \in Deltas : FreshTick(delta)
    BY DEF Next, HeldTick, Collapse
  <2> DEFINE x == thr + delta
  <2>2. p.decay \in U16 /\ thr \in I16 /\ x \in Int
    BY ParamsAssumption, DeltasAssumption, HalfAssumption DEF IInv, TypeOK, I16
  <2>3. p.decay > 0 /\ ~InRange(p, x) /\ thr' = ClampI16(Decay(p, x)) /\ InRange(p, thr')
    BY <2>1 DEF FreshTick, Fuses, EnteredByDecay, Accumulate
  <2> HIDE DEF x
  <2>4. Magnitude(thr') < Magnitude(x)
    <3>1. x # 0
      BY <2>3, HalfAssumption DEF Decay, ClampI16
    <3>2. CASE x > 0
      BY <2>2, <2>3, <3>2, HalfAssumption DEF Decay, ClampI16, Magnitude, U16
    <3>3. CASE x < 0
      BY <2>2, <2>3, <3>3, HalfAssumption DEF Decay, ClampI16, Magnitude, U16
    <3>4. QED
      BY <2>2, <3>1, <3>2, <3>3
  <2>5. QED
    BY <2>1, <2>3, <2>4 DEF x, FreshTick
<1>2. QED
  BY <1>1, AlwaysIInv, PTL DEF Spec, DrainFuse

-----------------------------------------------------------------------------
(* The row pipeline                                                        *)

\* The most one product can be.
Unit == MaxLevel * MaxWeight

LEMMA TimesMonotone ==
  ASSUME NEW a \in Nat, NEW b \in Nat, NEW c \in Nat, a <= b
  PROVE  a * c <= b * c
<1>1. b * c = a * c + (b - a) * c
  OBVIOUS
<1>2. (b - a) * c >= 0
  OBVIOUS
<1>3. QED
  BY <1>1, <1>2

\* The first n of the terms of a sum over the lanes.
LEMMA FirstTerms ==
  ASSUME NEW n \in 0 .. L, NEW g, NEW b \in Nat, \A k \in Lanes : g[k] \in -b .. b
  PROVE  /\ SumOver(g, 0 .. n - 1) \in Int
         /\ -(n * b) <= SumOver(g, 0 .. n - 1)
         /\ SumOver(g, 0 .. n - 1) <= n * b
<1>1. n \in Nat /\ L \in Nat /\ Lanes = 0 .. L - 1
  BY LanesAssumption
<1>2. \A k \in 0 .. n - 1 : g[k] \in -b .. b
  BY <1>1
<1>3. IsFiniteSet(0 .. n - 1) /\ Cardinality(0 .. n - 1) = n
  BY SMTT(30), <1>1, FS_Interval
<1>4. QED
  BY <1>2, <1>3, SumBounds

LEMMA NextTerm ==
  ASSUME NEW n \in Lanes, NEW g, \A k \in Lanes : g[k] \in Int
  PROVE  SumOver(g, 0 .. n) = SumOver(g, 0 .. n - 1) + g[n]
<1>1. n \in Nat /\ \A k \in 0 .. n : g[k] \in Int
  BY LanesAssumption
<1>2. QED
  BY <1>1, SumRange

\* Frames and weights are of the shape the canon gives them.
Levels(ff, ww) ==
  ff \in [Lanes -> 0 .. MaxLevel] /\ ww \in [Lanes -> [Lanes -> -MaxWeight .. MaxWeight]]

Products(ff, ww, k) == [j \in Lanes |-> ff[j] * ww[k][j]]

LEMMA ProductsFit ==
  ASSUME NEW ff, NEW ww, Levels(ff, ww), NEW k \in Lanes
  PROVE  /\ \A j \in Lanes : Products(ff, ww, k)[j] \in -Unit .. Unit
         /\ \A j \in Lanes : Products(ff, ww, k)[j] = ff[j] * ww[k][j]
         /\ \A j \in Lanes : ww[k][j] \in -MaxWeight .. MaxWeight
<1> SUFFICES ASSUME NEW j \in Lanes
             PROVE  ff[j] * ww[k][j] \in -Unit .. Unit /\ ww[k][j] \in -MaxWeight .. MaxWeight
  BY DEF Products
<1>1. ff[j] \in 0 .. 15 /\ ww[k][j] \in -15 .. 15
  BY DEF Levels, MaxLevel, MaxWeight
<1>2. \A a \in 0 .. 15, b \in -15 .. 15 : a * b \in -225 .. 225
  OBVIOUS
<1>3. QED
  BY SMTT(30), <1>1, <1>2 DEF Unit, MaxLevel, MaxWeight

LEMMA RowFits ==
  ASSUME NEW ff, NEW ww, Levels(ff, ww), NEW k \in Lanes
  PROVE  RowSigned(ff, ww, k) \in -(L * Unit) .. L * Unit
<1>1. L \in Nat /\ L \in 0 .. L /\ 0 .. L - 1 = Lanes /\ Unit \in Nat
  BY LanesAssumption DEF Unit, MaxLevel, MaxWeight
<1>2. RowSigned(ff, ww, k) = SumOver(Products(ff, ww, k), 0 .. L - 1)
  BY <1>1 DEF RowSigned, Products
<1>3. RowSigned(ff, ww, k) \in Int /\ -(L * Unit) <= RowSigned(ff, ww, k)
        /\ RowSigned(ff, ww, k) <= L * Unit
  BY <1>1, <1>2, ProductsFit, FirstTerms
<1>4. L * Unit \in Int
  BY <1>1
<1>5. QED
  BY <1>3, <1>4

\* What L lanes and L rows can add up to is an I16.
LEMMA AllFits ==
  /\ L * Unit \in Nat /\ L * (L * Unit) \in Nat
  /\ L * Unit <= L * (L * Unit) /\ L * (L * Unit) < Half
<1>1. L \in Nat /\ 1 <= L /\ L * 225 \in Nat /\ Unit = 225
  BY LanesAssumption DEF Unit, MaxLevel, MaxWeight
<1>2. 1 * (L * 225) <= L * (L * 225)
  BY <1>1, TimesMonotone
<1>3. L * (L * 225) = (L * L) * 225
  BY <1>1
<1>4. (L * L) * 225 < Half
  BY LevelsAssumption DEF MaxLevel, MaxWeight
<1>5. L * (L * 225) \in Nat
  BY <1>1
<1>6. QED
  BY <1>1, <1>2, <1>3, <1>4, <1>5

\* Whatever frame and weights it is given, the pipeline feeds the accumulator
\* with a sum that Flash and TileLife take for granted, and each drive is a
\* level.
THEOREM RowsFeedTheTile ==
  \A ff \in Frames, ww \in Weights :
    SumOfRows(ff, ww) \in -Half .. Half /\ Drive(ff, ww) \in [Lanes -> 0 .. 15]
<1> SUFFICES ASSUME NEW ff \in Frames, NEW ww \in Weights
             PROVE  SumOfRows(ff, ww) \in -Half .. Half /\ Drive(ff, ww) \in [Lanes -> 0 .. 15]
  OBVIOUS
<1>1. Levels(ff, ww)
  BY LevelsAssumption DEF Levels
<1>2. SumOfRows(ff, ww) \in -Half .. Half
  <2> DEFINE g == [k \in Lanes |-> RowSigned(ff, ww, k)]
  <2>1. \A k \in Lanes : g[k] \in -(L * Unit) .. L * Unit
    BY <1>1, RowFits
  <2>2. SumOfRows(ff, ww) = SumOver(g, 0 .. L - 1) /\ L \in 0 .. L
    BY LanesAssumption DEF SumOfRows
  <2> HIDE DEF g
  <2> DEFINE b == L * Unit
             s == SumOver(g, 0 .. L - 1)
  <2>3. b \in Nat /\ \A k \in Lanes : g[k] \in -b .. b
    BY <2>1, AllFits
  <2> HIDE DEF b
  <2>4. s \in Int /\ -(L * b) <= s /\ s <= L * b
    BY <2>2, <2>3, FirstTerms
  <2>5. L * b \in Nat /\ L * b < Half
    BY AllFits DEF b
  <2> HIDE DEF s
  <2>6. s \in -Half .. Half
    BY <2>4, <2>5, HalfAssumption
  <2>7. QED
    BY <2>2, <2>6 DEF s
<1>3. Drive(ff, ww) \in [Lanes -> 0 .. 15]
  <2>1. ASSUME NEW k \in Lanes PROVE WeightSum(ww, k) \in Int /\ ff[k] \in Int
    <3>1. L \in 0 .. L /\ 15 \in Nat /\ \A j \in Lanes : ww[k][j] \in -15 .. 15
      BY <1>1, ProductsFit, LanesAssumption DEF MaxWeight
    <3>2. SumOver(ww[k], 0 .. L - 1) \in Int
      BY <3>1, FirstTerms
    <3>3. WeightSum(ww, k) = SumOver(ww[k], 0 .. L - 1)
      BY LanesAssumption DEF WeightSum
    <3>4. ff[k] \in 0 .. 15
      BY <1>1 DEF Levels, MaxLevel
    <3>5. QED
      BY <3>2, <3>3, <3>4
  <2>2. ASSUME NEW x \in Int, NEW y \in Int
        PROVE  Clip15(((IF x * y > 0 THEN x * y ELSE 0) + FullRow \div 2) \div FullRow) \in 0 .. 15
    <3> DEFINE prod == x * y
    <3>1. prod \in Int
      OBVIOUS
    <3> HIDE DEF prod
    <3>2. Clip15(((IF prod > 0 THEN prod ELSE 0) + FullRow \div 2) \div FullRow) \in 0 .. 15
      BY <3>1 DEF Clip15, FullRow
    <3>3. QED
      BY <3>2 DEF prod
  <2>3. ASSUME NEW k \in Lanes PROVE Drive(ff, ww)[k] \in 0 .. 15
    BY <2>1, <2>2 DEF Drive
  <2>4. QED
    BY <2>3 DEF Drive
<1>4. QED
  BY <1>2, <1>3

\* Where the loops are: the sums are those of the rows and the products before.
Rows == [k \in Lanes |-> RowSigned(f, w, k)]

PipeInv ==
  /\ RowTypeOK
  /\ r < L => /\ sum = SumOver(Products(f, w, r), 0 .. i - 1)
              /\ rowSum = SumOver(w[r], 0 .. i - 1)
  /\ r = L => i = 0 /\ sum = 0 /\ rowSum = 0
  /\ deltaRaw = SumOver(Rows, 0 .. r - 1)
  /\ \A k \in 0 .. r - 1 : rowOut[k] = Drive(f, w)[k]

LEMMA ToI16Fits ==
  ASSUME NEW x \in Int, -(L * (L * Unit)) <= x, x <= L * (L * Unit)
  PROVE  x \in I16 /\ ToI16(x) = x
<1>1. x \in I16
  BY AllFits, HalfAssumption DEF I16
<1>2. QED
  BY <1>1, ToI16Identity

LEMMA PipeStart == RowInit => PipeInv
<1> SUFFICES ASSUME RowInit PROVE PipeInv
  OBVIOUS
<1>1. 0 \in I16 /\ 0 \in 0 .. L /\ 0 < L /\ 0 .. 0 - 1 = {}
  BY HalfAssumption, LanesAssumption DEF I16
<1>2. RowTypeOK
  BY <1>1 DEF RowInit, RowTypeOK
<1>3. QED
  BY <1>1, <1>2, SumEmpty DEF RowInit, PipeInv

\* One product more.
LEMMA MultiplyKeeps ==
  ASSUME PipeInv, MultiplyAdd
  PROVE  PipeInv'
<1>1. /\ r \in Lanes /\ i \in Lanes /\ r < L /\ i \in 0 .. L /\ i < L /\ L \in Nat /\ i \in Nat
      /\ i + 1 \in 0 .. L /\ i + 1 - 1 = i
  BY LanesAssumption DEF PipeInv, RowTypeOK, MultiplyAdd
<1>2. Levels(f, w)
  BY LevelsAssumption DEF Levels, PipeInv, RowTypeOK
<1> DEFINE g == Products(f, w, r)
           s == SumOver(g, 0 .. i)
           v == SumOver(w[r], 0 .. i)
<1>3. /\ \A k \in Lanes : g[k] \in -Unit .. Unit
      /\ g[i] = f[i] * w[r][i]
      /\ \A k \in Lanes : w[r][k] \in -MaxWeight .. MaxWeight
  BY <1>1, <1>2, ProductsFit
<1>4. Unit \in Nat /\ MaxWeight \in Nat /\ MaxWeight <= Unit
  BY DEF Unit, MaxLevel, MaxWeight
<1> HIDE DEF g
<1>5. s = sum + f[i] * w[r][i] /\ s \in Int /\ -((i + 1) * Unit) <= s /\ s <= (i + 1) * Unit
  <2>1. s = SumOver(g, 0 .. i - 1) + g[i]
    BY SMTT(30), <1>1, <1>3, <1>4, NextTerm
  <2>2. s \in Int /\ -((i + 1) * Unit) <= s /\ s <= (i + 1) * Unit
    <3> DEFINE n == i + 1
    <3>1. n \in 0 .. L /\ n - 1 = i
      BY <1>1
    <3> HIDE DEF n
    <3>2. SumOver(g, 0 .. n - 1) \in Int /\ -(n * Unit) <= SumOver(g, 0 .. n - 1)
            /\ SumOver(g, 0 .. n - 1) <= n * Unit
      BY <1>3, <1>4, <3>1, FirstTerms
    <3>3. QED
      BY <3>1, <3>2 DEF n
  <2>3. QED
    BY <1>1, <1>3, <2>1, <2>2 DEF PipeInv, g
<1>6. v = rowSum + w[r][i] /\ v \in Int /\ -((i + 1) * MaxWeight) <= v
        /\ v <= (i + 1) * MaxWeight
  <2> DEFINE h == w[r]
  <2>0. \A k \in Lanes : h[k] \in -MaxWeight .. MaxWeight
    BY <1>3
  <2>1. v = SumOver(w[r], 0 .. i - 1) + w[r][i]
    <3> HIDE DEF h
    <3>1. SumOver(h, 0 .. i) = SumOver(h, 0 .. i - 1) + h[i]
      BY <1>1, <1>4, <2>0, NextTerm
    <3>2. QED
      BY <3>1 DEF h
  <2>2. v \in Int /\ -((i + 1) * MaxWeight) <= v /\ v <= (i + 1) * MaxWeight
    <3> DEFINE n == i + 1
    <3>1. n \in 0 .. L /\ n - 1 = i
      BY <1>1
    <3> HIDE DEF n, h
    <3>2. SumOver(h, 0 .. n - 1) \in Int /\ -(n * MaxWeight) <= SumOver(h, 0 .. n - 1)
            /\ SumOver(h, 0 .. n - 1) <= n * MaxWeight
      BY <1>4, <2>0, <3>1, FirstTerms
    <3>3. QED
      BY <3>1, <3>2 DEF n, h
  <2>3. QED
    BY <1>1, <2>1, <2>2 DEF PipeInv
<1>7. (i + 1) * Unit <= L * Unit /\ (i + 1) * MaxWeight <= L * Unit
  BY <1>1 DEF Unit, MaxLevel, MaxWeight
<1>8. s \in I16 /\ ToI16(s) = s /\ v \in I16 /\ ToI16(v) = v
  <2> DEFINE a == (i + 1) * Unit
             b == (i + 1) * MaxWeight
             c == L * Unit
             d == L * (L * Unit)
  <2>1. a \in Int /\ b \in Int /\ c \in Int /\ d \in Int
    BY <1>1, <1>4, AllFits
  <2>2. /\ -a <= s /\ s <= a /\ -b <= v /\ v <= b
        /\ a <= c /\ b <= c /\ c <= d /\ s \in Int /\ v \in Int
    BY <1>5, <1>6, <1>7, AllFits
  <2> HIDE DEF a, b, c, s, v
  <2>3. -d <= s /\ s <= d /\ -d <= v /\ v <= d
    <3> HIDE DEF d
    <3>1. QED
      BY <2>1, <2>2
  <2>4. QED
    BY <2>2, <2>3, ToI16Fits
<1>9. sum' = s /\ rowSum' = v /\ i' = i + 1 /\ UNCHANGED <<f, w, r, signed, deltaRaw, rowOut>>
  BY <1>5, <1>6, <1>8 DEF MultiplyAdd
<1>10. RowTypeOK'
  BY <1>1, <1>8, <1>9 DEF PipeInv, RowTypeOK
<1>11. QED
  BY <1>1, <1>9, <1>10 DEF PipeInv, Rows, g

\* The end of a row.
LEMMA EndRowKeeps ==
  ASSUME PipeInv, EndRow
  PROVE  PipeInv'
<1>1. /\ r \in Lanes /\ r < L /\ i = L /\ L \in Nat /\ r \in Nat /\ r \in 0 .. L
      /\ r + 1 \in 0 .. L /\ r + 1 - 1 = r /\ Lanes = 0 .. L - 1
  BY LanesAssumption DEF PipeInv, RowTypeOK, EndRow
<1>2. Levels(f, w) /\ f \in Frames /\ w \in Weights
  BY LevelsAssumption DEF Levels, PipeInv, RowTypeOK
<1>3. sum = RowSigned(f, w, r) /\ rowSum = WeightSum(w, r)
  BY <1>1 DEF PipeInv, RowSigned, Products, WeightSum
<1>4. \A k \in Lanes : Rows[k] \in -(L * Unit) .. L * Unit
  BY <1>2, RowFits DEF Rows
<1> DEFINE d == SumOver(Rows, 0 .. r)
<1>5. d = deltaRaw + sum /\ d \in Int /\ -((r + 1) * (L * Unit)) <= d
        /\ d <= (r + 1) * (L * Unit)
  <2>1. Rows[r] = sum
    BY <1>1, <1>3 DEF Rows
  <2>2. d = SumOver(Rows, 0 .. r - 1) + Rows[r]
    BY <1>1, <1>4, AllFits, NextTerm
  <2>3. d \in Int /\ -((r + 1) * (L * Unit)) <= d /\ d <= (r + 1) * (L * Unit)
    <3> DEFINE n == r + 1
               b == L * Unit
    <3>1. n \in 0 .. L /\ n - 1 = r /\ b \in Nat /\ \A k \in Lanes : Rows[k] \in -b .. b
      BY <1>1, <1>4, AllFits
    <3> HIDE DEF n, b
    <3>2. SumOver(Rows, 0 .. n - 1) \in Int /\ -(n * b) <= SumOver(Rows, 0 .. n - 1)
            /\ SumOver(Rows, 0 .. n - 1) <= n * b
      BY <3>1, FirstTerms
    <3>3. QED
      BY <3>1, <3>2 DEF n, b
  <2>4. QED
    BY <1>1, <2>1, <2>2, <2>3 DEF PipeInv
<1>6. d \in I16 /\ ToI16(d) = d
  <2>1. (r + 1) * (L * Unit) <= L * (L * Unit)
    BY <1>1, AllFits, TimesMonotone
  <2>2. (r + 1) * (L * Unit) \in Nat
    BY <1>1, AllFits
  <2>3. QED
    BY <1>5, <2>1, <2>2, AllFits, ToI16Fits
<1>7. /\ deltaRaw' = d /\ r' = r + 1 /\ i' = 0 /\ sum' = 0 /\ rowSum' = 0 /\ UNCHANGED <<f, w>>
      /\ signed' = [signed EXCEPT ![r] = sum]
      /\ rowOut' = [rowOut EXCEPT ![r] = Drive(f, w)[r]]
  BY <1>1, <1>3, <1>5, <1>6 DEF EndRow, Drive
<1>8. RowTypeOK'
  <2>1. 0 \in I16 /\ sum \in I16 /\ 0 \in 0 .. L
    BY <1>1, HalfAssumption DEF I16, PipeInv, RowTypeOK
  <2>2. Drive(f, w)[r] \in 0 .. 15
    BY <1>1, <1>2, RowsFeedTheTile
  <2>3. QED
    BY <1>1, <1>6, <1>7, <2>1, <2>2 DEF PipeInv, RowTypeOK
<1>9. \A k \in 0 .. r : rowOut'[k] = Drive(f, w)[k]
  BY <1>1, <1>7 DEF PipeInv, RowTypeOK
<1>10. 0 .. 0 - 1 = {} /\ SumOver(Products(f, w, r + 1), {}) = 0 /\ SumOver(w[r + 1], {}) = 0
  BY SumEmpty
<1>11. QED
  BY <1>1, <1>7, <1>8, <1>9, <1>10 DEF PipeInv, Rows

LEMMA AlwaysPipe == RowSpec => []PipeInv
<1>1. PipeInv /\ [RowNext]_rowVars => PipeInv'
  <2> SUFFICES ASSUME PipeInv, [RowNext]_rowVars PROVE PipeInv'
    OBVIOUS
  <2>1. CASE UNCHANGED rowVars
    BY <2>1 DEF rowVars, PipeInv, RowTypeOK, Rows
  <2>2. QED
    BY <2>1, MultiplyKeeps, EndRowKeeps DEF RowNext
<1>2. QED
  BY <1>1, PipeStart, PTL DEF RowSpec

LEMMA PipeBounds == PipeInv => SumsBounded
<1> SUFFICES ASSUME PipeInv PROVE SumsBounded
  OBVIOUS
<1>1. /\ L \in Nat /\ L \in 0 .. L /\ i \in 0 .. L /\ r \in 0 .. L /\ r \in Nat
      /\ Lanes = 0 .. L - 1 /\ i \in Nat /\ Levels(f, w)
  <2>1. Levels(f, w)
    BY LevelsAssumption DEF PipeInv, RowTypeOK, Levels
  <2>2. QED
    BY <2>1, LanesAssumption DEF PipeInv, RowTypeOK
<1>2. Unit \in Nat /\ MaxWeight \in Nat /\ L * Unit \in Nat
  BY AllFits DEF Unit, MaxLevel, MaxWeight
<1>3. /\ -(i * Unit) <= sum /\ sum <= i * Unit
      /\ -(i * MaxWeight) <= rowSum /\ rowSum <= i * MaxWeight
  <2>1. CASE r = L
    BY <1>1, <2>1 DEF PipeInv, Unit, MaxLevel, MaxWeight
  <2>2. CASE r # L
    <3> DEFINE g == Products(f, w, r)
               h == w[r]
    <3>1. r \in Lanes /\ r < L
      BY <1>1, <2>2
    <3>2. (\A k \in Lanes : g[k] \in -Unit .. Unit)
          /\ (\A k \in Lanes : h[k] \in -MaxWeight .. MaxWeight)
      BY <1>1, <3>1, ProductsFit
    <3>3. sum = SumOver(g, 0 .. i - 1) /\ rowSum = SumOver(h, 0 .. i - 1)
      BY <3>1 DEF PipeInv
    <3> HIDE DEF g, h
    <3>4. -(i * Unit) <= SumOver(g, 0 .. i - 1) /\ SumOver(g, 0 .. i - 1) <= i * Unit
      BY <1>1, <1>2, <3>2, FirstTerms
    <3>5. -(i * MaxWeight) <= SumOver(h, 0 .. i - 1) /\ SumOver(h, 0 .. i - 1) <= i * MaxWeight
      BY <1>1, <1>2, <3>2, FirstTerms
    <3>6. QED
      BY <3>3, <3>4, <3>5
  <2>3. QED
    BY <2>1, <2>2
<1>4. -(r * (L * Unit)) <= deltaRaw /\ deltaRaw <= r * (L * Unit)
  <2> DEFINE b == L * Unit
  <2>1. \A k \in Lanes : Rows[k] \in -b .. b
    BY <1>1, RowFits DEF Rows
  <2>2. b \in Nat
    BY <1>2
  <2> HIDE DEF b
  <2>3. -(r * b) <= SumOver(Rows, 0 .. r - 1) /\ SumOver(Rows, 0 .. r - 1) <= r * b
    BY <1>1, <2>1, <2>2, FirstTerms
  <2>4. QED
    BY <2>3 DEF b, PipeInv
<1>5. QED
  BY <1>3, <1>4 DEF SumsBounded, Unit

\* For every number of lanes and every frame and weights no 16-bit sum of the
\* loops wraps, and each stays within what has been added so far.
THEOREM SumsNeverWrap == RowSpec => []SumsBounded
BY PipeBounds, AlwaysPipe, PTL

LEMMA PipeEnds == PipeInv => PipelineExact
<1> SUFFICES ASSUME PipeInv, r = L
             PROVE  deltaRaw = SumOfRows(f, w) /\ rowOut = Drive(f, w)
  BY DEF PipelineExact
<1>1. Lanes = 0 .. r - 1 /\ rowOut \in [Lanes -> 0 .. 15]
  BY LanesAssumption DEF PipeInv, RowTypeOK
<1>2. deltaRaw = SumOfRows(f, w)
  BY <1>1 DEF PipeInv, Rows, SumOfRows
<1>3. rowOut = Drive(f, w)
  <2> DEFINE d == Drive(f, w)
  <2>1. d = [k \in Lanes |-> d[k]]
    BY DEF Drive
  <2>2. \A k \in Lanes : rowOut[k] = d[k]
    BY <1>1 DEF PipeInv
  <2> HIDE DEF d
  <2>3. rowOut = d
    BY <1>1, <2>1, <2>2
  <2>4. QED
    BY <2>3 DEF d
<1>4. QED
  BY <1>2, <1>3

\* When the loops end they have computed what the canon's formulas give.
THEOREM PipelineComputesTheCanon == RowSpec => []PipelineExact
BY PipeEnds, AlwaysPipe, PTL
=============================================================================
