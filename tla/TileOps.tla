------------------------------- MODULE TileOps ------------------------------
(***************************************************************************)
(* The arithmetic of one tile (src/src/swarm.c): the accumulator, its      *)
(* decay, the fuse range and the four-bit readings derived from it.        *)
(*                                                                         *)
(* A tile's parameters are a record p with fields lo, hi, decay, dom,      *)
(* prio, pat and rof (reset_on_fire_mask16, as a set of domains).          *)
(* Half is 2^15 in the code: d8_i16 is -Half .. Half - 1, d8_u16 is        *)
(* 0 .. 2 * Half - 1.                                                      *)
(***************************************************************************)
EXTENDS Integers

CONSTANT Half

ASSUME HalfAssumption == Half \in Nat \ {0}

I16 == -Half .. Half - 1
U16 == 0 .. 2 * Half - 1

DecayFuseOnly == 7    \* priority 7: the tile fuses on decay only

\* The conversion (d8_i16)x keeps the low 16 bits.
ToI16(x) == ((x + Half) % (2 * Half)) - Half

\* A bug the properties catch: the upper limit one too high.
ClampAtHalf(x) == IF x < -Half THEN -Half ELSE IF x > Half THEN Half ELSE x

\* Saturation to d8_i16, as at the end of the accumulator update.
ClampI16(x) == IF x < -Half THEN -Half ELSE IF x > Half - 1 THEN Half - 1 ELSE x

Clamp15(x) == IF x < 0 THEN 0 ELSE IF x > 15 THEN 15 ELSE x

-----------------------------------------------------------------------------
\* Decay of a tile that is not locked: in 64 bits, towards 0, not past it.
Decay(p, x) ==
  CASE x > 0 -> IF x - p.decay > 0 THEN x - p.decay ELSE 0
    [] x < 0 -> IF x + p.decay < 0 THEN x + p.decay ELSE 0
    [] OTHER -> 0

\* Bugs the properties catch: a decay that runs past 0, and one that leaves a
\* negative accumulator alone.
DecayLockedPast(p, x) == ToI16(IF x > 0 THEN x - p.decay ELSE x + p.decay)
DecayLockedPositive(p, x) == IF x > p.decay THEN x - p.decay ELSE IF x > 0 THEN 0 ELSE x

\* Decay of a locked tile: the difference is converted to d8_i16 before it is
\* compared with 0.
DecayLocked(p, x) ==
  CASE x > 0 -> LET y == ToI16(x - p.decay) IN IF y < 0 THEN 0 ELSE y
    [] x < 0 -> LET y == ToI16(x + p.decay) IN IF y > 0 THEN 0 ELSE y
    [] OTHER -> 0

InRange(p, x) == p.lo < p.hi /\ p.lo <= x /\ x <= p.hi

\* The accumulator of an unlocked tile after one tick with input delta.
Accumulate(p, x, delta) == ClampI16(Decay(p, x + delta))

EnteredByDecay(p, x, delta) ==
  /\ p.decay > 0
  /\ InRange(p, Accumulate(p, x, delta))
  /\ ~InRange(p, x + delta)

\* A bug the properties catch: priority 7 fuses like any other.
FusesOnInput(p, x, delta) ==
  /\ InRange(p, Accumulate(p, x, delta))
  /\ EnteredByDecay(p, x, delta) \/ delta # 0

\* Whether an unlocked tile of an applied bake locks in this tick.
Fuses(p, x, delta) ==
  /\ InRange(p, Accumulate(p, x, delta))
  /\ \/ EnteredByDecay(p, x, delta)
     \/ p.prio # DecayFuseOnly /\ delta # 0

-----------------------------------------------------------------------------
Magnitude(x) == IF x < 0 THEN -x ELSE x

\* The four-bit view of the accumulator: 0..7 for thr >= 0, 8..15 below.
ThrNorm(p, x) ==
  LET lo     == Magnitude(p.lo)
      hi     == Magnitude(p.hi)
      scale  == IF lo > hi THEN lo ELSE hi
      size   == IF Magnitude(x) < scale THEN Magnitude(x) ELSE scale
      scaled == (size * 7 + scale \div 2) \div scale
  IN  IF scale <= 0 THEN 15
      ELSE IF x < 0 THEN 8 + scaled ELSE scaled

\* The reading published in the shared buffer.
ThrShared(x) == Clamp15(x)
=============================================================================
