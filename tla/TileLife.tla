------------------------------- MODULE TileLife -----------------------------
(***************************************************************************)
(* One tile over many ticks: what the tile loop of flash_impl              *)
(* (src/src/swarm.c) does to its accumulator and its lock, with its baked  *)
(* parameters fixed, its input delta chosen anew in every tick, and its    *)
(* branch of the activation graph alive or dead from tick to tick.         *)
(***************************************************************************)
EXTENDS TileOps

CONSTANTS Params,   \* the baked parameters a tile may have
          Deltas    \* the sums of its signed rows

ASSUME ParamsAssumption ==
  \A p \in Params : p.lo \in I16 /\ p.hi \in I16 /\ p.decay \in U16

\* Eight rows of eight products of at most 15 * 15 stay below 2^15.
ASSUME DeltasAssumption == Deltas \subseteq -Half .. Half

VARIABLES p, thr, locked

vars == <<p, thr, locked>>

Init ==
  /\ p \in Params
  /\ thr = 0
  /\ locked = FALSE

\* Active and not locked: accumulate, decay, perhaps fuse.
FreshTick(delta) ==
  /\ ~locked
  /\ thr' = Accumulate(p, thr, delta)
  /\ locked' = Fuses(p, thr, delta)
  /\ UNCHANGED p

\* A bug the properties catch: the range is tested before the decay.
HeldTickStale ==
  /\ locked
  /\ thr' = DecayLocked(p, thr)
  /\ locked' = InRange(p, thr)
  /\ UNCHANGED p

\* Active and locked: decay only, and unlock when out of the range.
HeldTick ==
  /\ locked
  /\ thr' = DecayLocked(p, thr)
  /\ locked' = InRange(p, thr')
  /\ UNCHANGED p

\* Not active, or reset between two flashes: forced to zero.
Collapse ==
  /\ thr' = 0
  /\ locked' = FALSE
  /\ UNCHANGED p

Next == (\E delta \in Deltas : FreshTick(delta)) \/ HeldTick \/ Collapse

Spec == Init /\ [][Next]_vars

\* The host keeps sending frames, so a locked tile keeps being ticked.
FairSpec == Spec /\ WF_vars(HeldTick)

-----------------------------------------------------------------------------
TypeOK ==
  /\ p \in Params
  /\ thr \in I16
  /\ locked \in BOOLEAN

\* "locked==1 => thr_lo16 <= thr_cur16 <= thr_hi16" (docs/CONTRACT_v02.md,
\* 6.6), with the range open: a lock is taken inside the range and never
\* survives the tick whose decay takes the accumulator out of it.
LockInRange == locked => InRange(p, thr)

\* The decay of a locked tile only ever shrinks its accumulator and does not
\* take it past 0 (docs/CONTRACT_v02.md, section 0).  The conversion to d8_i16
\* in that branch would break this for a decay16 of 2^15 or more, but with
\* fixed parameters such a tile never leaves 0: no input outweighs the decay.
HeldDecayShrinks ==
  [][locked => /\ Magnitude(thr') <= Magnitude(thr)
               /\ (thr >= 0 => thr' >= 0) /\ (thr <= 0 => thr' <= 0)
               /\ (p.decay > 0 /\ thr' = thr => thr = 0)]_vars

\* A tile of priority 7 locks only while its accumulator is being drained: a
\* rising input never locks it, not even by saturating into the range.
DrainFuse ==
  [][~locked /\ locked' /\ p.prio = DecayFuseOnly =>
       \E delta \in Deltas : /\ thr' = Accumulate(p, thr, delta)
                             /\ ~InRange(p, thr + delta)
                             /\ Magnitude(thr') < Magnitude(thr + delta)]_vars

\* A locked tile that leaks does not stay locked for ever, unless 0 itself is
\* in its range.
LeakUnlocks ==
  (locked /\ p.decay > 0 /\ ~InRange(p, 0)) ~> ~locked
=============================================================================
