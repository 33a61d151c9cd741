-------------------------------- MODULE Flash -------------------------------
(***************************************************************************)
(* One pass of flash_impl (src/src/swarm.c) as a function from the baked   *)
(* state, the runtime state and an ingress frame to the next runtime       *)
(* state: READ (activation, accumulators, locks), INTERPHASE (election),   *)
(* WRITE (the bus), then the auto-reset and the views published from it.   *)
(*                                                                         *)
(* c is the baked state (BakeImage); r is the runtime state:               *)
(*   thr     thr_cur per tile               locked  the set of locked tiles*)
(*   rowOut  row_out per tile, kept from flash to flash                    *)
(*   snap    the view snapshot                                             *)
(* Tiles from c.n on are outside the active field: no loop reaches them.   *)
(* Left out: cycle time statistics, the frame tag, in_clip_bits (no frame  *)
(* that passes the ingress check sets one).                                *)
(***************************************************************************)
EXTENDS BakeImage, Sums

CONSTANTS
  Lanes,           \* 0 .. D8_K_LANES - 1
  Frames,          \* the ingress frames with every lane in 0 .. 15
  Delta(_, _),     \* Delta(f, w), the sum of the signed rows
  RowOut(_, _)     \* RowOut(f, w), the drive of each lane

ASSUME PipelineAssumption ==
  \A f \in Frames : \A w \in Weights :
    /\ Delta(f, w) \in -Half .. Half
    /\ RowOut(f, w) \in [Lanes -> 0 .. 15]

-----------------------------------------------------------------------------
(***************************************************************************)
(* PHASE_READ.  live is the set of active tiles.  Every branch of the tile *)
(* loop: not active, active and locked before, active and not locked       *)
(* before.                                                                 *)
(***************************************************************************)
ThrAfterRead(c, r, f, live) ==
  [t \in Tiles |->
     CASE t \notin Field(c)             -> r.thr[t]
       [] t \in live \cap r.locked      -> DecayLocked(c.par[t], r.thr[t])
       [] t \in live \ r.locked         -> Accumulate(c.par[t], r.thr[t], Delta(f, c.weight[t]))
       [] t \in Field(c) \ live         -> 0]

\* A bug the properties catch: a held lock is not tested again.
KeptBlindly(c, r, live) == live \cap r.locked

\* The tiles locked before whose accumulator is still in range after decay.
Kept(c, r, live) ==
  {t \in live \cap r.locked : InRange(c.par[t], DecayLocked(c.par[t], r.thr[t]))}

\* A bug the properties catch: a tile that is locked already fires again.
FireAgain(c, r, f, live) ==
  {t \in live : c.bakeId > 0 /\ Fuses(c.par[t], r.thr[t], Delta(f, c.weight[t]))}

\* The tiles that lock in this flash: the fire events.
Fire(c, r, f, live) ==
  {t \in live \ r.locked :
     c.bakeId > 0 /\ Fuses(c.par[t], r.thr[t], Delta(f, c.weight[t]))}

LockedAfterRead(c, r, f, live) ==
  (r.locked \ Field(c)) \cup Kept(c, r, live) \cup Fire(c, r, f, live)

\* A bug the properties catch: held tiles keep the vector they locked with.
RowOutOfFresh(c, r, f, live) ==
  [t \in Tiles |-> IF t \in live \ r.locked THEN RowOut(f, c.weight[t]) ELSE r.rowOut[t]]

\* row_out is recomputed for the fresh tiles and the kept ones only.
RowOutAfterRead(c, r, f, live) ==
  [t \in Tiles |-> IF t \in (live \ r.locked) \cup Kept(c, r, live)
                   THEN RowOut(f, c.weight[t]) ELSE r.rowOut[t]]

-----------------------------------------------------------------------------
(* PHASE_WRITE: honest summation on the bus, then saturation.              *)
Writers(c, locked) ==
  {t \in c.busW \cap Field(c) : HasLockedWriteSource(c, locked, t)}

BusRaw(c, locked, rowOut) ==
  [i \in Lanes |-> SumOver([t \in Tiles |-> rowOut[t][i]], Writers(c, locked))]

Readout(c, bus) == IF c.mode = 0 THEN bus ELSE [i \in Lanes |-> 0]

-----------------------------------------------------------------------------
(* Auto-reset: the tiles of the reset domains, the winners excepted.       *)
WinnerTiles(c, fire) == {Winner(c.par, fire, d) : d \in Domains}

\* A bug the properties catch: the winners are reset too.
AutoResetAll(c, fire) == {t \in Field(c) : c.par[t].dom \in AutoReset(c.par, fire)}

AutoResetTiles(c, fire) ==
  {t \in Field(c) \ WinnerTiles(c, fire) : c.par[t].dom \in AutoReset(c.par, fire)}

\* The byte v_state of a tile, unpacked.
VState(c, thr, locked, fire, t) ==
  [thr    |-> ThrNorm(c.par[t], thr[t]),
   locked |-> c.bakeId > 0 /\ t \in locked,
   fire   |-> t \in fire]

FlashOnce(c, r, f) ==
  LET live    == ActiveSet(c, r.locked)
      fire    == Fire(c, r, f, live)
      mid     == LockedAfterRead(c, r, f, live)
      midThr  == ThrAfterRead(c, r, f, live)
      rowOut  == RowOutAfterRead(c, r, f, live)
      raw     == BusRaw(c, mid, rowOut)
      reset   == AutoResetTiles(c, fire)
      thr     == [t \in Tiles |-> IF t \in reset THEN 0 ELSE midThr[t]]
      locked  == mid \ reset
  IN  [thr    |-> thr,
       locked |-> locked,
       rowOut |-> rowOut,
       snap   |-> [fired     |-> FiredDomains(c.par, fire),
                   collide   |-> Collisions(c.par, fire),
                   winner    |-> [d \in Domains |-> Winner(c.par, fire, d)],
                   count     |-> [d \in Domains |-> FiredCount(c.par, fire, d)],
                   autoReset |-> AutoReset(c.par, fire),
                   bus       |-> [i \in Lanes |-> Clamp15(raw[i])],
                   clip      |-> {i \in Lanes : raw[i] > 15},
                   v         |-> [t \in Tiles |->
                                    IF t \in Field(c)
                                    THEN VState(c, thr, locked, fire, t)
                                    ELSE r.snap.v[t]]]]
=============================================================================
