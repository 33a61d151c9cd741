----------------------------- MODULE SwarmProofs ----------------------------
(***************************************************************************)
(* Proofs about Swarm, for every field size, every set of bakes, frames    *)
(* and edits, and every integer width.                                     *)
(***************************************************************************)
EXTENDS Swarm, OperatorLemmas

-----------------------------------------------------------------------------
(* What one pass of flash_impl does, whatever state it finds.              *)

LEMMA ActiveInField ==
  ASSUME NEW c, NEW L
  PROVE  ActiveSet(c, L) \subseteq Field(c)
BY DEF ActiveSet

LEMMA FireInLive ==
  ASSUME NEW c, NEW r, NEW f
  PROVE  LET live == ActiveSet(c, r.locked) IN
           /\ Fire(c, r, f, live) \subseteq live \ r.locked
           /\ Kept(c, r, live) \subseteq live \cap r.locked
           /\ live \subseteq Field(c)
BY ActiveInField DEF Fire, Kept

\* A winner is one of the tiles that fired, in its own domain.
LEMMA WinnerFired ==
  ASSUME NEW par, NEW fire, NEW d, Winner(par, fire, d) # NoTile
  PROVE  /\ Winner(par, fire, d) \in fire
         /\ par[Winner(par, fire, d)].dom = d
<1>1. \E t \in fire : IsWinner(par, fire, d, t)
  BY DEF Winner
<1>2. /\ Winner(par, fire, d) \in fire
      /\ IsWinner(par, fire, d, Winner(par, fire, d))
  BY <1>1 DEF Winner
<1>3. QED
  BY <1>2 DEF IsWinner, Contenders

\* The tiles locked at the end of a pass, and what is known of each.
LEMMA FlashLocks ==
  ASSUME NEW c, NEW r, NEW f, Field(c) \subseteq Tiles,
         NEW t \in Field(c) \cap FlashOnce(c, r, f).locked
  PROVE  LET live == ActiveSet(c, r.locked)
             fire == Fire(c, r, f, live)
         IN  /\ t \in Kept(c, r, live) \cup fire
             /\ t \notin AutoResetTiles(c, fire)
             /\ InRange(c.par[t], FlashOnce(c, r, f).thr[t])
             /\ FlashOnce(c, r, f).rowOut[t] = RowOut(f, c.weight[t])
<1> DEFINE live == ActiveSet(c, r.locked)
           fire == Fire(c, r, f, live)
<1>1. /\ t \in LockedAfterRead(c, r, f, live)
      /\ t \notin AutoResetTiles(c, fire)
  BY DEF FlashOnce
<1>2. t \in Kept(c, r, live) \cup fire
  BY <1>1 DEF LockedAfterRead
<1>3. FlashOnce(c, r, f).thr[t] = ThrAfterRead(c, r, f, live)[t]
  BY <1>1 DEF FlashOnce
<1>4. InRange(c.par[t], ThrAfterRead(c, r, f, live)[t])
  <2>1. CASE t \in Kept(c, r, live)
    <3>1. t \in live \cap r.locked /\ InRange(c.par[t], DecayLocked(c.par[t], r.thr[t]))
      BY <2>1 DEF Kept
    <3>2. ThrAfterRead(c, r, f, live)[t] = DecayLocked(c.par[t], r.thr[t])
      BY <3>1 DEF ThrAfterRead
    <3>3. QED
      BY <3>1, <3>2
  <2>2. CASE t \in fire
    <3>1. t \in live \ r.locked
      BY <2>2 DEF Fire
    <3>2. InRange(c.par[t], Accumulate(c.par[t], r.thr[t], Delta(f, c.weight[t])))
      BY <2>2 DEF Fire, Fuses
    <3>3. ThrAfterRead(c, r, f, live)[t]
            = Accumulate(c.par[t], r.thr[t], Delta(f, c.weight[t]))
      BY <3>1 DEF ThrAfterRead
    <3>4. QED
      BY <3>2, <3>3
  <2>3. QED
    BY <1>2, <2>1, <2>2
<1>5. FlashOnce(c, r, f).rowOut[t] = RowOut(f, c.weight[t])
  <2>1. t \in (live \ r.locked) \cup Kept(c, r, live)
    BY <1>2, FireInLive
  <2>2. RowOutAfterRead(c, r, f, live)[t] = RowOut(f, c.weight[t])
    BY <2>1 DEF RowOutAfterRead
  <2>3. QED
    BY <2>2 DEF FlashOnce
<1>6. QED
  BY <1>1, <1>2, <1>3, <1>4, <1>5

\* The fire bits tell the tiles that locked in the pass.
LEMMA FlashFire ==
  ASSUME NEW c, NEW r, NEW f, Field(c) \subseteq Tiles
  PROVE  {t \in Field(c) : FlashOnce(c, r, f).snap.v[t].fire}
           = Fire(c, r, f, ActiveSet(c, r.locked))
<1> DEFINE fire == Fire(c, r, f, ActiveSet(c, r.locked))
<1>1. \A t \in Field(c) : FlashOnce(c, r, f).snap.v[t].fire = (t \in fire)
  BY DEF FlashOnce, VState
<1>2. fire \subseteq Field(c)
  BY FireInLive
<1>3. QED
  BY <1>1, <1>2, Zenon

LEMMA FlashSnap ==
  ASSUME NEW c, NEW r, NEW f
  PROVE  LET fire == Fire(c, r, f, ActiveSet(c, r.locked)) IN
           /\ \A d \in Domains : FlashOnce(c, r, f).snap.winner[d] = Winner(c.par, fire, d)
           /\ FlashOnce(c, r, f).snap.autoReset = AutoReset(c.par, fire)
BY DEF FlashOnce

\* A winner is never unlocked by the auto-reset of its own flash.
LEMMA FlashWinnerStays ==
  ASSUME NEW c, NEW r, NEW f, NEW d \in Domains,
         FlashOnce(c, r, f).snap.winner[d] # NoTile
  PROVE  LET w == FlashOnce(c, r, f).snap.winner[d] IN
           /\ w \in FlashOnce(c, r, f).locked
           /\ w \in Field(c)
           /\ c.par[w].dom = d
<1> DEFINE live == ActiveSet(c, r.locked)
           fire == Fire(c, r, f, live)
           w    == Winner(c.par, fire, d)
<1>1. FlashOnce(c, r, f).snap.winner[d] = w
  BY FlashSnap
<1>2. w \in fire /\ c.par[w].dom = d
  BY <1>1, WinnerFired
<1>3. w \in Field(c)
  BY <1>2, FireInLive
<1>4. w \notin AutoResetTiles(c, fire)
  BY DEF AutoResetTiles, WinnerTiles
<1>5. w \in LockedAfterRead(c, r, f, live)
  BY <1>2 DEF LockedAfterRead
<1>6. w \in FlashOnce(c, r, f).locked
  BY <1>4, <1>5 DEF FlashOnce
<1>7. QED
  BY <1>1, <1>2, <1>3, <1>6

-----------------------------------------------------------------------------
(***************************************************************************)
(* Any caller at all: the calls of Swarm with every argument of its type,  *)
(* not only with those some host of Hosts brings along.  What is proved of *)
(* AnySpec holds of every specification whose steps are such calls.        *)
(***************************************************************************)
AnyParams == [lo : I16, hi : I16, decay : U16, dom : DomainBits, prio : Nat]
AnyMasks  == [mask : SUBSET Dirs, busW : BOOLEAN, busR : BOOLEAN]

AnyTileEdit(t) ==
  \/ \E e \in AnyParams : SetTileParams(t, e)
  \/ \E p \in Nat : SetTilePatternId(t, p)
  \/ \E m \in SUBSET Domains : SetTileResetOnFireMask(t, m)
  \/ \E w \in Weights : SetTileWeight(t, w)
  \/ \E e \in AnyMasks : SetTileRoutingMasks(t, e)
  \/ \E b \in BOOLEAN : SetTileLocked(t, b)

AnySwarmEdit ==
  \/ \E b \in BOOLEAN : SetDoubleStrait(b)
  \/ \E id \in Nat : SetBakeId(id)
  \/ \E k \in Nat : SetTileFieldLimit(k)

\* A buffer is attached or taken off.
AnyBuffer ==
  /\ shared' \in {<<>>, [t \in Tiles |-> ZeroV]}
  /\ Returns("edit", "OK")
  /\ UNCHANGED <<cfg, rt>>

\* A call that is refused, or that its receiver answers by itself.
AnyAnswer ==
  /\ \E op, st : (op = "flash" => st # "OK") /\ Returns(op, st)
  /\ UNCHANGED <<cfg, rt, shared>>

AnyCall ==
  \/ \E img : ImageOK(img) /\ EvBake(img)
  \/ \E f \in Frames : EvFlash(f)
  \/ \E m \in SUBSET Domains : EvResetDomain(m)
  \/ FullReset
  \/ \E t \in Tiles : AnyTileEdit(t)
  \/ AnySwarmEdit
  \/ AnyBuffer
  \/ AnyAnswer

AnyNext == AnyCall /\ UNCHANGED host

AnySpec == Init /\ [][AnyNext]_vars

-----------------------------------------------------------------------------
(* Types                                                                   *)

\* The part of the type invariant that the other proofs rest on.
CoreOK == BakedOK /\ RuntimeOK

KnownHost == host \in Hosts

LEMMA HostNow ==
  ASSUME KnownHost
  PROVE  /\ \A img \in host.images : ImageOK(img)
         /\ host.tiles \subseteq Tiles
         /\ host.resets \subseteq SUBSET Domains
         /\ host.params \subseteq AnyParams /\ host.masks \subseteq AnyMasks
         /\ host.weights \subseteq Weights
         /\ host.patterns \subseteq Nat /\ host.limits \subseteq Nat
         /\ host.bakeIds \subseteq Nat
         /\ host.locks \subseteq BOOLEAN /\ host.doubles \subseteq BOOLEAN
BY HostsAssumption DEF KnownHost, HostOK, AnyParams, AnyMasks

\* The calls of a host of Hosts are calls of any caller.
LEMMA NextIsAny ==
  ASSUME KnownHost, Next
  PROVE  AnyNext
<1>1. ASSUME NEW t \in host.tiles, TileEdit(t) PROVE AnyCall
  BY <1>1, HostNow, Zenon DEF TileEdit, AnyTileEdit, AnyCall
<1>2. ASSUME SwarmEdit PROVE AnyCall
  BY <1>2, HostNow, Zenon DEF SwarmEdit, AnySwarmEdit, AnyCall
<1>3. ASSUME HostCall PROVE AnyCall
  <2>1. ASSUME NEW img \in host.images, EvBake(img) PROVE AnyCall
    BY <2>1, HostNow, Zenon DEF AnyCall
  <2>2. ASSUME NEW m \in host.resets, EvResetDomain(m) PROVE AnyCall
    BY <2>2, HostNow, Zenon DEF AnyCall
  <2>3. ASSUME SetSharedBuffer \/ DetachSharedBuffer PROVE AnyCall
    BY <2>3 DEF SetSharedBuffer, DetachSharedBuffer, AnyBuffer, AnyCall
  <2>4. ASSUME EvBakeRefused \/ EvFlashNotBaked \/ EvFlashBadIngress \/ EvResetNotBaked
        PROVE  AnyCall
    <3>1. "BAD_BLOB" # "OK" /\ "NOT_BAKED" # "OK" /\ "BAD_INGRESS_LEVEL" # "OK"
      OBVIOUS
    <3>2. AnyAnswer
      BY <2>4, <3>1, Zenon DEF EvBakeRefused, EvFlashNotBaked, EvFlashBadIngress,
                               EvResetNotBaked, AnyAnswer
    <3>3. QED
      BY <3>2 DEF AnyCall
  <2>5. QED
    BY <1>3, <2>1, <2>2, <2>3, <2>4, Zenon DEF HostCall, AnyCall
<1>4. QED
  BY <1>1, <1>2, <1>3 DEF Next, AnyNext

LEMMA FieldInTiles ==
  ASSUME BakedOK
  PROVE  Field(cfg) \subseteq Tiles
BY MaxTilesAssumption DEF BakedOK, Field, Tiles

LEMMA FlashOnceTyped ==
  ASSUME NEW c, NEW r, NEW f \in Frames,
         c.par \in [Tiles -> Params], c.weight \in [Tiles -> Weights],
         Field(c) \subseteq Tiles,
         r.thr \in [Tiles -> I16], r.locked \in SUBSET Tiles
  PROVE  /\ FlashOnce(c, r, f).thr \in [Tiles -> I16]
         /\ FlashOnce(c, r, f).locked \in SUBSET Tiles
<1> DEFINE live == ActiveSet(c, r.locked)
           mid  == ThrAfterRead(c, r, f, live)
<1>0. 0 \in I16
  BY HalfAssumption DEF I16
<1>1. ASSUME NEW t \in Tiles
      PROVE  mid[t] \in I16
  <2>1. c.par[t].decay \in U16 /\ r.thr[t] \in I16
    BY DEF Params
  <2>2. Delta(f, c.weight[t]) \in Int
    <3>1. Delta(f, c.weight[t]) \in -Half .. Half
      BY PipelineAssumption
    <3>2. QED
      BY <3>1, HalfAssumption
  <2>3. DecayLocked(c.par[t], r.thr[t]) \in I16
    BY <2>1, DecayLockedRange
  <2>4. Accumulate(c.par[t], r.thr[t], Delta(f, c.weight[t])) \in I16
    BY <2>1, <2>2, AccumulateRange
  <2>5. live \subseteq Field(c)
    BY ActiveInField
  <2>6. CASE t \notin Field(c)
    BY <2>1, <2>5, <2>6 DEF ThrAfterRead
  <2>7. CASE t \in live \cap r.locked
    BY <2>3, <2>5, <2>7 DEF ThrAfterRead
  <2>8. CASE t \in live \ r.locked
    BY <2>4, <2>5, <2>8 DEF ThrAfterRead
  <2>9. CASE t \in Field(c) \ live
    BY <1>0, <2>9 DEF ThrAfterRead
  <2>10. QED
    BY <2>6, <2>7, <2>8, <2>9
<1>2. FlashOnce(c, r, f).thr \in [Tiles -> I16]
  BY <1>0, <1>1 DEF FlashOnce
<1>3. LockedAfterRead(c, r, f, live) \subseteq Tiles
  BY FireInLive DEF LockedAfterRead
<1>4. FlashOnce(c, r, f).locked \in SUBSET Tiles
  BY <1>3 DEF FlashOnce
<1>5. QED
  BY <1>2, <1>4

LEMMA PouredTyped ==
  ASSUME CoreOK, NEW f \in Frames
  PROVE  /\ Poured(f).thr \in [Tiles -> I16]
         /\ Poured(f).locked \in SUBSET Tiles
<1>1. /\ cfg.par \in [Tiles -> Params] /\ cfg.weight \in [Tiles -> Weights]
      /\ rt.thr \in [Tiles -> I16] /\ rt.locked \in SUBSET Tiles
      /\ Field(cfg) \subseteq Tiles
  BY FieldInTiles DEF CoreOK, BakedOK, RuntimeOK
<1> DEFINE once == FlashOnce(cfg, rt, f)
<1>2. once.thr \in [Tiles -> I16] /\ once.locked \in SUBSET Tiles
  BY <1>1, FlashOnceTyped
<1>3. /\ FlashOnce(cfg, once, f).thr \in [Tiles -> I16]
      /\ FlashOnce(cfg, once, f).locked \in SUBSET Tiles
  <2> HIDE DEF once
  <2>1. QED
    BY <1>1, <1>2, FlashOnceTyped
<1>4. QED
  BY <1>2, <1>3 DEF Poured

LEMMA InitCore == Init => CoreOK
<1> SUFFICES ASSUME Init PROVE CoreOK
  OBVIOUS
<1>1. 0 \in I16 /\ 0 \in U16
  BY HalfAssumption DEF I16, U16
<1>2. ZeroParams \in Params
  BY <1>1 DEF ZeroParams, Params, DomainBits
<1>3. BakedOK
  BY <1>2, GeometryAssumption, ZeroWeightAssumption, MaxTilesAssumption
     DEF Init, FreshConfig, BakedOK
<1>4. RuntimeOK
  BY <1>1 DEF Init, RuntimeOK
<1>5. QED
  BY <1>3, <1>4 DEF CoreOK

LEMMA WidthPositive ==
  ASSUME NEW k, NEW other \in Nat \ {0}
  PROVE  FieldWidth(k, other) \in Nat \ {0}
<1>1. CASE k \in {0, MaxTiles}
  BY <1>1, GeometryAssumption DEF FieldWidth
<1>2. CASE k \notin {0, MaxTiles} /\ k \in DOMAIN StdWidth
  BY <1>2, GeometryAssumption DEF FieldWidth
<1>3. CASE k \notin {0, MaxTiles} /\ k \notin DOMAIN StdWidth
  BY <1>3 DEF FieldWidth
<1>4. QED
  BY <1>1, <1>2, <1>3

\* A bake leaves a baked state of the right type, whatever it is applied to.
LEMMA BakeCore ==
  ASSUME CoreOK, NEW img, ImageOK(img), EvBake(img)
  PROVE  CoreOK'
<1>1. ImageOK(img)
  OBVIOUS
<1>2. ActiveCount(img) \in 0 .. MaxTiles
  BY <1>1, MaxTilesAssumption DEF ActiveCount, ImageOK
<1>3. FieldWidth(ActiveCount(img), img.w) \in Nat \ {0}
  BY <1>1, WidthPositive DEF ImageOK
<1>4. ASSUME NEW S, NEW new \in [0 .. img.n - 1 -> S], NEW old \in [Tiles -> S]
      PROVE  CopyTiles(new, old, img.n) \in [Tiles -> S]
  <2>1. ASSUME NEW t \in Tiles, t < img.n PROVE t \in 0 .. img.n - 1
    BY <1>1, <2>1, MaxTilesAssumption DEF ImageOK, Tiles
  <2>2. QED
    BY <2>1 DEF CopyTiles
<1>5. ASSUME NEW new \in SUBSET (0 .. img.n - 1), NEW old \in SUBSET Tiles
      PROVE  CopyFlags(new, old, img.n) \in SUBSET Tiles
  <2>1. 0 .. img.n - 1 \subseteq Tiles
    BY <1>1, MaxTilesAssumption DEF ImageOK, Tiles
  <2>2. QED
    BY <2>1 DEF CopyFlags
<1>6. /\ CopyTiles(img.mask, cfg.mask, img.n) \in [Tiles -> SUBSET Dirs]
      /\ CopyTiles(img.par, cfg.par, img.n) \in [Tiles -> Params]
      /\ CopyTiles(img.weight, cfg.weight, img.n) \in [Tiles -> Weights]
      /\ CopyFlags(img.busW, cfg.busW, img.n) \in SUBSET Tiles
      /\ CopyFlags(img.busR, cfg.busR, img.n) \in SUBSET Tiles
  BY <1>1, <1>4, <1>5 DEF ImageOK, CoreOK, BakedOK
<1>7. BakedOK'
  BY SMTT(30), <1>1, <1>2, <1>3, <1>6 DEF EvBake, BakedConfig, BakedOK, CoreOK, ImageOK
<1>8. RuntimeOK'
  BY DEF EvBake, CoreOK, RuntimeOK
<1>9. QED
  BY <1>7, <1>8 DEF CoreOK

\* The edits of one tile.
LEMMA TileEditCore ==
  ASSUME CoreOK, NEW t \in Tiles, AnyTileEdit(t)
  PROVE  CoreOK'
<1>1. ASSUME NEW e \in AnyParams, SetTileParams(t, e)
      PROVE  CoreOK'
  <2>1. [cfg.par[t] EXCEPT !.lo = e.lo, !.hi = e.hi, !.decay = e.decay,
                           !.dom = e.dom, !.prio = e.prio] \in Params
    <3>1. cfg.par[t] \in Params
      BY DEF CoreOK, BakedOK
    <3>2. \A q \in Params : [q EXCEPT !.lo = e.lo, !.hi = e.hi, !.decay = e.decay,
                                      !.dom = e.dom, !.prio = e.prio] \in Params
      BY DEF Params, AnyParams
    <3>3. QED
      BY <3>1, <3>2
  <2>2. QED
    BY <1>1, <2>1 DEF SetTileParams, Edit, CoreOK, BakedOK, RuntimeOK
<1>2. ASSUME NEW p \in Nat, SetTilePatternId(t, p)
      PROVE  CoreOK'
  <2>1. [cfg.par[t] EXCEPT !.pat = p] \in Params
    BY DEF CoreOK, BakedOK, Params
  <2>2. QED
    BY <1>2, <2>1 DEF SetTilePatternId, Edit, CoreOK, BakedOK, RuntimeOK
<1>3. ASSUME NEW m \in SUBSET Domains, SetTileResetOnFireMask(t, m)
      PROVE  CoreOK'
  <2>1. [cfg.par[t] EXCEPT !.rof = m] \in Params
    BY DEF CoreOK, BakedOK, Params
  <2>2. QED
    BY <1>3, <2>1 DEF SetTileResetOnFireMask, Edit, CoreOK, BakedOK, RuntimeOK
<1>4. ASSUME NEW w \in Weights, SetTileWeight(t, w)
      PROVE  CoreOK'
  BY <1>4 DEF SetTileWeight, Edit, CoreOK, BakedOK, RuntimeOK
<1>5. ASSUME NEW e \in AnyMasks, SetTileRoutingMasks(t, e)
      PROVE  CoreOK'
  <2>1. e.mask \in SUBSET Dirs
    BY DEF AnyMasks
  <2>2. QED
    BY <1>5, <2>1 DEF SetTileRoutingMasks, Edit, CoreOK, BakedOK, RuntimeOK
<1>6. ASSUME NEW b \in BOOLEAN, SetTileLocked(t, b)
      PROVE  CoreOK'
  BY <1>6 DEF SetTileLocked, CoreOK, BakedOK, RuntimeOK
<1>7. QED
  BY <1>1, <1>2, <1>3, <1>4, <1>5, <1>6 DEF AnyTileEdit

\* The edits of the whole swarm.
LEMMA SwarmEditCore ==
  ASSUME CoreOK, AnySwarmEdit
  PROVE  CoreOK'
<1>1. ASSUME NEW b \in BOOLEAN, SetDoubleStrait(b)
      PROVE  CoreOK'
  BY <1>1 DEF SetDoubleStrait, Edit, CoreOK, BakedOK, RuntimeOK
<1>2. ASSUME NEW id \in Nat, SetBakeId(id)
      PROVE  CoreOK'
  BY <1>2 DEF SetBakeId, Edit, CoreOK, BakedOK, RuntimeOK
<1>3. ASSUME NEW k \in Nat, SetTileFieldLimit(k)
      PROVE  CoreOK'
  <2> DEFINE n == LimitedCount(cfg, k)
             narrow == Narrow(n)
  <2>1. n \in 0 .. MaxTiles
    BY MaxTilesAssumption DEF LimitedCount, CoreOK, BakedOK
  <2>2. FieldWidth(n, narrow) \in Nat \ {0}
    <3>1. CASE n = 0
      BY <3>1, GeometryAssumption DEF FieldWidth
    <3>2. CASE n # 0
      <4>1. narrow \in Nat \ {0}
        BY <2>1, <3>2, GeometryAssumption, MaxTilesAssumption DEF Narrow
      <4>2. QED
        BY <4>1, WidthPositive
    <3>3. QED
      BY <3>1, <3>2
  <2>3. cfg' = [cfg EXCEPT !.n = n, !.w = FieldWidth(n, narrow)] /\ rt' = rt
    BY <1>3 DEF SetTileFieldLimit, Limited, Edit
  <2>4. QED
    <3> HIDE DEF n, narrow
    <3>1. QED
      BY <2>1, <2>2, <2>3 DEF CoreOK, BakedOK, RuntimeOK
<1>4. QED
  BY <1>1, <1>2, <1>3 DEF AnySwarmEdit

\* All calls.
LEMMA CallCore ==
  ASSUME CoreOK, AnyCall
  PROVE  CoreOK'
<1>0. 0 \in I16
  BY HalfAssumption DEF I16
<1>1. ASSUME NEW img, ImageOK(img), EvBake(img)
      PROVE  CoreOK'
  BY <1>1, BakeCore
<1>2. ASSUME NEW f \in Frames, EvFlash(f)
      PROVE  CoreOK'
  BY <1>2, PouredTyped DEF EvFlash, CoreOK, BakedOK, RuntimeOK
<1>3. ASSUME NEW m \in SUBSET Domains, EvResetDomain(m)
      PROVE  CoreOK'
  <2>1. cfg' = cfg /\ RuntimeOK
    BY <1>3 DEF EvResetDomain, CoreOK
  <2>2. rt'.locked = rt.locked \ InDomains(m)
    BY <1>3 DEF EvResetDomain
  <2>3. rt'.thr = [t \in Tiles |-> IF t \in InDomains(m) THEN 0 ELSE rt.thr[t]]
    BY <1>3 DEF EvResetDomain
  <2>4. RuntimeOK'
    BY <1>0, <2>1, <2>2, <2>3 DEF RuntimeOK
  <2>5. QED
    BY <2>1, <2>4 DEF CoreOK, BakedOK
<1>4. CASE FullReset
  BY <1>0, <1>4 DEF FullReset, CoreOK, BakedOK, RuntimeOK
<1>5. CASE UNCHANGED <<cfg, rt>>
  BY <1>5 DEF CoreOK, BakedOK, RuntimeOK
<1>6. QED
  BY <1>1, <1>2, <1>3, <1>4, <1>5, TileEditCore, SwarmEditCore
     DEF AnyCall, AnyBuffer, AnyAnswer

LEMMA NextCore ==
  KnownHost /\ CoreOK /\ [AnyNext]_vars => KnownHost' /\ CoreOK'
<1> SUFFICES ASSUME KnownHost, CoreOK, [AnyNext]_vars PROVE KnownHost' /\ CoreOK'
  OBVIOUS
<1>1. CASE AnyNext
  BY <1>1, CallCore DEF AnyNext, KnownHost
<1>2. CASE UNCHANGED vars
  BY <1>2 DEF vars, KnownHost, CoreOK, BakedOK, RuntimeOK
<1>3. QED
  BY <1>1, <1>2

LEMMA AnyCore == AnySpec => [](KnownHost /\ CoreOK)
<1>1. Init => KnownHost
  BY DEF Init, KnownHost
<1>2. QED
  BY <1>1, InitCore, NextCore, PTL DEF AnySpec

\* What is proved of any caller holds of every host that makes the calls of
\* Swarm.
THEOREM SwarmIsAny == Spec => AnySpec
<1>1. Init => KnownHost
  BY DEF Init, KnownHost
<1>2. KnownHost /\ [Next]_vars => KnownHost'
  BY DEF KnownHost, Next, vars
<1>3. KnownHost /\ [Next]_vars => [AnyNext]_vars
  BY NextIsAny
<1>4. QED
  BY <1>1, <1>2, <1>3, PTL DEF Spec, AnySpec

-----------------------------------------------------------------------------
(* What a swarm is when its bake is saved                                  *)

\* The width that the topology or a limit gave the field.
WidthOK == cfg.w \in {FieldWidth(cfg.n, cfg.topoW), FieldWidth(cfg.n, Narrow(cfg.n))}

LEMMA InitWidth == Init => WidthOK
BY DEF Init, FreshConfig, WidthOK, FieldWidth

\* The calls that leave count, widths and the bake as they are.
LEMMA SameWidth ==
  ASSUME WidthOK, cfg'.n = cfg.n, cfg'.w = cfg.w, cfg'.topoW = cfg.topoW
  PROVE  WidthOK'
BY DEF WidthOK

LEMMA TileEditWidth ==
  ASSUME CoreOK, WidthOK, NEW t \in Tiles, AnyTileEdit(t)
  PROVE  WidthOK'
<1>1. ASSUME NEW e, SetTileParams(t, e) PROVE WidthOK'
  BY <1>1, SameWidth DEF SetTileParams, Edit
<1>2. ASSUME NEW p, SetTilePatternId(t, p) PROVE WidthOK'
  BY <1>2, SameWidth DEF SetTilePatternId, Edit
<1>3. ASSUME NEW m, SetTileResetOnFireMask(t, m) PROVE WidthOK'
  BY <1>3, SameWidth DEF SetTileResetOnFireMask, Edit
<1>4. ASSUME NEW w, SetTileWeight(t, w) PROVE WidthOK'
  BY <1>4, SameWidth DEF SetTileWeight, Edit
<1>5. ASSUME NEW e, SetTileRoutingMasks(t, e) PROVE WidthOK'
  BY <1>5, SameWidth DEF SetTileRoutingMasks, Edit
<1>6. ASSUME NEW b, SetTileLocked(t, b) PROVE WidthOK'
  BY <1>6, SameWidth DEF SetTileLocked
<1>7. QED
  BY <1>1, <1>2, <1>3, <1>4, <1>5, <1>6 DEF AnyTileEdit

LEMMA SwarmEditWidth ==
  ASSUME CoreOK, WidthOK, AnySwarmEdit
  PROVE  WidthOK'
<1>1. ASSUME NEW b, SetDoubleStrait(b) PROVE WidthOK'
  BY <1>1, SameWidth DEF SetDoubleStrait, Edit
<1>2. ASSUME NEW id, SetBakeId(id) PROVE WidthOK'
  BY <1>2, SameWidth DEF SetBakeId, Edit
<1>3. ASSUME NEW k, SetTileFieldLimit(k) PROVE WidthOK'
  <2> DEFINE n == LimitedCount(cfg, k)
  <2>1. cfg' = [cfg EXCEPT !.n = n, !.w = FieldWidth(n, Narrow(n))]
    BY <1>3 DEF SetTileFieldLimit, Limited, Edit
  <2> HIDE DEF n
  <2>2. QED
    BY <2>1 DEF WidthOK
<1>4. QED
  BY <1>1, <1>2, <1>3 DEF AnySwarmEdit

LEMMA NextWidth == CoreOK /\ WidthOK /\ [AnyNext]_vars => WidthOK'
<1> SUFFICES ASSUME CoreOK, WidthOK, [AnyNext]_vars PROVE WidthOK'
  OBVIOUS
<1>1. CASE UNCHANGED cfg
  BY <1>1 DEF WidthOK
<1>2. ASSUME NEW img, ImageOK(img), EvBake(img) PROVE WidthOK'
  <2>1. /\ cfg'.topoW = img.w /\ cfg'.n = ActiveCount(img)
        /\ cfg'.w = FieldWidth(ActiveCount(img), img.w)
    BY <1>2 DEF EvBake, BakedConfig
  <2>2. QED
    BY <2>1 DEF WidthOK
<1>3. QED
  BY <1>1, <1>2, TileEditWidth, SwarmEditWidth
     DEF AnyNext, AnyCall, AnyBuffer, AnyAnswer, EvFlash, EvResetDomain, FullReset, vars

\* Whenever a host saves the bake of its swarm, the configuration is one the
\* serializer is modelled for: SavedAssumption of BakeCodec.
THEOREM SwarmsCanBeSaved == AnySpec => []ConfigOK(cfg)
<1>1. CoreOK /\ WidthOK => ConfigOK(cfg)
  BY DEF CoreOK, BakedOK, WidthOK, ConfigOK
<1>2. QED
  BY <1>1, AnyCore, InitWidth, NextWidth, PTL DEF AnySpec

-----------------------------------------------------------------------------
(* The views                                                               *)

VView == [thr : 0 .. 15, locked : BOOLEAN, fire : BOOLEAN]

\* The part of a runtime state that a pass reports.
ReportOK(r) ==
  /\ r.rowOut \in [Tiles -> [Lanes -> 0 .. 15]]
  /\ r.snap.fired \in SUBSET Domains /\ r.snap.collide \in SUBSET Domains
  /\ r.snap.autoReset \in SUBSET Domains
  /\ r.snap.winner \in [Domains -> Tiles \cup {NoTile}]
  /\ r.snap.count \in [Domains -> 0 .. CountCap]
  /\ r.snap.bus \in [Lanes -> 0 .. 15] /\ r.snap.clip \in SUBSET Lanes
  /\ r.snap.v \in [Tiles -> VView]

LEMMA TilesFinite == IsFiniteSet(Tiles)
BY MaxTilesAssumption, FS_Interval DEF Tiles

\* What the election reports of any set of fires.
LEMMA ElectionTyped ==
  ASSUME NEW par \in [Tiles -> Params], NEW fire \in SUBSET Tiles
  PROVE  /\ FiredDomains(par, fire) \in SUBSET Domains
         /\ Collisions(par, fire) \in SUBSET Domains
         /\ \A d \in Domains : /\ Winner(par, fire, d) \in Tiles \cup {NoTile}
                               /\ FiredCount(par, fire, d) \in 0 .. CountCap
         /\ AutoReset(par, fire) \in SUBSET Domains
<1>1. ASSUME NEW d
      PROVE  /\ Winner(par, fire, d) \in Tiles \cup {NoTile}
             /\ FiredCount(par, fire, d) \in 0 .. CountCap
  <2>1. Winner(par, fire, d) \in Tiles \cup {NoTile}
    BY WinnerFired
  <2>2. Contenders(par, fire, d) \subseteq Tiles
    BY DEF Contenders
  <2>3. Cardinality(Contenders(par, fire, d)) \in Nat
    BY <2>2, TilesFinite, FS_Subset, FS_CardinalityType
  <2>4. QED
    BY <2>1, <2>3 DEF FiredCount, CountCap
<1>2. ASSUME NEW d \in Domains, Winner(par, fire, d) # NoTile
      PROVE  par[Winner(par, fire, d)].rof \in SUBSET Domains
  <2>1. Winner(par, fire, d) \in Tiles
    BY <1>1, <1>2
  <2>2. QED
    BY <2>1 DEF Params
<1>3. AutoReset(par, fire) \in SUBSET Domains
  BY <1>2 DEF AutoReset
<1>4. QED
  BY <1>1, <1>3 DEF FiredDomains, Collisions

\* The bus is a sum of finitely many drives, whatever tiles write.
LEMMA BusTyped ==
  ASSUME NEW c, Field(c) \subseteq Tiles, NEW locked,
         NEW rowOut \in [Tiles -> [Lanes -> 0 .. 15]], NEW i \in Lanes
  PROVE  BusRaw(c, locked, rowOut)[i] \in Int
<1> DEFINE W == Writers(c, locked)
           g == [t \in Tiles |-> rowOut[t][i]]
<1>1. W \subseteq Tiles
  BY DEF Writers
<1>2. IsFiniteSet(W)
  BY <1>1, TilesFinite, FS_Subset
<1>3. \A t \in W : g[t] \in Int
  BY <1>1
<1>4. BusRaw(c, locked, rowOut)[i] = SumOver(g, W)
  BY DEF BusRaw
<1> HIDE DEF g, W
<1>5. QED
  BY <1>2, <1>3, <1>4, SumInt

LEMMA RowsTyped ==
  ASSUME NEW c, NEW r, NEW f \in Frames, NEW live,
         c.weight \in [Tiles -> Weights], r.rowOut \in [Tiles -> [Lanes -> 0 .. 15]]
  PROVE  RowOutAfterRead(c, r, f, live) \in [Tiles -> [Lanes -> 0 .. 15]]
<1>1. ASSUME NEW t \in Tiles
      PROVE  RowOut(f, c.weight[t]) \in [Lanes -> 0 .. 15]
  BY PipelineAssumption
<1>2. QED
  BY <1>1 DEF RowOutAfterRead

LEMMA FlashReports ==
  ASSUME NEW c, NEW r, NEW f \in Frames,
         c.par \in [Tiles -> Params], c.weight \in [Tiles -> Weights],
         Field(c) \subseteq Tiles,
         r.thr \in [Tiles -> I16], r.locked \in SUBSET Tiles, ReportOK(r)
  PROVE  ReportOK(FlashOnce(c, r, f))
<1> DEFINE live == ActiveSet(c, r.locked)
           fire == Fire(c, r, f, live)
           mid  == LockedAfterRead(c, r, f, live)
           rows == RowOutAfterRead(c, r, f, live)
           raw  == BusRaw(c, mid, rows)
           after == FlashOnce(c, r, f)
<1>1. fire \in SUBSET Tiles
  BY FireInLive
<1>2. rows \in [Tiles -> [Lanes -> 0 .. 15]]
  BY RowsTyped DEF ReportOK
<1>3. \A i \in Lanes : Clamp15(raw[i]) \in 0 .. 15
  <2> HIDE DEF rows, mid
  <2>1. QED
    BY <1>2, BusTyped, Clamp15Range
<1>4. after.thr \in [Tiles -> I16]
  BY FlashOnceTyped
<1>5. after.snap.v \in [Tiles -> VView]
  <2>1. ASSUME NEW t \in Tiles
        PROVE  VState(c, after.thr, after.locked, fire, t) \in VView
    <3>1. c.par[t].lo \in I16 /\ c.par[t].hi \in I16 /\ after.thr[t] \in I16
      BY <1>4 DEF Params
    <3>2. ThrNorm(c.par[t], after.thr[t]) \in 0 .. 15
      BY <3>1, ThrNormRange
    <3>3. (t \in fire) \in BOOLEAN /\ (c.bakeId > 0 /\ t \in after.locked) \in BOOLEAN
      OBVIOUS
    <3>4. QED
      BY <3>2, <3>3 DEF VState, VView
  <2>2. ASSUME NEW t \in Tiles
        PROVE  after.snap.v[t] = IF t \in Field(c)
                                 THEN VState(c, after.thr, after.locked, fire, t)
                                 ELSE r.snap.v[t]
    BY DEF FlashOnce
  <2>3. after.snap.v = [t \in Tiles |-> after.snap.v[t]]
    BY DEF FlashOnce
  <2> HIDE DEF after, fire
  <2>4. \A t \in Tiles : after.snap.v[t] \in VView
    BY <2>1, <2>2 DEF ReportOK
  <2>5. QED
    BY <2>3, <2>4
<1>6. /\ after.rowOut = rows
      /\ after.snap.fired = FiredDomains(c.par, fire)
      /\ after.snap.collide = Collisions(c.par, fire)
      /\ after.snap.winner = [d \in Domains |-> Winner(c.par, fire, d)]
      /\ after.snap.count = [d \in Domains |-> FiredCount(c.par, fire, d)]
      /\ after.snap.autoReset = AutoReset(c.par, fire)
      /\ after.snap.bus = [i \in Lanes |-> Clamp15(raw[i])]
      /\ after.snap.clip = {i \in Lanes : raw[i] > 15}
  BY DEF FlashOnce
<1>7. /\ FiredDomains(c.par, fire) \in SUBSET Domains
      /\ Collisions(c.par, fire) \in SUBSET Domains
      /\ \A d \in Domains : /\ Winner(c.par, fire, d) \in Tiles \cup {NoTile}
                            /\ FiredCount(c.par, fire, d) \in 0 .. CountCap
      /\ AutoReset(c.par, fire) \in SUBSET Domains
  <2> HIDE DEF fire
  <2>1. QED
    BY <1>1, ElectionTyped
<1> HIDE DEF after, raw, rows, fire
<1>8. ReportOK(after)
  BY <1>2, <1>3, <1>5, <1>6, <1>7 DEF ReportOK
<1>9. QED
  BY <1>8 DEF after

LEMMA PouredReports ==
  ASSUME CoreOK, ReportOK(rt), NEW f \in Frames
  PROVE  ReportOK(Poured(f))
<1>1. /\ cfg.par \in [Tiles -> Params] /\ cfg.weight \in [Tiles -> Weights]
      /\ rt.thr \in [Tiles -> I16] /\ rt.locked \in SUBSET Tiles
      /\ Field(cfg) \subseteq Tiles
  BY FieldInTiles DEF CoreOK, BakedOK, RuntimeOK
<1> DEFINE once == FlashOnce(cfg, rt, f)
<1>2. once.thr \in [Tiles -> I16] /\ once.locked \in SUBSET Tiles /\ ReportOK(once)
  BY <1>1, FlashOnceTyped, FlashReports
<1>3. ReportOK(FlashOnce(cfg, once, f))
  <2> HIDE DEF once
  <2>1. QED
    BY <1>1, <1>2, FlashReports
<1>4. QED
  BY <1>2, <1>3 DEF Poured

SharedOK == shared = <<>> \/ shared \in [Tiles -> VView]

LEMMA ViewsAre ==
  ViewsOK <=> ReportOK(rt) /\ SharedOK /\ res.readout \in [Lanes -> 0 .. 15]
BY DEF ViewsOK, ReportOK, SharedOK, VView

LEMMA ViewsWillBe ==
  ASSUME ReportOK(rt)', SharedOK', res'.readout \in [Lanes -> 0 .. 15]
  PROVE  ViewsOK'
BY DEF ViewsOK, ReportOK, SharedOK, VView

LEMMA ZeroViews ==
  /\ ZeroV \in VView
  /\ ZeroSnap.winner \in [Domains -> Tiles \cup {NoTile}]
  /\ ZeroSnap.v \in [Tiles -> VView]
BY MaxTilesAssumption DEF ZeroV, ZeroSnap, VView, Tiles

LEMMA InitViews == Init => ViewsOK
<1> SUFFICES ASSUME Init PROVE ViewsOK
  OBVIOUS
<1>1. ReportOK(rt)
  BY SMTT(30), ZeroViews DEF Init, ReportOK, ZeroSnap, CountCap
<1>2. QED
  BY <1>1, ViewsAre DEF Init, SharedOK

LEMMA FlashViews ==
  ASSUME CoreOK, ViewsOK, NEW f \in Frames, EvFlash(f)
  PROVE  ViewsOK'
<1>1. rt' = Poured(f)
  BY DEF EvFlash
<1>2. ReportOK(rt)'
  BY <1>1, PouredReports, ViewsAre DEF ReportOK
<1>3. rt.locked \in SUBSET Tiles /\ rt'.thr \in [Tiles -> I16]
  BY <1>1, PouredTyped DEF CoreOK, RuntimeOK
<1>4. SharedOK'
  <2>1. CASE shared = <<>>
    BY <2>1 DEF EvFlash, SharedOK
  <2>2. CASE shared # <<>>
    <3>1. shared \in [Tiles -> VView] /\ shared' = Published(rt')
      BY <2>2, ViewsAre DEF SharedOK, EvFlash
    <3>2. ASSUME NEW t \in Tiles
          PROVE  [thr |-> ThrShared(rt'.thr[t]), locked |-> t \in rt'.locked,
                  fire |-> rt'.snap.v[t].fire] \in VView
      <4>1. rt'.thr[t] \in Int
        BY <1>3, HalfAssumption DEF I16
      <4>2. ThrShared(rt'.thr[t]) \in 0 .. 15
        BY <4>1, Clamp15Range DEF ThrShared
      <4>3. rt'.snap.v[t] \in VView
        BY <1>2 DEF ReportOK
      <4>4. QED
        BY <4>2, <4>3 DEF VView
    <3>3. shared' \in [Tiles -> VView]
      BY <3>1, <3>2 DEF Published
    <3>4. QED
      BY <3>3 DEF SharedOK
  <2>3. QED
    BY <2>1, <2>2
<1>5. res'.readout \in [Lanes -> 0 .. 15]
  <2>1. rt'.snap.bus \in [Lanes -> 0 .. 15]
    BY <1>2 DEF ReportOK
  <2>2. res'.readout = Readout(cfg, rt'.snap.bus)
    BY DEF EvFlash
  <2>3. QED
    BY <2>1, <2>2 DEF Readout
<1>6. QED
  BY <1>2, <1>4, <1>5, ViewsWillBe

\* A call that answers with no frame and leaves the reports alone.
LEMMA QuietViews ==
  ASSUME ViewsOK, NEW op, NEW st, Returns(op, st),
         rt'.rowOut = rt.rowOut, rt'.snap = rt.snap,
         shared' \in {shared, <<>>, [t \in Tiles |-> ZeroV]}
  PROVE  ViewsOK'
<1>1. res'.readout \in [Lanes -> 0 .. 15]
  BY DEF Returns
<1>2. ReportOK(rt)'
  BY DEF ViewsOK, ReportOK, VView
<1>3. SharedOK'
  BY ViewsAre, ZeroViews DEF SharedOK
<1>4. QED
  BY <1>1, <1>2, <1>3, ViewsWillBe

LEMMA CallViews ==
  ASSUME CoreOK, ViewsOK, AnyCall
  PROVE  ViewsOK'
<1>1. ASSUME NEW f \in Frames, EvFlash(f) PROVE ViewsOK'
  BY <1>1, FlashViews
<1>2. ASSUME NEW m \in SUBSET Domains, EvResetDomain(m) PROVE ViewsOK'
  <2>1. rt'.rowOut = rt.rowOut /\ rt'.snap = [rt.snap EXCEPT !.v = Cleared(m)]
    BY <1>2 DEF EvResetDomain
  <2>2. Cleared(m) \in [Tiles -> VView]
    BY ViewsAre, ZeroViews DEF Cleared, ReportOK
  <2>3. ReportOK(rt)'
    BY <2>1, <2>2, ViewsAre DEF ReportOK
  <2>4. res'.readout \in [Lanes -> 0 .. 15] /\ shared' = shared
    BY <1>2 DEF EvResetDomain, Returns
  <2>5. QED
    BY <2>3, <2>4, ViewsAre, ViewsWillBe DEF SharedOK
<1>3. ASSUME FullReset PROVE ViewsOK'
  <2>1. rt'.rowOut = rt.rowOut /\ rt'.snap = ZeroSnap
    BY <1>3 DEF FullReset
  <2>2. ReportOK(rt)'
    BY <2>1, ViewsAre, ZeroViews DEF ReportOK, ZeroSnap, CountCap
  <2>3. res'.readout \in [Lanes -> 0 .. 15] /\ shared' = shared
    BY <1>3 DEF FullReset, Returns
  <2>4. QED
    BY <2>2, <2>3, ViewsAre, ViewsWillBe DEF SharedOK
<1>4. ASSUME NEW op, NEW st, Returns(op, st), rt' = rt,
             shared' \in {shared, <<>>, [t \in Tiles |-> ZeroV]}
      PROVE  ViewsOK'
  BY <1>4, QuietViews
<1>5. ASSUME NEW c, Edit(c) PROVE ViewsOK'
  BY <1>4, <1>5 DEF Edit
<1>6. ASSUME NEW t \in Tiles, AnyTileEdit(t) PROVE ViewsOK'
  <2>1. ASSUME NEW b \in BOOLEAN, SetTileLocked(t, b) PROVE ViewsOK'
    <3>1. rt'.rowOut = rt.rowOut /\ rt'.snap = rt.snap /\ shared' = shared
      BY <2>1 DEF SetTileLocked
    <3>2. QED
      BY <2>1, <3>1, QuietViews DEF SetTileLocked
  <2>2. QED
    BY <1>5, <1>6, <2>1, Zenon
       DEF AnyTileEdit, SetTileParams, SetTilePatternId, SetTileResetOnFireMask,
           SetTileWeight, SetTileRoutingMasks
<1>7. ASSUME AnySwarmEdit PROVE ViewsOK'
  BY <1>5, <1>7, Zenon DEF AnySwarmEdit, SetDoubleStrait, SetBakeId, SetTileFieldLimit
<1>8. ASSUME NEW img, EvBake(img) PROVE ViewsOK'
  BY <1>4, <1>8 DEF EvBake
<1>9. ASSUME AnyBuffer PROVE ViewsOK'
  BY <1>4, <1>9 DEF AnyBuffer
<1>10. ASSUME AnyAnswer PROVE ViewsOK'
  <2>1. PICK op, st : Returns(op, st)
    BY <1>10 DEF AnyAnswer
  <2>2. rt' = rt /\ shared' = shared
    BY <1>10 DEF AnyAnswer
  <2>3. QED
    BY <1>4, <2>1, <2>2
<1>11. QED
  BY <1>1, <1>2, <1>3, <1>6, <1>7, <1>8, <1>9, <1>10 DEF AnyCall

\* Configuration, accumulators, locks and views keep to their widths through
\* every sequence of calls: no accumulator overflows, no four-bit view spills
\* over, every winner is a tile.
THEOREM TypesKept == AnySpec => []TypeOK
<1>1. CoreOK /\ ViewsOK /\ [AnyNext]_vars => ViewsOK'
  <2> SUFFICES ASSUME CoreOK, ViewsOK, [AnyNext]_vars PROVE ViewsOK'
    OBVIOUS
  <2>1. CASE AnyNext
    BY <2>1, CallViews DEF AnyNext
  <2>2. CASE UNCHANGED vars
    BY <2>2 DEF vars, ViewsOK
  <2>3. QED
    BY <2>1, <2>2
<1>2. KnownHost /\ CoreOK /\ ViewsOK => TypeOK
  BY DEF KnownHost, CoreOK, TypeOK
<1>3. QED
  BY <1>1, <1>2, InitViews, AnyCore, PTL DEF AnySpec

-----------------------------------------------------------------------------
(* What holds at the end of every flash                                    *)

\* A call returns its own name and no other call's.
LEMMA OpOf ==
  ASSUME NEW op, NEW st, Returns(op, st)
  PROVE  res'.op = op /\ res'.st = st
BY DEF Returns

\* A step that reports a successful flash is one.
LEMMA FlashStepIs ==
  ASSUME AnyNext, FlashStep
  PROVE  \E f \in Frames : EvFlash(f)
<1>0. /\ "flash" # "edit" /\ "flash" # "bake" /\ "flash" # "reset"
      /\ "flash" # "full_reset"
  OBVIOUS
<1>1. res'.op = "flash" /\ res'.st = "OK"
  BY DEF FlashStep
<1>2. ASSUME NEW c, Edit(c) PROVE FALSE
  BY <1>0, <1>1, <1>2, OpOf DEF Edit
<1>3. ~AnySwarmEdit
  BY <1>2, Zenon DEF AnySwarmEdit, SetDoubleStrait, SetBakeId, SetTileFieldLimit
<1>4. ASSUME NEW t \in Tiles, AnyTileEdit(t) PROVE FALSE
  <2>1. ~ \E b \in BOOLEAN : SetTileLocked(t, b)
    BY <1>0, <1>1, OpOf, Zenon DEF SetTileLocked
  <2>2. QED
    BY <1>2, <1>4, <2>1, Zenon
       DEF AnyTileEdit, SetTileParams, SetTilePatternId, SetTileResetOnFireMask,
           SetTileWeight, SetTileRoutingMasks
<1>5. /\ ~ \E img : ImageOK(img) /\ EvBake(img)
      /\ ~ \E m \in SUBSET Domains : EvResetDomain(m)
      /\ ~FullReset /\ ~AnyBuffer
  BY <1>0, <1>1, OpOf, Zenon DEF EvBake, EvResetDomain, FullReset, AnyBuffer
<1>6. ~AnyAnswer
  BY <1>1, OpOf, Zenon DEF AnyAnswer
<1>7. QED
  BY <1>3, <1>4, <1>5, <1>6, Zenon DEF AnyNext, AnyCall

\* What a flash leaves is what its last pass leaves.
LEMMA LastPass ==
  ASSUME NEW f \in Frames, EvFlash(f)
  PROVE  /\ cfg' = cfg
         /\ \E r \in {rt, FlashOnce(cfg, rt, f)} :
              /\ rt' = FlashOnce(cfg, r, f)
              /\ ~cfg.double => r = rt
BY DEF EvFlash, Poured

LEMMA FlashInRange ==
  ASSUME CoreOK, NEW f \in Frames, EvFlash(f)
  PROVE  LockInRange'
<1>1. PICK r : rt' = FlashOnce(cfg, r, f)
  BY LastPass
<1>2. cfg' = cfg /\ Field(cfg) \subseteq Tiles
  BY FieldInTiles DEF EvFlash, CoreOK
<1>3. \A t \in Field(cfg) \cap FlashOnce(cfg, r, f).locked :
        InRange(cfg.par[t], FlashOnce(cfg, r, f).thr[t])
  BY <1>2, FlashLocks
<1>4. QED
  BY <1>1, <1>2, <1>3 DEF LockInRange

\* The contract's invariant 6.6 at the end of every flash, through every
\* sequence of bakes, resets and edits between flashes.
THEOREM LocksEndInRange == AnySpec => []LockInRange
<1>1. Init => LockInRange
  <2>1. "create" # "flash"
    OBVIOUS
  <2>2. QED
    BY <2>1 DEF Init, LockInRange, Flashed
<1>2. CoreOK /\ LockInRange /\ [AnyNext]_vars => LockInRange'
  <2> SUFFICES ASSUME CoreOK, LockInRange, [AnyNext]_vars PROVE LockInRange'
    OBVIOUS
  <2>1. CASE UNCHANGED vars
    BY <2>1 DEF vars, LockInRange, Flashed
  <2>2. CASE AnyNext /\ FlashStep
    BY <2>2, FlashStepIs, FlashInRange
  <2>3. CASE ~FlashStep
    BY <2>3 DEF FlashStep, LockInRange, Flashed
  <2>4. QED
    BY <2>1, <2>2, <2>3
<1>3. QED
  BY <1>1, <1>2, AnyCore, PTL DEF AnySpec

LEMMA FlashSparesWinners ==
  ASSUME CoreOK, NEW f \in Frames, EvFlash(f)
  PROVE  AutoResetSparesWinners'
<1>1. PICK r : rt' = FlashOnce(cfg, r, f)
  BY LastPass
<1>2. cfg' = cfg /\ Field(cfg) \subseteq Tiles
  BY FieldInTiles DEF EvFlash, CoreOK
<1> DEFINE fire == Fire(cfg, r, f, ActiveSet(cfg, r.locked))
           after == FlashOnce(cfg, r, f)
<1>3. \A t \in Field(cfg) \cap after.locked :
        InRange(cfg.par[t], after.thr[t])
  BY <1>2, FlashLocks
<1>4. ASSUME NEW d \in Domains, after.snap.winner[d] # NoTile
      PROVE  LET w == after.snap.winner[d]
             IN  w \in after.locked /\ w \in Field(cfg) /\ cfg.par[w].dom = d
  BY <1>4, FlashWinnerStays
<1> HIDE DEF after
<1>5. ASSUME NEW d \in Domains
      PROVE  LET w == after.snap.winner[d]
             IN  w # NoTile => w \in after.locked /\ InRange(cfg.par[w], after.thr[w])
  BY <1>3, <1>4
<1>6. rt' = after
  BY <1>1 DEF after
<1>7. QED
  BY <1>2, <1>5, <1>6 DEF AutoResetSparesWinners

\* The winner of every domain keeps its lock through the auto-reset of the flash
\* that it won.
THEOREM WinnersKeepTheirLock == AnySpec => []AutoResetSparesWinners
<1>1. Init => AutoResetSparesWinners
  <2>1. "create" # "flash"
    OBVIOUS
  <2>2. QED
    BY <2>1 DEF Init, AutoResetSparesWinners, Flashed
<1>2. CoreOK /\ AutoResetSparesWinners /\ [AnyNext]_vars => AutoResetSparesWinners'
  <2> SUFFICES ASSUME CoreOK, AutoResetSparesWinners, [AnyNext]_vars
               PROVE  AutoResetSparesWinners'
    OBVIOUS
  <2>1. CASE UNCHANGED vars
    BY <2>1 DEF vars, AutoResetSparesWinners, Flashed
  <2>2. CASE AnyNext /\ FlashStep
    BY <2>2, FlashStepIs, FlashSparesWinners
  <2>3. CASE ~FlashStep
    BY <2>3 DEF FlashStep, AutoResetSparesWinners, Flashed
  <2>4. QED
    BY <2>1, <2>2, <2>3
<1>3. QED
  BY <1>1, <1>2, AnyCore, PTL DEF AnySpec

-----------------------------------------------------------------------------
(* What a flash does                                                       *)

\* The step of an action property that speaks of flashes: a flash of f.
LEMMA StepIsFlash ==
  ASSUME [AnyNext]_vars, FlashStep, vars' # vars
  PROVE  \E f \in Frames : EvFlash(f)
BY FlashStepIs

\* The locks that a pass takes, as against those it finds.
LEMMA FlashRises ==
  ASSUME NEW c, NEW r, NEW f, Field(c) \subseteq Tiles
  PROVE  LET after == FlashOnce(c, r, f)
             fire  == Fire(c, r, f, ActiveSet(c, r.locked))
         IN  /\ after.locked \ r.locked \subseteq fire
             /\ fire \cap r.locked = {}
             /\ \A t \in fire \ (after.locked \ r.locked) : c.par[t].dom \in after.snap.autoReset
<1> DEFINE live == ActiveSet(c, r.locked)
           fire == Fire(c, r, f, live)
           after == FlashOnce(c, r, f)
<1>1. after.locked = LockedAfterRead(c, r, f, live) \ AutoResetTiles(c, fire)
  BY DEF FlashOnce
<1>2. fire \subseteq live \ r.locked /\ Kept(c, r, live) \subseteq r.locked
  BY FireInLive
<1>3. ASSUME NEW t \in fire \ (after.locked \ r.locked)
      PROVE  c.par[t].dom \in after.snap.autoReset
  <2>1. t \in AutoResetTiles(c, fire)
    BY <1>1, <1>2, <1>3 DEF LockedAfterRead
  <2>2. c.par[t].dom \in AutoReset(c.par, fire)
    BY <2>1 DEF AutoResetTiles
  <2>3. QED
    BY <2>2, FlashSnap
<1>4. after.locked \ r.locked \subseteq fire
  BY <1>1, <1>2 DEF LockedAfterRead
<1>5. QED
  BY <1>2, <1>3, <1>4

\* A tile is reported as fired exactly when its lock rises, an auto-reset of the
\* same flash aside, through every sequence of calls.
THEOREM FiresOnTheRise == AnySpec => FireIsRisingEdge
<1> DEFINE Rises ==
      SingleFlash =>
        LET rose == rt'.locked \ rt.locked
            told == {t \in Field(cfg) : rt'.snap.v[t].fire}
        IN  /\ rose \subseteq told
            /\ told \cap rt.locked = {}
            /\ \A t \in told \ rose : cfg.par[t].dom \in rt'.snap.autoReset
<1>1. CoreOK /\ [AnyNext]_vars => [Rises]_vars
  <2> SUFFICES ASSUME CoreOK, [AnyNext]_vars, vars' # vars, SingleFlash
               PROVE  Rises
    OBVIOUS
  <2>1. PICK f \in Frames : EvFlash(f)
    BY StepIsFlash DEF SingleFlash
  <2>2. rt' = FlashOnce(cfg, rt, f)
    BY <2>1, LastPass DEF SingleFlash
  <2>3. Field(cfg) \subseteq Tiles
    BY FieldInTiles DEF CoreOK
  <2>4. {t \in Field(cfg) : rt'.snap.v[t].fire} = Fire(cfg, rt, f, ActiveSet(cfg, rt.locked))
    BY <2>2, <2>3, FlashFire
  <2>5. QED
    BY <2>2, <2>3, <2>4, FlashRises
<1>2. QED
  BY <1>1, AnyCore, PTL DEF AnySpec, FireIsRisingEdge

\* A tile that is locked at the end of a flash drives what that flash's frame
\* and its present weights give.
THEOREM LocksDriveFresh == AnySpec => LockedDrivesFresh
<1> DEFINE Fresh ==
      FlashStep =>
        \A f \in Frames :
          (\E t \in rt'.locked \cap Field(cfg) : rt'.rowOut[t] # RowOut(f, cfg.weight[t]))
            => ~EvFlash(f)
<1>1. CoreOK => Fresh
  <2> SUFFICES ASSUME CoreOK, NEW f \in Frames, EvFlash(f),
                      NEW t \in rt'.locked \cap Field(cfg)
               PROVE  rt'.rowOut[t] = RowOut(f, cfg.weight[t])
    OBVIOUS
  <2>1. PICK r : rt' = FlashOnce(cfg, r, f)
    BY LastPass
  <2>2. Field(cfg) \subseteq Tiles
    BY FieldInTiles DEF CoreOK
  <2>3. QED
    BY <2>1, <2>2, FlashLocks
<1>2. QED
  BY <1>1, AnyCore, PTL DEF AnySpec, LockedDrivesFresh

\* What a pass makes of the accumulator of a tile it finds locked.
LEMMA LockedAfterPass ==
  ASSUME NEW c, NEW r, NEW f, Field(c) \subseteq Tiles, NEW t \in r.locked \cap Field(c)
  PROVE  FlashOnce(c, r, f).thr[t] \in {0, DecayLocked(c.par[t], r.thr[t])}
<1> DEFINE live == ActiveSet(c, r.locked)
<1>1. ThrAfterRead(c, r, f, live)[t] \in {0, DecayLocked(c.par[t], r.thr[t])}
  BY DEF ThrAfterRead
<1>2. FlashOnce(c, r, f).thr[t] \in {0, ThrAfterRead(c, r, f, live)[t]}
  BY DEF FlashOnce
<1>3. QED
  BY <1>1, <1>2

\* A flash takes the accumulator of a locked tile towards 0 and not past it,
\* for every accumulator and every decay16 in the documented range.
THEOREM LocksOnlyDrain == AnySpec => LockedOnlyDrains
<1> DEFINE Drains ==
      SingleFlash =>
        \A t \in rt.locked \cap Field(cfg) :
          cfg.par[t].decay < Half =>
            /\ Magnitude(rt'.thr[t]) <= Magnitude(rt.thr[t])
            /\ rt.thr[t] >= 0 => rt'.thr[t] >= 0
            /\ rt.thr[t] <= 0 => rt'.thr[t] <= 0
<1>1. CoreOK /\ [AnyNext]_vars => [Drains]_vars
  <2> SUFFICES ASSUME CoreOK, [AnyNext]_vars, vars' # vars, SingleFlash,
                      NEW t \in rt.locked \cap Field(cfg), cfg.par[t].decay < Half
               PROVE  /\ Magnitude(rt'.thr[t]) <= Magnitude(rt.thr[t])
                      /\ rt.thr[t] >= 0 => rt'.thr[t] >= 0
                      /\ rt.thr[t] <= 0 => rt'.thr[t] <= 0
    OBVIOUS
  <2>1. PICK f \in Frames : EvFlash(f)
    BY StepIsFlash DEF SingleFlash
  <2>2. rt' = FlashOnce(cfg, rt, f)
    BY <2>1, LastPass DEF SingleFlash
  <2>3. Field(cfg) \subseteq Tiles
    BY FieldInTiles DEF CoreOK
  <2>4. rt'.thr[t] \in {0, DecayLocked(cfg.par[t], rt.thr[t])}
    BY <2>2, <2>3, LockedAfterPass
  <2>5. rt.thr[t] \in I16 /\ cfg.par[t] \in Params
    BY <2>3 DEF CoreOK, RuntimeOK, BakedOK
  <2>6. cfg.par[t].decay \in 0 .. Half - 1
    BY <2>5, HalfAssumption DEF Params, U16
  <2>7. CASE rt'.thr[t] = 0
    BY <2>5, <2>7, HalfAssumption DEF Magnitude, I16
  <2>8. CASE rt'.thr[t] = DecayLocked(cfg.par[t], rt.thr[t])
    BY <2>5, <2>6, <2>8, DecayLockedShrinks
  <2>9. QED
    BY <2>4, <2>7, <2>8
<1>2. QED
  BY <1>1, AnyCore, PTL DEF AnySpec, LockedOnlyDrains

\* What a flash publishes it publishes twice, of the same state.
LEMMA FlashPublishes ==
  ASSUME CoreOK, NEW f \in Frames, EvFlash(f)
  PROVE  ViewsAgree'
<1>1. PICK r : rt' = FlashOnce(cfg, r, f)
  BY LastPass
<1>2. cfg' = cfg /\ Field(cfg) \subseteq Tiles
  BY FieldInTiles DEF EvFlash, CoreOK
<1>3. ASSUME NEW t \in Field(cfg), cfg.bakeId > 0
      PROVE  rt'.snap.v[t].locked = (t \in rt'.locked)
  BY <1>1, <1>2, <1>3 DEF FlashOnce, VState
<1>4. ASSUME shared' # <<>>, NEW t \in Field(cfg)
      PROVE  /\ shared'[t].locked = (t \in rt'.locked)
             /\ shared'[t].fire = rt'.snap.v[t].fire
  BY <1>2, <1>4 DEF EvFlash, Published
<1>5. QED
  BY <1>2, <1>3, <1>4 DEF ViewsAgree

\* After every flash the snapshot and the telemetry buffer tell the same of the
\* locks and fires of the field, through every sequence of calls.
THEOREM ViewsTellTheSame == AnySpec => []ViewsAgree
<1>1. Init => ViewsAgree
  <2>1. "create" # "flash"
    OBVIOUS
  <2>2. QED
    BY <2>1 DEF Init, ViewsAgree, Flashed
<1>2. CoreOK /\ ViewsAgree /\ [AnyNext]_vars => ViewsAgree'
  <2> SUFFICES ASSUME CoreOK, ViewsAgree, [AnyNext]_vars PROVE ViewsAgree'
    OBVIOUS
  <2>1. CASE UNCHANGED vars
    BY <2>1 DEF vars, ViewsAgree, Flashed
  <2>2. CASE AnyNext /\ FlashStep
    BY <2>2, FlashStepIs, FlashPublishes
  <2>3. CASE ~FlashStep
    BY <2>3 DEF FlashStep, ViewsAgree, Flashed
  <2>4. QED
    BY <2>1, <2>2, <2>3
<1>3. QED
  BY <1>1, <1>2, AnyCore, PTL DEF AnySpec

-----------------------------------------------------------------------------
(* What is outside the active field                                        *)

LEMMA ModuloItself ==
  ASSUME NEW w \in Nat \ {0}
  PROVE  w % w = 0 /\ 0 % w = 0
OBVIOUS

\* A tile that may let another write the bus is one of the field.
LEMMA WriteParentsInField ==
  ASSUME NEW c, c.n \in Nat, c.w \in Nat \ {0}, NEW t \in Field(c)
  PROVE  WriteParents(c, t) \subseteq Field(c)
<1> SUFFICES ASSUME NEW d \in Dirs, SeesNeighbour(c, d, t)
             PROVE  Neighbour(c, d, t) \in Field(c)
  BY DEF WriteParents
<1> DEFINE w == c.w
           x == t % w
<1>1. w \in Nat \ {0} /\ t \in Nat /\ t < c.n /\ c.n \in Nat
  BY DEF Field
<1>2. /\ North(d) => t >= w
      /\ West(d) => x > 0
      /\ Neighbour(c, d, t) < c.n
  BY DEF SeesNeighbour
<1>3. Neighbour(c, d, t) = t + DX(d) + w * DY(d)
  BY DEF Neighbour
<1>4. x > 0 => t # 0 /\ t # w
  BY <1>1, ModuloItself
<1> HIDE DEF x, w
<1>5. /\ DX(d) \in {-1, 0, 1} /\ (DX(d) = -1 => West(d))
      /\ DY(d) \in {-1, 0, 1} /\ (DY(d) = -1 => North(d))
  BY DEF DX, DY, North, South, East, West, Dirs
<1>6. w * DY(d) = IF DY(d) = -1 THEN -w ELSE IF DY(d) = 0 THEN 0 ELSE w
  BY <1>1, <1>5
<1>7. t + DX(d) + w * DY(d) \in Int /\ t + DX(d) + w * DY(d) >= 0
  BY <1>1, <1>2, <1>4, <1>5, <1>6
<1>8. QED
  BY <1>1, <1>2, <1>3, <1>7 DEF Field

\* A pass sees of the locks and accumulators only those of the field.
LEMMA FlashSeesField ==
  ASSUME NEW c, c.n \in Nat, c.w \in Nat \ {0}, Field(c) \subseteq Tiles,
         NEW r, NEW s, NEW f,
         s.rowOut = r.rowOut, s.snap = r.snap, s.locked = r.locked \cap Field(c),
         \A t \in Field(c) : s.thr[t] = r.thr[t]
  PROVE  LET a == FlashOnce(c, r, f)
             b == FlashOnce(c, s, f)
         IN  /\ a.locked \cap Field(c) = b.locked
             /\ \A t \in Field(c) : a.thr[t] = b.thr[t]
             /\ a.snap = b.snap
<1> DEFINE live == ActiveSet(c, r.locked)
           fire == Fire(c, r, f, live)
           mid  == LockedAfterRead(c, r, f, live)
           midS == LockedAfterRead(c, s, f, live)
           out  == RowOutAfterRead(c, r, f, live)
           reset == AutoResetTiles(c, fire)
<1>1. ActiveSet(c, s.locked) = live
  <2>1. \A S \in SUBSET Field(c) : S \cap s.locked = S \cap r.locked
    OBVIOUS
  <2>2. \A S \in SUBSET Field(c) : Closed(c, s.locked, S) <=> Closed(c, r.locked, S)
    BY <2>1 DEF Closed
  <2>3. QED
    BY <2>2 DEF ActiveSet
<1>2. live \subseteq Field(c)
  BY ActiveInField
<1> HIDE DEF live
<1>3. live \cap s.locked = live \cap r.locked /\ live \ s.locked = live \ r.locked
  BY <1>2
<1>4. Kept(c, s, live) = Kept(c, r, live) /\ Fire(c, s, f, live) = fire
  BY <1>2, <1>3 DEF Kept, Fire
<1>5. /\ fire \subseteq Field(c) /\ Kept(c, r, live) \subseteq Field(c)
      /\ mid = (r.locked \ Field(c)) \cup Kept(c, r, live) \cup fire
      /\ midS = Kept(c, r, live) \cup fire
  BY <1>2, <1>4 DEF LockedAfterRead, Kept, Fire
<1>6. mid \cap Field(c) = midS
  BY <1>5
<1>7. RowOutAfterRead(c, s, f, live) = out
  BY <1>3, <1>4 DEF RowOutAfterRead
<1>8. \A t \in Field(c) : ThrAfterRead(c, s, f, live)[t] = ThrAfterRead(c, r, f, live)[t]
  BY <1>2, <1>3 DEF ThrAfterRead
<1>9. Writers(c, midS) = Writers(c, mid)
  <2>1. ASSUME NEW t \in Field(c)
        PROVE  HasLockedWriteSource(c, midS, t) <=> HasLockedWriteSource(c, mid, t)
    <3>1. WriteParents(c, t) \subseteq Field(c)
      BY WriteParentsInField
    <3>2. WriteParents(c, t) \cap midS = WriteParents(c, t) \cap mid
      BY <3>1, <1>6
    <3>3. t \in midS <=> t \in mid
      BY <1>6
    <3>4. QED
      BY <3>2, <3>3 DEF HasLockedWriteSource
  <2>2. QED
    BY <2>1 DEF Writers
<1>10. BusRaw(c, midS, out) = BusRaw(c, mid, out)
  BY <1>9 DEF BusRaw
<1> DEFINE a == FlashOnce(c, r, f)
           b == FlashOnce(c, s, f)
<1>11. /\ a.locked = mid \ reset /\ b.locked = midS \ reset
       /\ a.thr = [t \in Tiles |-> IF t \in reset THEN 0 ELSE ThrAfterRead(c, r, f, live)[t]]
       /\ b.thr = [t \in Tiles |-> IF t \in reset THEN 0 ELSE ThrAfterRead(c, s, f, live)[t]]
  BY <1>1, <1>4 DEF FlashOnce, live
<1>12. \A t \in Field(c) : a.thr[t] = b.thr[t]
  BY <1>8, <1>11
<1>13. a.locked \cap Field(c) = b.locked
  BY <1>6, <1>11
<1>14. \A t \in Field(c) : VState(c, a.thr, a.locked, fire, t) = VState(c, b.thr, b.locked, fire, t)
  <2>1. \A t \in Field(c) : t \in a.locked <=> t \in b.locked
    BY <1>13
  <2>2. QED
    BY <1>12, <2>1 DEF VState
<1> DEFINE Snap(x, raw, seen) ==
      [fired     |-> FiredDomains(c.par, fire),
       collide   |-> Collisions(c.par, fire),
       winner    |-> [d \in Domains |-> Winner(c.par, fire, d)],
       count     |-> [d \in Domains |-> FiredCount(c.par, fire, d)],
       autoReset |-> AutoReset(c.par, fire),
       bus       |-> [i \in Lanes |-> Clamp15(raw[i])],
       clip      |-> {i \in Lanes : raw[i] > 15},
       v         |-> [t \in Tiles |-> IF t \in Field(c)
                                     THEN VState(c, x.thr, x.locked, fire, t)
                                     ELSE seen.v[t]]]
<1>15. a.snap = Snap(a, BusRaw(c, mid, out), r.snap)
  BY <1>11 DEF FlashOnce, live
<1>16. b.snap = Snap(b, BusRaw(c, midS, out), r.snap)
  BY <1>1, <1>4, <1>7, <1>11 DEF FlashOnce
<1> HIDE DEF a, b, fire, mid, midS, out, reset
<1>17. [t \in Tiles |-> IF t \in Field(c) THEN VState(c, a.thr, a.locked, fire, t)
                                          ELSE r.snap.v[t]]
         = [t \in Tiles |-> IF t \in Field(c) THEN VState(c, b.thr, b.locked, fire, t)
                                            ELSE r.snap.v[t]]
  BY <1>14
<1>18. a.snap = b.snap
  BY <1>10, <1>15, <1>16, <1>17
<1>19. QED
  BY <1>12, <1>13, <1>18 DEF a, b

\* What the tiles outside the field still hold from before it was narrowed
\* changes no flash: not the tiles inside, not the bus, not what is reported.
THEOREM WhatIsOutsideIsInert == AnySpec => []OutsideIsInert
<1> DEFINE scrubbed == [rt EXCEPT !.locked = @ \cap Field(cfg),
                                  !.thr = [t \in Tiles |-> IF t \in Field(cfg) THEN @[t] ELSE 0]]
<1>1. CoreOK => OutsideIsInert
  <2> SUFFICES ASSUME CoreOK, NEW f \in Frames
               PROVE  LET a == FlashOnce(cfg, rt, f)
                          b == FlashOnce(cfg, scrubbed, f)
                      IN  /\ a.locked \cap Field(cfg) = b.locked
                          /\ \A t \in Field(cfg) : a.thr[t] = b.thr[t]
                          /\ a.snap = b.snap
    BY DEF OutsideIsInert
  <2>1. /\ cfg.n \in Nat /\ cfg.w \in Nat \ {0} /\ Field(cfg) \subseteq Tiles
    BY FieldInTiles, MaxTilesAssumption DEF CoreOK, BakedOK
  <2>2. /\ scrubbed.rowOut = rt.rowOut /\ scrubbed.snap = rt.snap
        /\ scrubbed.locked = rt.locked \cap Field(cfg)
        /\ \A t \in Field(cfg) : scrubbed.thr[t] = rt.thr[t]
    BY <2>1
  <2> HIDE DEF scrubbed
  <2>3. QED
    BY <2>1, <2>2, FlashSeesField
<1>2. QED
  BY <1>1, AnyCore, PTL

-----------------------------------------------------------------------------
(* Locks and the chains of tiles they hang on                              *)

\* What a locked tile of S adds to it.
Spread(c, L, S) == S \cup UNION {Children(c, t) : t \in S \cap L}

\* h[j] holds the tiles j hops or fewer from a root.
IsLayers(c, L, h, k) ==
  h = [j \in 0 .. k |-> IF j = 0 THEN c.busR \cap Field(c) ELSE Spread(c, L, h[j - 1])]

LEMMA LayersExist ==
  ASSUME NEW c, NEW L
  PROVE  \A k \in Nat : \E h : IsLayers(c, L, h, k)
<1> DEFINE Bad == {k \in Nat : ~ \E h : IsLayers(c, L, h, k)}
<1> SUFFICES ASSUME Bad # {} PROVE FALSE
  OBVIOUS
<1>0. Bad \in SUBSET Nat
  OBVIOUS
<1>1. PICK k \in Bad : \A m \in Bad : k <= m
  <2> HIDE DEF Bad
  <2>1. QED BY <1>0, LeastNat
<1>2. CASE k = 0
  <2> DEFINE h == [j \in 0 .. 0 |-> c.busR \cap Field(c)]
  <2>1. IsLayers(c, L, h, 0)
    BY DEF IsLayers
  <2>2. QED
    BY <1>2, <2>1
<1>3. CASE k # 0
  <2>1. k - 1 \in Nat /\ k - 1 \notin Bad
    BY <1>1, <1>3
  <2>2. PICK h : IsLayers(c, L, h, k - 1)
    BY <2>1
  <2> DEFINE hh == [j \in 0 .. k |-> IF j = 0 THEN c.busR \cap Field(c)
                                     ELSE Spread(c, L, h[j - 1])]
  <2>3. ASSUME NEW j \in 0 .. k, j # 0 PROVE hh[j - 1] = h[j - 1]
    <3>1. j - 1 \in 0 .. k - 1 /\ j - 1 \in 0 .. k
      BY <2>1, <2>3
    <3>2. h[j - 1] = IF j - 1 = 0 THEN c.busR \cap Field(c) ELSE Spread(c, L, h[j - 1 - 1])
      BY <2>2, <3>1 DEF IsLayers
    <3>3. QED
      BY <3>1, <3>2
  <2>4. hh = [j \in 0 .. k |-> IF j = 0 THEN c.busR \cap Field(c) ELSE Spread(c, L, hh[j - 1])]
    BY <2>3
  <2> HIDE DEF hh
  <2>5. QED
    BY <2>4 DEF IsLayers
<1>4. QED
  BY <1>2, <1>3

LEMMA ChildrenInField ==
  ASSUME NEW c, NEW t
  PROVE  Children(c, t) \subseteq Field(c)
BY DEF Children, HasChild

\* After as many hops as there are tiles no tile is left to be reached: a layer
\* that is not closed has grown by one tile at every hop.
LEMMA LayersClose ==
  ASSUME NEW c, c.n \in Nat, NEW L, NEW h, IsLayers(c, L, h, c.n)
  PROVE  h[c.n] \subseteq Field(c) /\ Closed(c, L, h[c.n])
<1> DEFINE n == c.n
           Good(j) == /\ h[j] \subseteq Field(c) /\ c.busR \cap Field(c) \subseteq h[j]
                      /\ Closed(c, L, h[j]) \/ Cardinality(h[j]) >= j
           Bad == {j \in 0 .. n : ~Good(j)}
<1>f. IsFiniteSet(Field(c)) /\ Cardinality(Field(c)) = n
  <2>1. 0 \in Int /\ n - 1 \in Int
    OBVIOUS
  <2>2. IsFiniteSet(0 .. n - 1) /\ Cardinality(0 .. n - 1) = IF 0 > n - 1 THEN 0 ELSE n - 1 - 0 + 1
    <3> HIDE DEF n
    <3>1. QED BY <2>1, FS_Interval
  <2>3. QED
    BY <2>2 DEF Field
<1>c. \A S \in SUBSET Field(c) : IsFiniteSet(S) /\ Cardinality(S) \in Nat
  BY <1>f, FS_Subset, FS_CardinalityType
<1>1. ASSUME Bad # {} PROVE FALSE
  <2>1. PICK j \in Bad : \A m \in Bad : j <= m
    <3>1. Bad \in SUBSET Nat
      OBVIOUS
    <3> HIDE DEF Bad
    <3>2. QED BY <1>1, <3>1, LeastNat
  <2>2. j \in 0 .. n /\ ~Good(j)
    OBVIOUS
  <2>3. CASE j = 0
    <3>1. h[j] = c.busR \cap Field(c)
      BY <2>2, <2>3 DEF IsLayers
    <3>2. Cardinality(h[j]) >= j
      BY <3>1, <2>3, <1>c
    <3>3. QED
      BY <2>2, <3>1, <3>2
  <2>4. CASE j # 0
    <3> DEFINE p == h[j - 1]
    <3>1. j - 1 \in 0 .. n /\ j - 1 \notin Bad
      BY <2>1, <2>2, <2>4
    <3>2. Good(j - 1)
      BY <3>1
    <3>3. h[j] = Spread(c, L, p)
      BY <2>2, <2>4 DEF IsLayers
    <3>4. h[j] \subseteq Field(c) /\ p \subseteq h[j] /\ c.busR \cap Field(c) \subseteq h[j]
      BY <3>2, <3>3, ChildrenInField DEF Spread
    <3>5. CASE Closed(c, L, p)
      <4>1. h[j] = p
        BY <3>3, <3>5 DEF Spread, Closed
      <4>2. QED
        BY <2>2, <3>4, <3>5, <4>1
    <3>6. CASE ~Closed(c, L, p)
      <4>1. h[j] # p
        BY <3>2, <3>3, <3>6 DEF Spread, Closed
      <4>2. Cardinality(p) >= j - 1
        BY <3>2, <3>6
      <4>3. Cardinality(p) <= Cardinality(h[j]) /\ Cardinality(p) # Cardinality(h[j])
        <5> HIDE DEF p
        <5>1. QED BY <1>c, <3>4, <4>1, FS_Subset
      <4>4. Cardinality(p) \in Nat /\ Cardinality(h[j]) \in Nat
        BY <1>c, <3>4
      <4>5. Cardinality(h[j]) >= j
        <5> HIDE DEF p
        <5>1. QED BY <2>2, <4>2, <4>3, <4>4
      <4>6. QED
        BY <2>2, <3>4, <4>5
    <3>7. QED
      BY <3>5, <3>6
  <2>5. QED
    BY <2>3, <2>4
<1>2. Good(n)
  BY <1>1
<1>3. CASE Cardinality(h[n]) >= n
  <2>1. Cardinality(h[n]) <= Cardinality(Field(c)) /\ Cardinality(h[n]) \in Nat
    BY <1>2, <1>c, <1>f, FS_Subset
  <2>2. Cardinality(h[n]) = Cardinality(Field(c))
    BY <1>3, <1>f, <2>1
  <2>3. h[n] = Field(c)
    BY <1>2, <1>f, <2>2, FS_Subset
  <2>4. QED
    BY <2>3, ChildrenInField DEF Closed
<1>4. QED
  BY <1>2, <1>3

LEMMA RelayedIsClosed ==
  ASSUME BakedOK
  PROVE  Relayed(cfg.n) \subseteq Field(cfg) /\ Closed(cfg, rt.locked, Relayed(cfg.n))
<1> DEFINE n == cfg.n
<1>1. n \in Nat
  BY MaxTilesAssumption DEF BakedOK
<1>2. Relayed(n) = (CHOOSE h : IsLayers(cfg, rt.locked, h, n))[n]
  BY DEF Relayed, IsLayers, Spread
<1>3. IsLayers(cfg, rt.locked, CHOOSE h : IsLayers(cfg, rt.locked, h, n), n)
  BY <1>1, LayersExist
<1>4. QED
  BY <1>1, <1>2, <1>3, LayersClose

\* Tiles that feed each other in a circle do not keep each other locked: every
\* tile that is locked after a flash hangs on a root by locked tiles.
THEOREM LocksHangOnRoots == AnySpec => NoOrphanLock
<1> DEFINE Hangs == SingleFlash => rt'.locked \cap Field(cfg) \subseteq Relayed(cfg.n)
<1>1. CoreOK /\ [AnyNext]_vars => [Hangs]_vars
  <2> SUFFICES ASSUME CoreOK, [AnyNext]_vars, vars' # vars, SingleFlash
               PROVE  rt'.locked \cap Field(cfg) \subseteq Relayed(cfg.n)
    OBVIOUS
  <2>1. PICK f \in Frames : EvFlash(f)
    BY StepIsFlash DEF SingleFlash
  <2>2. rt' = FlashOnce(cfg, rt, f)
    BY <2>1, LastPass DEF SingleFlash
  <2>3. Field(cfg) \subseteq Tiles
    BY FieldInTiles DEF CoreOK
  <2>4. rt'.locked \cap Field(cfg) \subseteq ActiveSet(cfg, rt.locked)
    BY <2>2, <2>3, FlashLocks, FireInLive
  <2>5. ActiveSet(cfg, rt.locked) \subseteq Relayed(cfg.n)
    BY RelayedIsClosed DEF CoreOK, ActiveSet
  <2>6. QED
    BY <2>4, <2>5
<1>2. QED
  BY <1>1, AnyCore, PTL DEF AnySpec, NoOrphanLock
=============================================================================
