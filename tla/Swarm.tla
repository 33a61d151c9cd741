-------------------------------- MODULE Swarm -------------------------------
(***************************************************************************)
(* The swarm API (src/src/swarm.c): one swarm, one host thread, one call   *)
(* per step.  Every public call that changes state is an action, and the   *)
(* parameters it takes are what its host brings along.                     *)
(*                                                                         *)
(* A call with a NULL pointer or a tile number from D8_K_TILE_COUNT on     *)
(* returns at once and is not modelled.  flash_in_progress is TRUE only    *)
(* inside a flash, so no call of this thread can find it set.              *)
(***************************************************************************)
EXTENDS Flash

CONSTANTS
  BadFrames,     \* ingress frames with some lane above 15
  Hosts          \* the programs that may drive a swarm

VARIABLES
  host,     \* the one of Hosts that does
  cfg,      \* the baked state: a configuration as in BakeImage
  rt,       \* the runtime state: a record as in Flash
  shared,   \* the shared telemetry buffer, <<>> when none is attached
  res       \* what the last call was and returned

vars == <<host, cfg, rt, shared, res>>

(***************************************************************************)
(* A host is a record of what it gives to the calls:                       *)
(*   images   the contents of the blobs it bakes, those the parser accepts *)
(*   resets   masks for EV_RESET_DOMAIN and for the reset-on-fire edit     *)
(*   params   [lo, hi, decay, dom, prio] for the parameter edit            *)
(*   masks    [mask, busW, busR] for the routing edit                      *)
(*   weights  what a weight edit may lead to    patterns  pattern ids      *)
(*   limits   tile field limits                 locks     for the lock edit *)
(*   doubles  for the double-strait switch      bakeIds   for set_bake_id  *)
(*   tiles    the tiles it edits                buffers   "attach", "detach" *)
(*   wrapped  it calls the wrapper d8_swarm_core, not the swarm            *)
(*   job      the tape it pours if it is a program of TapeHost             *)
(***************************************************************************)
HostOK(h) ==
  /\ \A img \in h.images : ImageOK(img)
  /\ h.tiles \subseteq Tiles
  /\ h.resets \subseteq SUBSET Domains
  /\ h.params \subseteq [lo : I16, hi : I16, decay : U16, dom : DomainBits, prio : Nat]
  /\ h.masks \subseteq [mask : SUBSET Dirs, busW : BOOLEAN, busR : BOOLEAN]
  /\ h.weights \subseteq Weights
  /\ h.patterns \subseteq Nat /\ h.limits \subseteq Nat /\ h.bakeIds \subseteq Nat
  /\ h.locks \subseteq BOOLEAN /\ h.doubles \subseteq BOOLEAN

ASSUME HostsAssumption == \A h \in Hosts : HostOK(h)

-----------------------------------------------------------------------------
\* calloc and memset zero the snapshot, the winner fields included.
ZeroV    == [thr |-> 0, locked |-> FALSE, fire |-> FALSE]
ZeroSnap == [fired |-> {}, collide |-> {}, winner |-> [d \in Domains |-> 0],
             count |-> [d \in Domains |-> 0], autoReset |-> {},
             bus |-> [i \in Lanes |-> 0], clip |-> {}, v |-> [t \in Tiles |-> ZeroV]]

Returns(op, st) == res' = [op |-> op, st |-> st, readout |-> [i \in Lanes |-> 0]]

\* d8_swarm_create
Init ==
  /\ host \in Hosts
  /\ cfg = FreshConfig
  /\ rt = [thr |-> [t \in Tiles |-> 0], locked |-> {},
           rowOut |-> [t \in Tiles |-> [i \in Lanes |-> 0]], snap |-> ZeroSnap]
  /\ shared = <<>>
  /\ res = [op |-> "create", st |-> "OK", readout |-> [i \in Lanes |-> 0]]

-----------------------------------------------------------------------------
(* EV_BAKE                                                                 *)
\* The runtime state and the double-strait switch are left as they are.
EvBake(img) ==
  /\ cfg' = BakedConfig(cfg, img)
  /\ Returns("bake", "OK")
  /\ UNCHANGED <<rt, shared>>

\* d8_bake_validate refuses the blob: nothing has been applied yet.
EvBakeRefused ==
  /\ Returns("bake", "BAD_BLOB")
  /\ UNCHANGED <<cfg, rt, shared>>

-----------------------------------------------------------------------------
(* EV_FLASH                                                                *)

\* Double strait: the frame is poured twice, the second pass is reported.
Poured(f) ==
  IF cfg.double THEN FlashOnce(cfg, FlashOnce(cfg, rt, f), f)
                ELSE FlashOnce(cfg, rt, f)

\* A bug the properties catch: the locks published are those before the flash.
PublishedStale(r) ==
  [t \in Tiles |-> IF t \in Field(cfg)
                   THEN [thr |-> ThrShared(r.thr[t]), locked |-> t \in rt.locked,
                         fire |-> r.snap.v[t].fire]
                   ELSE shared[t]]

\* write_to_shared_buffer, at the end of a pass.  The second pass of a double
\* strait overwrites the first one's values.
Published(r) ==
  [t \in Tiles |-> IF t \in Field(cfg)
                   THEN [thr |-> ThrShared(r.thr[t]), locked |-> t \in r.locked,
                         fire |-> r.snap.v[t].fire]
                   ELSE shared[t]]

EvFlash(f) ==
  /\ cfg.applied
  /\ rt' = Poured(f)
  /\ shared' = IF shared = <<>> THEN shared ELSE Published(rt')
  /\ res' = [op |-> "flash", st |-> "OK", readout |-> Readout(cfg, rt'.snap.bus)]
  /\ UNCHANGED cfg

EvFlashNotBaked ==
  /\ ~cfg.applied
  /\ Returns("flash", "NOT_BAKED")
  /\ UNCHANGED <<cfg, rt, shared>>

EvFlashBadIngress ==
  /\ cfg.applied /\ BadFrames # {}
  /\ Returns("flash", "BAD_INGRESS_LEVEL")
  /\ UNCHANGED <<cfg, rt, shared>>

-----------------------------------------------------------------------------
(* EV_RESET_DOMAIN and the full reset                                      *)
InDomains(m) == {t \in Field(cfg) : cfg.par[t].dom \in m}

\* The v_state of a reset tile is cleared at once.
Cleared(m) == [t \in Tiles |-> IF t \in InDomains(m) THEN ZeroV ELSE rt.snap.v[t]]

EvResetDomain(m) ==
  /\ cfg.applied
  /\ rt' = [rt EXCEPT !.thr = [t \in Tiles |-> IF t \in InDomains(m) THEN 0 ELSE rt.thr[t]],
                      !.locked = @ \ InDomains(m),
                      !.snap = [rt.snap EXCEPT !.v = Cleared(m)]]
  /\ Returns("reset", "OK")
  /\ UNCHANGED <<cfg, shared>>

EvResetNotBaked ==
  /\ ~cfg.applied
  /\ Returns("reset", "NOT_BAKED")
  /\ UNCHANGED <<cfg, rt, shared>>

FullReset ==
  /\ rt' = [rt EXCEPT !.thr = [t \in Tiles |-> 0], !.locked = {}, !.snap = ZeroSnap]
  /\ Returns("full_reset", "OK")
  /\ UNCHANGED <<cfg, shared>>

-----------------------------------------------------------------------------
(* Edits of the baked state and of single tiles between flashes            *)
Edit(newCfg) ==
  /\ cfg' = newCfg
  /\ Returns("edit", "OK")
  /\ UNCHANGED <<rt, shared>>

SetTileParams(t, e) ==
  Edit([cfg EXCEPT !.par[t] = [@ EXCEPT !.lo = e.lo, !.hi = e.hi, !.decay = e.decay,
                                        !.dom = e.dom, !.prio = e.prio]])

SetTilePatternId(t, p) == Edit([cfg EXCEPT !.par[t].pat = p])

SetTileResetOnFireMask(t, m) == Edit([cfg EXCEPT !.par[t].rof = m])

SetTileWeight(t, w) == Edit([cfg EXCEPT !.weight[t] = w])

SetTileRoutingMasks(t, e) ==
  Edit([cfg EXCEPT !.mask[t] = e.mask,
                   !.busW = IF e.busW THEN @ \cup {t} ELSE @ \ {t},
                   !.busR = IF e.busR THEN @ \cup {t} ELSE @ \ {t}])

SetDoubleStrait(b) == Edit([cfg EXCEPT !.double = b])

SetBakeId(id) == Edit([cfg EXCEPT !.bakeId = id])

SetTileFieldLimit(k) == Edit(Limited(cfg, k))

SetTileLocked(t, b) ==
  /\ rt' = [rt EXCEPT !.locked = IF b THEN @ \cup {t} ELSE @ \ {t}]
  /\ Returns("edit", "OK")
  /\ UNCHANGED <<cfg, shared>>

\* The buffer a host attaches has been cleared by d8_shared_buffer_init.
SetSharedBuffer ==
  /\ "attach" \in host.buffers
  /\ shared' = [t \in Tiles |-> ZeroV]
  /\ Returns("edit", "OK")
  /\ UNCHANGED <<cfg, rt>>

DetachSharedBuffer ==
  /\ "detach" \in host.buffers
  /\ shared' = <<>>
  /\ Returns("edit", "OK")
  /\ UNCHANGED <<cfg, rt>>

-----------------------------------------------------------------------------
HostCall ==
  \/ \E img \in host.images : EvBake(img)
  \/ EvBakeRefused
  \/ \E f \in Frames : EvFlash(f)
  \/ EvFlashNotBaked
  \/ EvFlashBadIngress
  \/ \E m \in host.resets : EvResetDomain(m)
  \/ EvResetNotBaked
  \/ FullReset
  \/ SetSharedBuffer
  \/ DetachSharedBuffer

TileEdit(t) ==
  \/ \E e \in host.params : SetTileParams(t, e)
  \/ \E p \in host.patterns : SetTilePatternId(t, p)
  \/ \E m \in host.resets : SetTileResetOnFireMask(t, m)
  \/ \E w \in host.weights : SetTileWeight(t, w)
  \/ \E e \in host.masks : SetTileRoutingMasks(t, e)
  \/ \E b \in host.locks : SetTileLocked(t, b)

SwarmEdit ==
  \/ \E b \in host.doubles : SetDoubleStrait(b)
  \/ \E id \in host.bakeIds : SetBakeId(id)
  \/ \E k \in host.limits : SetTileFieldLimit(k)

Next ==
  /\ HostCall \/ (\E t \in host.tiles : TileEdit(t)) \/ SwarmEdit
  /\ UNCHANGED host

Spec == Init /\ [][Next]_vars

-----------------------------------------------------------------------------
(***************************************************************************)
(* Properties                                                              *)
(***************************************************************************)
BakedOK ==
  /\ cfg.n \in 0 .. MaxTiles /\ cfg.w \in Nat \ {0} /\ cfg.topoW \in Nat \ {0}
  /\ cfg.mask \in [Tiles -> SUBSET Dirs]
  /\ cfg.busW \in SUBSET Tiles /\ cfg.busR \in SUBSET Tiles
  /\ cfg.par \in [Tiles -> Params]
  /\ cfg.weight \in [Tiles -> Weights]
  /\ cfg.mode \in {0, 1} /\ cfg.bakeId \in Nat
  /\ cfg.applied \in BOOLEAN /\ cfg.strait \in BOOLEAN /\ cfg.double \in BOOLEAN

RuntimeOK == rt.thr \in [Tiles -> I16] /\ rt.locked \in SUBSET Tiles

ViewsOK ==
  /\ rt.rowOut \in [Tiles -> [Lanes -> 0 .. 15]]
  /\ rt.snap.fired \in SUBSET Domains /\ rt.snap.collide \in SUBSET Domains
  /\ rt.snap.autoReset \in SUBSET Domains
  /\ rt.snap.winner \in [Domains -> Tiles \cup {NoTile}]
  /\ rt.snap.count \in [Domains -> 0 .. CountCap]
  /\ rt.snap.bus \in [Lanes -> 0 .. 15] /\ rt.snap.clip \in SUBSET Lanes
  /\ rt.snap.v \in [Tiles -> [thr : 0 .. 15, locked : BOOLEAN, fire : BOOLEAN]]
  /\ \/ shared = <<>>
     \/ shared \in [Tiles -> [thr : 0 .. 15, locked : BOOLEAN, fire : BOOLEAN]]
  /\ res.readout \in [Lanes -> 0 .. 15]

\* Every value keeps to the width the code gives it, the four-bit views
\* included.
TypeOK == host \in Hosts /\ BakedOK /\ RuntimeOK /\ ViewsOK

Flashed == res.op = "flash" /\ res.st = "OK"

\* The step is a flash; a flash that pours its frame once.
FlashStep  == res'.op = "flash" /\ res'.st = "OK"
SingleFlash == ~cfg.double /\ FlashStep

\* "locked==1 => thr_lo16 <= thr_cur16 <= thr_hi16" (docs/CONTRACT_v02.md,
\* 6.6) for every active tile at the end of a flash, whatever was re-baked,
\* edited, locked by hand or reset before it: a flash trusts no lock it finds.
LockInRange ==
  Flashed => \A t \in Field(cfg) \cap rt.locked : InRange(cfg.par[t], rt.thr[t])

\* The tiles k hops or fewer from a BUS_R root, each hop from a locked tile.
Relayed(k) ==
  LET layer[j \in 0 .. k] ==
        IF j = 0 THEN cfg.busR \cap Field(cfg)
        ELSE layer[j - 1] \cup UNION {Children(cfg, t) : t \in layer[j - 1] \cap rt.locked}
  IN  layer[k]

\* A lock survives or is taken in a flash only at the end of a chain of tiles
\* that were locked before it and that starts at a BUS_R root.  Two tiles that
\* feed each other do not keep each other locked once the root has let go.
NoOrphanLock ==
  [][SingleFlash =>
       rt'.locked \cap Field(cfg) \subseteq Relayed(cfg.n)]_vars

\* A winner is still locked, and in its range, when the flash is over, whoever's
\* reset has hit its domain: "the winner always gets to lock and drive"
\* (docs/CONTRACT_v02.md, section 11).  Which other tiles a reset should spare is
\* WinnerParentsSpared's question.
AutoResetSparesWinners ==
  Flashed =>
    \A d \in Domains :
      LET w == rt.snap.winner[d]
      IN  w # NoTile => w \in rt.locked /\ InRange(cfg.par[w], rt.thr[w])

\* FIRE is the rising edge of the lock (docs/CONTRACT_v02.md, 6.6): a tile is
\* reported as fired exactly when it was unlocked before the flash and locked
\* after it, except that an auto-reset may already have unlocked it again.
FireIsRisingEdge ==
  [][SingleFlash =>
       LET rose == rt'.locked \ rt.locked
           told == {t \in Field(cfg) : rt'.snap.v[t].fire}
       IN  /\ rose \subseteq told
           /\ told \cap rt.locked = {}
           /\ \A t \in told \ rose : cfg.par[t].dom \in rt'.snap.autoReset]_vars

\* A locked tile drives what this frame and its present weights give, also
\* when it was locked long ago and re-weighted since: only a tile that is not
\* locked can have a vector of an earlier frame.
LockedDrivesFresh ==
  [][FlashStep =>
       \A f \in Frames :
         (\E t \in rt'.locked \cap Field(cfg) : rt'.rowOut[t] # RowOut(f, cfg.weight[t]))
           => ~EvFlash(f)]_vars

\* The two views of a tile, v_state and the shared buffer, tell the same after
\* a flash, the second pass of a double strait and an auto-reset included.
ViewsAgree ==
  Flashed /\ shared # <<>> /\ cfg.bakeId > 0 =>
    \A t \in Field(cfg) : /\ shared[t].locked = rt.snap.v[t].locked
                          /\ shared[t].fire = rt.snap.v[t].fire

\* Whatever tiles outside the active field still hold (locks and accumulators
\* from before the field was narrowed) does not change what a flash does to
\* the tiles inside it, nor the bus.
OutsideIsInert ==
  LET scrubbed == [rt EXCEPT !.locked = @ \cap Field(cfg),
                             !.thr = [t \in Tiles |-> IF t \in Field(cfg) THEN @[t] ELSE 0]]
  IN  cfg.applied /\ scrubbed # rt =>
    \A f \in Frames :
      LET a == FlashOnce(cfg, rt, f)
          b == FlashOnce(cfg, scrubbed, f)
      IN  /\ a.locked \cap Field(cfg) = b.locked
          /\ \A t \in Field(cfg) : a.thr[t] = b.thr[t]
          /\ a.snap = b.snap

\* "Decay pulls towards 0 and never jumps over 0" (docs/CONTRACT_v02.md,
\* section 0), for a locked tile whose decay16 is in the documented range
\* 0 .. 32767, whatever accumulator it holds when its parameters are edited.
LockedOnlyDrains ==
  [][SingleFlash =>
       \A t \in rt.locked \cap Field(cfg) :
         cfg.par[t].decay < Half =>
           /\ Magnitude(rt'.thr[t]) <= Magnitude(rt.thr[t])
           /\ rt.thr[t] >= 0 => rt'.thr[t] >= 0
           /\ rt.thr[t] <= 0 => rt'.thr[t] <= 0]_vars

-----------------------------------------------------------------------------
(***************************************************************************)
(* What docs/CONTRACT_v02.md says and the code does not do                 *)
(***************************************************************************)

\* An inactive tile has an all-zero drive vector (6.1 and section 17, MUST 4):
\* without an auto-reset the bus is the sum over the active writers.  The code
\* leaves row_out of an inactive tile as it was and lets the tile write it when
\* one of its parents has locked in this very flash.
InactiveIsSilent ==
  [][SingleFlash /\ rt'.snap.autoReset = {} =>
       LET live == Writers(cfg, rt'.locked) \cap ActiveSet(cfg, rt.locked)
       IN  \A i \in Lanes :
             rt'.snap.bus[i] = Clamp15(SumOver([t \in Tiles |-> rt'.rowOut[t][i]], live))]_vars

\* A successful EV_BAKE resets the runtime state (4.1).
BakeResetsRuntime ==
  [][res'.op = "bake" /\ res'.st = "OK" =>
       rt'.locked = {} /\ \A t \in Tiles : rt'.thr[t] = 0]_vars

\* The auto-reset spares the parents of a winner (section 11: the resetting
\* tile and the whole chain of its ancestors are excluded).
WinnerParentsSpared ==
  [][SingleFlash =>
       \A d \in Domains : rt'.snap.winner[d] # NoTile =>
         \A p \in Kept(cfg, rt, ActiveSet(cfg, rt.locked)) :
           rt'.snap.winner[d] \in Children(cfg, p) => p \in rt'.locked]_vars

\* A BUS_W tile with a locked parent writes to the bus (5.4).
ChildOfLockedWrites ==
  Flashed /\ rt.snap.autoReset = {} =>
    \A t \in cfg.busW \cap Field(cfg) :
      (\E p \in rt.locked \cap Field(cfg) : t \in Children(cfg, p))
        => t \in Writers(cfg, rt.locked)
=============================================================================
