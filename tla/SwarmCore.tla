------------------------------ MODULE SwarmCore -----------------------------
(***************************************************************************)
(* The wrapper around one swarm that an editor uses (src/src/swarm_core.c, *)
(* d8_swarm_core).  A host that is wrapped makes its calls through it, any *)
(* other host calls the swarm itself.                                      *)
(*                                                                         *)
(* The wrapper remembers whether a bake went through it, the result of the *)
(* last flash and a double-strait flag of its own, and it is the only one  *)
(* to write the bake id where telemetry reads it: into the snapshot and    *)
(* into the attached buffer.  Nothing reads its bake view after a bake has *)
(* returned: that it is overwritten by a blob that is then refused has no  *)
(* effect, so it is no variable.                                           *)
(*                                                                         *)
(* d8_swarm_core_get_swarm hands out the swarm.  Of the calls that a host  *)
(* can make behind the wrapper with it only the full reset is modelled,    *)
(* for which the wrapper has no call.                                      *)
(***************************************************************************)
EXTENDS Swarm

VARIABLES
  core,   \* [baked, strait, last] of struct d8_swarm_core
  shown   \* bake_id_active: [snap |-> in the snapshot, buf |-> in the buffer]

coreVars == <<vars, core, shown>>

NoResult == [st |-> "OK", readout |-> [i \in Lanes |-> 0]]

\* d8_swarm_core_create
CoreInit ==
  /\ Init
  /\ core = [baked |-> FALSE, strait |-> FALSE, last |-> NoResult]
  /\ shown = [snap |-> 0, buf |-> 0]

-----------------------------------------------------------------------------
(* The calls of a wrapped host                                             *)

\* A bug the properties catch: an image's missing id is left missing.
ParsedId(img) == img.bakeId

\* 0 is what an image holds that was given no id; a swarm with that id fuses
\* no tile.
ActiveId(img) == IF img.bakeId = 0 THEN 1 ELSE img.bakeId

\* The id is written to the snapshot, and to the buffer if there is one.
ShownEverywhere(id) ==
  [snap |-> id, buf |-> IF shared = <<>> THEN shown.buf ELSE id]

CoreEvBake(img) ==
  /\ EvBake([img EXCEPT !.bakeId = ActiveId(img)])
  /\ core' = [core EXCEPT !.baked = TRUE]
  /\ shown' = ShownEverywhere(ActiveId(img))

CoreEvBakeRefused == EvBakeRefused /\ UNCHANGED <<core, shown>>

\* Whatever the swarm answers is kept, an error too.
Keep == core' = [core EXCEPT !.last = [st |-> res'.st, readout |-> res'.readout]]

CoreFlash ==
  /\ core.baked
  /\ (\E f \in Frames : EvFlash(f)) \/ EvFlashBadIngress
  /\ Keep
  /\ UNCHANGED shown

\* Answered by the wrapper; the result is not kept.
CoreFlashNotBaked ==
  /\ ~core.baked
  /\ Returns("flash", "NOT_BAKED")
  /\ UNCHANGED <<cfg, rt, shared, core, shown>>

\* These calls are handed to the swarm as they are.
HandedDown ==
  /\ \/ \E m \in host.resets : EvResetDomain(m)
     \/ EvResetNotBaked
     \/ \E t \in host.tiles : TileEdit(t)
     \/ \E k \in host.limits : SetTileFieldLimit(k)
     \/ DetachSharedBuffer
  /\ UNCHANGED <<core, shown>>

\* The buffer has been cleared by d8_shared_buffer_init, its bake id too.
CoreSetSharedBuffer ==
  /\ SetSharedBuffer
  /\ shown' = [shown EXCEPT !.buf = 0]
  /\ UNCHANGED core

\* Only the wrapper's flag: the swarm's own switch is not touched.
CoreSetDoubleStrait(b) ==
  /\ core' = [core EXCEPT !.strait = b]
  /\ Returns("edit", "OK")
  /\ UNCHANGED <<cfg, rt, shared, shown>>

\* Behind the wrapper: the snapshot is zeroed with its bake id.
FullResetBehind ==
  /\ FullReset
  /\ shown' = [shown EXCEPT !.snap = 0]
  /\ UNCHANGED core

WrappedCall ==
  \/ \E img \in host.images : CoreEvBake(img)
  \/ CoreEvBakeRefused
  \/ CoreFlash
  \/ CoreFlashNotBaked
  \/ HandedDown
  \/ CoreSetSharedBuffer
  \/ \E b \in host.doubles : CoreSetDoubleStrait(b)
  \/ FullResetBehind

CoreNext ==
  \/ host.wrapped /\ WrappedCall /\ UNCHANGED host
  \/ ~host.wrapped /\ Next /\ UNCHANGED <<core, shown>>

CoreSpec == CoreInit /\ [][CoreNext]_coreVars

-----------------------------------------------------------------------------
(***************************************************************************)
(* Properties                                                              *)
(***************************************************************************)

\* A swarm that the wrapper takes for baked is, and under an id that lets it
\* fuse; and no reader of the telemetry takes what it sees for another bake's:
\* the ids shown are the running one or, after a reset or in a buffer attached
\* since, none.
BakeIdsAgree ==
  core.baked =>
    /\ cfg.applied /\ cfg.bakeId > 0
    /\ shown.snap \in {0, cfg.bakeId}
    /\ shared # <<>> => shown.buf \in {0, cfg.bakeId}
=============================================================================
