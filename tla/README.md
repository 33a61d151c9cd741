# A TLA+ verification of the Decima-8 swarm

The repository is a C library that runs a *swarm*: a grid of up to 4096 tiles,
each a small integrate-and-lock element with eight input lanes, that a host
configures with a *bake* (a binary blob) and then drives with *flashes* (one
frame of eight levels in, one frame of eight levels out). The specification the
code follows is `docs/CONTRACT_v02.md`. This directory holds TLA+ modules
translated from the code, TLC configurations that check them on small
instances, and proofs for TLAPS of what matters most about them.

Paths are relative to `src/`; `swarm.c` is `src/src/swarm.c`.

## 1. Inventory

| Component | Where | State it keeps | Operations | Correct when |
|---|---|---|---|---|
| Activation closure | `swarm.c` 361-545 | `active`, `bus_r_allowed` of this flash | multi-pass loop; `has_locked_write_source` | it ends; its result is the least set of tiles that holds the BUS_R roots and the children of its own locked tiles |
| Tile arithmetic and lock life cycle | `swarm.c` 242-264, 547-644 | `thr_cur`, `locked`, `locked_before` per tile | accumulate, decay, fuse, hold, collapse, the 4-bit readings | locks stay in range, decay never passes 0, a decay-only tile locks by draining only |
| Row pipeline | `swarm.c` 294-344 | `row_raw`, `row_signed`, `row_out` | `compute_row_raw`, `compute_delta_raw` | 16-bit sums never wrap, each drive belongs to its own row |
| Interphase arbitration | `swarm.c` 646-692 | `winner_tile_id`, `fired_cnt`, `collide_mask16`, `auto_reset_mask16` | the election scan | the winner is the arg-max of (priority, -tile_id) |
| Swarm API | `swarm.c` 200-236, 436-1245 | the baked configuration, the runtime state, the view snapshot | EV_BAKE, EV_FLASH, EV_RESET_DOMAIN, full reset, some twenty edits | no order of calls leaves a stale lock, drive or view behind a flash |
| Bake parser and writers | `tlv.c`; `swarm.c` 1266-1548; `bake_gen/` | none | parse, validate, serialize, generate | what is written parses back |
| Swarm core wrapper | `swarm_core.c` | a bake view, `is_baked`, the last flash result, a double-strait flag | as the swarm's | its copies agree with the swarm's |
| UDP transport | `udp_io.c`, `udp_protocol.h` | sockets, `running`, a receiver thread | start, stop, send, receive loop | every stop returns, and leaves no thread and no socket |
| Net solver | `net_solver/net_solver.c` | a swarm, its bake, statistics | packet handler on the receiver thread; main loop waiting for a signal | nothing is freed under the handler; one solution per winner of a frame |
| Telemetry buffer | `shared_buffer.h` | readings per tile, frame data | written by flashes, for another process to read | it tells what the snapshot tells |
| Frame tape | `vsb.c` | an array of frames and its count | load, load from memory, save | every frame of the file is there |
| Agent command line | `agent_cli/agent_cli.c` | none between commands | run a tape, inspect a tape or a bake, make a bake | a closed glyph has no part in the next, the segments are the tape |
| Benchmarks | `bench/` | none | pour a tape, `swarm_solver` with a reset after each solution | as above |

**How they interact.** Everything meets in the swarm: a flash calls, in this
order, the activation closure (reading the locks of *before*), the tile loop
(which calls the row pipeline), the election, the bus write (which reads the
locks of *after* the tile loop, and drives that may be older), the auto-reset
(which reads the winners) and the two views, the snapshot and the telemetry
buffer. The wrapper, the programs that pour a tape and the net solver call the swarm's API;
the net solver does so from the receiver thread, and frees the swarm on the main
thread once the stop of the receiver has returned.

**What is hard.** The swarm is sequential, and its difficulty is not
interleaving but *state that outlives the call that wrote it*: locks, drives and
accumulators persist from flash to flash while bakes, edits, resets and field
limits change everything they were computed from. Every phase of a flash reads a
different generation of that state. Then there are fixed-width conversions, a
grid whose last row may be partial with two independent sets of edge guards, and
a fixed point whose visiting order is not its dependency order. Concurrency
exists in the transport, the net solver and the telemetry buffer only.
`PROJECT.json` lists these hazards at their lines.

## 2. Plan

1. **Done:** the five components of the swarm itself: `Fabric`,
   `ActivationClosure` against `LeastActivation`; `TileOps`, `TileLife`;
   `RowOps`, `RowPipeline`; `Arbitration`, `WinnerScan`; and `BakeImage`, `Flash`
   and `Swarm`, which compose the results of the four.
2. **Done:** who drives the swarm: `SwarmCore`, the wrapper; `TapeHost`, the
   programs that pour a tape; `NetSolver`, which composes the swarm's calls with
   the receiver of `UdpReceiver`, thread by thread.
3. **Done:** where its configuration comes from: `BakeFormat` (two writers) and
   `BakeCodec` (the parser).
4. **Proofs done:** every safety and action property that a passing run checks is
   a theorem of `ActivationProofs`, `TileProofs`, `WinnerProofs`, `SwarmProofs`,
   `TapeProofs`, `NetSolverProofs` or `BakeProofs`, over the lemmas of
   `OperatorLemmas`.
5. **Proofs still wanted:** that `WinnerScan` and `RowPipeline` implement one-step
   specifications, as `ActivationClosure` does; that what the net solver keeps of
   its two threads is a sequence of calls of `SwarmCore` too.
6. **Code still out:** the packet layout of `udp_protocol.h`, `vsb_save` and
   loading a tape from memory, `inspect-bake` and `bake-basic`.

## 3. The modules

Every definition of the model has an entry under `map` in `PROJECT.json` with
the lines it stands for. Operators whose comment begins "A bug the properties
catch" are not part of any specification: each is a plausible wrong version of
the definition after it, kept to show which property would notice.

**`Fabric`** - the grid. A *net* is a record of `active_tile_count`, the width,
the routing masks and the BUS_R tiles. The code spells out eight directions,
each with its guards; `DX`/`DY` give the offset of a direction and `HasChild` the
guard all eight blocks amount to. `SeesNeighbour` is the separate set of guards
in `has_locked_write_source`, kept separate because they differ.
`ActiveSet` is the least closed set, written as an intersection.

**`ActivationClosure`** - the loop itself: `cursor` is its `t`, `changed` its
flag, `StartPass` and `Finish` the two outcomes of the `while`, `Visit` one
iteration of the `for`. `bus_r_allowed` is written only where `active` is, with
the same value, and is not a variable. **`LeastActivation`** is its abstract
specification: one step that yields `ActiveSet`.

**`TileOps`** - arithmetic of one tile, with `Half` for 2^15. `Decay` is the
64-bit decay of an unlocked tile, `DecayLocked` the other one, which converts to
`d8_i16` *before* it compares with 0. `Fuses` is the decision of lines 628-642:
the tile fuses when decay brought it into the range, or on input unless its
priority is 7. **`TileLife`** - one tile over many ticks with fixed parameters,
its branch alive or dead at will.

**`RowOps`** - what the row pipeline computes; **`RowPipeline`** - how, one
multiply-add per step with wrapping sums, the total of `compute_delta_raw` among
them. **`Sums`** holds the one sum both are written with, and the bus and the size
of a blob too.

**`Arbitration`** - what the election decides; **`WinnerScan`** - how, one tile
per step.

**`BakeImage`** - what a blob holds once it is accepted (`ImageOK`), the
configuration a swarm takes from it (`BakedConfig`: `tile_count` entries of each
array, the rest left as it was, count and width as `d8_swarm_ev_bake` derives
them), `Limited`, the narrowing of a field, and `ConfigOK`, what every
configuration of a swarm is: of its type, with the width the last bake or the last
limit gave the field, and with a stored width. A swarm that was never baked has
one too: `d8_swarm_create` gives it the full topology.

**`Flash`** - one pass of `flash_impl` as a function of configuration, runtime
state and frame. It uses the *results* of the loops above (`ActiveSet`,
`Delta`/`RowOut`, `Winner`), which the runs and theorems on those loops justify.
The runtime state is `thr`, `locked`, `rowOut` and the snapshot; the order of the
phases is the order of the `LET`.

**`Swarm`** - the API: `cfg` is the baked state, `rt` the runtime state, `shared`
the telemetry buffer, `res` the last call and its result, `host` what the program
that drives the swarm gives to its calls; it never changes. One action per call:
`EvBake` takes an image and leaves `rt` alone; `EvFlash` pours once or twice; `EvResetDomain`, `FullReset`; the edits `SetTile...`,
`SetTileFieldLimit`, `SetDoubleStrait`, `SetBakeId`; attaching and detaching the
buffer. Early returns are actions of their own (`EvFlashNotBaked`,
`EvFlashBadIngress`, `EvResetNotBaked`, `EvBakeRefused`).

**`SwarmCore`** - the wrapper. `core` is its own state (baked, its strait flag,
the last result), `shown` the bake id where telemetry reads it. A wrapped host
makes `WrappedCall`s, any other host the calls of `Swarm`.

**`TapeHost`** - `d8_agent_cli run`, `inspect-tape` and `swarm_solver`, one call
of the swarm per step: `tape.pc` says which comes next. The actions are those of
`Swarm` in the order of each program's loop (`PeriodicReset`, `MaskReset`,
`ReadBadFrame` or `Pour`, `CloseGlyph` or `CloseSolution` and `Rebake`); the tape's
frames are chosen as they are read, and kept in `tape.frames` for the properties
to compare with `Replay`, what a swarm that has just been baked makes of a slice of
them (a recursive function over the frames).

**`NetSolver`** - `net_solver.c`. It extends `UdpReceiver` and `Swarm`, whose
host is the solver itself (`NetHost`: one bake, resets, no edits, no buffer); `main` is where the main thread is, `job` where the
handler is between taking a packet and returning: after a domain reset, after the
flash, before each domain's answer, before the full reset and before the second
bake. The signal may come at any time. `main = "other"` is any program that calls
start, stop and cleanup in any order, so that the receiver is checked apart from
this one use of it too. The two parents' state is apart: the receiver's
definitions are `RecvInit`, `RecvNext`, `RecvSpec`, the swarm's `Init`, `Next`,
`Spec`.

**`BakeFormat`** - a blob as a sequence of records, with the bytes that really
follow each header; the serializer and the generator as operators on it.
**`BakeCodec`** - the parser, one record per step, one action per record type.
A blob is fixed at the start: of the serializer, of the generator or foreign; the
serializer writes the blob of a swarm that was never baked as of any other. After
a record the parser skips to the next multiple of four without a test
(`Advance`). Where the writer has not padded, the walk is `astray`: it goes on in
the middle of a header, and `Stray` lets it find any type there, with a length of
`StrayLens`. Two outcomes stand for undefined behaviour: `past_blob`, where the
padding is past the end and `tlv_remaining` wraps, and `past_arrays`, where a
topology has more tiles than the view. Of the latter the model says no more.

**`UdpReceiver`** - the receiver of `udp_io.c`, the POSIX build. The steps of a
stop (`Shutdown`, `Close`, `Join`) interleave with the receiver thread, whose
loop is cut at every point where the host may act: before `recvfrom` looks up
the descriptor number (`Receive`), while it waits, while the handler runs. The
kernel's part (what `recvfrom` may return, that a closed number is reused, that
a thread inside the call keeps its socket) is modelled from how the code uses it.
A start runs after its own stop has joined the thread, so nothing runs beside it
and it is one step, `OpenFails` or `OpenSucceeds`. `ctx->running` is cleared by
the thread alone, where it leaves its loop; that no stop clears it is why
`CallsReturn` is worth checking.

**`MC...`** - the instances for TLC.

## 4. The runs

| Run | Question | Distinct states |
|---|---|---|
| `activation` | does the loop end, with the least closed set, and do the two edge guards agree on full rows? | about 1.1 million |
| `tile_life` | can a tile hold a lock out of range, run past 0, fuse on input at priority 7, or hold for ever? | 33 thousand |
| `winner_scan` | is every prefix of the scan right? | 327 thousand |
| `row_pipeline` | does a sum wrap, does a drive belong to another row? | 16 thousand |
| `swarm` | does any order of bakes, edits, limits, resets and flashes, direct or through the wrapper, leave a stale lock, drive, view or id? does a tape's glyph reach into the next? | 130 thousand |
| `net_solver` | does every stop return and the signal end the program, with nothing freed under the handler and every answer a winner of its packet? | 144 thousand |
| `bake_codec` | does the parser end, accept images only, and restore what was saved? | 65 thousand |

Five further runs show disagreements between the code and what
`docs/CONTRACT_v02.md` or a comment says of it; each ends with a counterexample:

- `swarm_stale_drive` (6.1, MUST 4): an inactive tile keeps `row_out`, and a
  parent that locks in the same flash lets it write that old vector.
- `swarm_rebake` (4.1): EV_BAKE does not reset the runtime state. The same
  section's promise that a *refused* bake changes nothing does hold of the swarm.
- `swarm_backfire` (section 11): the auto-reset spares winners only, not the
  chain of their ancestors.
- `swarm_corner` (5.4): at a partial last row `has_locked_write_source` does not
  see the north-east parent of the last tile, which the activation loop does.
- `bake_restore` (comment at `swarm.c` 1343): the serializer does not pad its
  records, so the blob of a swarm whose tile count is no multiple of four is
  refused by the parser, or has it leave the blob.

**Bounds, and why they are enough.**
`activation`: a 2 x 2 grid with all eight directions, off-grid ones included, has
every kind of edge, cycles of two to four tiles, and branches ahead of and behind
the cursor; five tiles in rows of three add a partial last row, chains that need
several passes and, fed at the far end, only backward routes. Every tile has at
most one direction, or all eight. All lock sets are tried.
`tile_life`: 4-bit integers in the place of 16-bit ones (`Half = 8`), *all*
ranges and decays of that width, both kinds of priority, inputs that include the
extremes: all wrap-around cases of the formulas exist at any width.
`winner_scan`: four tiles are enough for three-way ties and two collisions at
once; the saturation of the counter at 255 is not reached here (the theorem
counts without a bound).
`row_pipeline`: two lanes with levels 0, 8, 15 and weights 0, -7, 15 and -15, in
an integer width into which four extreme products just fit, as 64 of them
(14400) fit into 16 bits with room to spare.
`net_solver`: two tiles in two domains, so that an answer follows an answer, masks
of none, one or both, good and bad frames. Three starts that succeed (failing
ones are not bounded) give a thread of an earlier start twice the chance to meet
a later one; the solver itself starts once.
`bake_codec`: fields of up to eight tiles, so that both residues that need no
padding occur; all 720 orders of six records, and all sequences of up to three
records that overwrite each other before or after the required ones; last records
with their padding, or a part of the value, missing; topologies of more tiles than
the arrays hold, or of no columns. `StrayLens` has a length of each kind a walk
astray may find (none, odd, more than a record, more than is left).
`swarm`: one lane, up to four tiles in rows of two, two domains,
accumulators of about nine bits in which a bright frame adds 225 and two of them
saturate. The images are chosen so that chains, a cycle, a partial row, duels
over a domain, mutual resets, negative ranges, priority 7 and drain-to-unlock all
occur. Each of the five interactive hosts makes the calls that disturb each
other: limits with routing edits, the double strait with resets and buffers,
parameter with weight and lock edits, the bake id, and the wrapper's. The tapes
have up to five frames, each dark, bright or out of range, with a glyph that
takes two bright frames in a row, a tile without a pattern and a child, so that
glyphs are closed, left open and broken off in every place.

**Fairness.** `Termination` assumes `WF_vars(Next)` of the loop: it is straight-line
code in one thread, nothing in it waits. `LeakUnlocks` assumes `WF_vars(HeldTick)`:
the host keeps sending frames. A host that stops sending leaves every lock as it
is, and the property would be false without the assumption. `CallsReturn` assumes
that a call the host has begun goes on (`WF_recvVars(OwnerSteps)`) and that a receiver
thread does (`WF_recvVars(Thread(k))`): its `recvfrom` has a timeout, and the handlers
of this repository return. `NetFairSpec` adds the same for the main thread and for the handler, which
is written out per thread as `[]<>(~Alive(k)) \/ []<><<Moves(k)>>_netVars`: a thread
that lives keeps moving. `SignalEnds` needs no packet to come, because a receive
times out. `WalkEnds` assumes that the parser, straight-line code, goes on; it
speaks of blobs on which nothing undefined happens.
Nothing is assumed of the network. The swarm's own
specification has no fairness; its properties are safety properties.
Deadlock checking is off only for runs of loops that end (`activation`,
`winner_scan`, `row_pipeline`, `bake_codec`) and for `net_solver`, which exits; a
program of `TapeHost` that has exited is an explicit step.

## 5. The proofs

All theorems hold for every value of the constants that satisfies the named
assumptions of the modules. Those assumptions are facts of the code (a width of
16 bits is some `Half`; 64 extreme products fit it; a tile number is never
`NoTile`; `BadFrame` is no frame; domain 0 exists, which a fresh tile is in) or
types of what a caller may pass (`HostsAssumption`, `NetHostAssumption`,
`JobsAssumption`, `ForeignAssumption`, `RequestsAssumption`). Three are themselves
discharged by theorems about another module:

- that a host bakes images only is what `ParserYieldsImages` says of the parser, in
  part: for blobs whose topologies have no more tiles than the arrays and some
  columns (`TopologiesFit`), which `parse_topology` (`tlv.c` 61-87) does not test.
  That a host bakes no others remains an assumption about the host;
- that the serializer is given a swarm's configuration (`SavedAssumption`) is what
  `SwarmsCanBeSaved` says of every swarm, baked or not;
- that deltas and drives fit their widths (`PipelineAssumption`,
  `DeltasAssumption`) is what `RowsFeedTheTile` says of the row pipeline.

Induction over data (sums, recursive functions, sequences of records) goes by a
least counterexample: `LeastNat` of `OperatorLemmas` says that a set of naturals
that is not empty has a least member, and the step from its predecessor refutes it.

- **`OperatorLemmas`**. No theorem of its own: induction, the sum over a finite set
  (it exists, splits at any element, is bounded by the number of terms times the
  bound of one), the decay and saturation of one accumulator.
- **`ActivationProofs`**. The loop stays in the field, activates nothing extra,
  misses nothing, and implements `LeastActivation`. "Misses nothing" is not
  inductive: the invariant adds that during a pass without changes the children
  of every *visited* active locked tile are active, and at the end of such a pass
  of all of them. From both halves the result is the intersection of all closed
  sets, which maps the last step to `Activate` and the others to stuttering.
  `ActivatedIsFed` is geometry: on a field without a partial row the eight edge
  guards of `has_locked_write_source`, seen from the child, are those of the
  activation loop, seen from the parent, quotient and remainder of the tile number
  by the width taken apart.
- **`TileProofs`**, one tile and its input. `LockedInRange`, and
  `HeldDecayNeverWraps`: the held branch's conversion is the identity as long as
  |thr| plus decay fits. The invariant that makes it so is that a tile with decay
  of 2^15 or more never leaves 0, because no input outweighs its decay.
  `DrainOnlyFuses`: a sum that saturates into the range was carried there by decay.
  `SumsNeverWrap` and `PipelineComputesTheCanon` rest on an invariant (`PipeInv`)
  that says every running sum *is* the sum of the products before the loop
  variables, which is bounded by their number.
- **`WinnerProofs`**. The winner is unique because `Beats` is a strict total
  order; the running winner of a prefix extended by one tile is the old one or
  the new tile. The counter equals the cardinality of the contenders passed.
- **`SwarmProofs`**. Its theorems are about `AnySpec`, a swarm whose callers make
  any call with any argument of its type; `SwarmIsAny`, `TapeIsAny` and
  `SolverDrivesSwarm` show that the hosts of `Swarm`, the wrapper's host and the
  programs that pour a tape, and the net solver are such callers, so the theorems
  hold of all of them (`TapeHostsAreSafe`, `TapeHostsStepSafely`). `TypesKept`:
  configuration, accumulators, drives and views keep to their widths, from which
  the others start; `LocksEndInRange`: every lock in the field is in range after
  any flash, whatever came before; the argument is about the second pass when the
  frame is poured twice, so it is a lemma on `FlashOnce` from any typed state.
  `WinnersKeepTheirLock`: a winner fired in this flash, so it is in the locks and
  in range, and it is not in the set reset.
  `FiresOnTheRise`, `LocksDriveFresh`, `LocksOnlyDrain` and `ViewsTellTheSame` are
  read off one flash from any typed state. `WhatIsOutsideIsInert` compares two
  flashes phase by phase: the least closed set reads no lock outside the field, so
  neither does anything after it. `LocksHangOnRoots`: the tiles reached by hops
  through locked tiles form a closed set within as many hops as there are tiles
  (each hop adds one or the next adds none), so the least one is among them.
  `SwarmsCanBeSaved` needs the invariant `WidthOK`.
- **`TapeProofs`**. `SegmentsCutTheTape`: the segments found so far are a chain
  that ends before the first frame of the open one, and the place in the loop tells
  whether a frame is left. `ShownIdsAreTheRunningOnes` needs that only the
  wrapper's host, which pours no tape, makes the wrapper bake.
  `GlyphsAreIndependent`: accumulators and locks are at every step those that
  `Replay` gives for the frames since the last reset of all domains. For that the
  invariant keeps that such a reset reaches every tile that holds anything: every
  domain is one of `Domains`, and outside the field there is nothing. A flash reads
  accumulators and locks only, so stale drives do no harm.
  `SegmentsTellTheirPattern` adds that no frame of the open segment has reported a
  pattern, and that each closed one did at its end only.
- **`NetSolverProofs`**. About the receiver, the invariant says that only the
  thread of the handle lives and that the descriptor number, while open, is that
  thread's socket; `Join` is the step that needs it: a thread that was not joined
  would be alive with another handle. `SolverDrivesReceiver`: every step of the
  solver is a step of `UdpReceiver` or leaves its variables alone, so
  `StoppedMeansGone` and `ThreadsKeepToTheirSocket` hold of the solver's receiver.
  `HandlerKeepsItsGround` builds on it: when main is past the stop the receiver is
  not running, so no thread is left that could be in the handler; before it nothing
  has been freed. `SolutionsAreForgotten` and `AnswersAreWinners` rest on what the
  handler's place in its work (`job.at`) says of the swarm: while it sends, the
  runtime state is what a pass over the packet in hand made; after the full reset,
  and past the second bake, nothing is left. That the second bake changes nothing
  is `BakedConfig` applied twice.
- **`BakeProofs`**. `ParserYieldsImages`: `AcceptedIsImage` is not inductive,
  because the view is half filled during the walk; the invariant (`ParserInv`) says
  that the parameters of *all* tiles are typed and in range whatever the present
  topology says, that a topology that was seen fits if all of the blob's do, and
  that what is accepted has one.
  `EstimatesHold` sums the records of either writer. `WalkInv` tells where the walk
  is: at every record, what is left to read is what the records from the cursor on
  take up; and every step, astray or not, leaves it as it was modulo four. So a
  walk that is astray never comes to the end, a size that is a multiple of four
  keeps the padding in the blob (`ParserStaysInside`), and only a walk that kept to
  the records is accepted. `WrittenAreAccepted`: both writers keep to one layout
  whose only obstacle is padding (`LayoutInv`); the walk loses its way exactly where
  the parameters do not end on a multiple of four.
  `TheLastRecordWins`: the view holds of every tile what the
  last record *before the cursor* says of it (`ToldInv`), for blobs of any
  contents. `SavedIsRestored` puts the two together with what the records that
  occur once have said of the field (`HeadInv`).

**Model-checked only.** Liveness (`Termination`, `LeakUnlocks`, `CallsReturn`,
`SignalEnds`, `WalkEnds`) is out of the prover's reach, which has no rule for
fairness. The properties of the five runs that end with a counterexample are
false, and so not proved.

## 6. What is not modelled, and why

- `vsb_save` and loading a tape from memory, `inspect-bake` and `bake-basic`, which
  print a parsed blob or write a generated one; the packet layout and `send_raw`
  of the transport; CRC32, whose value is taken to be sound or not; the control
  plane, which is a document. Reasons are under `components` in `PROJECT.json`.
- The readers of the telemetry buffer: none is in the repository.
- The reports, labels and statistics of the programs.
- In the swarm: cycle-time statistics, the frame tag, `in_clip_bits`,
  `flags32_last` (a function of clip and collide), the winner's pattern id and
  priority (read off the winner).
- Calls with a NULL pointer or a tile number past the end return at once.
  `flash_in_progress` is set only inside a flash, and one thread never sees it.
- What a swarm makes of a bake with a `tile_count` above 4096, or with a stored width
  of 0 that a non-standard count would use as a divisor. The parser accepts the
  second and leaves its arrays on the first; both are in `BakeCodec`, and the hosts
  of `Swarm` bake neither.
- What the code does past the blob or past the arrays of the view (`past_blob`,
  `past_arrays`), and what the records read astray would leave in a view: no such
  view is accepted.
- A `domain_id` of 32 or more set by an edit: `1u << domain_id` is undefined.
- The SIMD build (`__SSE4_2__` or MSVC; the default Linux build is the portable
  one). Its 16-byte bus store reaches into the first entries of `v_state`, which
  the publishing loop then rewrites for tiles of the field.
- The test of `bus_r_allowed` at line 591 never fails: it is TRUE exactly for
  active tiles.

**Seen on the way, without a run of their own.** The header flag
BAKE_FLAG_DOUBLE_STRAIT, which the contract (13.2) says makes the core pour
twice, is stored and read by nothing: the double strait is the run-time switch.
A receiver thread that ends by itself, on a signal or on an empty datagram that
meets an errno other than EAGAIN, leaves `running` set, and
`d8_udp_receiver_is_running` keeps saying so. A tile with pattern_id 0 gets
its FIRE bit but takes no part in the election, and so is missing from
`fired_domains` (line 663, against the contract's FIRED_SET at 456). The held
decay wraps for a `decay16` of 2^15 or more that is set by an edit while the tile
is locked; the contract's range ends at 32767 but neither parser nor setter
checks it. A full reset leaves winner ids 0, not 0xFFFF.

The parser subtracts the padding of the last record from `tlv_remaining` without
asking whether it is there (`tlv.c` 394-396): a blob that ends without it, its size
no multiple of four, makes the unsigned counter wrap. `ParserStaysInside` and
`WalkEnds` say that no blob padded as the contract asks is affected.

Neither EV_RESET_DOMAIN nor the full reset ("Reset swarm to initial state",
`swarm.h` 34) clears `row_out`, so an inactive tile may drive a frame of a
closed glyph: this is the same cause as in `swarm_stale_drive`, and why
`GlyphsIndependent` and `SolvedIsForgotten` speak of accumulators and locks. The
parser does not test that `tile_count` is width times height, nor asks for all the
records the contract's 13.5 calls mandatory, and it checks the CRC over all but the
last twelve bytes wherever the record stands (section 15, items 2, 4 and 7). A swarm that is serialized loses
a `domain_id` above 15 and the width of a field narrowed to a non-standard size.
A packet's `reset_mask16` of 0xFFFF means no reset, while the same mask given to
EV_RESET_DOMAIN resets every domain. `auto` takes a packed tape of an even number of frames for raw frames
(`agent_cli.c` 1017), and the comments of `vsb.h` describe eight-byte and tagged
frames, while `d8_vsb_load` reads packed ones only.
