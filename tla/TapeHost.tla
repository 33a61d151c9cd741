------------------------------- MODULE TapeHost -----------------------------
(***************************************************************************)
(* The programs that pour a recorded tape into a swarm of their own:       *)
(*   "run"      d8_agent_cli run           (agent_cli/agent_cli.c, cmd_run)*)
(*   "inspect"  d8_agent_cli inspect-tape  (cmd_inspect_tape)              *)
(*   "solver"   swarm_solver               (bench/swarm_solver.c)          *)
(* One call of the swarm per step, in the order of the program's text.     *)
(* swarm_bench only flashes: it is a "solver" that never closes.           *)
(*                                                                         *)
(* A host of Swarm with a job is such a program; host.job is NoTape or     *)
(*   prog, image   the program and what it bakes, NoImage for an inspect-  *)
(*                 tape without --bake                                     *)
(*   sizes         the lengths in bytes of the tapes it may be given       *)
(*   format        "auto", "raw8" or "packed4"                             *)
(*   limit         --limit, or the frames a d8_vsb_tape_t holds; 0 is none *)
(*   every, mask   --reset-every-frames, --reset                           *)
(*   close         --reset-on-winner, or -r of swarm_solver                *)
(* What a tape holds is settled as it is read.  Reports, labels and the    *)
(* files they go to are left out.                                          *)
(***************************************************************************)
EXTENDS SwarmCore, Sequences

VARIABLE tape

tapeVars == <<coreVars, tape>>

NoTape  == [prog |-> "none"]
NoImage == [n |-> 0]
Job     == host.job

\* 0xFFFF, the mask of every total reset, reaches the tiles of all domains
\* there are; the ones of a job's image are among Domains.
JobOK(j) ==
  /\ j.prog \in {"run", "inspect", "solver"} /\ j.sizes \subseteq Nat
  /\ j.format \in {"auto", "raw8", "packed4"} /\ j.limit \in Nat
  /\ j.every \in Nat /\ j.mask \subseteq Domains /\ j.close \in BOOLEAN
  /\ j.image # NoImage =>
       ImageOK(j.image) /\ \A t \in 0 .. j.image.n - 1 : j.image.par[t].dom \in Domains
  /\ j.image = NoImage => j.prog = "inspect"
  /\ j.prog # "run" => j.every = 0 /\ j.mask = {}

ASSUME JobsAssumption == \A h \in Hosts : h.job = NoTape \/ JobOK(h.job)

\* Stands for a frame with a level above 15: what no frame that is accepted is.
BadFrame == [i \in {} |-> 0]

ASSUME FramesAssumption == BadFrame \notin Frames

TapeInit ==
  /\ CoreInit
  /\ tape = [pc |-> "load", packed |-> FALSE, count |-> 0, at |-> 0, frames |-> <<>>,
             since |-> 0, segs |-> <<>>, start |-> 0, errors |-> 0]

-----------------------------------------------------------------------------
(* Opening the tape and baking                                             *)

\* d8_vsb_load knows packed frames only; "auto" guesses from the length.
Packed(size) ==
  \/ Job.prog = "solver"
  \/ Job.format = "packed4"
  \/ Job.format = "auto" /\ size % 8 # 0 /\ size % 4 = 0

FrameBytes(size) == IF Packed(size) THEN 4 ELSE 8

FrameCount(size) ==
  LET whole == size \div FrameBytes(size)
  IN  IF Job.limit > 0 /\ Job.limit < whole THEN Job.limit ELSE whole

\* What a program does before it decodes frame number at of count frames.
BeforeFrame == IF Job.mask # {} THEN "mask" ELSE "pour"

Stage(count, at) ==
  CASE at = count -> "end"
    [] at # count /\ Job.every # 0 /\ at # 0 /\ at % Job.every = 0 -> "periodic"
    [] OTHER -> BeforeFrame

Load ==
  /\ tape.pc = "load"
  /\ \E size \in Job.sizes :
       tape' = IF size % FrameBytes(size) # 0
               THEN [tape EXCEPT !.pc = "failed"]
               ELSE [tape EXCEPT !.packed = Packed(size), !.count = FrameCount(size),
                                 !.pc = IF Job.image = NoImage
                                        THEN Stage(FrameCount(size), 0) ELSE "bake"]
  /\ UNCHANGED coreVars

Bake ==
  /\ tape.pc = "bake" /\ EvBake(Job.image)
  /\ tape' = [tape EXCEPT !.pc = Stage(tape.count, 0)]

BakeFails ==
  /\ tape.pc = "bake" /\ EvBakeRefused
  /\ tape' = [tape EXCEPT !.pc = "failed"]

-----------------------------------------------------------------------------
(* One frame                                                               *)
PeriodicReset ==
  /\ tape.pc = "periodic" /\ EvResetDomain(Domains)
  /\ tape' = [tape EXCEPT !.pc = BeforeFrame, !.since = tape.at]

MaskReset ==
  /\ tape.pc = "mask" /\ EvResetDomain(Job.mask)
  /\ tape' = [tape EXCEPT !.pc = "pour",
                          !.since = IF Job.mask = Domains THEN tape.at ELSE @]

\* Frame f is done with and the program goes on with the next one.
After(f) ==
  [tape EXCEPT !.frames = Append(@, f), !.at = @ + 1, !.pc = Stage(tape.count, tape.at + 1)]

\* Only raw frames can hold such a level.  inspect-tape gives up.
ReadBadFrame ==
  /\ tape.pc = "pour" /\ ~tape.packed /\ BadFrames # {}
  /\ tape' = IF Job.prog = "inspect" THEN [tape EXCEPT !.pc = "failed"]
                                     ELSE [After(BadFrame) EXCEPT !.errors = @ + 1]
  /\ UNCHANGED coreVars

\* The tiles that are reported as fired and have a pattern.
FiredPatterns(snap) == {t \in Field(cfg) : snap.v[t].fire /\ cfg.par[t].pat # 0}

Solution(snap) == \E d \in Domains : snap.winner[d] # NoTile \/ d \in snap.collide

\* A bug the properties catch: a tile without a pattern ends a glyph.
EndsWithFire(snap) == \E t \in Field(cfg) : snap.v[t].fire

\* "reset-on-winner" looks at the fired patterns, swarm_solver at the winners.
EndsGlyph(snap) ==
  IF Job.prog = "solver" THEN Solution(snap) ELSE FiredPatterns(snap) # {}

\* A bug the properties catch: a segment begins where the last one ended.
SegmentFromEnd(p) ==
  [p EXCEPT !.segs = Append(@, [from |-> tape.start, to |-> tape.at, fired |-> TRUE]),
            !.start = tape.at]

SegmentEnds(p) ==
  [p EXCEPT !.segs = Append(@, [from |-> tape.start, to |-> tape.at, fired |-> TRUE]),
            !.start = tape.at + 1]

Pour ==
  /\ tape.pc = "pour" /\ Job.image # NoImage
  /\ \E f \in Frames :
       /\ EvFlash(f)
       /\ LET ends  == EndsGlyph(rt'.snap)
              noted == IF ends /\ Job.prog = "inspect" THEN SegmentEnds(After(f)) ELSE After(f)
          IN  tape' = IF ends /\ Job.close THEN [noted EXCEPT !.pc = "close"] ELSE noted

\* Without a swarm the frames are decoded and shown.
Decode ==
  /\ tape.pc = "pour" /\ Job.image = NoImage
  /\ \E f \in Frames : tape' = After(f)
  /\ UNCHANGED coreVars

\* A bug the properties catch: only the domains that won are reset.
CloseWinners ==
  /\ tape.pc = "close" /\ Job.prog # "solver"
  /\ EvResetDomain({d \in Domains : rt.snap.winner[d] # NoTile})
  /\ tape' = [tape EXCEPT !.pc = Stage(tape.count, tape.at), !.since = tape.at]

CloseGlyph ==
  /\ tape.pc = "close" /\ Job.prog # "solver" /\ EvResetDomain(Domains)
  /\ tape' = [tape EXCEPT !.pc = Stage(tape.count, tape.at), !.since = tape.at]

CloseSolution ==
  /\ tape.pc = "close" /\ Job.prog = "solver" /\ FullReset
  /\ tape' = [tape EXCEPT !.pc = "rebake", !.since = tape.at]

Rebake ==
  /\ tape.pc = "rebake" /\ EvBake(Job.image)
  /\ tape' = [tape EXCEPT !.pc = Stage(tape.count, tape.at)]

-----------------------------------------------------------------------------
\* What is left of the tape, or all of an empty one, is a segment too.
Unresolved ==
  IF tape.start < tape.count \/ tape.segs = <<>>
  THEN <<[from |-> tape.start, to |-> IF tape.count = 0 THEN 0 ELSE tape.count - 1,
          fired |-> FALSE]>>
  ELSE <<>>

End ==
  /\ tape.pc = "end"
  /\ tape' = [tape EXCEPT !.pc = "done",
                          !.segs = IF Job.prog = "inspect" THEN @ \o Unresolved ELSE @]
  /\ UNCHANGED coreVars

Exited == tape.pc \in {"done", "failed"} /\ UNCHANGED <<coreVars, tape>>

TapeCall ==
  Bake \/ BakeFails \/ PeriodicReset \/ MaskReset \/ Pour \/ CloseGlyph
       \/ CloseSolution \/ Rebake

TapeNext ==
  \/ Job = NoTape /\ CoreNext /\ UNCHANGED tape
  \/ Job # NoTape /\ TapeCall /\ UNCHANGED <<host, core, shown>>
  \/ Job # NoTape /\ (Load \/ ReadBadFrame \/ Decode \/ End \/ Exited)

TapeSpec == TapeInit /\ [][TapeNext]_tapeVars

-----------------------------------------------------------------------------
(***************************************************************************)
(* Properties                                                              *)
(***************************************************************************)
CleanRuntime ==
  [thr |-> [t \in Tiles |-> 0], locked |-> {},
   rowOut |-> [t \in Tiles |-> [i \in Lanes |-> 0]], snap |-> ZeroSnap]

\* A reset of the domains in mask, in a swarm with configuration c.
Masked(c, mask, r) ==
  LET reached == {t \in Field(c) : c.par[t].dom \in mask}
  IN  [r EXCEPT !.thr = [t \in Tiles |-> IF t \in reached THEN 0 ELSE r.thr[t]],
                !.locked = @ \ reached]

\* A frame, and before it the reset that --reset asks for.
Given(c, mask, r, f) ==
  IF f = BadFrame THEN Masked(c, mask, r) ELSE FlashOnce(c, Masked(c, mask, r), f)

ReplayOf(c, mask, frames) ==
  LET after[k \in 0 .. Len(frames)] ==
        IF k = 0 THEN CleanRuntime ELSE Given(c, mask, after[k - 1], frames[k])
  IN  after[Len(frames)]

\* A swarm that has just been baked, given these frames.
Replay(frames) == ReplayOf(cfg, Job.mask, frames)

\* Between two frames the accumulators and locks are those of a swarm that has
\* just been baked and given the frames since the last reset of all domains:
\* of what came before a closed glyph nothing is left ("a detected pattern_id
\* closes the current glyph", docs/AGENT_CLI_v01.md), and with --reset 0xFFFF
\* the frames are "independent samples".  row_out is not reset and not part of
\* this.
GlyphsIndependent ==
  Job # NoTape /\ tape.pc # "failed" /\ (tape.pc = "pour" => Job.mask = {}) =>
    LET fresh == Replay(SubSeq(tape.frames, tape.since + 1, tape.at))
    IN  rt.thr = fresh.thr /\ rt.locked = fresh.locked

Inspected == Job # NoTape /\ Job.prog = "inspect" /\ tape.pc = "done"

\* The segments of inspect-tape cut the tape into consecutive pieces, none is
\* lost and none empty, and there are never more than the array of one per
\* frame and one holds.
SegmentsPartition ==
  /\ Job # NoTape => Len(tape.segs) <= tape.count + 1
  /\ Inspected /\ tape.count > 0 =>
       LET segs == tape.segs
       IN  /\ segs[1].from = 0 /\ segs[Len(segs)].to = tape.count - 1
           /\ \A i \in DOMAIN segs : segs[i].from <= segs[i].to
           /\ \A i \in 1 .. Len(segs) - 1 : /\ segs[i + 1].from = segs[i].to + 1
                                            /\ segs[i].fired

\* "each segment is the input slice that led to a non-zero pattern_id"
\* (docs/AGENT_CLI_v01.md): with --reset-on-winner a swarm that has just been
\* baked and is given a segment's frames alone reports a pattern at the last
\* of them and at none before, and at none of a segment that is unresolved.
SegmentsLeadToPattern ==
  Inspected /\ Job.close /\ Job.image # NoImage /\ tape.count > 0 =>
    \A i \in DOMAIN tape.segs :
      LET s == tape.segs[i]
          reports(k) == FiredPatterns(Replay(SubSeq(tape.frames, s.from + 1, k + 1)).snap) # {}
      IN  \A k \in s.from .. s.to : reports(k) <=> (s.fired /\ k = s.to)
=============================================================================
