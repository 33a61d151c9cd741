------------------------------ MODULE TapeProofs ----------------------------
(***************************************************************************)
(* Proofs about SwarmCore and TapeHost, for every set of hosts and jobs,   *)
(* tapes of any length, and every size of the swarm: what the wrapper and  *)
(* the programs that pour a tape make of a swarm.                          *)
(***************************************************************************)
EXTENDS TapeHost, SwarmProofs

-----------------------------------------------------------------------------
(* The wrapper                                                             *)

\* An image keeps its form when it is given another id.
LEMMA IdentifiedImage ==
  ASSUME NEW img, ImageOK(img), NEW id \in Nat
  PROVE  ImageOK([img EXCEPT !.bakeId = id])
BY DEF ImageOK

LEMMA ActiveIdPositive ==
  ASSUME NEW img, ImageOK(img)
  PROVE  ActiveId(img) \in Nat /\ ActiveId(img) > 0
BY DEF ActiveId, ImageOK

\* Every call through the wrapper ends in a call of the swarm or is answered
\* by the wrapper itself.
LEMMA WrappedIsAny ==
  ASSUME KnownHost, WrappedCall
  PROVE  AnyCall
<1>0. "NOT_BAKED" # "OK" /\ "BAD_INGRESS_LEVEL" # "OK" /\ "BAD_BLOB" # "OK" /\ "edit" # "flash"
  OBVIOUS
<1>1. ASSUME NEW img \in host.images, CoreEvBake(img) PROVE AnyCall
  <2>1. ImageOK(img)
    BY HostNow
  <2>2. ImageOK([img EXCEPT !.bakeId = ActiveId(img)])
    BY <2>1, IdentifiedImage, ActiveIdPositive
  <2>3. QED
    BY <1>1, <2>2, Zenon DEF CoreEvBake, AnyCall
<1>2. ASSUME CoreEvBakeRefused \/ CoreFlashNotBaked PROVE AnyCall
  <2>1. AnyAnswer
    BY <1>0, <1>2, Zenon DEF CoreEvBakeRefused, EvBakeRefused, CoreFlashNotBaked, AnyAnswer
  <2>2. QED
    BY <2>1 DEF AnyCall
<1>3. ASSUME CoreFlash PROVE AnyCall
  <2>1. CASE EvFlashBadIngress
    <3>1. AnyAnswer
      BY <1>0, <2>1, Zenon DEF EvFlashBadIngress, AnyAnswer
    <3>2. QED
      BY <3>1 DEF AnyCall
  <2>2. QED
    BY <1>3, <2>1, Zenon DEF CoreFlash, AnyCall
<1>4. ASSUME HandedDown PROVE AnyCall
  <2>1. ASSUME NEW m \in host.resets, EvResetDomain(m) PROVE AnyCall
    BY <2>1, HostNow, Zenon DEF AnyCall
  <2>2. ASSUME EvResetNotBaked PROVE AnyCall
    <3>1. AnyAnswer
      BY <1>0, <2>2, Zenon DEF EvResetNotBaked, AnyAnswer
    <3>2. QED
      BY <3>1 DEF AnyCall
  <2>3. ASSUME NEW t \in host.tiles, TileEdit(t) PROVE AnyCall
    BY <2>3, HostNow, Zenon DEF TileEdit, AnyTileEdit, AnyCall
  <2>4. ASSUME NEW k \in host.limits, SetTileFieldLimit(k) PROVE AnyCall
    BY <2>4, HostNow, Zenon DEF AnySwarmEdit, AnyCall
  <2>5. ASSUME DetachSharedBuffer PROVE AnyCall
    BY <2>5 DEF DetachSharedBuffer, AnyBuffer, AnyCall
  <2>6. QED
    BY <1>4, <2>1, <2>2, <2>3, <2>4, <2>5, Zenon DEF HandedDown
<1>5. ASSUME CoreSetSharedBuffer PROVE AnyCall
  BY <1>5 DEF CoreSetSharedBuffer, SetSharedBuffer, AnyBuffer, AnyCall
<1>6. ASSUME NEW b \in host.doubles, CoreSetDoubleStrait(b) PROVE AnyCall
  <2>1. AnyAnswer
    BY <1>0, <1>6, Zenon DEF CoreSetDoubleStrait, AnyAnswer
  <2>2. QED
    BY <2>1 DEF AnyCall
<1>7. ASSUME FullResetBehind PROVE AnyCall
  BY <1>7 DEF FullResetBehind, AnyCall
<1>8. QED
  BY <1>1, <1>2, <1>3, <1>4, <1>5, <1>6, <1>7, Zenon DEF WrappedCall

LEMMA CoreNextIsAny ==
  ASSUME KnownHost, CoreNext
  PROVE  AnyNext
<1>1. CASE host.wrapped /\ WrappedCall /\ UNCHANGED host
  BY <1>1, WrappedIsAny DEF AnyNext
<1>2. CASE ~host.wrapped /\ Next /\ UNCHANGED <<core, shown>>
  BY <1>2, NextIsAny
<1>3. QED
  BY <1>1, <1>2 DEF CoreNext

-----------------------------------------------------------------------------
(* The programs that pour a tape                                           *)

LEMMA JobNow ==
  ASSUME KnownHost, Job # NoTape
  PROVE  JobOK(Job)
BY JobsAssumption DEF KnownHost, Job


\* A program that bakes has an image to bake.
TapeBakes ==
  Job # NoTape /\ tape.pc \in {"bake", "rebake", "close"} => Job.image # NoImage

Pcs == {"load", "bake", "periodic", "mask", "pour", "close", "rebake", "end", "done", "failed"}

Segment == [from : Nat, to : Nat, fired : BOOLEAN]

TapeTyped ==
  tape \in [pc : Pcs, packed : BOOLEAN, count : Nat, at : Nat,
            frames : Seq(Frames \cup {BadFrame}), since : Nat, segs : Seq(Segment),
            start : Nat, errors : Nat]

\* Where a program goes on is settled by whether the tape is at its end.
LEMMA StageIs ==
  ASSUME NEW count, NEW at
  PROVE  /\ Stage(count, at) \in {"end", "periodic", "mask", "pour"}
         /\ Stage(count, at) = "end" <=> at = count
BY DEF Stage, BeforeFrame

LEMMA AfterTyped ==
  ASSUME TapeTyped, NEW f \in Frames \cup {BadFrame}
  PROVE  /\ After(f) \in [pc : Pcs, packed : BOOLEAN, count : Nat, at : Nat,
                          frames : Seq(Frames \cup {BadFrame}), since : Nat,
                          segs : Seq(Segment), start : Nat, errors : Nat]
         /\ After(f).pc = Stage(tape.count, tape.at + 1)
         /\ After(f).packed = tape.packed /\ After(f).count = tape.count
         /\ After(f).at = tape.at + 1 /\ After(f).frames = Append(tape.frames, f)
         /\ After(f).since = tape.since /\ After(f).segs = tape.segs
         /\ After(f).start = tape.start /\ After(f).errors = tape.errors
<1>1. Stage(tape.count, tape.at + 1) \in Pcs
  BY StageIs DEF Pcs
<1>2. tape.at + 1 \in Nat /\ Append(tape.frames, f) \in Seq(Frames \cup {BadFrame})
  BY DEF TapeTyped
<1>3. QED
  BY <1>1, <1>2 DEF TapeTyped, After

LEMMA FrameCountNat ==
  ASSUME KnownHost, Job # NoTape, NEW size \in Job.sizes
  PROVE  FrameCount(size) \in Nat
<1>1. size \in Nat /\ Job.limit \in Nat
  BY JobNow DEF JobOK
<1>2. FrameBytes(size) \in {4, 8}
  BY DEF FrameBytes
<1>3. size \div FrameBytes(size) \in Nat
  BY <1>1, <1>2
<1>4. QED
  BY <1>1, <1>3 DEF FrameCount

LEMMA TapeKeepsType ==
  KnownHost /\ TapeTyped /\ [TapeNext]_tapeVars => TapeTyped'
<1> SUFFICES ASSUME KnownHost, TapeTyped, [TapeNext]_tapeVars PROVE TapeTyped'
  OBVIOUS
<1>s. \A c, a : Stage(c, a) \in Pcs
  BY StageIs DEF Pcs
<1>b. BeforeFrame \in Pcs
  BY DEF BeforeFrame, Pcs
<1>1. CASE UNCHANGED tape
  BY <1>1 DEF TapeTyped
<1>2. ASSUME Job # NoTape, Load PROVE TapeTyped'
  <2>1. PICK size \in Job.sizes :
          tape' = IF size % FrameBytes(size) # 0
                  THEN [tape EXCEPT !.pc = "failed"]
                  ELSE [tape EXCEPT !.packed = Packed(size), !.count = FrameCount(size),
                                    !.pc = IF Job.image = NoImage
                                           THEN Stage(FrameCount(size), 0) ELSE "bake"]
    BY <1>2 DEF Load
  <2>2. FrameCount(size) \in Nat /\ Packed(size) \in BOOLEAN
    BY <1>2, FrameCountNat DEF Packed
  <2>3. (IF Job.image = NoImage THEN Stage(FrameCount(size), 0) ELSE "bake") \in Pcs
    BY <1>s DEF Pcs
  <2>4. "failed" \in Pcs
    BY DEF Pcs
  <2>5. QED
    BY <2>1, <2>2, <2>3, <2>4 DEF TapeTyped
<1>3. ASSUME Bake \/ BakeFails \/ PeriodicReset \/ MaskReset \/ CloseGlyph
               \/ CloseSolution \/ Rebake PROVE TapeTyped'
  <2>1. PICK p \in Pcs, q \in Nat : tape' = [tape EXCEPT !.pc = p, !.since = q]
    <3>1. tape.at \in Nat /\ tape.since \in Nat
      BY DEF TapeTyped
    <3>2. \A p : [tape EXCEPT !.pc = p] = [tape EXCEPT !.pc = p, !.since = tape.since]
      BY DEF TapeTyped
    <3>3. {"failed", "pour", "rebake"} \subseteq Pcs
      BY DEF Pcs
    <3>4. CASE Bake
      BY <3>1, <3>2, <3>4, <1>s DEF Bake
    <3>5. CASE BakeFails
      BY <3>1, <3>2, <3>3, <3>5 DEF BakeFails
    <3>6. CASE PeriodicReset
      BY <3>1, <3>6, <1>b DEF PeriodicReset
    <3>7. CASE MaskReset
      BY <3>1, <3>3, <3>7 DEF MaskReset
    <3>8. CASE CloseGlyph
      BY <3>1, <3>8, <1>s DEF CloseGlyph
    <3>9. CASE CloseSolution
      BY <3>1, <3>3, <3>9 DEF CloseSolution
    <3>10. CASE Rebake
      BY ZenonT(30), <3>1, <3>2, <3>10, <1>s DEF Rebake
    <3>11. QED
      BY <1>3, <3>4, <3>5, <3>6, <3>7, <3>8, <3>9, <3>10
  <2>2. QED
    BY <2>1 DEF TapeTyped
<1>4. ASSUME ReadBadFrame PROVE TapeTyped'
  <2>1. "failed" \in Pcs
    BY DEF Pcs
  <2>2. CASE Job.prog = "inspect"
    BY <1>4, <2>1, <2>2 DEF ReadBadFrame, TapeTyped
  <2>3. CASE Job.prog # "inspect"
    <3>1. tape' = [After(BadFrame) EXCEPT !.errors = @ + 1]
      BY <1>4, <2>3 DEF ReadBadFrame
    <3> DEFINE a == After(BadFrame)
    <3>2. tape' = [a EXCEPT !.errors = a.errors + 1]
      BY <3>1
    <3>3. a \in [pc : Pcs, packed : BOOLEAN, count : Nat, at : Nat,
                 frames : Seq(Frames \cup {BadFrame}), since : Nat,
                 segs : Seq(Segment), start : Nat, errors : Nat]
      BY AfterTyped
    <3> HIDE DEF a
    <3>4. a.errors + 1 \in Nat
      BY <3>3
    <3>5. QED
      BY <3>2, <3>3, <3>4 DEF TapeTyped
  <2>4. QED
    BY <2>2, <2>3
<1>5. ASSUME Decode PROVE TapeTyped'
  BY SMTT(30), <1>5, AfterTyped DEF Decode, TapeTyped
<1>6. ASSUME Pour PROVE TapeTyped'
  <2>1. PICK f \in Frames :
          LET ends  == EndsGlyph(rt'.snap)
              noted == IF ends /\ Job.prog = "inspect" THEN SegmentEnds(After(f)) ELSE After(f)
          IN  tape' = IF ends /\ Job.close THEN [noted EXCEPT !.pc = "close"] ELSE noted
    BY <1>6 DEF Pour
  <2> DEFINE seg == [from |-> tape.start, to |-> tape.at, fired |-> TRUE]
  <2>2. seg \in Segment /\ tape.at + 1 \in Nat /\ "close" \in Pcs
    BY DEF TapeTyped, Segment, Pcs
  <2>3. Append(tape.segs, seg) \in Seq(Segment)
    BY <2>2 DEF TapeTyped
  <2>4. SegmentEnds(After(f)) =
          [After(f) EXCEPT !.segs = Append(tape.segs, seg), !.start = tape.at + 1]
    BY AfterTyped DEF SegmentEnds
  <2> HIDE DEF seg
  <2>5. QED
    BY ZenonT(30), <2>1, <2>2, <2>3, <2>4, AfterTyped DEF TapeTyped
<1>7. ASSUME End PROVE TapeTyped'
  <2>1. Unresolved \in Seq(Segment)
    <3>1. (IF tape.count = 0 THEN 0 ELSE tape.count - 1) \in Nat /\ tape.start \in Nat
      BY DEF TapeTyped
    <3> DEFINE last == [from |-> tape.start, to |-> IF tape.count = 0 THEN 0 ELSE tape.count - 1,
                        fired |-> FALSE]
    <3>2. last \in Segment
      BY <3>1 DEF Segment
    <3> HIDE DEF last
    <3>3. <<last>> \in Seq(Segment) /\ <<>> \in Seq(Segment)
      BY <3>2
    <3>4. QED
      BY <3>3 DEF Unresolved, last
  <2>2. "done" \in Pcs /\ tape.segs \o Unresolved \in Seq(Segment)
    BY <2>1 DEF Pcs, TapeTyped
  <2>3. QED
    BY <1>7, <2>2 DEF End, TapeTyped
<1>8. QED
  BY <1>1, <1>2, <1>3, <1>4, <1>5, <1>6, <1>7 DEF TapeNext, TapeCall, Exited, tapeVars

\* The calls of the swarm that a program makes are calls of any caller.
LEMMA TapeCallIsAny ==
  ASSUME KnownHost, Job # NoTape, TapeBakes, TapeCall
  PROVE  AnyCall
<1>0. "BAD_BLOB" # "OK"
  OBVIOUS
<1>1. ASSUME Bake \/ Rebake PROVE AnyCall
  <2>1. Job.image # NoImage /\ EvBake(Job.image)
    BY <1>1 DEF Bake, Rebake, TapeBakes
  <2>2. ImageOK(Job.image)
    BY <2>1, JobNow DEF JobOK
  <2>3. QED
    BY <2>1, <2>2, Zenon DEF AnyCall
<1>2. ASSUME BakeFails PROVE AnyCall
  <2>1. AnyAnswer
    BY <1>0, <1>2, Zenon DEF BakeFails, EvBakeRefused, AnyAnswer
  <2>2. QED
    BY <2>1 DEF AnyCall
<1>3. ASSUME PeriodicReset \/ CloseGlyph PROVE AnyCall
  <2>1. EvResetDomain(Domains) /\ Domains \in SUBSET Domains
    BY <1>3 DEF PeriodicReset, CloseGlyph
  <2>2. QED
    BY <2>1, Zenon DEF AnyCall
<1>4. ASSUME MaskReset PROVE AnyCall
  <2>1. EvResetDomain(Job.mask) /\ Job.mask \in SUBSET Domains
    BY <1>4, JobNow DEF MaskReset, JobOK
  <2>2. QED
    BY <2>1, Zenon DEF AnyCall
<1>5. ASSUME Pour PROVE AnyCall
  BY <1>5, Zenon DEF Pour, AnyCall
<1>6. ASSUME CloseSolution PROVE AnyCall
  BY <1>6 DEF CloseSolution, AnyCall
<1>7. QED
  BY <1>1, <1>2, <1>3, <1>4, <1>5, <1>6, Zenon DEF TapeCall

LEMMA TapeNextIsAny ==
  KnownHost /\ TapeBakes /\ [TapeNext]_tapeVars => [AnyNext]_vars /\ KnownHost'
<1> SUFFICES ASSUME KnownHost, TapeBakes, [TapeNext]_tapeVars
             PROVE  [AnyNext]_vars /\ KnownHost'
  OBVIOUS
<1>1. [AnyNext]_vars
  <2>1. CASE Job = NoTape /\ CoreNext /\ UNCHANGED tape
    BY <2>1, CoreNextIsAny
  <2>2. CASE Job # NoTape /\ TapeCall /\ UNCHANGED <<host, core, shown>>
    BY <2>2, TapeCallIsAny DEF AnyNext
  <2>3. CASE Load \/ ReadBadFrame \/ Decode \/ End \/ Exited
    BY <2>3, Zenon DEF Load, ReadBadFrame, Decode, End, Exited, coreVars
  <2>4. CASE UNCHANGED tapeVars
    BY <2>4 DEF tapeVars, coreVars
  <2>5. QED
    BY <2>1, <2>2, <2>3, <2>4 DEF TapeNext
<1>2. KnownHost'
  BY <1>1 DEF AnyNext, vars, KnownHost
<1>3. QED
  BY <1>1, <1>2

LEMMA TapeKeepsBakes ==
  TapeTyped /\ TapeBakes /\ [TapeNext]_tapeVars => TapeBakes'
<1> SUFFICES ASSUME TapeTyped, TapeBakes, [TapeNext]_tapeVars PROVE TapeBakes'
  OBVIOUS
<1>0. \A p \in {"end", "periodic", "mask", "pour", "failed", "done"} :
        p \notin {"bake", "rebake", "close"}
  OBVIOUS
<1>1. CASE UNCHANGED <<host, tape>>
  BY <1>1 DEF TapeBakes, Job
<1>2. CASE Job # NoTape /\ TapeNext
  <2>1. host' = host
    BY <1>2 DEF TapeNext, Load, ReadBadFrame, Decode, End, Exited, coreVars, vars
  <2>2. CASE Job.image # NoImage
    BY <2>1, <2>2 DEF TapeBakes, Job
  <2>3. CASE Job.image = NoImage
    <3>1. tape.pc \notin {"bake", "rebake", "close"}
      BY <1>2, <2>3 DEF TapeBakes
    <3>2. Load => tape'.pc \in {"failed", "end", "periodic", "mask", "pour"}
      BY <2>3, StageIs DEF Load, TapeTyped
    <3>3. (ReadBadFrame \/ Decode) => tape'.pc \in {"failed", "end", "periodic", "mask", "pour"}
      BY SMTT(30), AfterTyped, StageIs DEF ReadBadFrame, Decode, TapeTyped
    <3>4. (PeriodicReset \/ MaskReset) => tape'.pc \in {"mask", "pour"}
      BY DEF PeriodicReset, MaskReset, BeforeFrame, TapeTyped
    <3>5. (End => tape'.pc = "done") /\ (Exited => tape' = tape)
      BY DEF End, Exited, TapeTyped
    <3>6. ~Bake /\ ~BakeFails /\ ~Pour /\ ~CloseGlyph /\ ~CloseSolution /\ ~Rebake
      BY <2>3, <3>1 DEF Bake, BakeFails, Pour, CloseGlyph, CloseSolution, Rebake
    <3>7. tape'.pc \notin {"bake", "rebake", "close"}
      BY <1>0, <1>2, <3>1, <3>2, <3>3, <3>4, <3>5, <3>6 DEF TapeNext, TapeCall
    <3>8. QED
      BY <3>7 DEF TapeBakes
  <2>4. QED
    BY <2>2, <2>3
<1>3. CASE Job = NoTape /\ TapeNext
  BY <1>3 DEF TapeNext, CoreNext, WrappedCall, TapeBakes, Job, Next
<1>4. QED
  BY <1>1, <1>2, <1>3 DEF tapeVars, coreVars, vars

LEMMA TapeKnown == TapeSpec => [](KnownHost /\ TapeTyped /\ TapeBakes)
<1>1. TapeInit => KnownHost /\ TapeTyped /\ TapeBakes
  BY DEF TapeInit, CoreInit, Init, KnownHost, TapeTyped, TapeBakes, Pcs
<1>2. QED
  BY <1>1, TapeNextIsAny, TapeKeepsType, TapeKeepsBakes, PTL DEF TapeSpec

\* What is proved of any caller holds of the wrapper's host and of the programs
\* that pour a tape.
THEOREM TapeIsAny == TapeSpec => AnySpec
<1>1. TapeInit => Init
  BY DEF TapeInit, CoreInit
<1>2. QED
  BY <1>1, TapeKnown, TapeNextIsAny, PTL DEF TapeSpec, AnySpec

-----------------------------------------------------------------------------
(* The segments of inspect-tape                                            *)

\* Fired segments that cut what comes before frame number start into pieces.
Chain(segs, start) ==
  /\ segs = <<>> <=> start = 0
  /\ Len(segs) <= start
  /\ segs # <<>> => segs[1].from = 0 /\ segs[Len(segs)].to = start - 1
  /\ \A i \in 1 .. Len(segs) : segs[i].from <= segs[i].to /\ segs[i].fired
  /\ \A i \in 1 .. Len(segs) - 1 : segs[i + 1].from = segs[i].to + 1

LEMMA ChainGrows ==
  ASSUME NEW segs \in Seq(Segment), NEW start \in Nat, NEW to \in Nat, start <= to,
         Chain(segs, start)
  PROVE  Chain(Append(segs, [from |-> start, to |-> to, fired |-> TRUE]), to + 1)
<1> DEFINE seg == [from |-> start, to |-> to, fired |-> TRUE]
           all == Append(segs, seg)
<1>1. seg \in Segment /\ seg.from = start /\ seg.to = to /\ seg.fired
  BY DEF Segment
<1> HIDE DEF seg
<1>2. all \in Seq(Segment) /\ Len(all) = Len(segs) + 1 /\ all[Len(segs) + 1] = seg
  BY <1>1
<1>3. \A i \in 1 .. Len(segs) : all[i] = segs[i]
  BY <1>1
<1>4. Len(segs) \in Nat /\ (segs = <<>> <=> Len(segs) = 0)
  OBVIOUS
<1>8. \A i \in 1 .. Len(segs) : segs[i].to \in Nat
  <2>1. \A i \in 1 .. Len(segs) : segs[i] \in Segment
    OBVIOUS
  <2>2. QED
    BY <2>1 DEF Segment
<1> HIDE DEF all
<1>5. all # <<>> => all[1].from = 0 /\ all[Len(all)].to = to
  <2>1. CASE segs = <<>>
    BY <1>1, <1>2, <1>4, <2>1 DEF Chain
  <2>2. CASE segs # <<>>
    BY <1>1, <1>2, <1>3, <1>4, <2>2 DEF Chain
  <2>3. QED
    BY <2>1, <2>2
<1>6. \A i \in 1 .. Len(all) : all[i].from <= all[i].to /\ all[i].fired
  BY <1>1, <1>2, <1>3, <1>4 DEF Chain
<1>7. \A i \in 1 .. Len(all) - 1 : all[i + 1].from = all[i].to + 1
  <2> SUFFICES ASSUME NEW i \in 1 .. Len(all) - 1 PROVE all[i + 1].from = all[i].to + 1
    OBVIOUS
  <2>1. CASE i = Len(segs)
    BY <1>1, <1>2, <1>3, <1>4, <1>8, <2>1 DEF Chain
  <2>2. CASE i # Len(segs)
    BY SMTT(30), <1>1, <1>2, <1>3, <1>4, <2>2 DEF Chain
  <2>3. QED
    BY <2>1, <2>2
<1>9. all # <<>> /\ Len(all) <= to + 1 /\ to + 1 - 1 = to /\ to + 1 # 0
  BY <1>2, <1>4 DEF Chain
<1>10. Chain(all, to + 1)
  BY <1>5, <1>6, <1>7, <1>9 DEF Chain
<1>11. QED
  BY <1>10 DEF all, seg

\* Where a program is in its tape, and what it has found so far.
TapeProgress ==
  /\ tape.start <= tape.at /\ tape.at <= tape.count
  /\ tape.pc \in {"load", "bake"} => tape.at = 0
  /\ tape.pc \in {"periodic", "mask", "pour"} => tape.at # tape.count
  /\ tape.pc = "end" => tape.at = tape.count
  /\ tape.pc # "done" => Chain(tape.segs, tape.start)

SegmentsInv == TapeProgress /\ SegmentsPartition

LEMMA ProgressKeeps ==
  ASSUME KnownHost, TapeTyped, TapeProgress, tape.pc # "done", Job # NoTape,
         [TapeNext]_tapeVars, ~End
  PROVE  TapeProgress' /\ (tape'.pc # "done" \/ tape' = tape)
<1>t. tape.at \in Nat /\ tape.count \in Nat /\ tape.start \in Nat /\ tape.segs \in Seq(Segment)
  BY DEF TapeTyped
<1>s. \A c, a : /\ Stage(c, a) \notin {"done", "load", "bake"}
                /\ Stage(c, a) = "end" <=> a = c
  <2>1. \A x \in {"end", "periodic", "mask", "pour"} : x \notin {"done", "load", "bake"}
    OBVIOUS
  <2>2. QED
    BY <2>1, StageIs
<1>b. BeforeFrame \in {"mask", "pour"}
  BY DEF BeforeFrame
<1>0. \A x \in {"mask", "pour", "close", "rebake", "failed"} : x \notin {"done", "load", "bake", "end"}
  OBVIOUS
<1>1. CASE UNCHANGED tape
  BY <1>1 DEF TapeProgress
<1>2. ASSUME Load PROVE TapeProgress' /\ tape'.pc # "done"
  <2>1. PICK size \in Job.sizes :
          tape' = IF size % FrameBytes(size) # 0
                  THEN [tape EXCEPT !.pc = "failed"]
                  ELSE [tape EXCEPT !.packed = Packed(size), !.count = FrameCount(size),
                                    !.pc = IF Job.image = NoImage
                                           THEN Stage(FrameCount(size), 0) ELSE "bake"]
    BY <1>2 DEF Load
  <2>2. FrameCount(size) \in Nat
    BY FrameCountNat
  <2>3. tape.at = 0 /\ tape.start = 0
    BY <1>2, <1>t DEF Load, TapeProgress
  <2>4. /\ tape'.at = tape.at /\ tape'.start = tape.start /\ tape'.segs = tape.segs
        /\ \/ tape'.pc = "failed" /\ tape'.count = tape.count
           \/ tape'.pc = "bake" /\ tape'.count = FrameCount(size)
           \/ tape'.pc = Stage(FrameCount(size), 0) /\ tape'.count = FrameCount(size)
    BY <2>1 DEF TapeTyped
  <2>5. QED
    BY <1>t, <1>s, <1>0, <2>2, <2>3, <2>4 DEF TapeProgress
<1>3. ASSUME Bake \/ BakeFails \/ PeriodicReset \/ MaskReset \/ CloseGlyph
               \/ CloseSolution \/ Rebake
      PROVE  TapeProgress' /\ tape'.pc # "done"
  <2>1. /\ tape'.at = tape.at /\ tape'.start = tape.start /\ tape'.segs = tape.segs
        /\ tape'.count = tape.count
    BY <1>3 DEF Bake, BakeFails, PeriodicReset, MaskReset, CloseGlyph, CloseSolution, Rebake,
                TapeTyped
  <2>2. \/ tape'.pc = Stage(tape.count, tape.at)
        \/ tape'.pc \in {"failed", "rebake"}
        \/ tape'.pc \in {"mask", "pour"} /\ tape.pc \in {"periodic", "mask"}
    <3>1. CASE Bake
      BY <3>1, <1>t DEF Bake, TapeTyped, TapeProgress
    <3>2. CASE BakeFails
      BY <3>2 DEF BakeFails, TapeTyped
    <3>3. CASE PeriodicReset
      BY <3>3, <1>b DEF PeriodicReset, TapeTyped
    <3>4. CASE MaskReset
      BY <3>4 DEF MaskReset, TapeTyped
    <3>5. CASE CloseGlyph \/ CloseSolution \/ Rebake
      BY <3>5 DEF CloseGlyph, CloseSolution, Rebake, TapeTyped
    <3>6. QED
      BY <1>3, <3>1, <3>2, <3>3, <3>4, <3>5
  <2>3. QED
    BY <1>t, <1>s, <1>0, <2>1, <2>2 DEF TapeProgress
<1>4. ASSUME NEW f \in Frames \cup {BadFrame}, tape.pc = "pour",
             \/ tape' = After(f)
             \/ tape' = [After(f) EXCEPT !.errors = @ + 1]
             \/ tape' = [After(f) EXCEPT !.pc = "close"]
      PROVE  TapeProgress' /\ tape'.pc # "done"
  <2>1. /\ tape'.at = tape.at + 1 /\ tape'.start = tape.start /\ tape'.segs = tape.segs
        /\ tape'.count = tape.count
        /\ tape'.pc \in {Stage(tape.count, tape.at + 1), "close"}
    BY <1>4, AfterTyped
  <2>2. tape.at + 1 <= tape.count
    BY <1>4, <1>t DEF TapeProgress
  <2>3. QED
    BY <1>t, <1>s, <1>0, <1>4, <2>1, <2>2 DEF TapeProgress
<1>5. ASSUME NEW f \in Frames, tape.pc = "pour",
             \/ tape' = SegmentEnds(After(f))
             \/ tape' = [SegmentEnds(After(f)) EXCEPT !.pc = "close"]
      PROVE  TapeProgress' /\ tape'.pc # "done"
  <2> DEFINE seg == [from |-> tape.start, to |-> tape.at, fired |-> TRUE]
  <2> DEFINE all == Append(tape.segs, seg)
  <2>0. /\ SegmentEnds(After(f)) = [After(f) EXCEPT !.segs = all, !.start = tape.at + 1]
        /\ After(f).count = tape.count /\ After(f).at = tape.at + 1
        /\ After(f).pc = Stage(tape.count, tape.at + 1)
    BY AfterTyped DEF SegmentEnds
  <2>9. After(f) \in [pc : Pcs, packed : BOOLEAN, count : Nat, at : Nat,
                     frames : Seq(Frames \cup {BadFrame}), since : Nat,
                     segs : Seq(Segment), start : Nat, errors : Nat]
    BY AfterTyped
  <2> HIDE DEF all
  <2>1. /\ tape'.at = tape.at + 1 /\ tape'.start = tape.at + 1
        /\ tape'.segs = all
        /\ tape'.count = tape.count
        /\ tape'.pc \in {Stage(tape.count, tape.at + 1), "close"}
    BY ZenonT(30), <1>5, <2>0, <2>9
  <2> USE DEF all
  <2>2. tape.at + 1 <= tape.count
    BY <1>5, <1>t DEF TapeProgress
  <2>3. Chain(tape'.segs, tape.at + 1)
    BY <1>t, <1>5, <2>1, ChainGrows DEF TapeProgress
  <2> HIDE DEF seg
  <2>4. QED
    BY <1>t, <1>s, <1>0, <1>5, <2>1, <2>2, <2>3 DEF TapeProgress
<1>6. ASSUME ReadBadFrame PROVE TapeProgress' /\ tape'.pc # "done"
  <2>1. CASE Job.prog = "inspect"
    <3>1. /\ tape'.at = tape.at /\ tape'.start = tape.start /\ tape'.segs = tape.segs
          /\ tape'.count = tape.count /\ tape'.pc = "failed"
      BY <1>6, <2>1 DEF ReadBadFrame, TapeTyped
    <3>2. QED
      BY <1>t, <1>0, <3>1 DEF TapeProgress
  <2>2. CASE Job.prog # "inspect"
    BY <1>6, <1>4, <2>2 DEF ReadBadFrame
  <2>3. QED
    BY <2>1, <2>2
<1>7. ASSUME Decode PROVE TapeProgress' /\ tape'.pc # "done"
  BY <1>7, <1>4 DEF Decode
<1>8. ASSUME Pour PROVE TapeProgress' /\ tape'.pc # "done"
  <2>1. PICK f \in Frames :
          LET ends  == EndsGlyph(rt'.snap)
              noted == IF ends /\ Job.prog = "inspect" THEN SegmentEnds(After(f)) ELSE After(f)
          IN  tape' = IF ends /\ Job.close THEN [noted EXCEPT !.pc = "close"] ELSE noted
    BY <1>8 DEF Pour
  <2>2. \/ tape' = After(f) \/ tape' = [After(f) EXCEPT !.pc = "close"]
        \/ tape' = SegmentEnds(After(f))
        \/ tape' = [SegmentEnds(After(f)) EXCEPT !.pc = "close"]
    BY <2>1, Zenon
  <2>3. tape.pc = "pour"
    BY <1>8 DEF Pour
  <2>4. QED
    BY <1>4, <1>5, <2>2, <2>3
<1>9. QED
  BY <1>1, <1>2, <1>3, <1>6, <1>7, <1>8 DEF TapeNext, TapeCall, Exited, tapeVars

LEMMA HostKept ==
  [TapeNext]_tapeVars => host' = host
<1> SUFFICES ASSUME [TapeNext]_tapeVars PROVE host' = host
  OBVIOUS
<1>1. CASE CoreNext
  BY <1>1, Zenon DEF CoreNext, Next
<1>2. CASE Load \/ ReadBadFrame \/ Decode \/ End \/ Exited
  BY <1>2, Zenon DEF Load, ReadBadFrame, Decode, End, Exited, coreVars, vars
<1>3. QED
  BY <1>1, <1>2, Zenon DEF TapeNext, tapeVars, coreVars, vars

LEMMA SegmentsKeep ==
  KnownHost /\ TapeTyped /\ SegmentsInv /\ [TapeNext]_tapeVars => SegmentsInv'
<1> SUFFICES ASSUME KnownHost, TapeTyped, SegmentsInv, [TapeNext]_tapeVars PROVE SegmentsInv'
  OBVIOUS
<1>t. /\ tape.at \in Nat /\ tape.count \in Nat /\ tape.start \in Nat
      /\ tape.segs \in Seq(Segment)
  BY DEF TapeTyped
<1>j. Job' = Job
  BY HostKept DEF Job
<1>1. CASE UNCHANGED tape
  BY <1>1, <1>j DEF SegmentsInv, TapeProgress, SegmentsPartition, Inspected
<1>2. CASE Job # NoTape /\ tape.pc # "done" /\ ~End
  <2>1. TapeProgress' /\ (tape'.pc # "done" \/ tape' = tape)
    BY <1>2, ProgressKeeps DEF SegmentsInv
  <2>2. QED
    <3>1. CASE tape' = tape
      BY <1>1, <3>1
    <3>2. CASE tape'.pc # "done"
      <4>1. TapeTyped'
        BY TapeKeepsType
      <4>2. /\ Chain(tape'.segs, tape'.start) /\ tape'.start <= tape'.count
            /\ tape'.start \in Nat /\ tape'.count \in Nat /\ Len(tape'.segs) \in Nat
        BY SMTT(30), <2>1, <3>2, <4>1 DEF TapeProgress, TapeTyped
      <4>3. Len(tape'.segs) <= tape'.count + 1
        BY <4>2 DEF Chain
      <4>4. SegmentsPartition'
        BY <3>2, <4>3 DEF SegmentsPartition, Inspected
      <4>5. QED
        BY <2>1, <4>4 DEF SegmentsInv
    <3>3. QED
      BY <2>1, <3>1, <3>2
<1>3. CASE Job # NoTape /\ End
  <2> DEFINE segs == tape.segs
             all  == tape'.segs
             last == [from |-> tape.start, to |-> IF tape.count = 0 THEN 0 ELSE tape.count - 1,
                      fired |-> FALSE]
  <2>1. /\ Chain(segs, tape.start) /\ tape.at = tape.count /\ tape.start <= tape.count
        /\ tape.pc # "done"
    BY <1>3, <1>t DEF End, SegmentsInv, TapeProgress
  <2>2. /\ tape'.at = tape.at /\ tape'.start = tape.start /\ tape'.count = tape.count
        /\ tape'.pc = "done"
        /\ all = IF Job.prog = "inspect" THEN segs \o Unresolved ELSE segs
    BY <1>3 DEF End, TapeTyped
  <2>3. TapeProgress'
    BY <2>1, <2>2, <1>t DEF SegmentsInv, TapeProgress
  <2>4. CASE all = segs /\ (Job.prog # "inspect" \/ (tape.start = tape.count /\ segs # <<>>))
    <3>1. Len(segs) \in Nat /\ DOMAIN segs = 1 .. Len(segs)
      BY <1>t
    <3>2. Len(all) <= tape'.count + 1
      <4>1. Len(segs) <= tape.start /\ tape'.count = tape.count /\ Len(all) = Len(segs)
        BY <2>1, <2>2, <2>4 DEF Chain
      <4>2. QED
        BY <1>t, <2>1, <3>1, <4>1
    <3> HIDE DEF all, segs
    <3>3. Inspected' =>
            /\ all[1].from = 0 /\ all[Len(all)].to = tape'.count - 1
            /\ \A i \in DOMAIN all : all[i].from <= all[i].to
            /\ \A i \in 1 .. Len(all) - 1 : all[i + 1].from = all[i].to + 1 /\ all[i].fired
      BY <1>j, <2>1, <2>2, <2>4, <3>1 DEF Chain, Inspected
    <3>4. SegmentsPartition'
      BY <3>2, <3>3 DEF SegmentsPartition, all
    <3>5. QED
      BY <2>3, <3>4 DEF SegmentsInv
  <2>5. CASE all = segs \o <<last>> /\ (tape.start < tape.count \/ segs = <<>>)
    <3>1. last \in Segment /\ last.from = tape.start
      BY <1>t DEF Segment
    <3>2. tape.count > 0 => last.to = tape.count - 1 /\ last.from <= last.to
      BY <1>t, <2>1, <2>5 DEF Chain
    <3> HIDE DEF last
    <3>3. /\ Len(all) = Len(segs) + 1 /\ all[Len(segs) + 1] = last /\ Len(segs) \in Nat
          /\ \A i \in 1 .. Len(segs) : all[i] = segs[i]
      BY <1>t, <2>5, <3>1
    <3>4. DOMAIN all = 1 .. Len(segs) + 1
      BY <1>t, <2>5, <3>1
    <3>5. Len(segs) = 0 <=> segs = <<>>
      BY <1>t
    <3>6. \A i \in 1 .. Len(segs) : segs[i].to \in Nat
      <4>1. \A i \in 1 .. Len(segs) : segs[i] \in Segment
        BY <1>t
      <4>2. QED
        BY <4>1 DEF Segment
    <3> HIDE DEF all, segs
    <3>7. Len(all) <= tape.count + 1
      BY <1>t, <2>1, <3>3 DEF Chain
    <3>8. ASSUME tape.count > 0 PROVE all[1].from = 0 /\ all[Len(all)].to = tape.count - 1
      BY <1>t, <2>1, <3>1, <3>2, <3>3, <3>5, <3>8 DEF Chain
    <3>9. ASSUME tape.count > 0, NEW i \in 1 .. Len(segs) + 1 PROVE all[i].from <= all[i].to
      BY SMTT(30), <1>t, <2>1, <3>1, <3>2, <3>3, <3>5, <3>9 DEF Chain
    <3>10. ASSUME NEW i \in 1 .. Len(segs)
           PROVE  all[i + 1].from = all[i].to + 1 /\ all[i].fired
      <4>1. CASE i = Len(segs)
        BY <1>t, <2>1, <3>1, <3>3, <3>5, <3>6, <4>1 DEF Chain
      <4>2. CASE i # Len(segs)
        BY <2>1, <3>3, <4>2 DEF Chain
      <4>3. QED
        BY <4>1, <4>2
    <3>11. SegmentsPartition'
      BY <1>t, <2>2, <3>3, <3>4, <3>7, <3>8, <3>9, <3>10 DEF SegmentsPartition, Inspected, all
    <3>12. QED
      BY <2>3, <3>11 DEF SegmentsInv
  <2>6. CASE Job.prog = "inspect" /\ (tape.start < tape.count \/ segs = <<>>)
    <3>1. all = segs \o <<last>>
      BY <2>2, <2>6 DEF Unresolved
    <3>2. QED
      BY <2>5, <2>6, <3>1
  <2>7. CASE ~(Job.prog = "inspect" /\ (tape.start < tape.count \/ segs = <<>>))
    <3>1. segs \o <<>> = segs
      BY <1>t
    <3>2. all = segs
      BY <2>2, <2>7, <3>1 DEF Unresolved
    <3>3. tape.start < tape.count \/ tape.start = tape.count
      BY <1>t, <2>1
    <3>4. Job.prog # "inspect" \/ (tape.start = tape.count /\ segs # <<>>)
      BY <2>7, <3>3
    <3>5. QED
      BY <2>4, <3>2, <3>4
  <2>8. QED
    BY <2>6, <2>7
<1>4. QED
  BY <1>1, <1>2, <1>3 DEF TapeNext, TapeCall, Exited, Load, Bake, BakeFails, PeriodicReset,
     MaskReset, ReadBadFrame, Pour, Decode, CloseGlyph, CloseSolution, Rebake, End, tapeVars

LEMMA SegmentsStart == TapeInit => SegmentsInv
<1> SUFFICES ASSUME TapeInit PROVE SegmentsInv
  OBVIOUS
<1>1. /\ tape.at = 0 /\ tape.count = 0 /\ tape.start = 0 /\ tape.pc = "load"
      /\ tape.segs = <<>>
  BY DEF TapeInit
<1>2. Len(tape.segs) = 0
  BY <1>1
<1>3. QED
  BY <1>1, <1>2 DEF SegmentsInv, TapeProgress, SegmentsPartition, Inspected, Chain

\* Whatever the tape and the swarm: the segments that inspect-tape writes cut
\* the tape into consecutive pieces, and their array never overflows.
THEOREM SegmentsCutTheTape == TapeSpec => []SegmentsPartition
<1>1. TapeInit => SegmentsInv
  BY SegmentsStart
<1>2. SegmentsInv => SegmentsPartition
  BY DEF SegmentsInv
<1>3. QED
  BY <1>1, <1>2, TapeKnown, SegmentsKeep, PTL DEF TapeSpec

-----------------------------------------------------------------------------
(* The wrapper's record of a bake                                          *)

\* Nothing but a bake, an edit of the id or a creation touches the id.
LEMMA IdKept ==
  ASSUME KnownHost, HandedDown
  PROVE  /\ cfg'.applied = cfg.applied /\ cfg'.bakeId = cfg.bakeId
         /\ shared' # <<>> => shared # <<>>
<1>1. ASSUME EvResetNotBaked \/ DetachSharedBuffer
      PROVE  cfg' = cfg /\ (shared' # <<>> => shared # <<>>)
  BY <1>1 DEF EvResetNotBaked, DetachSharedBuffer
<1>2. ASSUME NEW m \in host.resets, EvResetDomain(m) PROVE cfg' = cfg /\ shared' = shared
  BY <1>2 DEF EvResetDomain
<1>3. ASSUME NEW t \in host.tiles, TileEdit(t)
      PROVE  /\ cfg'.applied = cfg.applied /\ cfg'.bakeId = cfg.bakeId
             /\ shared' = shared
  <2> DEFINE same == /\ cfg'.applied = cfg.applied /\ cfg'.bakeId = cfg.bakeId
                     /\ shared' = shared
  <2>1. ASSUME NEW e \in host.params, SetTileParams(t, e) PROVE same
    BY <2>1 DEF SetTileParams, Edit
  <2>2. ASSUME NEW p \in host.patterns, SetTilePatternId(t, p) PROVE same
    BY <2>2 DEF SetTilePatternId, Edit
  <2>3. ASSUME NEW m \in host.resets, SetTileResetOnFireMask(t, m) PROVE same
    BY <2>3 DEF SetTileResetOnFireMask, Edit
  <2>4. ASSUME NEW w \in host.weights, SetTileWeight(t, w) PROVE same
    BY <2>4 DEF SetTileWeight, Edit
  <2>5. ASSUME NEW e \in host.masks, SetTileRoutingMasks(t, e) PROVE same
    BY <2>5 DEF SetTileRoutingMasks, Edit
  <2>6. ASSUME NEW b \in host.locks, SetTileLocked(t, b) PROVE same
    BY <2>6 DEF SetTileLocked
  <2> HIDE DEF same
  <2>7. same
    BY <1>3, <2>1, <2>2, <2>3, <2>4, <2>5, <2>6 DEF TileEdit
  <2>8. QED
    BY <2>7 DEF same
<1>4. ASSUME NEW k \in host.limits, SetTileFieldLimit(k)
      PROVE  /\ cfg'.applied = cfg.applied /\ cfg'.bakeId = cfg.bakeId
             /\ shared' = shared
  BY <1>4 DEF SetTileFieldLimit, Edit, Limited
<1>5. QED
  BY <1>1, <1>2, <1>3, <1>4 DEF HandedDown

\* Only a host that is wrapped, and pours no tape, makes the wrapper bake.
BakeIdsInv ==
  /\ \E b, s, l : core = [baked |-> b, strait |-> s, last |-> l]
  /\ shown \in [snap : Nat, buf : Nat]
  /\ core.baked => host.wrapped /\ Job = NoTape
  /\ BakeIdsAgree

LEMMA BakeIdsCall ==
  ASSUME KnownHost, CoreOK, BakeIdsInv, WrappedCall, UNCHANGED host, host.wrapped, Job = NoTape
  PROVE  BakeIdsInv'
<1>h. Job' = Job /\ host'.wrapped
  BY DEF Job
<1>c. PICK b0, s0, l0 : core = [baked |-> b0, strait |-> s0, last |-> l0]
  BY DEF BakeIdsInv
<1>s. shown \in [snap : Nat, buf : Nat]
  BY DEF BakeIdsInv
<1>1. ASSUME NEW img \in host.images, CoreEvBake(img) PROVE BakeIdsInv'
  <2> DEFINE id == ActiveId(img)
  <2>1. id \in Nat /\ id > 0
    BY HostNow, ActiveIdPositive
  <2> HIDE DEF id
  <2>2. cfg'.applied /\ cfg'.bakeId = id /\ shared' = shared
    BY <1>1 DEF CoreEvBake, EvBake, BakedConfig, id
  <2>3. core' = [baked |-> TRUE, strait |-> s0, last |-> l0]
    BY <1>1, <1>c DEF CoreEvBake
  <2>4. shown' = [snap |-> id, buf |-> IF shared = <<>> THEN shown.buf ELSE id]
    BY <1>1 DEF CoreEvBake, ShownEverywhere, id
  <2>5. QED
    BY <1>h, <1>s, <2>1, <2>2, <2>3, <2>4 DEF BakeIdsInv, BakeIdsAgree
<1>2. CASE CoreEvBakeRefused \/ CoreFlashNotBaked
  <2>1. UNCHANGED <<cfg, shared, core, shown>>
    BY <1>2 DEF CoreEvBakeRefused, EvBakeRefused, CoreFlashNotBaked
  <2>2. QED
    BY <1>h, <2>1 DEF BakeIdsInv, BakeIdsAgree
<1>3. CASE CoreFlash
  <2>1. cfg' = cfg /\ shown' = shown /\ (shared' # <<>> => shared # <<>>)
    BY <1>3 DEF CoreFlash, EvFlash, EvFlashBadIngress
  <2>2. core' = [baked |-> b0, strait |-> s0, last |-> [st |-> res'.st, readout |-> res'.readout]]
    BY <1>3, <1>c DEF CoreFlash, Keep
  <2>3. core'.baked = core.baked
    BY <2>2, <1>c
  <2>4. QED
    BY <1>h, <2>1, <2>2, <2>3 DEF BakeIdsInv, BakeIdsAgree
<1>4. CASE HandedDown
  <2>1. UNCHANGED <<core, shown>>
    BY <1>4 DEF HandedDown
  <2>2. QED
    BY <1>4, <1>h, <2>1, IdKept DEF BakeIdsInv, BakeIdsAgree
<1>5. CASE CoreSetSharedBuffer
  <2>1. cfg' = cfg /\ core' = core /\ shown' = [shown EXCEPT !.buf = 0]
    BY <1>5 DEF CoreSetSharedBuffer, SetSharedBuffer
  <2>2. QED
    BY <1>h, <1>s, <2>1 DEF BakeIdsInv, BakeIdsAgree
<1>6. ASSUME NEW b \in host.doubles, CoreSetDoubleStrait(b) PROVE BakeIdsInv'
  <2>1. cfg' = cfg /\ shared' = shared /\ shown' = shown
    BY <1>6 DEF CoreSetDoubleStrait
  <2>2. core' = [baked |-> b0, strait |-> b, last |-> l0]
    BY <1>6, <1>c DEF CoreSetDoubleStrait
  <2>3. core'.baked = core.baked
    BY <2>2, <1>c
  <2>4. QED
    BY <1>h, <2>1, <2>2, <2>3 DEF BakeIdsInv, BakeIdsAgree
<1>7. CASE FullResetBehind
  <2>1. cfg' = cfg /\ core' = core /\ shared' = shared /\ shown' = [shown EXCEPT !.snap = 0]
    BY <1>7 DEF FullResetBehind, FullReset
  <2>2. QED
    BY <1>h, <1>s, <2>1 DEF BakeIdsInv, BakeIdsAgree
<1>8. QED
  BY <1>1, <1>2, <1>3, <1>4, <1>5, <1>6, <1>7 DEF WrappedCall

LEMMA BakeIdsKeep ==
  KnownHost /\ CoreOK /\ BakeIdsInv /\ [TapeNext]_tapeVars => BakeIdsInv'
<1> SUFFICES ASSUME KnownHost, CoreOK, BakeIdsInv, [TapeNext]_tapeVars PROVE BakeIdsInv'
  OBVIOUS
<1>h. host' = host /\ Job' = Job
  BY HostKept DEF Job
<1>1. CASE Job = NoTape /\ host.wrapped /\ WrappedCall
  BY <1>1, <1>h, BakeIdsCall
<1>2. CASE UNCHANGED <<core, shown>> /\ (Job # NoTape \/ ~host.wrapped)
  BY <1>2, <1>h DEF BakeIdsInv, BakeIdsAgree
<1>3. CASE UNCHANGED tapeVars
  BY <1>3, <1>h DEF tapeVars, coreVars, vars, BakeIdsInv, BakeIdsAgree
<1>4. CASE Job # NoTape /\ TapeNext
  <2>1. UNCHANGED <<core, shown>>
    BY <1>4 DEF TapeNext, Load, ReadBadFrame, Decode, End, Exited, coreVars
  <2>2. QED
    BY <1>2, <1>4, <2>1
<1>5. CASE Job = NoTape /\ CoreNext
  BY <1>1, <1>2, <1>5 DEF CoreNext
<1>6. QED
  BY <1>3, <1>4, <1>5 DEF TapeNext

\* However a host mixes bakes, flashes, resets behind the wrapper's back and
\* buffers attached late: the ids that telemetry shows are never another bake's.
THEOREM ShownIdsAreTheRunningOnes == TapeSpec => []BakeIdsAgree
<1>1. TapeInit => BakeIdsInv
  <2> SUFFICES ASSUME TapeInit PROVE BakeIdsInv
    OBVIOUS
  <2>1. core = [baked |-> FALSE, strait |-> FALSE, last |-> NoResult]
    BY DEF TapeInit, CoreInit
  <2>2. shown = [snap |-> 0, buf |-> 0]
    BY DEF TapeInit, CoreInit
  <2>3. QED
    BY <2>1, <2>2 DEF BakeIdsInv, BakeIdsAgree
<1>2. BakeIdsInv => BakeIdsAgree
  BY DEF BakeIdsInv
<1>3. TapeSpec => [](KnownHost /\ CoreOK)
  BY TapeIsAny, AnyCore, PTL
<1>4. QED
  BY <1>1, <1>2, <1>3, BakeIdsKeep, PTL DEF TapeSpec

-----------------------------------------------------------------------------
\* The wrapper's host and the programs that pour a tape have the properties of
\* any caller: the types, and what holds between two calls.
THEOREM TapeHostsAreSafe ==
  TapeSpec => [](TypeOK /\ OutsideIsInert /\ LockInRange /\ AutoResetSparesWinners
                   /\ ViewsAgree)
BY TapeIsAny, TypesKept, WhatIsOutsideIsInert, LocksEndInRange, WinnersKeepTheirLock,
   ViewsTellTheSame, PTL

\* Nor does any of their steps take what no caller's may: locks rise with a
\* report, drain, drive what is fresh and hang on a root.
THEOREM TapeHostsStepSafely ==
  TapeSpec => FireIsRisingEdge /\ LockedDrivesFresh /\ LockedOnlyDrains /\ NoOrphanLock
BY TapeIsAny, FiresOnTheRise, LocksDriveFresh, LocksOnlyDrain, LocksHangOnRoots, PTL

-----------------------------------------------------------------------------
(* Replays                                                                 *)

IsReplay(c, mask, frames, h, k) ==
  h = [j \in 0 .. k |-> IF j = 0 THEN CleanRuntime ELSE Given(c, mask, h[j - 1], frames[j])]

LEMMA ReplayExists ==
  ASSUME NEW c, NEW mask, NEW frames
  PROVE  \A k \in Nat : \E h : IsReplay(c, mask, frames, h, k)
<1> DEFINE Bad == {k \in Nat : ~ \E h : IsReplay(c, mask, frames, h, k)}
<1> SUFFICES ASSUME Bad # {} PROVE FALSE
  OBVIOUS
<1>0. Bad \in SUBSET Nat
  OBVIOUS
<1>1. PICK k \in Bad : \A m \in Bad : k <= m
  <2> HIDE DEF Bad
  <2>1. QED BY <1>0, LeastNat
<1>2. CASE k = 0
  <2> DEFINE h == [j \in 0 .. 0 |-> CleanRuntime]
  <2>1. IsReplay(c, mask, frames, h, 0)
    BY DEF IsReplay
  <2>2. QED
    BY <1>2, <2>1
<1>3. CASE k # 0
  <2>1. k - 1 \in Nat /\ k - 1 \notin Bad
    BY <1>1, <1>3
  <2>2. PICK h : IsReplay(c, mask, frames, h, k - 1)
    BY <2>1
  <2> DEFINE hh == [j \in 0 .. k |-> IF j = 0 THEN CleanRuntime
                                     ELSE Given(c, mask, h[j - 1], frames[j])]
  <2>3. ASSUME NEW j \in 0 .. k, j # 0 PROVE hh[j - 1] = h[j - 1]
    <3>1. j - 1 \in 0 .. k - 1 /\ j - 1 \in 0 .. k
      BY <2>1, <2>3
    <3>2. h[j - 1] = IF j - 1 = 0 THEN CleanRuntime
                     ELSE Given(c, mask, h[j - 1 - 1], frames[j - 1])
      BY <2>2, <3>1 DEF IsReplay
    <3>3. QED
      BY <3>1, <3>2
  <2>4. hh = [j \in 0 .. k |-> IF j = 0 THEN CleanRuntime
                               ELSE Given(c, mask, hh[j - 1], frames[j])]
    BY <2>3
  <2> HIDE DEF hh
  <2>5. QED
    BY <2>4 DEF IsReplay
<1>4. QED
  BY <1>2, <1>3

\* Replays that begin with the same frames agree on them.
LEMMA ReplayAgrees ==
  ASSUME NEW c, NEW mask, NEW frames, NEW more, NEW k \in Nat, NEW m \in Nat, k <= m,
         \A j \in 1 .. k : more[j] = frames[j],
         NEW h, IsReplay(c, mask, frames, h, k), NEW g, IsReplay(c, mask, more, g, m)
  PROVE  h[k] = g[k]
<1> DEFINE Bad == {j \in 0 .. k : h[j] # g[j]}
<1>1. ASSUME Bad # {} PROVE FALSE
  <2>1. PICK j \in Bad : \A i \in Bad : j <= i
    <3>1. Bad \in SUBSET Nat
      OBVIOUS
    <3> HIDE DEF Bad
    <3>2. QED BY <1>1, <3>1, LeastNat
  <2>2. j \in 0 .. k /\ j \in 0 .. m /\ h[j] # g[j]
    OBVIOUS
  <2>3. /\ h[j] = IF j = 0 THEN CleanRuntime ELSE Given(c, mask, h[j - 1], frames[j])
        /\ g[j] = IF j = 0 THEN CleanRuntime ELSE Given(c, mask, g[j - 1], more[j])
    BY <2>2 DEF IsReplay
  <2>4. j # 0
    BY <2>2, <2>3
  <2>5. j - 1 \in 0 .. k /\ j - 1 \notin Bad /\ j \in 1 .. k
    BY <2>1, <2>2, <2>4
  <2>6. QED
    BY <2>2, <2>3, <2>4, <2>5
<1>2. QED
  BY <1>1

LEMMA ReplayIs ==
  ASSUME NEW c, NEW mask, NEW frames, Len(frames) \in Nat
  PROVE  \E h : /\ IsReplay(c, mask, frames, h, Len(frames))
               /\ ReplayOf(c, mask, frames) = h[Len(frames)]
<1>1. ReplayOf(c, mask, frames)
        = (CHOOSE h : IsReplay(c, mask, frames, h, Len(frames)))[Len(frames)]
  BY DEF ReplayOf, IsReplay
<1>2. \E h : IsReplay(c, mask, frames, h, Len(frames))
  BY ReplayExists
<1>3. QED
  BY <1>1, <1>2

LEMMA ReplayNothing ==
  ASSUME NEW c, NEW mask
  PROVE  ReplayOf(c, mask, <<>>) = CleanRuntime
<1>1. Len(<<>>) = 0
  OBVIOUS
<1>2. QED
  BY <1>1, ReplayIs DEF IsReplay

LEMMA ReplayAppend ==
  ASSUME NEW c, NEW mask, NEW S, NEW frames \in Seq(S), NEW f \in S
  PROVE  ReplayOf(c, mask, Append(frames, f)) = Given(c, mask, ReplayOf(c, mask, frames), f)
<1> DEFINE k == Len(frames)
           more == Append(frames, f)
<1>1. /\ k \in Nat /\ Len(more) = k + 1 /\ more[k + 1] = f
      /\ \A j \in 1 .. k : more[j] = frames[j]
  OBVIOUS
<1>2. PICK h : IsReplay(c, mask, frames, h, k) /\ ReplayOf(c, mask, frames) = h[k]
  BY <1>1, ReplayIs
<1>3. PICK g : IsReplay(c, mask, more, g, k + 1) /\ ReplayOf(c, mask, more) = g[k + 1]
  <2> HIDE DEF more, k
  <2>1. Len(more) \in Nat
    BY <1>1
  <2>2. QED
    BY <1>1, <2>1, ReplayIs
<1> HIDE DEF k, more
<1>4. h[k] = g[k]
  <2>1. k + 1 \in Nat /\ k <= k + 1
    BY <1>1
  <2>2. QED
    BY <1>1, <1>2, <1>3, <2>1, ReplayAgrees
<1>5. g[k + 1] = Given(c, mask, g[k], f)
  <2>1. k + 1 \in 0 .. k + 1 /\ k + 1 # 0 /\ k + 1 - 1 = k
    BY <1>1
  <2>2. \A j \in 0 .. k + 1 :
          g[j] = IF j = 0 THEN CleanRuntime ELSE Given(c, mask, g[j - 1], more[j])
    <3> DEFINE N == 0 .. k + 1
    <3>1. g = [j \in N |-> IF j = 0 THEN CleanRuntime ELSE Given(c, mask, g[j - 1], more[j])]
      BY <1>3 DEF IsReplay
    <3> HIDE DEF N
    <3>2. \A j \in N : g[j] = IF j = 0 THEN CleanRuntime ELSE Given(c, mask, g[j - 1], more[j])
      BY <3>1, Zenon
    <3>3. QED
      BY <3>2 DEF N
  <2>3. QED
    BY <1>1, <2>1, <2>2
<1>6. QED
  BY <1>2, <1>3, <1>4, <1>5 DEF more

\* One more frame in a slice that reaches to the end.
LEMMA SliceAppend ==
  ASSUME NEW S, NEW s \in Seq(S), NEW f \in S, NEW a \in Nat, a <= Len(s)
  PROVE  /\ SubSeq(Append(s, f), a + 1, Len(s) + 1) = Append(SubSeq(s, a + 1, Len(s)), f)
         /\ SubSeq(s, a + 1, Len(s)) \in Seq(S)
<1> DEFINE n == Len(s)
           all == Append(s, f)
           old == SubSeq(s, a + 1, n)
           new == SubSeq(all, a + 1, n + 1)
<1>1. n \in Nat /\ Len(all) = n + 1 /\ all \in Seq(S) /\ \A i \in 1 .. n + 1 : all[i] \in S
  OBVIOUS
<1>2. /\ \A i \in 1 .. n : s[i] = all[i]
      /\ all[n + 1] = f
  OBVIOUS
<1>3. old \in Seq(S) /\ Len(old) = n - a /\ \A i \in 1 .. n - a : old[i] = s[a + i]
  OBVIOUS
<1> HIDE DEF all
<1>4. new \in Seq(S) /\ Len(new) = n - a + 1 /\ \A i \in 1 .. n - a + 1 : new[i] = all[a + i]
  BY <1>1
<1> HIDE DEF old, new, n
<1>5. /\ Append(old, f) \in Seq(S) /\ Len(Append(old, f)) = n - a + 1
      /\ Append(old, f)[n - a + 1] = f
      /\ \A i \in 1 .. n - a : Append(old, f)[i] = old[i]
  BY <1>1, <1>3
<1>6. \A i \in 1 .. n - a + 1 : new[i] = Append(old, f)[i]
  <2> SUFFICES ASSUME NEW i \in 1 .. n - a + 1 PROVE new[i] = Append(old, f)[i]
    OBVIOUS
  <2>1. CASE i = n - a + 1
    BY <1>1, <1>2, <1>4, <1>5, <2>1
  <2>2. CASE i # n - a + 1
    <3>1. i \in 1 .. n - a /\ a + i \in 1 .. n
      BY <1>1, <2>2
    <3>2. QED
      BY <1>2, <1>3, <1>4, <1>5, <3>1
  <2>3. QED
    BY <2>1, <2>2
<1>7. new = Append(old, f)
  BY <1>4, <1>5, <1>6
<1>8. QED
  BY <1>3, <1>7 DEF new, old, all, n

LEMMA SliceKept ==
  ASSUME NEW S, NEW s \in Seq(S), NEW f \in S, NEW a \in Nat, NEW b \in Nat, b <= Len(s)
  PROVE  SubSeq(Append(s, f), a + 1, b) = SubSeq(s, a + 1, b)
OBVIOUS

LEMMA SliceEmpty ==
  ASSUME NEW S, NEW s \in Seq(S), NEW a \in Nat
  PROVE  SubSeq(s, a + 1, a) = <<>>
OBVIOUS

-----------------------------------------------------------------------------
(* What a program has left of the frames before                            *)

SameTiles(r, s) == r.thr = s.thr /\ r.locked = s.locked

\* What a pass does to the tiles depends on nothing else of the runtime state.
LEMMA FlashOfSame ==
  ASSUME NEW c, NEW r, NEW s, SameTiles(r, s), NEW f, Field(c) \subseteq Tiles
  PROVE  /\ SameTiles(FlashOnce(c, r, f), FlashOnce(c, s, f))
         /\ \A t \in Field(c) :
              FlashOnce(c, r, f).snap.v[t].fire = FlashOnce(c, s, f).snap.v[t].fire
<1> DEFINE live == ActiveSet(c, r.locked)
           fire == Fire(c, r, f, live)
           reset == AutoResetTiles(c, fire)
<1>1. r.thr = s.thr /\ r.locked = s.locked
  BY DEF SameTiles
<1>2. Fire(c, s, f, live) = fire /\ Kept(c, s, live) = Kept(c, r, live)
  BY <1>1 DEF Fire, Kept
<1>3. /\ ThrAfterRead(c, s, f, live) = ThrAfterRead(c, r, f, live)
      /\ LockedAfterRead(c, s, f, live) = LockedAfterRead(c, r, f, live)
  BY <1>1, <1>2 DEF ThrAfterRead, LockedAfterRead
<1>4. /\ FlashOnce(c, r, f).thr
           = [t \in Tiles |-> IF t \in reset THEN 0 ELSE ThrAfterRead(c, r, f, live)[t]]
      /\ FlashOnce(c, r, f).locked = LockedAfterRead(c, r, f, live) \ reset
      /\ \A t \in Field(c) : FlashOnce(c, r, f).snap.v[t].fire = (t \in fire)
  BY DEF FlashOnce, VState
<1>5. /\ FlashOnce(c, s, f).thr
           = [t \in Tiles |-> IF t \in reset THEN 0 ELSE ThrAfterRead(c, s, f, live)[t]]
      /\ FlashOnce(c, s, f).locked = LockedAfterRead(c, s, f, live) \ reset
      /\ \A t \in Field(c) : FlashOnce(c, s, f).snap.v[t].fire = (t \in fire)
  BY <1>1, <1>2 DEF FlashOnce, VState
<1> HIDE DEF live, fire, reset
<1>6. QED
  BY <1>3, <1>4, <1>5 DEF SameTiles

LEMMA MaskedIs ==
  ASSUME NEW c, NEW mask, NEW r
  PROVE  LET reached == {t \in Field(c) : c.par[t].dom \in mask}
         IN  /\ Masked(c, mask, r).thr = [t \in Tiles |-> IF t \in reached THEN 0 ELSE r.thr[t]]
             /\ Masked(c, mask, r).locked = r.locked \ reached
BY DEF Masked

LEMMA MaskedOfSame ==
  ASSUME NEW c, NEW mask, NEW r, NEW s, SameTiles(r, s)
  PROVE  SameTiles(Masked(c, mask, r), Masked(c, mask, s))
<1> DEFINE reached == {t \in Field(c) : c.par[t].dom \in mask}
<1>1. /\ Masked(c, mask, r).thr = [t \in Tiles |-> IF t \in reached THEN 0 ELSE r.thr[t]]
      /\ Masked(c, mask, r).locked = r.locked \ reached
  BY MaskedIs
<1>2. /\ Masked(c, mask, s).thr = [t \in Tiles |-> IF t \in reached THEN 0 ELSE s.thr[t]]
      /\ Masked(c, mask, s).locked = s.locked \ reached
  BY MaskedIs
<1> HIDE DEF reached
<1>3. QED
  BY <1>1, <1>2 DEF SameTiles

\* No mask, no reset.
LEMMA MaskedByNone ==
  ASSUME NEW c, NEW r, r.thr \in [Tiles -> I16]
  PROVE  SameTiles(Masked(c, {}, r), r)
<1>1. /\ Masked(c, {}, r).thr = [t \in Tiles |-> r.thr[t]]
      /\ Masked(c, {}, r).locked = r.locked
  <2> DEFINE reached == {t \in Field(c) : c.par[t].dom \in {}}
  <2>1. /\ Masked(c, {}, r).thr = [t \in Tiles |-> IF t \in reached THEN 0 ELSE r.thr[t]]
        /\ Masked(c, {}, r).locked = r.locked \ reached
    BY MaskedIs
  <2>2. reached = {}
    OBVIOUS
  <2> HIDE DEF reached
  <2>3. QED
    BY <2>1, <2>2
<1>2. r.thr = [t \in Tiles |-> r.thr[t]]
  OBVIOUS
<1>3. QED
  BY <1>1, <1>2 DEF SameTiles

\* The frames since the last reset of all domains, and what a swarm that has
\* just been baked makes of them.
Slice == SubSeq(tape.frames, tape.since + 1, tape.at)

\* The tiles as they are before frame number at is decoded or masked.
AsReplayed ==
  SameTiles(rt, IF tape.pc = "pour" /\ Job.mask # {}
                THEN Masked(cfg, Job.mask, Replay(Slice)) ELSE Replay(Slice))

Blank(r) == r.thr = [t \in Tiles |-> 0] /\ r.locked = {}

\* A program's swarm pours once, and a reset of all domains reaches every tile
\* that holds anything.
Resettable ==
  /\ cfg.double = FALSE
  /\ \A t \in Tiles : cfg.par[t].dom \in Domains
  /\ \A t \in Tiles \ Field(cfg) : rt.thr[t] = 0
  /\ rt.locked \subseteq Field(cfg)

GlyphsNow ==
  /\ Resettable
  /\ Len(tape.frames) = tape.at /\ tape.since <= tape.at
  /\ tape.pc \in {"load", "bake"} => tape.since = tape.at
  /\ tape.pc = "rebake" => tape.since = tape.at
  /\ Job.image = NoImage => Blank(rt) /\ cfg.busR = {}
  /\ AsReplayed

GlyphsInv == Job # NoTape /\ tape.pc # "failed" => GlyphsNow

LEMMA BlankIsReplayed ==
  ASSUME TapeTyped, tape.since = tape.at
  PROVE  Slice = <<>> /\ Replay(Slice) = CleanRuntime /\ Blank(CleanRuntime)
<1>1. Slice = <<>>
  BY SliceEmpty DEF Slice, TapeTyped
<1>2. Replay(<<>>) = CleanRuntime
  BY ReplayNothing DEF Replay
<1>3. QED
  BY <1>1, <1>2 DEF Blank, CleanRuntime

LEMMA MaskedBlank ==
  ASSUME NEW c, NEW mask, NEW r, Blank(r)
  PROVE  Blank(Masked(c, mask, r))
BY MaskedIs DEF Blank

\* A reset of all domains leaves the tiles of a swarm that has just been baked.
LEMMA ResetAllBlanks ==
  ASSUME CoreOK, Resettable, EvResetDomain(Domains)
  PROVE  Blank(rt')
<1>1. /\ rt'.thr = [t \in Tiles |-> IF t \in InDomains(Domains) THEN 0 ELSE rt.thr[t]]
      /\ rt'.locked = rt.locked \ InDomains(Domains)
  BY DEF EvResetDomain
<1>2. InDomains(Domains) = Field(cfg)
  BY FieldInTiles DEF InDomains, Resettable, CoreOK
<1>3. QED
  BY <1>1, <1>2 DEF Blank, Resettable

LEMMA ResetIsMask ==
  ASSUME NEW mask, EvResetDomain(mask)
  PROVE  SameTiles(rt', Masked(cfg, mask, rt))
<1>1. InDomains(mask) = {t \in Field(cfg) : cfg.par[t].dom \in mask}
  BY DEF InDomains
<1>2. QED
  BY <1>1, MaskedIs DEF EvResetDomain, SameTiles

\* A pass leaves what is outside the field alone.
LEMMA FlashOutside ==
  ASSUME NEW c, NEW r, NEW f, r.locked \subseteq Field(c),
         \A t \in Tiles \ Field(c) : r.thr[t] = 0
  PROVE  /\ FlashOnce(c, r, f).locked \subseteq Field(c)
         /\ \A t \in Tiles \ Field(c) : FlashOnce(c, r, f).thr[t] = 0
<1> DEFINE live == ActiveSet(c, r.locked)
           fire == Fire(c, r, f, live)
<1>1. LockedAfterRead(c, r, f, live) \subseteq Field(c)
  BY FireInLive DEF LockedAfterRead
<1>2. \A t \in Tiles \ Field(c) : ThrAfterRead(c, r, f, live)[t] = 0
  BY FireInLive DEF ThrAfterRead
<1>3. QED
  BY <1>1, <1>2 DEF FlashOnce

\* Nothing happens in a swarm without a root and without a lock.
LEMMA FlashOfBlank ==
  ASSUME NEW c, NEW r, NEW f, Blank(r), c.busR = {}, Field(c) \subseteq Tiles
  PROVE  Blank(FlashOnce(c, r, f))
<1> DEFINE live == ActiveSet(c, r.locked)
           fire == Fire(c, r, f, live)
<1>1. live = {}
  <2>1. Closed(c, r.locked, {})
    BY DEF Closed
  <2>2. QED
    BY <2>1 DEF ActiveSet
<1>2. fire = {} /\ LockedAfterRead(c, r, f, live) = {}
  BY <1>1 DEF Fire, Kept, LockedAfterRead, Blank
<1>3. \A t \in Tiles : ThrAfterRead(c, r, f, live)[t] = 0
  BY <1>1 DEF ThrAfterRead, Blank
<1>4. QED
  BY <1>2, <1>3 DEF FlashOnce, Blank

LEMMA StageMasks ==
  ASSUME NEW count, NEW at
  PROVE  /\ Stage(count, at) = "pour" => Job.mask = {}
         /\ BeforeFrame = "pour" => Job.mask = {}
BY DEF Stage, BeforeFrame

\* One more frame, one more step of the replay.
LEMMA AppendGives ==
  ASSUME TapeTyped, Len(tape.frames) = tape.at, tape.since <= tape.at,
         NEW f \in Frames \cup {BadFrame},
         tape'.frames = Append(tape.frames, f), tape'.at = tape.at + 1,
         tape'.since = tape.since, cfg' = cfg, Job' = Job
  PROVE  Replay(Slice)' = Given(cfg, Job.mask, Replay(Slice), f)
<1>1. tape.frames \in Seq(Frames \cup {BadFrame}) /\ tape.since \in Nat
  BY DEF TapeTyped
<1>2. Slice' = Append(Slice, f) /\ Slice \in Seq(Frames \cup {BadFrame})
  <2> DEFINE S == Frames \cup {BadFrame}
             s == tape.frames
             a == tape.since
  <2>1. Slice = SubSeq(s, a + 1, Len(s)) /\ Slice' = SubSeq(Append(s, f), a + 1, Len(s) + 1)
    BY DEF Slice
  <2>2. s \in Seq(S) /\ f \in S /\ a \in Nat /\ a <= Len(s)
    BY <1>1
  <2> HIDE DEF s, a, S
  <2>3. /\ SubSeq(Append(s, f), a + 1, Len(s) + 1) = Append(SubSeq(s, a + 1, Len(s)), f)
        /\ SubSeq(s, a + 1, Len(s)) \in Seq(S)
    BY <2>2, SliceAppend
  <2>4. QED
    BY <2>1, <2>3 DEF S
<1>3. ReplayOf(cfg, Job.mask, Append(Slice, f)) = Given(cfg, Job.mask, Replay(Slice), f)
  <2> HIDE DEF Slice
  <2>1. QED
    BY <1>2, ReplayAppend DEF Replay
<1>4. QED
  BY <1>2, <1>3 DEF Replay

LEMMA AtPour ==
  ASSUME CoreOK, AsReplayed, tape.pc = "pour"
  PROVE  SameTiles(rt, Masked(cfg, Job.mask, Replay(Slice)))
<1>1. CASE Job.mask # {}
  BY <1>1 DEF AsReplayed
<1>2. CASE Job.mask = {}
  <2>1. SameTiles(rt, Replay(Slice)) /\ rt.thr \in [Tiles -> I16]
    BY <1>2 DEF AsReplayed, CoreOK, RuntimeOK
  <2>2. SameTiles(Masked(cfg, {}, Replay(Slice)), Replay(Slice))
    BY <2>1, MaskedByNone DEF SameTiles
  <2>3. QED
    BY <1>2, <2>1, <2>2 DEF SameTiles
<1>3. QED
  BY <1>1, <1>2

LEMMA BakedIsResettable ==
  ASSUME KnownHost, CoreOK, Job # NoTape, Job.image # NoImage, EvBake(Job.image),
         Resettable, Blank(rt)
  PROVE  Resettable' /\ Blank(rt')
<1> DEFINE img == Job.image
<1>1. /\ ImageOK(img) /\ \A t \in 0 .. img.n - 1 : img.par[t].dom \in Domains
  BY JobNow DEF JobOK
<1> HIDE DEF img
<1>2. rt' = rt /\ cfg' = BakedConfig(cfg, img)
  BY DEF EvBake, img
<1>3. cfg'.double = cfg.double /\ cfg'.par = CopyTiles(img.par, cfg.par, img.n)
  BY <1>2 DEF BakedConfig
<1>4. CoreOK'
  BY <1>1, BakeCore DEF img
<1>5. Field(cfg') \subseteq Tiles
  BY <1>4, MaxTilesAssumption DEF CoreOK, BakedOK, Field, Tiles
<1>6. ASSUME NEW t \in Tiles PROVE cfg'.par[t].dom \in Domains
  <2>1. CASE t < img.n
    <3>1. t \in 0 .. img.n - 1
      BY <1>1, <2>1 DEF Tiles, ImageOK
    <3>2. QED
      BY <1>1, <1>3, <2>1, <3>1 DEF CopyTiles
  <2>2. CASE ~(t < img.n)
    <3>1. cfg'.par[t] = cfg.par[t]
      BY <1>3, <2>2 DEF CopyTiles
    <3>2. QED
      BY <3>1 DEF Resettable
  <2>3. QED
    BY <2>1, <2>2
<1>7. QED
  BY <1>2, <1>3, <1>5, <1>6 DEF Resettable, Blank

LEMMA GlyphsKeep ==
  KnownHost /\ CoreOK /\ TapeTyped /\ TapeBakes /\ GlyphsInv /\ [TapeNext]_tapeVars
    => GlyphsInv'
<1> SUFFICES ASSUME KnownHost, CoreOK, TapeTyped, TapeBakes, GlyphsInv, [TapeNext]_tapeVars,
                    Job # NoTape, tape'.pc # "failed"
             PROVE  GlyphsNow'
  BY HostKept DEF GlyphsInv, Job
<1>j. Job' = Job
  BY HostKept DEF Job
<1>0. /\ "mask" # "pour" /\ "close" # "pour" /\ "rebake" # "pour" /\ "done" # "pour"
      /\ "bake" # "pour" /\ "load" # "pour" /\ "periodic" # "pour" /\ "end" # "pour"
  OBVIOUS
<1>t. /\ tape.at \in Nat /\ tape.since \in Nat /\ tape.frames \in Seq(Frames \cup {BadFrame})
      /\ Field(cfg) \subseteq Tiles
  BY FieldInTiles DEF TapeTyped, CoreOK
<1>1. CASE UNCHANGED <<cfg, rt, tape>>
  <2>1. GlyphsNow
    BY <1>1 DEF GlyphsInv
  <2>2. QED
    BY <1>1, <1>j, <2>1 DEF GlyphsNow, Resettable, AsReplayed, Replay, Slice, Blank, SameTiles
<1> SUFFICES ASSUME TapeCall \/ Load \/ ReadBadFrame \/ Decode \/ End,
                    tape.pc # "failed", GlyphsNow
             PROVE  GlyphsNow'
  <2>1. CASE UNCHANGED tapeVars \/ Exited
    BY <1>1, <2>1 DEF Exited, tapeVars, coreVars, vars
  <2>2. CASE TapeCall \/ Load \/ ReadBadFrame \/ Decode \/ End
    <3>1. tape.pc # "failed"
      BY <2>2 DEF TapeCall, Load, Bake, BakeFails, PeriodicReset, MaskReset, Pour, CloseGlyph,
                  CloseSolution, Rebake, ReadBadFrame, Decode, End
    <3>2. QED
      BY <2>2, <3>1 DEF GlyphsInv
  <2>3. QED
    BY <2>1, <2>2 DEF TapeNext
\* Nothing is done to the swarm or the frames.
<1>2. ASSUME UNCHANGED <<cfg, rt>>, tape.pc # "pour", tape'.frames = tape.frames,
             tape'.at = tape.at, tape'.since = tape.since,
             tape'.pc = "pour" => Job.mask = {},
             tape'.pc \notin {"load", "rebake"},
             tape'.pc = "bake" => tape.pc = "load"
      PROVE  GlyphsNow'
  <2>1. Slice' = Slice /\ Replay(Slice)' = Replay(Slice)
    BY <1>2, <1>j DEF Slice, Replay
  <2>2. AsReplayed'
    BY <1>2, <1>j, <2>1 DEF GlyphsNow, AsReplayed, SameTiles
  <2>3. QED
    BY <1>2, <1>j, <2>2 DEF GlyphsNow, Resettable, Blank
\* All tiles are blank and no frame since is to be replayed.
<1>3. ASSUME Blank(rt'), Resettable', tape'.since = tape'.at, tape'.at = tape.at,
             tape'.frames = tape.frames, Job.image = NoImage => cfg'.busR = {}
      PROVE  GlyphsNow'
  <2>1. TapeTyped'
    BY TapeKeepsType
  <2>2. Slice' = <<>>
    <3>1. tape'.frames \in Seq(Frames \cup {BadFrame}) /\ tape'.since \in Nat
      BY <2>1 DEF TapeTyped
    <3>2. QED
      BY <1>3, <3>1, SliceEmpty DEF Slice
  <2>3. Replay(Slice)' = CleanRuntime /\ Blank(CleanRuntime)
    BY <2>2, ReplayNothing DEF Replay, Blank, CleanRuntime
  <2>4. SameTiles(rt', CleanRuntime) /\ SameTiles(rt', Masked(cfg', Job'.mask, CleanRuntime))
    BY <1>3, <2>3, MaskedBlank DEF SameTiles, Blank
  <2>5. AsReplayed'
    BY <2>3, <2>4 DEF AsReplayed
  <2>6. QED
    BY <1>3, <1>j, <1>t, <2>5 DEF GlyphsNow
\* One more frame.
<1>4. ASSUME NEW f \in Frames \cup {BadFrame}, cfg' = cfg, tape.pc = "pour",
             tape'.frames = Append(tape.frames, f), tape'.at = tape.at + 1,
             tape'.since = tape.since, tape'.pc = "pour" => Job.mask = {},
             tape'.pc \notin {"load", "bake", "rebake"},
             Resettable', Job.image = NoImage => Blank(rt'),
             SameTiles(rt', Given(cfg, Job.mask, Replay(Slice), f))
      PROVE  GlyphsNow'
  <2>1. Replay(Slice)' = Given(cfg, Job.mask, Replay(Slice), f)
    BY <1>4, <1>j, AppendGives DEF GlyphsNow
  <2>2. AsReplayed'
    BY <1>4, <1>j, <2>1 DEF AsReplayed
  <2>3. Len(tape'.frames) = tape'.at /\ tape'.since <= tape'.at
    BY <1>4, <1>t DEF GlyphsNow
  <2>4. QED
    BY <1>4, <1>j, <2>2, <2>3 DEF GlyphsNow
<1>s. \A c, a : /\ Stage(c, a) \notin {"load", "bake", "rebake", "close"}
                /\ Stage(c, a) = "pour" => Job.mask = {}
  <2>1. \A x \in {"end", "periodic", "mask", "pour"} : x \notin {"load", "bake", "rebake", "close"}
    OBVIOUS
  <2>2. QED
    BY <2>1, StageIs, StageMasks
<1>5. CASE Load
  <2>1. PICK size \in Job.sizes :
          tape' = IF size % FrameBytes(size) # 0
                  THEN [tape EXCEPT !.pc = "failed"]
                  ELSE [tape EXCEPT !.packed = Packed(size), !.count = FrameCount(size),
                                    !.pc = IF Job.image = NoImage
                                           THEN Stage(FrameCount(size), 0) ELSE "bake"]
    BY <1>5 DEF Load
  <2>2. /\ tape'.frames = tape.frames /\ tape'.at = tape.at /\ tape'.since = tape.since
        /\ tape'.pc \in {Stage(FrameCount(size), 0), "bake"}
    BY <2>1 DEF TapeTyped
  <2>3. tape.pc = "load" /\ UNCHANGED <<cfg, rt>>
    BY <1>5 DEF Load, coreVars, vars
  <2>4. QED
    BY <1>0, <1>2, <1>s, <2>2, <2>3
<1>6. CASE End
  <2>1. /\ tape'.frames = tape.frames /\ tape'.at = tape.at /\ tape'.since = tape.since
        /\ tape'.pc = "done" /\ tape.pc = "end" /\ UNCHANGED <<cfg, rt>>
    BY <1>6 DEF End, TapeTyped, coreVars, vars
  <2>2. QED
    BY <1>0, <1>2, <2>1
<1>7. CASE Bake \/ Rebake
  <2>1. /\ tape.pc \in {"bake", "rebake"} /\ EvBake(Job.image)
        /\ tape'.frames = tape.frames /\ tape'.at = tape.at /\ tape'.since = tape.since
    BY <1>7 DEF Bake, Rebake, TapeTyped
  <2>2. Job.image # NoImage
    BY <2>1 DEF TapeBakes
  <2>3. tape.since = tape.at
    BY <2>1 DEF GlyphsNow
  <2>4. Blank(rt)
    <3>1. SameTiles(rt, Replay(Slice))
      BY <1>0, <2>1 DEF GlyphsNow, AsReplayed
    <3>2. QED
      BY <2>3, <3>1, BlankIsReplayed DEF SameTiles, Blank
  <2>5. Resettable' /\ Blank(rt')
    BY <2>1, <2>2, <2>4, BakedIsResettable DEF GlyphsNow
  <2>6. QED
    BY <1>3, <2>1, <2>2, <2>3, <2>5
<1>8. ASSUME EvResetDomain(Domains), tape'.frames = tape.frames, tape'.at = tape.at,
             tape'.since = tape.at
      PROVE  GlyphsNow'
  <2>1. Blank(rt') /\ cfg' = cfg
    BY <1>8, ResetAllBlanks DEF GlyphsNow, EvResetDomain
  <2>2. Resettable'
    BY <2>1 DEF GlyphsNow, Resettable, Blank
  <2>3. QED
    BY <1>3, <1>8, <2>1, <2>2 DEF GlyphsNow
<1>9. CASE PeriodicReset \/ CloseGlyph
  <2>1. /\ EvResetDomain(Domains) /\ tape'.frames = tape.frames /\ tape'.at = tape.at
        /\ tape'.since = tape.at
    BY <1>9 DEF PeriodicReset, CloseGlyph, TapeTyped
  <2>2. QED
    BY <1>8, <2>1
<1>10. CASE MaskReset
  <2>1. /\ EvResetDomain(Job.mask) /\ tape'.frames = tape.frames /\ tape'.at = tape.at
        /\ tape'.since = IF Job.mask = Domains THEN tape.at ELSE tape.since
        /\ tape'.pc = "pour" /\ tape.pc = "mask"
    BY <1>10 DEF MaskReset, TapeTyped
  <2>2. CASE Job.mask = Domains
    BY <1>8, <2>1, <2>2
  <2>3. CASE Job.mask # Domains
    <3>1. Slice' = Slice /\ cfg' = cfg
      BY <2>1, <2>3 DEF Slice, EvResetDomain
    <3>2. Replay(Slice)' = Replay(Slice)
      BY <3>1, <1>j DEF Replay
    <3>3. SameTiles(rt', Masked(cfg, Job.mask, rt))
      BY <2>1, ResetIsMask
    <3>4. SameTiles(rt, Replay(Slice))
      BY <1>0, <2>1 DEF GlyphsNow, AsReplayed
    <3>5. ASSUME Job.mask # {} PROVE AsReplayed'
      BY <1>j, <2>1, <3>1, <3>2, <3>3, <3>4, <3>5, MaskedOfSame DEF AsReplayed, SameTiles
    <3>6. ASSUME Job.mask = {} PROVE AsReplayed'
      <4>1. SameTiles(Masked(cfg, {}, rt), rt)
        BY MaskedByNone DEF CoreOK, RuntimeOK
      <4>2. SameTiles(rt', Replay(Slice)')
        BY <3>2, <3>3, <3>4, <3>6, <4>1 DEF SameTiles
      <4>3. QED
        BY <1>j, <3>6, <4>2 DEF AsReplayed
    <3>7. AsReplayed'
      BY <3>5, <3>6
    <3>8. /\ \A t \in Tiles : rt'.thr[t] = IF t \in InDomains(Job.mask) THEN 0 ELSE rt.thr[t]
          /\ rt'.locked = rt.locked \ InDomains(Job.mask)
      BY <2>1 DEF EvResetDomain
    <3>9. Resettable'
      BY <3>1, <3>8 DEF GlyphsNow, Resettable
    <3>10. Job.image = NoImage => Blank(rt')
      BY <3>3, MaskedBlank DEF GlyphsNow, Blank, SameTiles
    <3>11. QED
      BY <1>0, <1>j, <2>1, <2>3, <3>1, <3>7, <3>9, <3>10 DEF GlyphsNow
  <2>4. QED
    BY <2>2, <2>3
<1>11. CASE CloseSolution
  <2>1. /\ FullReset /\ tape'.frames = tape.frames /\ tape'.at = tape.at /\ tape'.since = tape.at
    BY <1>11 DEF CloseSolution, TapeTyped
  <2>2. Blank(rt') /\ cfg' = cfg
    BY <2>1 DEF FullReset, Blank
  <2>3. Resettable'
    BY <2>2 DEF GlyphsNow, Resettable, Blank
  <2>4. QED
    BY <1>3, <2>1, <2>2, <2>3 DEF GlyphsNow
<1>12. CASE ReadBadFrame
  <2>1. tape' = [After(BadFrame) EXCEPT !.errors = @ + 1] /\ UNCHANGED <<cfg, rt>>
        /\ tape.pc = "pour"
    <3>1. Job.prog # "inspect"
      BY <1>12 DEF ReadBadFrame, TapeTyped
    <3>2. QED
      BY <1>12, <3>1 DEF ReadBadFrame, coreVars, vars
  <2>2. /\ tape'.frames = Append(tape.frames, BadFrame) /\ tape'.at = tape.at + 1
        /\ tape'.since = tape.since /\ tape'.pc = Stage(tape.count, tape.at + 1)
    BY <2>1, AfterTyped
  <2>3. SameTiles(rt', Given(cfg, Job.mask, Replay(Slice), BadFrame))
    BY <2>1, AtPour DEF Given, GlyphsNow
  <2>4. Resettable' /\ (Job.image = NoImage => Blank(rt'))
    BY <2>1 DEF GlyphsNow, Resettable
  <2>5. QED
    BY <1>0, <1>4, <1>s, <2>1, <2>2, <2>3, <2>4
<1>13. CASE Decode
  <2>1. PICK f \in Frames : tape' = After(f)
    BY <1>13 DEF Decode
  <2>2. UNCHANGED <<cfg, rt>> /\ tape.pc = "pour" /\ Job.image = NoImage
    BY <1>13 DEF Decode, coreVars, vars
  <2>3. /\ tape'.frames = Append(tape.frames, f) /\ tape'.at = tape.at + 1
        /\ tape'.since = tape.since /\ tape'.pc = Stage(tape.count, tape.at + 1)
    BY <2>1, AfterTyped
  <2>4. SameTiles(rt', Given(cfg, Job.mask, Replay(Slice), f))
    <3> DEFINE r == Masked(cfg, Job.mask, Replay(Slice))
    <3>1. Blank(r) /\ Blank(rt) /\ cfg.busR = {}
      BY <2>2, AtPour DEF GlyphsNow, SameTiles, Blank
    <3> HIDE DEF r
    <3>2. Blank(FlashOnce(cfg, r, f))
      BY <1>t, <3>1, FlashOfBlank
    <3>3. Given(cfg, Job.mask, Replay(Slice), f) = FlashOnce(cfg, r, f)
      BY FramesAssumption DEF Given, r
    <3>4. QED
      BY <2>2, <3>1, <3>2, <3>3 DEF SameTiles, Blank
  <2>5. Resettable' /\ Blank(rt')
    BY <2>2 DEF GlyphsNow, Resettable
  <2>6. QED
    BY <1>0, <1>4, <1>s, <2>2, <2>3, <2>4, <2>5
<1>14. CASE Pour
  <2>1. PICK f \in Frames :
          /\ EvFlash(f)
          /\ LET ends  == EndsGlyph(rt'.snap)
                 noted == IF ends /\ Job.prog = "inspect" THEN SegmentEnds(After(f)) ELSE After(f)
             IN  tape' = IF ends /\ Job.close THEN [noted EXCEPT !.pc = "close"] ELSE noted
    BY <1>14 DEF Pour
  <2>2. /\ tape'.frames = Append(tape.frames, f) /\ tape'.at = tape.at + 1
        /\ tape'.since = tape.since /\ tape'.pc \in {Stage(tape.count, tape.at + 1), "close"}
    <3>1. \A a : /\ SegmentEnds(a).frames = a.frames /\ SegmentEnds(a).at = a.at
                 /\ SegmentEnds(a).since = a.since /\ SegmentEnds(a).pc = a.pc
      BY DEF SegmentEnds
    <3>2. QED
      BY <2>1, <3>1, AfterTyped
  <2>3. rt' = FlashOnce(cfg, rt, f) /\ cfg' = cfg /\ tape.pc = "pour" /\ Job.image # NoImage
    BY <1>14, <2>1 DEF Pour, EvFlash, Poured, GlyphsNow, Resettable
  <2>4. SameTiles(rt', Given(cfg, Job.mask, Replay(Slice), f))
    <3>1. SameTiles(rt, Masked(cfg, Job.mask, Replay(Slice)))
      BY <2>3, AtPour DEF GlyphsNow
    <3>2. f # BadFrame
      BY FramesAssumption
    <3>3. QED
      BY <1>t, <2>3, <3>1, <3>2, FlashOfSame DEF Given
  <2>5. Resettable'
    BY <2>3, FlashOutside DEF GlyphsNow, Resettable
  <2>6. QED
    BY <1>0, <1>4, <1>s, <2>2, <2>3, <2>4, <2>5
<1>15. CASE BakeFails
  BY <1>15 DEF BakeFails, TapeTyped
<1>16. QED
  BY <1>5, <1>6, <1>7, <1>9, <1>10, <1>11, <1>12, <1>13, <1>14, <1>15 DEF TapeCall

LEMMA GlyphsStart == TapeInit => GlyphsInv
<1> SUFFICES ASSUME TapeInit PROVE GlyphsNow
  BY DEF GlyphsInv
<1>1. /\ tape.at = 0 /\ tape.since = 0 /\ tape.pc = "load" /\ tape.frames = <<>>
  BY DEF TapeInit
<1>2. Blank(rt) /\ cfg = FreshConfig
  BY DEF TapeInit, CoreInit, Init, Blank
<1>3. Resettable
  BY <1>2, DomainsAssumption DEF Resettable, Blank, FreshConfig, ZeroParams
<1>4. Slice = <<>>
  BY <1>1 DEF Slice
<1>5. Replay(Slice) = CleanRuntime /\ Blank(CleanRuntime)
  BY <1>4, ReplayNothing DEF Replay, Blank, CleanRuntime
<1>6. AsReplayed
  BY <1>1, <1>2, <1>5 DEF AsReplayed, SameTiles, Blank
<1>7. cfg.busR = {} /\ Len(tape.frames) = 0
  BY <1>1, <1>2 DEF FreshConfig
<1>8. QED
  BY <1>1, <1>2, <1>3, <1>6, <1>7 DEF GlyphsNow

\* Whatever the tape, the bake and the resets a program asks for: of what came
\* before a reset of all domains nothing is left in accumulators and locks.
THEOREM GlyphsAreIndependent == TapeSpec => []GlyphsIndependent
<1>1. TapeInit => GlyphsInv
  BY GlyphsStart
<1>2. GlyphsInv => GlyphsIndependent
  BY DEF GlyphsInv, GlyphsNow, AsReplayed, GlyphsIndependent, SameTiles, Slice
<1>3. TapeSpec => [](KnownHost /\ CoreOK)
  BY TapeIsAny, AnyCore, PTL
<1>4. QED
  BY <1>1, <1>2, <1>3, TapeKnown, GlyphsKeep, PTL DEF TapeSpec

-----------------------------------------------------------------------------
(* What a segment leads to                                                 *)

\* A swarm that has just been baked reports a pattern at frame number k when it
\* is given the frames from number from on.
Told(c, mask, frames, from, k) ==
  \E t \in Field(c) :
    /\ ReplayOf(c, mask, SubSeq(frames, from + 1, k + 1)).snap.v[t].fire
    /\ c.par[t].pat # 0

Tells(from, k) == Told(cfg, Job.mask, tape.frames, from, k)

\* inspect-tape of a bake with --reset-on-winner.
Solving ==
  Job # NoTape /\ tape.pc # "failed" /\ Job.prog = "inspect" /\ Job.close
    /\ Job.image # NoImage

SolvedSegment(c, mask, frames, at, s) ==
  /\ s.to < at
  /\ \A k \in s.from .. s.to : Told(c, mask, frames, s.from, k) <=> (s.fired /\ k = s.to)

SolvingNow ==
  /\ tape.pc \notin {"periodic", "rebake"}
  /\ tape.pc # "close" => tape.since = tape.start
  /\ tape.pc = "close" => tape.start = tape.at
  /\ tape.pc # "done" => \A k \in tape.start .. tape.at - 1 : ~Tells(tape.start, k)
  /\ tape.pc # "done" \/ tape.count > 0 =>
       \A i \in 1 .. Len(tape.segs) :
         SolvedSegment(cfg, Job.mask, tape.frames, tape.at, tape.segs[i])

SolvingInv == Solving => SolvingNow

\* The next frame is reported by the swarm as by the replay.
LEMMA NextIsTold ==
  ASSUME CoreOK, TapeTyped, GlyphsNow, tape.pc = "pour", NEW f \in Frames,
         rt' = FlashOnce(cfg, rt, f), cfg' = cfg, Job' = Job,
         tape'.frames = Append(tape.frames, f), tape'.at = tape.at + 1,
         tape'.since = tape.since
  PROVE  Told(cfg, Job.mask, tape'.frames, tape.since, tape.at)
           <=> \E t \in Field(cfg) : rt'.snap.v[t].fire /\ cfg.par[t].pat # 0
<1> DEFINE r == Masked(cfg, Job.mask, Replay(Slice))
<1>1. Replay(Slice)' = Given(cfg, Job.mask, Replay(Slice), f)
  BY AppendGives DEF GlyphsNow
<1>2. Given(cfg, Job.mask, Replay(Slice), f) = FlashOnce(cfg, r, f)
  BY FramesAssumption DEF Given
<1>3. SameTiles(rt, r)
  BY AtPour DEF GlyphsNow
<1> HIDE DEF r
<1>4. \A t \in Field(cfg) : rt'.snap.v[t].fire = FlashOnce(cfg, r, f).snap.v[t].fire
  BY <1>3, FlashOfSame, FieldInTiles DEF CoreOK
<1>5. Replay(Slice)' = ReplayOf(cfg, Job.mask, SubSeq(tape'.frames, tape.since + 1, tape.at + 1))
  BY DEF Replay, Slice
<1>6. QED
  BY <1>1, <1>2, <1>4, <1>5 DEF Told

\* The segment that ends with the frame just given.
Ended == [from |-> tape.start, to |-> tape.at, fired |-> TRUE]

LEMMA SolvingKeeps ==
  KnownHost /\ CoreOK /\ TapeTyped /\ SegmentsInv /\ GlyphsInv /\ SolvingInv
    /\ [TapeNext]_tapeVars => SolvingInv'
<1> SUFFICES ASSUME KnownHost, CoreOK, TapeTyped, SegmentsInv, GlyphsInv, SolvingInv,
                    [TapeNext]_tapeVars, Solving'
             PROVE  SolvingNow'
  BY DEF SolvingInv
<1>j. Job' = Job
  BY HostKept DEF Job
<1>0. /\ "mask" # "close" /\ "pour" # "close" /\ "done" # "close" /\ "end" # "done"
      /\ "bake" # "close" /\ "load" # "close" /\ "pour" # "done" /\ "close" # "done"
      /\ "mask" # "done" /\ "bake" # "done" /\ "load" # "done" /\ "end" # "close"
      /\ {"bake", "mask", "pour", "done", "close", "load"} \cap {"periodic", "rebake"} = {}
  OBVIOUS
<1>1. CASE UNCHANGED <<cfg, tape>>
  <2>1. Solving
    BY <1>1, <1>j DEF Solving
  <2>2. QED
    BY <1>1, <1>j, <2>1 DEF SolvingInv, SolvingNow, SolvedSegment, Tells
<1> SUFFICES ASSUME TapeCall \/ Load \/ ReadBadFrame \/ Decode \/ End,
                    tape.pc \notin {"failed", "done"}, Job # NoTape, Solving
             PROVE  SolvingNow'
  <2>1. CASE UNCHANGED tapeVars \/ Exited
    BY <1>1, <2>1 DEF Exited, tapeVars, coreVars, vars
  <2>2. CASE TapeCall \/ Load \/ ReadBadFrame \/ Decode \/ End
    <3>1. tape.pc \notin {"failed", "done"}
      BY <2>2 DEF TapeCall, Load, Bake, BakeFails, PeriodicReset, MaskReset, Pour, CloseGlyph,
                  CloseSolution, Rebake, ReadBadFrame, Decode, End
    <3>2. QED
      BY <1>j, <2>2, <3>1 DEF Solving
  <2>3. QED
    BY <1>j, <2>1, <2>2 DEF TapeNext, Solving
<1>v. Job.prog = "inspect" /\ Job.image # NoImage /\ Job.close /\ tape'.pc # "failed"
  BY <1>j DEF Solving
<1>n. SolvingNow /\ GlyphsNow /\ TapeProgress /\ Chain(tape.segs, tape.start)
  BY DEF SolvingInv, GlyphsInv, SegmentsInv, TapeProgress
<1>e. Job.every = 0 /\ Job.mask = {} /\ Domains # {}
  BY <1>v, JobNow, DomainsAssumption DEF JobOK
<1>t. /\ tape.at \in Nat /\ tape.since \in Nat /\ tape.start \in Nat /\ tape.count \in Nat
      /\ tape.frames \in Seq(Frames \cup {BadFrame}) /\ Len(tape.frames) = tape.at
      /\ tape.segs \in Seq(Segment) /\ Len(tape.segs) \in Nat /\ tape.start <= tape.at
  BY <1>n DEF TapeTyped, GlyphsNow, TapeProgress
<1>g. \A i \in 1 .. Len(tape.segs) : /\ tape.segs[i].from \in Nat /\ tape.segs[i].to \in Nat
                                    /\ tape.segs[i].fired \in BOOLEAN
  <2>1. \A i \in 1 .. Len(tape.segs) : tape.segs[i] \in Segment
    BY <1>t
  <2>2. QED
    BY <2>1 DEF Segment
<1>s. \A c, a : /\ Stage(c, a) \notin {"done", "close", "periodic", "rebake"}
  <2>1. \A x \in {"end", "mask", "pour"} : x \notin {"done", "close", "periodic", "rebake"}
    OBVIOUS
  <2>2. \A c, a : Stage(c, a) \in {"end", "mask", "pour"}
    BY <1>e DEF Stage, BeforeFrame
  <2>3. QED
    BY <2>1, <2>2
\* Nothing is done to the frames or the segments.
<1>2. ASSUME cfg' = cfg, tape'.frames = tape.frames, tape'.at = tape.at,
             tape'.segs = tape.segs, tape'.start = tape.start,
             tape'.since = tape.start,
             tape'.pc \notin {"close", "done", "periodic", "rebake"}
      PROVE  SolvingNow'
  BY <1>2, <1>j, <1>n DEF SolvingNow, SolvedSegment, Tells
<1>3. CASE Load
  <2>1. PICK size \in Job.sizes :
          tape' = IF size % FrameBytes(size) # 0
                  THEN [tape EXCEPT !.pc = "failed"]
                  ELSE [tape EXCEPT !.packed = Packed(size), !.count = FrameCount(size),
                                    !.pc = IF Job.image = NoImage
                                           THEN Stage(FrameCount(size), 0) ELSE "bake"]
    BY <1>3 DEF Load
  <2>2. /\ tape'.frames = tape.frames /\ tape'.at = tape.at /\ tape'.since = tape.since
        /\ tape'.segs = tape.segs /\ tape'.start = tape.start /\ tape'.pc = "bake"
    BY <1>v, <2>1 DEF TapeTyped
  <2>3. tape.pc = "load" /\ cfg' = cfg
    BY <1>3 DEF Load, coreVars, vars
  <2>4. tape.since = tape.start
    BY <1>0, <1>n, <2>3 DEF SolvingNow
  <2>5. QED
    BY <1>0, <1>2, <2>2, <2>3, <2>4
<1>4. CASE Bake
  <2>1. /\ tape'.frames = tape.frames /\ tape'.at = tape.at /\ tape'.since = tape.since
        /\ tape'.segs = tape.segs /\ tape'.start = tape.start /\ tape.pc = "bake"
        /\ tape'.pc = Stage(tape.count, 0)
    BY <1>4 DEF Bake, TapeTyped
  <2>2. tape.at = 0 /\ tape.start = 0 /\ tape.since = tape.start
    BY <1>0, <1>n, <1>t, <2>1 DEF TapeProgress, SolvingNow
  <2>3. Len(tape.segs) = 0
    BY <1>n, <1>t, <2>2 DEF Chain
  <2>4. QED
    BY <1>s, <2>1, <2>2, <2>3 DEF SolvingNow
<1>5. CASE MaskReset
  <2>1. /\ tape'.frames = tape.frames /\ tape'.at = tape.at /\ tape'.since = tape.since
        /\ tape'.segs = tape.segs /\ tape'.start = tape.start /\ tape.pc = "mask"
        /\ tape'.pc = "pour" /\ cfg' = cfg
    BY <1>5, <1>e DEF MaskReset, TapeTyped, EvResetDomain
  <2>2. tape.since = tape.start
    BY <1>0, <1>n, <2>1 DEF SolvingNow
  <2>3. QED
    BY <1>0, <1>2, <2>1, <2>2
<1>6. CASE CloseGlyph
  <2>1. /\ tape'.frames = tape.frames /\ tape'.at = tape.at /\ tape'.since = tape.at
        /\ tape'.segs = tape.segs /\ tape'.start = tape.start /\ tape.pc = "close"
        /\ tape'.pc = Stage(tape.count, tape.at) /\ cfg' = cfg
    BY <1>6 DEF CloseGlyph, TapeTyped, EvResetDomain
  <2>2. tape.at = tape.start
    BY <1>n, <2>1 DEF SolvingNow
  <2>3. QED
    BY <1>s, <1>2, <2>1, <2>2
<1>7. CASE Pour
  <2>1. PICK f \in Frames :
          /\ EvFlash(f)
          /\ LET ends  == EndsGlyph(rt'.snap)
                 noted == IF ends /\ Job.prog = "inspect" THEN SegmentEnds(After(f)) ELSE After(f)
             IN  tape' = IF ends /\ Job.close THEN [noted EXCEPT !.pc = "close"] ELSE noted
    BY <1>7 DEF Pour
  <2>a. /\ tape'.frames = Append(tape.frames, f) /\ tape'.at = tape.at + 1
        /\ tape'.since = tape.since
        /\ EndsGlyph(rt'.snap) => /\ tape'.segs = Append(tape.segs, Ended)
                                  /\ tape'.start = tape.at + 1 /\ tape'.pc = "close"
        /\ ~EndsGlyph(rt'.snap) => /\ tape'.segs = tape.segs /\ tape'.start = tape.start
                                   /\ tape'.pc \notin {"done", "close", "periodic", "rebake"}
    <3> DEFINE a == After(f)
    <3>1. /\ a.frames = Append(tape.frames, f) /\ a.at = tape.at + 1 /\ a.since = tape.since
          /\ a.segs = tape.segs /\ a.start = tape.start /\ a.pc = Stage(tape.count, tape.at + 1)
          /\ a \in [pc : Pcs, packed : BOOLEAN, count : Nat, at : Nat,
                    frames : Seq(Frames \cup {BadFrame}), since : Nat,
                    segs : Seq(Segment), start : Nat, errors : Nat]
      BY AfterTyped
    <3>2. SegmentEnds(a) = [a EXCEPT !.segs = Append(tape.segs, Ended), !.start = tape.at + 1]
      BY <3>1 DEF SegmentEnds, Ended
    <3>3. tape' = IF EndsGlyph(rt'.snap) THEN [SegmentEnds(a) EXCEPT !.pc = "close"] ELSE a
      BY <1>v, <2>1
    <3>4. a.pc \notin {"done", "close", "periodic", "rebake"}
      BY <1>s, <3>1
    <3> HIDE DEF a
    <3>5. CASE EndsGlyph(rt'.snap)
      BY <3>1, <3>2, <3>3, <3>5
    <3>6. CASE ~EndsGlyph(rt'.snap)
      BY <3>1, <3>3, <3>4, <3>6
    <3>7. QED
      BY <3>5, <3>6
  <2>b. rt' = FlashOnce(cfg, rt, f) /\ cfg' = cfg /\ tape.pc = "pour"
    BY <1>7, <1>n, <2>1 DEF Pour, EvFlash, Poured, GlyphsNow, Resettable
  <2>c. tape.since = tape.start
    BY <1>0, <1>n, <2>b DEF SolvingNow
  <2> DEFINE ToldNow(from, k) == Told(cfg, Job.mask, tape'.frames, from, k)
  <2>d. ToldNow(tape.start, tape.at) <=> EndsGlyph(rt'.snap)
    <3>1. EndsGlyph(rt'.snap) <=> \E t \in Field(cfg) : rt'.snap.v[t].fire /\ cfg.par[t].pat # 0
      <4>1. Job.prog # "solver"
        BY <1>v
      <4>2. QED
        BY <4>1 DEF EndsGlyph, FiredPatterns
    <3>2. QED
      BY <1>j, <1>n, <2>a, <2>b, <2>c, <3>1, NextIsTold
  <2>e. ASSUME NEW from \in Nat, NEW k \in Nat, k < tape.at
        PROVE  ToldNow(from, k) <=> Tells(from, k)
    <3>1. SubSeq(tape'.frames, from + 1, k + 1) = SubSeq(tape.frames, from + 1, k + 1)
      BY <1>t, <2>a, <2>e, SliceKept
    <3>2. QED
      BY <3>1 DEF Told, Tells
  <2>f. \A k \in tape.start .. tape.at - 1 : ~ToldNow(tape.start, k)
    <3> SUFFICES ASSUME NEW k \in tape.start .. tape.at - 1 PROVE ~ToldNow(tape.start, k)
      OBVIOUS
    <3>1. k \in Nat /\ k < tape.at
      BY <1>t
    <3>2. ~Tells(tape.start, k)
      BY <1>0, <1>n, <2>b DEF SolvingNow
    <3>3. QED
      BY <1>t, <2>e, <3>1, <3>2
  <2>g. ASSUME NEW i \in 1 .. Len(tape.segs)
        PROVE  SolvedSegment(cfg, Job.mask, tape'.frames, tape'.at, tape.segs[i])
    <3> DEFINE s == tape.segs[i]
    <3>1. SolvedSegment(cfg, Job.mask, tape.frames, tape.at, s)
      BY <1>0, <1>n, <2>b DEF SolvingNow
    <3>2. s.from \in Nat /\ s.to \in Nat
      BY <1>g
    <3> HIDE DEF s
    <3>3. \A k \in s.from .. s.to : ToldNow(s.from, k) <=> (s.fired /\ k = s.to)
      BY <1>t, <2>e, <3>1, <3>2 DEF SolvedSegment, Tells
    <3>4. s.to < tape.at + 1
      BY <1>t, <3>1, <3>2 DEF SolvedSegment
    <3>5. QED
      BY <2>a, <3>3, <3>4 DEF SolvedSegment, s
  <2>h. SolvedSegment(cfg, Job.mask, tape'.frames, tape'.at, Ended) \/ ~EndsGlyph(rt'.snap)
    <3>1. Ended.from = tape.start /\ Ended.to = tape.at /\ Ended.fired = TRUE
      BY DEF Ended
    <3>2. ASSUME EndsGlyph(rt'.snap), NEW k \in tape.start .. tape.at
          PROVE  ToldNow(tape.start, k) <=> k = tape.at
      <4>1. k = tape.at \/ k \in tape.start .. tape.at - 1
        BY <1>t
      <4>2. tape.at \notin tape.start .. tape.at - 1
        BY <1>t
      <4>3. QED
        BY <2>d, <2>f, <3>2, <4>1, <4>2
    <3>3. tape.at < tape.at + 1
      BY <1>t
    <3> HIDE DEF ToldNow
    <3>4. EndsGlyph(rt'.snap) =>
            \A k \in Ended.from .. Ended.to : ToldNow(Ended.from, k) <=> (Ended.fired /\ k = Ended.to)
      BY <3>1, <3>2
    <3>5. QED
      BY <2>a, <3>1, <3>3, <3>4 DEF SolvedSegment, ToldNow
  <2>2. CASE EndsGlyph(rt'.snap)
    <3>1. Ended \in Segment
      BY <1>t DEF Ended, Segment
    <3>2. /\ tape'.segs = Append(tape.segs, Ended) /\ tape'.start = tape.at + 1
          /\ tape'.at = tape.at + 1 /\ tape'.pc = "close"
      BY <2>2, <2>a
    <3>3. /\ Len(tape'.segs) = Len(tape.segs) + 1 /\ tape'.segs[Len(tape.segs) + 1] = Ended
          /\ \A i \in 1 .. Len(tape.segs) : tape'.segs[i] = tape.segs[i]
      BY <1>t, <3>1, <3>2
    <3>4. ASSUME NEW i \in 1 .. Len(tape'.segs)
          PROVE  SolvedSegment(cfg, Job.mask, tape'.frames, tape'.at, tape'.segs[i])
      <4>1. i \in 1 .. Len(tape.segs) \/ i = Len(tape.segs) + 1
        BY <1>t, <3>3
      <4>2. CASE i \in 1 .. Len(tape.segs)
        BY <2>g, <3>3, <4>2
      <4>3. CASE i = Len(tape.segs) + 1
        BY <2>2, <2>h, <3>3, <4>3
      <4>4. QED
        BY <4>1, <4>2, <4>3
    <3>5. tape'.start .. tape'.at - 1 = {}
      BY <1>t, <3>2
    <3>6. QED
      BY <1>0, <1>j, <2>b, <3>2, <3>4, <3>5 DEF SolvingNow
  <2>3. CASE ~EndsGlyph(rt'.snap)
    <3>1. /\ tape'.segs = tape.segs /\ tape'.start = tape.start /\ tape'.at = tape.at + 1
          /\ tape'.pc \notin {"done", "close", "periodic", "rebake"} /\ tape'.since = tape.since
      BY <2>3, <2>a
    <3>2. \A k \in tape'.start .. tape'.at - 1 : ~ToldNow(tape'.start, k)
      <4> SUFFICES ASSUME NEW k \in tape.start .. tape.at PROVE ~ToldNow(tape.start, k)
        BY <1>t, <3>1
      <4>1. k = tape.at \/ k \in tape.start .. tape.at - 1
        BY <1>t
      <4>2. QED
        BY <2>3, <2>d, <2>f, <4>1
    <3>3. QED
      BY <1>j, <2>b, <2>c, <2>g, <3>1, <3>2 DEF SolvingNow, Tells
  <2>4. QED
    BY <2>2, <2>3
<1>8. CASE End
  <2>1. /\ tape.pc = "end" /\ tape.at = tape.count /\ cfg' = cfg
        /\ tape'.frames = tape.frames /\ tape'.at = tape.at /\ tape'.since = tape.since
        /\ tape'.start = tape.start /\ tape'.count = tape.count /\ tape'.pc = "done"
        /\ tape'.segs = tape.segs \o Unresolved
    BY <1>8, <1>n, <1>v DEF End, TapeTyped, TapeProgress, coreVars, vars
  <2>2. tape.since = tape.start /\ \A k \in tape.start .. tape.at - 1 : ~Tells(tape.start, k)
    BY <1>0, <1>n, <2>1 DEF SolvingNow
  <2>3. \A i \in 1 .. Len(tape.segs) :
          SolvedSegment(cfg, Job.mask, tape.frames, tape.at, tape.segs[i])
    BY <1>0, <1>n, <2>1 DEF SolvingNow
  <2> DEFINE last == [from |-> tape.start, to |-> IF tape.count = 0 THEN 0 ELSE tape.count - 1,
                      fired |-> FALSE]
  <2>4. last \in Segment
    BY <1>t DEF Segment
  <2>5. ASSUME tape.count > 0 PROVE SolvedSegment(cfg, Job.mask, tape.frames, tape.at, last)
    <3>1. last.from = tape.start /\ last.to = tape.at - 1 /\ last.fired = FALSE
      BY <2>1, <2>5
    <3>2. tape.at - 1 < tape.at
      BY <1>t
    <3> HIDE DEF last
    <3>3. QED
      BY <2>2, <3>1, <3>2 DEF SolvedSegment, Tells
  <2>6. CASE tape'.segs = tape.segs
    BY <1>0, <1>j, <2>1, <2>2, <2>3, <2>6 DEF SolvingNow
  <2>7. CASE tape'.segs = tape.segs \o <<last>>
    <3> HIDE DEF last
    <3>1. /\ Len(tape'.segs) = Len(tape.segs) + 1 /\ tape'.segs[Len(tape.segs) + 1] = last
          /\ \A i \in 1 .. Len(tape.segs) : tape'.segs[i] = tape.segs[i]
      BY <1>t, <2>4, <2>7
    <3>2. ASSUME tape.count > 0, NEW i \in 1 .. Len(tape'.segs)
          PROVE  SolvedSegment(cfg, Job.mask, tape.frames, tape.at, tape'.segs[i])
      <4>1. i \in 1 .. Len(tape.segs) \/ i = Len(tape.segs) + 1
        BY <1>t, <3>1
      <4>2. CASE i \in 1 .. Len(tape.segs)
        BY <2>3, <3>1, <4>2
      <4>3. CASE i = Len(tape.segs) + 1
        BY <2>5, <3>1, <3>2, <4>3
      <4>4. QED
        BY <4>1, <4>2, <4>3
    <3>3. QED
      BY <1>0, <1>j, <2>1, <2>2, <3>2 DEF SolvingNow
  <2>8. tape'.segs = tape.segs \/ tape'.segs = tape.segs \o <<last>>
    <3>1. tape.segs \o <<>> = tape.segs
      BY <1>t
    <3>2. Unresolved = <<last>> \/ Unresolved = <<>>
      BY DEF Unresolved
    <3> HIDE DEF last
    <3>3. QED
      BY <2>1, <3>1, <3>2
  <2>9. QED
    BY <2>6, <2>7, <2>8
<1>9. ~PeriodicReset /\ ~Rebake /\ ~BakeFails /\ ~ReadBadFrame /\ ~Decode /\ ~CloseSolution
  <2>1. tape.pc \notin {"periodic", "rebake"}
    BY <1>n DEF SolvingNow
  <2>2. ~BakeFails
    BY <1>v DEF BakeFails, TapeTyped
  <2>3. ~ReadBadFrame
    BY <1>v DEF ReadBadFrame, TapeTyped
  <2>4. ~CloseSolution
    BY <1>v DEF CloseSolution
  <2>5. QED
    BY <1>v, <2>1, <2>2, <2>3, <2>4 DEF PeriodicReset, Rebake, Decode
<1>20. QED
  BY <1>3, <1>4, <1>5, <1>6, <1>7, <1>8, <1>9 DEF TapeCall

\* With --reset-on-winner every segment of inspect-tape is a slice that alone,
\* in a swarm that has just been baked, leads to a pattern at its last frame
\* and nowhere before: whatever the tape, the bake and the tiles are.
THEOREM SegmentsTellTheirPattern == TapeSpec => []SegmentsLeadToPattern
<1>1. TapeInit => SegmentsInv /\ GlyphsInv /\ SolvingInv
  <2>1. TapeInit => SolvingInv
    <3> SUFFICES ASSUME TapeInit PROVE SolvingNow
      BY DEF SolvingInv
    <3>1. /\ tape.at = 0 /\ tape.since = 0 /\ tape.start = 0 /\ tape.pc = "load"
          /\ tape.segs = <<>>
      BY DEF TapeInit
    <3>2. Len(tape.segs) = 0
      BY <3>1
    <3>3. QED
      BY <3>1, <3>2 DEF SolvingNow
  <2>2. QED
    BY <2>1, SegmentsStart, GlyphsStart
<1>2. TapeTyped /\ SolvingInv => SegmentsLeadToPattern
  <2> SUFFICES ASSUME TapeTyped, SolvingInv, Inspected, Job.close, Job.image # NoImage,
                      tape.count > 0, NEW i \in DOMAIN tape.segs,
                      NEW k \in tape.segs[i].from .. tape.segs[i].to
               PROVE  FiredPatterns(Replay(SubSeq(tape.frames, tape.segs[i].from + 1, k + 1)).snap)
                        # {} <=> (tape.segs[i].fired /\ k = tape.segs[i].to)
    BY DEF SegmentsLeadToPattern
  <2>1. tape.pc = "done" /\ "done" # "failed" /\ Solving
    BY DEF Inspected, Solving
  <2>2. DOMAIN tape.segs = 1 .. Len(tape.segs)
    BY DEF TapeTyped
  <2>3. SolvedSegment(cfg, Job.mask, tape.frames, tape.at, tape.segs[i])
    BY <2>1, <2>2 DEF SolvingInv, SolvingNow
  <2>4. Told(cfg, Job.mask, tape.frames, tape.segs[i].from, k)
          <=> (tape.segs[i].fired /\ k = tape.segs[i].to)
    BY <2>3 DEF SolvedSegment
  <2>5. QED
    BY <2>4 DEF Told, FiredPatterns, Replay
<1>3. TapeSpec => [](KnownHost /\ CoreOK)
  BY TapeIsAny, AnyCore, PTL
<1>4. QED
  BY <1>1, <1>2, <1>3, TapeKnown, SegmentsKeep, GlyphsKeep, SolvingKeeps, PTL DEF TapeSpec
=============================================================================
