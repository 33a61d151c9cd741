------------------------------- MODULE MCSwarm ------------------------------
(***************************************************************************)
(* Small swarms for Swarm: one lane, at most four tiles two to a row, and  *)
(* accumulators of about nine bits (Half = 300), so that a bright frame    *)
(* adds 225, a dark one nothing, and saturation is two bright frames away. *)
(* In Pair the decays are multiples of 75, as 225 is, which keeps the      *)
(* accumulators a host of edits can reach few.                             *)
(***************************************************************************)
EXTENDS TapeHost

OneLane == {0}
Rows == INSTANCE RowOps WITH Lanes <- OneLane

MCDelta(f, w)  == Rows!SumOfRows(f, w)
MCRowOut(f, w) == Rows!Drive(f, w)

Level(x)  == [i \in OneLane |-> x]
Weight(x) == [r \in OneLane |-> [i \in OneLane |-> x]]

Dark   == Level(0)
Bright == Level(15)

MCFrames    == {Dark, Bright}
BrightOnly  == {Bright}
MCBadFrames == {Level(16)}
MCWeights   == {Weight(0), Weight(15), Weight(-15)}
NoWeight    == Weight(0)

NoStdWidth == [k \in {} |-> 1]

Par(lo, hi, decay, dom, prio, pat, rof) ==
  [lo |-> lo, hi |-> hi, decay |-> decay, dom |-> dom, prio |-> prio,
   pat |-> pat, rof |-> rof]

Full(k, x) == [t \in 0 .. k - 1 |-> x]

\* 0 feeds 1, and 1 and 3 feed each other; 2 hangs on 3.  0 lets go after three
\* held flashes, the others after two or never.
Cycle ==
  [n |-> 4, w |-> 2, limit |-> 0, resv |-> 0, bakeId |-> 1, mode |-> 0, strait |-> FALSE,
   busR |-> {0}, busW |-> {0, 1, 2, 3},
   mask |-> [t \in 0 .. 3 |-> CASE t = 0 -> {"E"} [] t = 1 -> {"S"}
                                [] t = 2 -> {} [] t = 3 -> {"N", "W", "NW"}],
   par |-> [t \in 0 .. 3 |->
              CASE t = 0 -> Par(50, 300 - 1, 50, 0, 1, 1, {})
                [] t = 1 -> Par(50, 300 - 1, 75, 0, 1, 2, {})
                [] t = 2 -> Par(100, 200, 100, 1, DecayFuseOnly, 3, {0})
                [] t = 3 -> Par(1, 300 - 1, 0, 1, 2, 4, {})],
   weight |-> Full(4, Weight(15))]

\* The same bake for its first three tiles, by the topology's reserved2 word.
CycleCut == [Cycle EXCEPT !.resv = 3]

\* All tiles are roots: two fight for domain 0, the winner of which resets
\* both domains; 3 is driven below zero; 2 has no pattern.  Another readout.
Duel ==
  [n |-> 4, w |-> 2, limit |-> 0, resv |-> 0, bakeId |-> 1, mode |-> 1, strait |-> TRUE,
   busR |-> 0 .. 3, busW |-> 0 .. 3,
   mask |-> Full(4, {}),
   par |-> [t \in 0 .. 3 |->
              CASE t = 0 -> Par(1, 240, 0, 0, 1, 1, {})
                [] t = 1 -> Par(200, 240, 0, 0, 2, 2, {0, 1})
                [] t = 2 -> Par(100, 200, 100, 1, 2, 0, {})
                [] t = 3 -> Par(-230, -20, 50, 1, 1, 5, {0})],
   weight |-> [t \in 0 .. 3 |-> IF t = 3 THEN Weight(-15) ELSE Weight(15)]]

\* Three tiles, the last row partial: 1 feeds 2 over the corner.
Corner ==
  [n |-> 3, w |-> 2, limit |-> 0, resv |-> 0, bakeId |-> 1, mode |-> 0, strait |-> FALSE,
   busR |-> {0, 1}, busW |-> {0, 2},
   mask |-> [t \in 0 .. 2 |-> IF t = 1 THEN {"SW", "SE"} ELSE {}],
   par |-> [t \in 0 .. 2 |->
              CASE t = 0 -> Par(260, 290, 10, 0, 1, 1, {})
                [] t = 1 -> Par(1, 250, 0, 0, 1, 2, {})
                [] t = 2 -> Par(1, 250, 100, 1, 1, 3, {})],
   weight |-> [t \in 0 .. 2 |-> Weight(15)]]

\* Two tiles, 0 feeding 1.
Pair ==
  [n |-> 2, w |-> 2, limit |-> 0, resv |-> 0, bakeId |-> 1, mode |-> 0, strait |-> FALSE,
   busR |-> {0}, busW |-> {0, 1},
   mask |-> [t \in 0 .. 1 |-> IF t = 0 THEN {"E"} ELSE {}],
   par |-> [t \in 0 .. 1 |-> IF t = 0 THEN Par(50, 250, 75, 0, 1, 1, {})
                                       ELSE Par(-240, -1, 75, 1, 1, 2, {})],
   weight |-> [t \in 0 .. 1 |-> IF t = 0 THEN Weight(15) ELSE Weight(-15)]]

\* The child resets its parent's domain when it fires.
Backfire == [Pair EXCEPT !.par[1].rof = {0}]

-----------------------------------------------------------------------------
(* The hosts                                                               *)

\* Bakes images and changes nothing.
Plain(images) ==
  [images |-> images, resets |-> {}, params |-> {}, masks |-> {}, weights |-> {},
   patterns |-> {}, limits |-> {}, locks |-> {}, doubles |-> {}, bakeIds |-> {},
   tiles |-> {}, buffers |-> {}, wrapped |-> FALSE, job |-> NoTape]

\* Re-bakes, narrows and widens the field, and closes a routing cycle by hand.
FieldHost ==
  [Plain({Cycle, CycleCut}) EXCEPT
     !.resets = {{0}}, !.limits = {3, 4}, !.tiles = {3},
     !.masks = {[mask |-> {"E", "W"}, busW |-> FALSE, busR |-> TRUE]}]

\* Turns on the double strait and takes a telemetry buffer on and off.
DuelHost ==
  [Plain({Duel}) EXCEPT
     !.resets = {{0}}, !.patterns = {0}, !.doubles = {TRUE}, !.tiles = {1},
     !.buffers = {"attach", "detach"}]

\* Edits both tiles between flashes: a long drain in a domain that is none and
\* a wide range below zero, a weight of the other sign, locks set by hand.
EditHost ==
  [Plain({Pair}) EXCEPT
     !.params = {[lo |-> -300, hi |-> 299, decay |-> 225, dom |-> 16, prio |-> 1]},
     !.weights = {Weight(-15)}, !.locks = {TRUE}, !.tiles = {0, 1},
     !.buffers = {"attach"}]

\* Takes the bake id away, which leaves a swarm that fuses nothing.
IdHost ==
  [Plain({Pair}) EXCEPT !.bakeIds = {0}, !.locks = {TRUE}, !.tiles = {0},
                        !.buffers = {"attach"}]

\* Goes through the wrapper, with a bake that has no id and one that has.
CoreHost ==
  [Plain({[Pair EXCEPT !.bakeId = 0], [Backfire EXCEPT !.bakeId = 2]}) EXCEPT
     !.resets = {{0}}, !.limits = {1}, !.doubles = {TRUE},
     !.tiles = {1}, !.buffers = {"attach", "detach"}, !.wrapped = TRUE]

\* Programs that pour a tape.  In Script the glyph of 0 is two bright frames in
\* a row, 1 fires at each bright frame and has no pattern, 2 follows 0.
Script ==
  [Corner EXCEPT
     !.mask = [t \in 0 .. 2 |-> IF t = 0 THEN {"S"} ELSE {}],
     !.par = [t \in 0 .. 2 |->
                CASE t = 0 -> Par(260, 290, 30, 0, 1, 1, {})
                  [] t = 1 -> Par(1, 250, 0, 1, 1, 0, {})
                  [] t = 2 -> Par(1, 250, 50, 1, 2, 3, {})]]

Pours(job) == [Plain({}) EXCEPT !.job = job]

Unclosed ==
  [prog |-> "run", image |-> Script, sizes |-> {20, 40}, format |-> "auto",
   limit |-> 0, every |-> 0, mask |-> {}, close |-> FALSE]

TapeHosts ==
  {Pours(Unclosed),
   Pours([Unclosed EXCEPT !.close = TRUE]),
   Pours([Unclosed EXCEPT !.every = 2]),
   Pours([Unclosed EXCEPT !.mask = {0}, !.close = TRUE, !.every = 3]),
   Pours([Unclosed EXCEPT !.mask = Domains, !.format = "raw8"]),
   Pours([Unclosed EXCEPT !.prog = "inspect", !.close = TRUE, !.sizes = {0, 20, 22, 40}]),
   Pours([Unclosed EXCEPT !.prog = "inspect", !.image = Duel, !.close = TRUE, !.sizes = {20}]),
   Pours([Unclosed EXCEPT !.prog = "inspect", !.format = "packed4", !.limit = 4]),
   Pours([Unclosed EXCEPT !.prog = "inspect", !.image = NoImage, !.limit = 3]),
   Pours([Unclosed EXCEPT !.prog = "solver"]),
   Pours([Unclosed EXCEPT !.prog = "solver", !.close = TRUE, !.sizes = {22, 24}])}

MCHosts       == {FieldHost, DuelHost, EditHost, IdHost, CoreHost} \cup TapeHosts
CycleOnly     == {Plain({Cycle})}
PairOnly      == {Plain({Pair})}
CornerOnly    == {Plain({Corner})}
BackfireOnly  == {Plain({Backfire})}
=============================================================================
