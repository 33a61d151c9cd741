---------------------------- MODULE MCNetSolver -----------------------------
(***************************************************************************)
(* A small solver: two tiles, each the only one of its domain and locked   *)
(* by one bright frame; tile 1 hangs on tile 0, and both let go in the     *)
(* next frame.  Half = 300 as in MCSwarm.                                  *)
(***************************************************************************)
EXTENDS NetSolver

OneLane == {0}
Rows == INSTANCE RowOps WITH Lanes <- OneLane

MCDelta(f, w)  == Rows!SumOfRows(f, w)
MCRowOut(f, w) == Rows!Drive(f, w)

Level(x)  == [i \in OneLane |-> x]
Weight(x) == [r \in OneLane |-> [i \in OneLane |-> x]]

MCFrames    == {Level(0), Level(15)}
MCBadFrames == {Level(16)}
MCWeights   == {Weight(0), Weight(15)}
NoWeight    == Weight(0)
NoStdWidth  == [k \in {} |-> 1]
MCMasks     == {{}, {0}, {0, 1}}

MCBake ==
  [n |-> 2, w |-> 2, limit |-> 0, resv |-> 0, bakeId |-> 1, mode |-> 0, strait |-> FALSE,
   busR |-> {0}, busW |-> {0, 1},
   mask |-> [t \in 0 .. 1 |-> IF t = 0 THEN {"E"} ELSE {}],
   par |-> [t \in 0 .. 1 |->
              [lo |-> 200, hi |-> 299, decay |-> IF t = 0 THEN 25 ELSE 225, dom |-> t,
               prio |-> 1, pat |-> t + 1, rof |-> {}]],
   weight |-> [t \in 0 .. 1 |-> Weight(15)]]

MCHosts == {NetHost}
=============================================================================
