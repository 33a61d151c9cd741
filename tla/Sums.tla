-------------------------------- MODULE Sums --------------------------------
(***************************************************************************)
(* The sums that the loops of the swarm add up term by term (the bus and   *)
(* the row pipeline, src/src/swarm.c).                                     *)
(***************************************************************************)
EXTENDS Integers, FiniteSetsExt

SumOver(g, S) == MapThenSumSet(LAMBDA s : g[s], S)
=============================================================================
