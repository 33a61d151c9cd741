-------------------------------- MODULE RowOps ------------------------------
(***************************************************************************)
(* What the row pipeline of an active tile computes from a frame and its   *)
(* weights (compute_row_raw and compute_delta_raw, src/src/swarm.c).       *)
(*                                                                         *)
(* A frame gives each lane a level; w[r][i] is the signed weight that row  *)
(* r gives to lane i, its magnitude with its sign.                         *)
(***************************************************************************)
EXTENDS Sums

CONSTANT Lanes     \* 0 .. D8_K_LANES - 1

MaxLevel  == 15    \* a Level16
MaxWeight == 15    \* a magnitude is a nibble
FullRow   == 56    \* eight lanes at magnitude 7: the drive's unit gain

Clip15(x) == IF x < 0 THEN 0 ELSE IF x > 15 THEN 15 ELSE x

RowSigned(f, w, r) == SumOver([i \in Lanes |-> f[i] * w[r][i]], Lanes)

WeightSum(w, r) == SumOver(w[r], Lanes)

\* The contribution of a frame to the accumulator.
SumOfRows(f, w) == SumOver([r \in Lanes |-> RowSigned(f, w, r)], Lanes)

\* The drive of each lane: its own level scaled by the sum of its row.
Drive(f, w) ==
  [r \in Lanes |->
     LET product == f[r] * WeightSum(w, r)
     IN  Clip15(((IF product > 0 THEN product ELSE 0) + FullRow \div 2) \div FullRow)]
=============================================================================
