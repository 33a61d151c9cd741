----------------------------- MODULE RowPipeline ----------------------------
(***************************************************************************)
(* The row pipeline of one tile as its loops run it (src/src/swarm.c): one *)
(* product per step, accumulated in d8_i16 variables that wrap.  Half is   *)
(* 2^15; L lanes of levels up to MaxLevel and weights up to MaxWeight.     *)
(***************************************************************************)
EXTENDS TileOps, RowOps

CONSTANTS L, Frames, Weights

ASSUME LanesAssumption == L \in Nat \ {0} /\ Lanes = 0 .. L - 1

\* Every product fits, and L * L of them fit together.
ASSUME LevelsAssumption ==
  /\ L * L * (MaxLevel * MaxWeight) < Half
  /\ \A f \in Frames : f \in [Lanes -> 0 .. MaxLevel]
  /\ \A w \in Weights : w \in [Lanes -> [Lanes -> -MaxWeight .. MaxWeight]]

VARIABLES
  f, w,      \* the frame and the tile's weights
  r, i,      \* the loop variables
  sum,       \* sum_matrix, the row so far
  rowSum,    \* weight_sum, the row's weights so far
  signed,    \* row_signed of the rows done
  deltaRaw,  \* the sum of compute_delta_raw, taken row by row
  rowOut     \* row_out of the rows done

rowVars == <<f, w, r, i, sum, rowSum, signed, deltaRaw, rowOut>>

RowInit ==
  /\ f \in Frames /\ w \in Weights
  /\ r = 0 /\ i = 0
  /\ sum = 0 /\ rowSum = 0 /\ deltaRaw = 0
  /\ signed = [k \in Lanes |-> 0]
  /\ rowOut = [k \in Lanes |-> 0]

\* A bug the properties catch: the weight matrix is read by columns.
MultiplyAddByColumn ==
  /\ r < L /\ i < L
  /\ sum' = ToI16(sum + f[i] * w[i][r])
  /\ rowSum' = ToI16(rowSum + w[i][r])
  /\ i' = i + 1
  /\ UNCHANGED <<f, w, r, signed, deltaRaw, rowOut>>

MultiplyAdd ==
  /\ r < L /\ i < L
  /\ sum' = ToI16(sum + f[i] * w[r][i])
  /\ rowSum' = ToI16(rowSum + w[r][i])
  /\ i' = i + 1
  /\ UNCHANGED <<f, w, r, signed, deltaRaw, rowOut>>

\* A bug the properties catch: the sum of one row runs on into the next.
EndRowRunning ==
  /\ r < L /\ i = L
  /\ signed' = [signed EXCEPT ![r] = sum]
  /\ deltaRaw' = ToI16(deltaRaw + sum)
  /\ r' = r + 1 /\ i' = 0 /\ rowSum' = 0
  /\ UNCHANGED <<f, w, sum, rowOut>>

\* The row is stored, its drive derived from the level of lane r.
EndRow ==
  /\ r < L /\ i = L
  /\ signed' = [signed EXCEPT ![r] = sum]
  /\ rowOut' = [rowOut EXCEPT ![r] =
                  LET product == f[r] * rowSum
                  IN  Clip15(((IF product > 0 THEN product ELSE 0) + FullRow \div 2) \div FullRow)]
  /\ deltaRaw' = ToI16(deltaRaw + sum)
  /\ r' = r + 1 /\ i' = 0 /\ sum' = 0 /\ rowSum' = 0
  /\ UNCHANGED <<f, w>>

RowNext == MultiplyAdd \/ EndRow

RowSpec == RowInit /\ [][RowNext]_rowVars

-----------------------------------------------------------------------------
RowTypeOK ==
  /\ f \in Frames /\ w \in Weights
  /\ r \in 0 .. L /\ i \in 0 .. L
  /\ sum \in I16 /\ deltaRaw \in I16 /\ rowSum \in I16
  /\ signed \in [Lanes -> I16]
  /\ rowOut \in [Lanes -> 0 .. 15]

\* No 16-bit sum of the pipeline wraps: each stays within the number of
\* products added so far times the largest one.
SumsBounded ==
  LET unit == MaxLevel * MaxWeight
  IN  /\ -(i * unit) <= sum /\ sum <= i * unit
      /\ -(r * (L * unit)) <= deltaRaw /\ deltaRaw <= r * (L * unit)
      /\ -(i * MaxWeight) <= rowSum /\ rowSum <= i * MaxWeight

\* When the loops end, the accumulator's input and the drive are what the
\* canon's formulas give (docs/CONTRACT_v02.md, 6.5): no sign is lost, no row
\* is skipped, and the drive is that of the same row.
PipelineExact ==
  r = L => deltaRaw = SumOfRows(f, w) /\ rowOut = Drive(f, w)
=============================================================================
