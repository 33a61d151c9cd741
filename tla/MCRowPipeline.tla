---------------------------- MODULE MCRowPipeline ---------------------------
(* Two lanes, extreme and small levels and weights; Half just fits.          *)
EXTENDS RowPipeline

MCLanes   == 0 .. 1
MCFrames  == [Lanes -> {0, 8, 15}]
MCWeights == [Lanes -> [Lanes -> {-15, -7, 0, 15}]]
=============================================================================
