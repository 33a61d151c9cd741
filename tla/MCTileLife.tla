------------------------------ MODULE MCTileLife ----------------------------
(* TileLife with 4-bit integers in the place of the 16-bit ones. *)
EXTENDS TileLife

MCParams ==
  {q \in [lo : I16, hi : I16, decay : U16, prio : {0, DecayFuseOnly}] :
     q.lo <= q.hi}

MCDeltas == {-Half, -2, 0, 1, 3, Half}
=============================================================================
