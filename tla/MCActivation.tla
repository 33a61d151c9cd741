---------------------------- MODULE MCActivation ----------------------------
(***************************************************************************)
(* Small grids for ActivationClosure.  Every tile routes in at most one    *)
(* direction, off-grid directions included, so that chains, cycles and     *)
(* edges of the grid all occur; one more net per grid routes everywhere.   *)
(***************************************************************************)
EXTENDS ActivationClosure

\* The nets on n tiles, w to a row, whose tiles route in one of these
\* directions and whose BUS_R tiles are one of these sets.
NetsOn(n, w, routes, roots) ==
  LET F == 0 .. n - 1
  IN  [n : {n}, w : {w}, busR : roots,
       mask : [F -> {{}} \cup {{d} : d \in routes}] \cup {[t \in F |-> Dirs]}]

\* A 2 x 2 grid in all eight directions, fed at its first tile; and rows of
\* three and two tiles, fed at the far end: the routes lead backwards and the
\* closure takes several passes.
MCNets == NetsOn(4, 2, Dirs, {{0}}) \cup NetsOn(5, 3, {"W", "NE"}, {{4}, {2, 4}})
=============================================================================
