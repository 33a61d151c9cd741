--------------------------- MODULE LeastActivation --------------------------
(***************************************************************************)
(* What the activation phase of a flash promises (docs/CONTRACT_v02.md,    *)
(* section 6.1): from the routing and the locks the flash began with, one  *)
(* step yields the least closed set of tiles, and nothing else is visible. *)
(***************************************************************************)
EXTENDS Fabric

CONSTANT Nets

VARIABLES net, locked, result, ready

vars == <<net, locked, result, ready>>

Init ==
  /\ net \in Nets
  /\ locked \in SUBSET Field(net)
  /\ result = {}
  /\ ready = FALSE

Activate ==
  /\ ~ready
  /\ ready' = TRUE
  /\ result' = ActiveSet(net, locked)
  /\ UNCHANGED <<net, locked>>

Spec == Init /\ [][Activate]_vars
=============================================================================
