----------------------------- MODULE Arbitration ----------------------------
(***************************************************************************)
(* The interphase of a flash (src/src/swarm.c): which tile wins each       *)
(* domain, which domains collide, and what the winners reset.              *)
(*                                                                         *)
(* par[t] is the parameter record of tile t (see TileOps), fire the set of *)
(* tiles that locked in this flash.  A tile with pattern_id 0 or with a    *)
(* domain_id outside Domains takes no part.                                *)
(***************************************************************************)
EXTENDS Integers, FiniteSets

CONSTANT Domains       \* 0 .. 15 in the code

NoTile   == 65535      \* 0xFFFF, winner_tile_id of a domain nobody won
CountCap == 255        \* fired_cnt_sat is a byte

Contenders(par, fire, d) == {t \in fire : par[t].pat # 0 /\ par[t].dom = d}

\* Highest priority first, then the lowest tile number.
Beats(par, t, u) ==
  \/ par[t].prio > par[u].prio
  \/ par[t].prio = par[u].prio /\ t < u

IsWinner(par, fire, d, t) ==
  /\ t \in Contenders(par, fire, d)
  /\ \A u \in Contenders(par, fire, d) \ {t} : Beats(par, t, u)

Winner(par, fire, d) ==
  IF \E t \in fire : IsWinner(par, fire, d, t)
  THEN CHOOSE t \in fire : IsWinner(par, fire, d, t)
  ELSE NoTile

FiredDomains(par, fire) == {d \in Domains : Contenders(par, fire, d) # {}}

Collisions(par, fire) ==
  {d \in Domains : Cardinality(Contenders(par, fire, d)) >= 2}

FiredCount(par, fire, d) ==
  LET k == Cardinality(Contenders(par, fire, d))
  IN  IF k > CountCap THEN CountCap ELSE k

\* AUTO_RESET_MASK16: the union of the winners' reset_on_fire masks.
AutoReset(par, fire) ==
  UNION {par[Winner(par, fire, d)].rof :
           d \in {e \in Domains : Winner(par, fire, e) # NoTile}}
=============================================================================
