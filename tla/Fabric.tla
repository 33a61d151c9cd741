------------------------------- MODULE Fabric -------------------------------
(***************************************************************************)
(* The tile grid of a swarm and the activation graph routed over it        *)
(* (src/src/swarm.c).  Tiles are numbered row by row, y * w + x, from 0.   *)
(* Every operator takes a net c, a record with at least the fields         *)
(*   n     active_tile_count                                               *)
(*   w     active_tile_w                                                   *)
(*   mask  the routing masks, mask[t] the directions tile t activates      *)
(*   busR  the tiles with BUS_R, the roots of the activation graph         *)
(* The last row is partial when n is not a multiple of w.                  *)
(***************************************************************************)
EXTENDS Integers

Dirs == {"N", "E", "S", "W", "NE", "SE", "SW", "NW"}

North(d) == d \in {"N", "NE", "NW"}
South(d) == d \in {"S", "SE", "SW"}
East(d)  == d \in {"E", "NE", "SE"}
West(d)  == d \in {"W", "NW", "SW"}

DX(d) == IF East(d) THEN 1 ELSE IF West(d) THEN -1 ELSE 0
DY(d) == IF South(d) THEN 1 ELSE IF North(d) THEN -1 ELSE 0

Opposite == [N  |-> "S",  E  |-> "W",  S  |-> "N",  W  |-> "E",
             NE |-> "SW", SE |-> "NW", SW |-> "NE", NW |-> "SE"]

Field(c) == 0 .. c.n - 1

Neighbour(c, d, t) == t + DX(d) + c.w * DY(d)

\* Bugs the properties catch: a guard that forgets the partial last row, and
\* one that lets a row wrap into the next.
HasChildInRow(c, d, t) == (t % c.w) + DX(d) \in 0 .. c.w - 1
HasChildWrapped(c, d, t) == Neighbour(c, d, t) \in Field(c)

\* The edge guards of the activation loop, one per direction in the code:
\* the column must not wrap and the target must be an active tile.
HasChild(c, d, t) ==
  /\ (t % c.w) + DX(d) \in 0 .. c.w - 1
  /\ Neighbour(c, d, t) \in Field(c)

Children(c, t) ==
  {Neighbour(c, d, t) : d \in {e \in c.mask[t] : HasChild(c, e, t)}}

-----------------------------------------------------------------------------
(***************************************************************************)
(* The activation closure.  Only an active tile that was locked when the   *)
(* flash began activates its children.                                     *)
(***************************************************************************)
Closed(c, locked, S) ==
  /\ c.busR \cap Field(c) \subseteq S
  /\ \A t \in S \cap locked : Children(c, t) \subseteq S

\* A bug the properties catch: a locked tile keeps itself active.
ActiveFromLocks(c, locked) ==
  LET closed == {S \in SUBSET Field(c) :
                   Closed(c, locked, S) /\ locked \cap Field(c) \subseteq S}
  IN  {t \in Field(c) : \A S \in closed : t \in S}

\* The least closed set, which the loop of flash_impl computes.
ActiveSet(c, locked) ==
  LET closed == {S \in SUBSET Field(c) : Closed(c, locked, S)}
  IN  {t \in Field(c) : \A S \in closed : t \in S}

-----------------------------------------------------------------------------
(***************************************************************************)
(* Who may drive the bus.  has_locked_write_source has its own edge guards *)
(* for the eight neighbours, not those of the activation loop.             *)
(***************************************************************************)
\* A bug the properties catch: the arrays' size in the place of c.n.
SeesStored(c, d, t) ==
  /\ North(d) => t >= c.w
  /\ West(d)  => t % c.w > 0
  /\ East(d)  => (t % c.w) + 1 < c.w
  /\ Neighbour(c, d, t) \in DOMAIN c.mask

SeesNeighbour(c, d, t) ==
  /\ North(d) => t >= c.w
  /\ South(d) => t + c.w < c.n
  /\ West(d)  => t % c.w > 0
  /\ East(d)  => (t % c.w) + 1 < c.w /\ t + 1 < c.n
  /\ Neighbour(c, d, t) < c.n

WriteParents(c, t) ==
  {Neighbour(c, d, t) :
     d \in {e \in Dirs : /\ SeesNeighbour(c, e, t)
                         /\ Opposite[e] \in c.mask[Neighbour(c, e, t)]}}

HasLockedWriteSource(c, locked, t) ==
  \/ t \in locked
  \/ WriteParents(c, t) \cap locked # {}
=============================================================================
