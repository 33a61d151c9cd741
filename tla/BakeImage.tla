------------------------------ MODULE BakeImage -----------------------------
(***************************************************************************)
(* What a bake blob holds, the configuration a swarm takes from it         *)
(* (d8_swarm_ev_bake, src/src/swarm.c), and the edit that narrows a field. *)
(*                                                                         *)
(* An image img is what the parser has read from a blob; a configuration c *)
(* is the baked state of a swarm: the fields of Fabric's net and           *)
(*   busW    the tiles with BUS_W           par     parameters per tile    *)
(*   weight  weights per tile               mode    readout mode, 0 or 1   *)
(*   bakeId  bake_id, 0 until one is set    applied bake_applied           *)
(*   strait  the flag BAKE_FLAG_DOUBLE_STRAIT of the last blob             *)
(*   double  double_strait_bake, a switch of its own                       *)
(*   topoW   topo.tile_w, that of the full grid before the first bake      *)
(***************************************************************************)
EXTENDS Fabric, TileOps, Arbitration

CONSTANTS
  MaxTiles,        \* D8_K_TILE_COUNT
  ExpectedW,       \* D8_K_EXPECTED_W
  StdWidth,        \* widths of the standard field sizes, 256 :> 32 and so on
  Weights,         \* the weight matrices
  ZeroWeight       \* the one that calloc leaves

ASSUME MaxTilesAssumption == MaxTiles \in Nat \ {0} /\ MaxTiles < NoTile

ASSUME GeometryAssumption ==
  /\ ExpectedW \in Nat \ {0}
  /\ \A k \in DOMAIN StdWidth : StdWidth[k] \in Nat \ {0}

ASSUME ZeroWeightAssumption == ZeroWeight \in Weights

\* All of 0 .. 15 in the code; a tile no bake has described is in domain 0.
ASSUME DomainsAssumption == Domains \subseteq 0 .. 15 /\ 0 \in Domains

Tiles == 0 .. MaxTiles - 1

\* Edits may name any domain up to 31, one that is no domain included; from 32
\* on the shift 1u << domain_id is undefined and such an edit is left out.
DomainBits == 0 .. 31

Params ==
  [lo : I16, hi : I16, decay : U16, dom : DomainBits, prio : Nat, pat : Nat,
   rof : SUBSET Domains]

ZeroParams == [lo |-> 0, hi |-> 0, decay |-> 0, dom |-> 0, prio |-> 0,
               pat |-> 0, rof |-> {}]

\* What a bake holds for which the swarm is modelled: a field with columns, no
\* larger than the arrays.  The parser tests neither (TopologyFits in BakeCodec),
\* and EV_BAKE takes what it is given.  limit is the TILE_FIELD_LIMIT TLV, resv the
\* reserved2 word of the topology, 0 when absent; strait is the header flag
\* BAKE_FLAG_DOUBLE_STRAIT.  The parser takes four bits of each domain_id and
\* refuses thr_lo > thr_hi.
ImageOK(img) ==
  /\ img.n \in 0 .. MaxTiles /\ img.w \in Nat \ {0}
  /\ img.limit \in Nat /\ img.resv \in Nat
  /\ img.mask \in [0 .. img.n - 1 -> SUBSET Dirs]
  /\ img.busW \in SUBSET (0 .. img.n - 1) /\ img.busR \in SUBSET (0 .. img.n - 1)
  /\ img.par \in [0 .. img.n - 1 -> Params]
  /\ \A t \in 0 .. img.n - 1 : /\ img.par[t].lo <= img.par[t].hi
                              /\ img.par[t].dom \in 0 .. 15
  /\ img.weight \in [0 .. img.n - 1 -> Weights]
  /\ img.mode \in {0, 1} /\ img.bakeId \in Nat /\ img.strait \in BOOLEAN

-----------------------------------------------------------------------------
\* The configuration of a swarm just created.
FreshConfig ==
  [n |-> MaxTiles, w |-> ExpectedW, topoW |-> ExpectedW, mask |-> [t \in Tiles |-> {}],
   busW |-> {}, busR |-> {}, par |-> [t \in Tiles |-> ZeroParams],
   weight |-> [t \in Tiles |-> ZeroWeight], mode |-> 0, bakeId |-> 0,
   applied |-> FALSE, strait |-> FALSE, double |-> FALSE]

ActiveCount(img) ==
  CASE img.limit \in 1 .. MaxTiles -> img.limit
    [] img.limit \notin 1 .. MaxTiles /\ img.resv \in 1 .. MaxTiles -> img.resv
    [] OTHER -> img.n

\* The width of a field of k tiles; other is used for a non-standard size.
FieldWidth(k, other) ==
  CASE k \in {0, MaxTiles} -> ExpectedW
    [] k \notin {0, MaxTiles} /\ k \in DOMAIN StdWidth -> StdWidth[k]
    [] OTHER -> other

\* memcpy of the first k entries.
CopyTiles(new, old, k) == [t \in Tiles |-> IF t < k THEN new[t] ELSE old[t]]
CopyFlags(new, old, k) == new \cup {t \in old : t >= k}

\* What EV_BAKE makes of configuration c.  The double-strait switch stays.
BakedConfig(c, img) ==
  [c EXCEPT !.n = ActiveCount(img),
            !.w = FieldWidth(ActiveCount(img), img.w),
            !.topoW = img.w,
            !.mask = CopyTiles(img.mask, @, img.n),
            !.busW = CopyFlags(img.busW, @, img.n),
            !.busR = CopyFlags(img.busR, @, img.n),
            !.par = CopyTiles(img.par, @, img.n),
            !.weight = CopyTiles(img.weight, @, img.n),
            !.mode = img.mode, !.bakeId = img.bakeId,
            !.strait = img.strait, !.applied = TRUE]

\* Limit 0 keeps the count, but the width is derived anew all the same.
LimitedCount(c, k) ==
  CASE k \in 1 .. MaxTiles - 1 -> k
    [] k >= MaxTiles           -> MaxTiles
    [] OTHER                   -> c.n

\* The width of a limited field of no standard size.
Narrow(n) == IF n < ExpectedW THEN n ELSE ExpectedW

Limited(c, k) ==
  LET n == LimitedCount(c, k)
  IN  [c EXCEPT !.n = n, !.w = FieldWidth(n, Narrow(n))]

-----------------------------------------------------------------------------
\* The configurations of a swarm: its width is the one the last bake gave its
\* field, or the one the last limit did.
ConfigOK(c) ==
  /\ c.n \in 0 .. MaxTiles /\ c.topoW \in Nat \ {0} /\ c.applied \in BOOLEAN
  /\ c.w \in {FieldWidth(c.n, c.topoW), FieldWidth(c.n, Narrow(c.n))}
  /\ c.mask \in [Tiles -> SUBSET Dirs]
  /\ c.busW \in SUBSET Tiles /\ c.busR \in SUBSET Tiles
  /\ c.par \in [Tiles -> Params] /\ c.weight \in [Tiles -> Weights]
  /\ c.mode \in {0, 1} /\ c.bakeId \in Nat /\ c.strait \in BOOLEAN
=============================================================================
