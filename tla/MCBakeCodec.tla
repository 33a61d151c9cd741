----------------------------- MODULE MCBakeCodec ----------------------------
(***************************************************************************)
(* Blobs for BakeCodec: fields of up to eight tiles, so that both          *)
(* multiples of four occur; every order of the records of one bake; every  *)
(* sequence of three records that could disturb each other, between a      *)
(* topology and the records that must follow; one defect at a time; and    *)
(* topologies and paddings that the parser does not test.                  *)
(***************************************************************************)
EXTENDS BakeCodec, TLC

MCWeights == {0, 1}
StdFour   == 4 :> 2     \* the standard size 4 has two columns

-----------------------------------------------------------------------------
(* Configurations that are serialized                                      *)
Par(lo, hi, dom) ==
  [lo |-> lo, hi |-> hi, decay |-> 1, dom |-> dom, prio |-> 1, pat |-> 1, rof |-> {0}]

\* Tiles that differ from each other in everything a record carries.
Img(n, w) ==
  [n |-> n, w |-> w, limit |-> 0, resv |-> 0, bakeId |-> 7, mode |-> 1, strait |-> TRUE,
   mask |-> [t \in 0 .. n - 1 |-> IF t % 2 = 0 THEN {"E"} ELSE {"SW", "N"}],
   busR |-> {t \in 0 .. n - 1 : t < 1}, busW |-> {t \in 0 .. n - 1 : t >= 1},
   par |-> [t \in 0 .. n - 1 |-> Par(t - 2, t + 1, t % 2)],
   weight |-> [t \in 0 .. n - 1 |-> t % 2]]

BakedOnce == {BakedConfig(FreshConfig, Img(n, 3)) : n \in 0 .. MaxTiles}
Rebaked   == {BakedConfig(c, Img(4, 2)) : c \in BakedOnce}
Narrowed  == {Limited(c, k) : c \in BakedOnce, k \in 0 .. MaxTiles}
Edited    == {[c EXCEPT !.par[0].lo = 3, !.par[0].hi = x, !.par[3].dom = 16] :
                c \in BakedOnce \cup Narrowed, x \in {2, 3}}

MCSaved == {FreshConfig} \cup BakedOnce \cup Rebaked \cup Narrowed \cup Edited

MCRequests == [n : 1 .. MaxTiles, lo : {-1, 0}, hi : {-1, 0}, decay : {3}]

-----------------------------------------------------------------------------
(* Foreign blobs                                                           *)
Foreigner(recs) ==
  [src |-> [by |-> "other"], defects |-> {}, bakeId |-> 0, strait |-> FALSE,
   recs |-> recs, tail |-> 0]

Topo(n) == Padded("TOPOLOGY", 16, [n |-> n, w |-> 2, resv |-> 0, reserved |-> FALSE,
                                   matches |-> TRUE])
RawPar(lo, hi, dom) ==
  [lo |-> lo, hi |-> hi, decay |-> 1, dom |-> dom, prio |-> 0, pat |-> 0]
Pars(n, hi, dom) ==
  Padded("TILE_PARAMS_V2", n * ParamsSize, [t \in 0 .. n - 1 |-> RawPar(0, hi, dom)])
Routing(n, spare) ==
  Padded("TILE_ROUTING_FLAGS16", n * RoutingSize,
         [t \in 0 .. n - 1 |-> [dirs |-> {"E"}, busR |-> TRUE, busW |-> FALSE,
                                spare |-> spare]])
Wts(n)     == Padded("TILE_WEIGHTS_PACKED", n * WeightsSize, [t \in 0 .. n - 1 |-> 1])
Rof(n)     == Padded("RESET_ON_FIRE_MASK16", n * ResetSize, [t \in 0 .. n - 1 |-> {0}])
Readout(x) == Padded("READOUT_POLICY", 12, x)
Limit(k)   == Padded("TILE_FIELD_LIMIT", 4, k)
Other(len) == Padded("0x0999", len, 0)

\* The record without its padding, whole or cut off.
Bare(r)      == [r EXCEPT !.held = r.len]
Cut(r, held) == [r EXCEPT !.held = held]

\* Every order; the sum covers what comes before it.
Small == <<Topo(3), Pars(3, 2, 1), Routing(3, FALSE), Wts(3), Rof(3)>>

Orders ==
  LET recs == Append(Small, Crc(<<>>))
      Reordered(p) == [k \in DOMAIN recs |-> recs[p[k]]]
      Summed(q) == [k \in DOMAIN q |->
                      IF q[k].type = "CRC32" THEN Crc(SubSeq(q, 1, k - 1)) ELSE q[k]]
  IN  {Foreigner(Summed(Reordered(p))) : p \in Permutations(DOMAIN recs)}

\* Sequences of records that overwrite each other.
Alphabet ==
  {Topo(2), Topo(3), Pars(2, 1, 17), Pars(3, 2, 0), Pars(3, -1, 0), Rof(2), Rof(3),
   Limit(2), Readout(1), Other(5), Other(0)}

Overwrites ==
  {Foreigner(WithCrc(<<Topo(3), Pars(3, 3, 2)>> \o s
                       \o <<Routing(3, FALSE), Routing(2, FALSE), Wts(3)>>)) :
     s \in [1 .. 2 -> Alphabet]}
  \cup {Foreigner(WithCrc(<<Topo(3), Routing(3, FALSE), Wts(3)>> \o s)) :
          s \in [1 .. 3 -> Alphabet]}

\* One defect each.
Base == Foreigner(WithCrc(Small))
Torn(r, k) == Foreigner(Append(SubSeq(Small, 1, k), [r EXCEPT !.held = 3]))

Defective ==
  {[Base EXCEPT !.defects = {d}] : d \in {"small", "magic", "version", "total", "reserved"}}
  \cup {[b EXCEPT !.tail = x] : b \in {Base, Foreigner(Small)}, x \in {1, 7}}
  \cup {Torn(Small[k], k - 1) : k \in DOMAIN Small}
  \cup {Foreigner(WithCrc(SubSeq(Small, 1, 4) \o <<r>>)) :
          r \in {Padded("READOUT_POLICY", 8, 0), Readout(2), Padded("TILE_FIELD_LIMIT", 8, 0),
                 Routing(3, TRUE), Padded("TOPOLOGY", 12, Topo(1).body), Padded("CRC32", 8, 0),
                 [Topo(3) EXCEPT !.body.matches = FALSE],
                 [Topo(3) EXCEPT !.body.reserved = TRUE]}}
  \cup {[Base EXCEPT !.recs[6].body.sound = FALSE]}

\* Topologies that do not fit the arrays: larger than they are, before, between
\* and behind the records of the tiles, or without columns.
Columnless == [Topo(3) EXCEPT !.body.w = 0]

Oversized ==
  {Foreigner(WithCrc(Small \o <<Topo(MaxTiles + 1)>> \o s)) :
     s \in {<<>>, <<Pars(MaxTiles + 1, 2, 0)>>, <<Pars(MaxTiles + 1, -1, 0)>>,
           <<Routing(MaxTiles + 1, FALSE)>>, <<Wts(MaxTiles + 1)>>, <<Rof(MaxTiles + 1)>>,
           <<Rof(3)>>, <<Topo(3)>>, <<Topo(2), Rof(2)>>}}
  \cup {Foreigner(WithCrc(<<Columnless>> \o SubSeq(Small, 2, 5))),
        Foreigner(WithCrc(Small \o <<Columnless>>)),
        Foreigner(WithCrc(<<Topo(MaxTiles)>> \o Small))}

\* A last record whose padding is missing, in part or whole.
LastBare ==
  {Foreigner(Append(WithCrc(Small), r)) :
     r \in {Bare(Other(5)), Cut(Other(5), 6), Cut(Other(5), 7), Bare(Other(7)), Bare(Rof(3)),
           Bare(Pars(3, 2, 1)), Cut(Other(5), 4), Bare(Limit(2))}}
  \cup {Foreigner(<<Topo(3), Bare(r)>>) : r \in {Pars(3, 2, 1), Routing(3, FALSE)}}
  \cup {[Foreigner(WithCrc(Small) \o <<Bare(Other(k))>>)
           EXCEPT !.recs[6].body.over = SizeOf(WithCrc(Small)) - CrcRecord + TlvHeader + k] :
          k \in 4 .. 8}

MCForeign ==
  Orders \cup Overwrites \cup Defective \cup Oversized \cup LastBare \cup {Foreigner(<<>>)}
=============================================================================
