----------------------------- MODULE BakeProofs -----------------------------
(***************************************************************************)
(* Proofs about BakeCodec, for every set of blobs, configurations and      *)
(* requests, fields of every size and every order and number of records:   *)
(*   ParserYieldsImages  what is accepted is an image                      *)
(*   ParserStaysInside   neither the blob nor the view is overrun          *)
(*   EstimatesHold       a buffer of the estimated size holds the blob     *)
(*   WrittenAreAccepted  which blobs of the two writers are accepted       *)
(*   TheLastRecordWins   what the accepted view depends on                 *)
(*   SavedIsRestored     a swarm gets back what it saved                   *)
(* The invariants they rest on tell where the walk is (WalkInv), what the  *)
(* view holds of each tile (ToldInv) and of the field (HeadInv), and how   *)
(* far the blob of a writer has been taken (LayoutInv).                    *)
(***************************************************************************)
EXTENDS BakeCodec, OperatorLemmas, SequenceTheorems

RawParams == [lo : I16, hi : I16, decay : U16, dom : 0 .. 255, prio : Nat, pat : Nat]
RawFlags  == [dirs : SUBSET Dirs, busR : BOOLEAN, busW : BOOLEAN, spare : BOOLEAN]

\* Every value of a blob is one the parser may read.
BlobOK(b) ==
  /\ b.bakeId \in Nat /\ b.strait \in BOOLEAN
  /\ \A k \in DOMAIN b.recs : BodyOK(b.recs[k])

\* The parameters of a tile once they are in the view.
TileOK(p) == p \in Params /\ p.lo <= p.hi /\ p.dom \in 0 .. 15

ViewOK(v) ==
  /\ v.n \in Nat /\ v.w \in Nat /\ v.resv \in Nat /\ v.limit \in Nat
  /\ v.mode \in {0, 1} /\ v.bakeId \in Nat /\ v.strait \in BOOLEAN
  /\ DOMAIN v.par = Tiles /\ \A t \in Tiles : TileOK(v.par[t])
  /\ v.mask \in [Tiles -> SUBSET Dirs] /\ v.weight \in [Tiles -> Weights]
  /\ v.busR \in SUBSET Tiles /\ v.busW \in SUBSET Tiles

\* A topology that was parsed has given the view its size and its columns.
ViewFits == TopologiesFit(blob) /\ "TOPOLOGY" \in seen => TopologyFits(view)

\* The inductive invariant: the view is typed at every record, and fits as long
\* as the walk keeps to the records of the blob.
ParserInv ==
  /\ BlobOK(blob) /\ ViewOK(view)
  /\ status \in {"walking", "OK"} => ViewFits
  /\ Accepted => "TOPOLOGY" \in seen

-----------------------------------------------------------------------------
(* The blobs of the two writers                                            *)

LEMMA AppendedBodies ==
  ASSUME NEW S, NEW s \in Seq(S), NEW e, BodyOK(e), \A x \in S : BodyOK(x)
  PROVE  \A k \in DOMAIN Append(s, e) : BodyOK(Append(s, e)[k])
<1>1. ASSUME NEW k \in DOMAIN Append(s, e)
      PROVE  Append(s, e)[k] \in S \cup {e}
  OBVIOUS
<1>2. \A x \in S \cup {e} : BodyOK(x)
  OBVIOUS
<1>3. QED
  BY <1>1, <1>2

LEMMA CrcBody ==
  ASSUME NEW recs
  PROVE  BodyOK(Crc(recs))
BY DEF BodyOK, Crc, Padded

\* A tile that a record of k tiles covers is one of the k.
LEMMA Covered ==
  ASSUME NEW k \in Nat, NEW t \in Tiles
  PROVE  /\ t * ParamsSize < k * ParamsSize => t \in 0 .. k - 1
         /\ t * RoutingSize < k * RoutingSize => t \in 0 .. k - 1
         /\ t * WeightsSize < k * WeightsSize => t \in 0 .. k - 1
         /\ t * ResetSize < k * ResetSize => t \in 0 .. k - 1
BY MaxTilesAssumption DEF Tiles, ParamsSize, RoutingSize, WeightsSize, ResetSize

LEMMA SerializedOK ==
  ASSUME NEW c, ConfigOK(c)
  PROVE  BlobOK(Serialized(c))
<1> DEFINE k == SerializedCount(c)
           S == {TopologyOf(c, k), ParamsOf(c, k), RoutingOf(c, k), WeightsOf(c, k),
                 ResetOf(c, k), ReadoutOf(c), LimitOf(c)}
           s == <<TopologyOf(c, k), ParamsOf(c, k), RoutingOf(c, k), WeightsOf(c, k),
                  ResetOf(c, k), ReadoutOf(c), LimitOf(c)>>
<1>1. k \in 1 .. MaxTiles /\ k \in Nat
  BY MaxTilesAssumption DEF SerializedCount
<1>2. ASSUME NEW t \in 0 .. k - 1 PROVE t \in Tiles
  BY <1>1, MaxTilesAssumption DEF Tiles
<1> HIDE DEF k
<1>3. BodyOK(TopologyOf(c, k))
  BY <1>1, MaxTilesAssumption DEF TopologyOf, Unpadded, BodyOK, ConfigOK
<1>4. BodyOK(ParamsOf(c, k))
  <2>1. ASSUME NEW t \in 0 .. k - 1
        PROVE  [lo |-> c.par[t].lo, hi |-> c.par[t].hi, decay |-> c.par[t].decay,
                dom |-> c.par[t].dom % 16, prio |-> c.par[t].prio,
                pat |-> c.par[t].pat] \in RawParams
    <3>1. c.par[t] \in Params
      BY <1>2 DEF ConfigOK
    <3>2. c.par[t].dom % 16 \in 0 .. 255
      <4>1. c.par[t].dom \in Nat
        BY <3>1 DEF Params, DomainBits
      <4>2. \A x \in Nat : x % 16 \in 0 .. 255
        OBVIOUS
      <4>3. QED
        BY <4>1, <4>2
    <3>3. QED
      BY <3>1, <3>2 DEF Params, RawParams
  <2>2. QED
    BY <1>1, <2>1, Covered DEF ParamsOf, Unpadded, BodyOK, RawParams
<1>5. BodyOK(RoutingOf(c, k))
  <2>1. ASSUME NEW t \in 0 .. k - 1
        PROVE  [dirs |-> c.mask[t], busR |-> t \in c.busR, busW |-> t \in c.busW,
                spare |-> FALSE] \in RawFlags
    <3>1. c.mask[t] \in SUBSET Dirs
      BY <1>2 DEF ConfigOK
    <3> DEFINE r == t \in c.busR
               w == t \in c.busW
    <3>2. r \in BOOLEAN /\ w \in BOOLEAN
      OBVIOUS
    <3> HIDE DEF r, w
    <3>3. [dirs |-> c.mask[t], busR |-> r, busW |-> w, spare |-> FALSE] \in RawFlags
      BY <3>1, <3>2 DEF RawFlags
    <3>4. QED
      BY <3>3 DEF r, w
  <2>2. QED
    BY <1>1, <2>1, Covered DEF RoutingOf, Unpadded, BodyOK, RawFlags
<1>6. BodyOK(WeightsOf(c, k))
  <2>1. \A t \in 0 .. k - 1 : c.weight[t] \in Weights
    BY <1>2 DEF ConfigOK
  <2>2. QED
    BY <1>1, <2>1, Covered DEF WeightsOf, First, Unpadded, BodyOK
<1>7. BodyOK(ResetOf(c, k))
  <2>1. \A t \in 0 .. k - 1 : c.par[t].rof \in SUBSET Domains
    BY <1>2 DEF ConfigOK, Params
  <2>2. QED
    BY <1>1, <2>1, Covered DEF ResetOf, Unpadded, BodyOK
<1>8. BodyOK(ReadoutOf(c)) /\ BodyOK(LimitOf(c))
  BY DEF ReadoutOf, LimitOf, Unpadded, BodyOK, ConfigOK
<1>9. \A x \in S : BodyOK(x)
  BY <1>3, <1>4, <1>5, <1>6, <1>7, <1>8
<1>10. s \in Seq(S)
  <2> HIDE DEF k
  <2>1. QED
    OBVIOUS
<1>11. Serialized(c).recs = Append(s, Crc(s))
  BY DEF Serialized, SerializedRecords, WithCrc, k
<1> HIDE DEF s, S
<1>12. \A j \in DOMAIN Serialized(c).recs : BodyOK(Serialized(c).recs[j])
  BY <1>9, <1>10, <1>11, CrcBody, AppendedBodies
<1>13. QED
  BY <1>12 DEF BlobOK, Serialized, ConfigOK

LEMMA GeneratedOK ==
  ASSUME NEW g \in [n : 1 .. MaxTiles, lo : I16, hi : I16, decay : U16]
  PROVE  BlobOK(Generated(g))
<1> DEFINE readout == Padded("READOUT_POLICY", 12, 0)
           reset   == Padded("RESET_ON_FIRE_MASK16", g.n * ResetSize,
                             [t \in 0 .. g.n - 1 |-> {}])
           weights == Padded("TILE_WEIGHTS_PACKED", g.n * WeightsSize,
                             [t \in 0 .. g.n - 1 |-> ZeroWeight])
           limit   == Padded("TILE_FIELD_LIMIT", 4, g.n)
           S == {GeneratedTopology(g), GeneratedParams(g), GeneratedRouting(g), readout,
                 reset, weights, limit}
           s == <<GeneratedTopology(g), GeneratedParams(g), GeneratedRouting(g), readout,
                  reset, weights, limit>>
<1>1. g.n \in 1 .. MaxTiles /\ g.n \in Nat
  BY MaxTilesAssumption
<1>2. BodyOK(GeneratedTopology(g))
  BY <1>1, MaxTilesAssumption, GeometryAssumption
     DEF GeneratedTopology, Padded, BodyOK
<1>3. BodyOK(GeneratedParams(g))
  <2>1. [lo |-> g.lo, hi |-> g.hi, decay |-> g.decay, dom |-> 0, prio |-> 0,
         pat |-> 0] \in RawParams
    BY DEF RawParams
  <2>2. QED
    BY <1>1, <2>1, Covered DEF GeneratedParams, Padded, BodyOK, RawParams
<1>4. BodyOK(GeneratedRouting(g))
  <2>1. [dirs |-> {}, busR |-> FALSE, busW |-> FALSE, spare |-> FALSE] \in RawFlags
    BY DEF RawFlags
  <2>2. QED
    BY <1>1, <2>1, Covered DEF GeneratedRouting, Padded, BodyOK, RawFlags
<1>5. BodyOK(readout) /\ BodyOK(limit)
  BY <1>1 DEF Padded, BodyOK
<1>6. BodyOK(reset)
  BY <1>1, Covered DEF Padded, BodyOK
<1>7. BodyOK(weights)
  BY <1>1, Covered, ZeroWeightAssumption DEF Padded, BodyOK
<1>8. \A x \in S : BodyOK(x)
  BY <1>2, <1>3, <1>4, <1>5, <1>6, <1>7
<1>9. Generated(g).recs = Append(s, Crc(s))
  BY DEF Generated, GeneratedRecords, WithCrc
<1> HIDE DEF readout, reset, weights, limit
<1>10. s \in Seq(S)
  OBVIOUS
<1> HIDE DEF s, S
<1>11. \A j \in DOMAIN Generated(g).recs : BodyOK(Generated(g).recs[j])
  BY <1>8, <1>9, <1>10, CrcBody, AppendedBodies
<1>12. QED
  BY <1>11 DEF BlobOK, Generated

LEMMA InitParser == Init => ParserInv
<1> SUFFICES ASSUME Init PROVE ParserInv
  OBVIOUS
<1>1. BlobOK(blob)
  <2>1. CASE blob \in Foreign
    BY <2>1, ForeignAssumption DEF ForeignOK, BlobOK
  <2>2. ASSUME NEW c \in Saved, blob = Serialized(c) PROVE BlobOK(blob)
    BY <2>2, SavedAssumption, SerializedOK
  <2>3. ASSUME NEW g \in Requests, blob = Generated(g) PROVE BlobOK(blob)
    BY <2>3, RequestsAssumption, GeneratedOK
  <2>4. QED
    BY <2>1, <2>2, <2>3 DEF Init
<1>2. TileOK(ZeroParams)
  BY HalfAssumption DEF TileOK, ZeroParams, Params, I16, U16, DomainBits
<1>3. ViewOK(ClearedView(blob))
  BY <1>1, <1>2, MaxTilesAssumption, ZeroWeightAssumption DEF ClearedView, ViewOK, BlobOK
<1>4. QED
  BY <1>1, <1>3 DEF Init, ParserInv, Accepted

-----------------------------------------------------------------------------
(* The steps                                                               *)

\* A refusal is no acceptance.
LEMMA RefusedInv ==
  ASSUME ParserInv, NEW st, StopWith(st), st # "walking",
         st = "OK" => status = "walking" /\ "TOPOLOGY" \in seen
  PROVE  ParserInv'
BY DEF StopWith, ParserInv, Accepted, ViewFits

\* A record is taken with a view that is typed.
LEMMA TakenInv ==
  ASSUME ParserInv, AtHeader, NEW v, Take(v), ViewOK(v),
         TopologiesFit(blob) /\ ("TOPOLOGY" \in seen \/ rec.type = "TOPOLOGY") =>
           TopologyFits(v)
  PROVE  ParserInv'
<1>1. blob' = blob /\ view' = v /\ status' # "OK"
  BY DEF Take, Advance
<1>2. status' = "walking" => seen' = seen \cup {rec.type}
  BY DEF Take, Advance
<1>3. QED
  BY <1>1, <1>2 DEF ParserInv, Accepted, ViewFits

\* The record at hand, and the tiles it covers when its length is right.
LEMMA AtHand ==
  ASSUME ParserInv, AtHeader
  PROVE  BodyOK(rec) /\ ViewFits
BY DEF ParserInv, BlobOK, AtHeader, rec

LEMMA InViewTiles ==
  ASSUME ParserInv
  PROVE  /\ InView \subseteq Tiles
         /\ view.n \in Nat
         /\ \A t \in InView : /\ t * ParamsSize < view.n * ParamsSize
                              /\ t * RoutingSize < view.n * RoutingSize
                              /\ t * WeightsSize < view.n * WeightsSize
                              /\ t * ResetSize < view.n * ResetSize
BY SMTT(30), MaxTilesAssumption
   DEF ParserInv, ViewOK, InView, Tiles, ParamsSize, RoutingSize, WeightsSize, ResetSize

LEMMA TopologyInv == ParserInv /\ ParseTopology => ParserInv'
<1> SUFFICES ASSUME ParserInv, ParseTopology PROVE ParserInv'
  OBVIOUS
<1>1. AtHeader /\ rec.type = "TOPOLOGY"
  BY DEF ParseTopology, At
<1>2. ASSUME NEW st \in {"BAD_TLV_LEN", "TOPOLOGY_MISMATCH", "RESERVED_NON_ZERO"},
             StopWith(st)
      PROVE  ParserInv'
  BY <1>2, RefusedInv
<1> DEFINE v == [view EXCEPT !.n = rec.body.n, !.w = rec.body.w, !.resv = rec.body.resv]
<1>3. ASSUME rec.body.matches, Take(v) PROVE ParserInv'
  <2>1. /\ rec.body.n \in Nat /\ rec.body.w \in Nat /\ rec.body.resv \in Nat
        /\ TopologiesFit(blob) => TopologyFits(rec.body)
    BY <1>1, <1>3, AtHand DEF BodyOK, TopologiesFit, AtHeader, rec
  <2>2. ViewOK(v) /\ (TopologiesFit(blob) => TopologyFits(v))
    BY <2>1 DEF TopologyFits, ParserInv, ViewOK
  <2> HIDE DEF v
  <2>3. QED
    BY <1>1, <1>3, <2>2, TakenInv
<1>4. QED
  BY <1>2, <1>3 DEF ParseTopology

\* The refusals the records with tile data have in common.
LEMMA BadTilesInv ==
  ASSUME ParserInv, NEW type, NEW size, BadTiles(type, size)
  PROVE  ParserInv'
BY RefusedInv DEF BadTiles

LEMMA TileParamsInv == ParserInv /\ ParseTileParams => ParserInv'
<1> SUFFICES ASSUME ParserInv, AtTiles("TILE_PARAMS_V2", ParamsSize), RangesOK(rec.body),
                    Take([view EXCEPT !.par = Overlaid(@, [t \in InView |->
                                                  ParamsRead(rec.body[t], view.par[t])])])
             PROVE  ParserInv'
  BY BadTilesInv, RefusedInv DEF ParseTileParams, TakeTiles
<1> DEFINE read == [t \in InView |-> ParamsRead(rec.body[t], view.par[t])]
           v == [view EXCEPT !.par = Overlaid(@, read)]
<1>1. /\ AtHeader /\ "TOPOLOGY" \in seen
      /\ rec.len = view.n * ParamsSize /\ rec.type = "TILE_PARAMS_V2"
  BY DEF AtTiles, At
<1>2. ASSUME NEW t \in InView PROVE TileOK(read[t])
  <2>1. rec.body[t] \in RawParams
    BY SMTT(30), <1>1, AtHand, InViewTiles DEF BodyOK, RawParams
  <2>2. rec.body[t].dom % 16 \in 0 .. 15 /\ rec.body[t].dom % 16 \in DomainBits
    BY SMTT(30), <2>1 DEF RawParams, DomainBits
  <2>3. rec.body[t].lo <= rec.body[t].hi
    BY DEF RangesOK
  <2>4. QED
    <3>1. read[t] = ParamsRead(rec.body[t], view.par[t])
      OBVIOUS
    <3>2. \A q \in RawParams : \A old :
            q.dom % 16 \in DomainBits => ParamsRead(q, old) \in Params
      BY DEF ParamsRead, Params, RawParams
    <3>3. \A q, old : /\ ParamsRead(q, old).dom = q.dom % 16
                      /\ ParamsRead(q, old).lo = q.lo /\ ParamsRead(q, old).hi = q.hi
      BY DEF ParamsRead
    <3> HIDE DEF read
    <3>4. QED
      BY <2>1, <2>2, <2>3, <3>1, <3>2, <3>3 DEF TileOK
<1>3. ASSUME NEW t \in Tiles PROVE TileOK(Overlaid(view.par, read)[t])
  <2> HIDE DEF read
  <2>1. QED
    BY <1>2 DEF Overlaid, ParserInv, ViewOK
<1>4. ViewOK(v) /\ v.w = view.w /\ v.n = view.n
  <2> HIDE DEF read
  <2>1. DOMAIN Overlaid(view.par, read) = Tiles
    BY DEF Overlaid
  <2>2. QED
    BY <1>3, <2>1 DEF ParserInv, ViewOK
<1>5. Take(v)
  BY DEF v
<1> HIDE DEF v
<1>6. QED
  BY <1>1, <1>4, <1>5, AtHand, TakenInv DEF ViewFits, TopologyFits

LEMMA RoutingInv == ParserInv /\ ParseRouting => ParserInv'
<1> DEFINE v == [view EXCEPT
                   !.mask = Overlaid(@, [t \in InView |-> rec.body[t].dirs]),
                   !.busR = (@ \ InView) \cup {t \in InView : rec.body[t].busR},
                   !.busW = (@ \ InView) \cup {t \in InView : rec.body[t].busW}]
<1> SUFFICES ASSUME ParserInv, AtTiles("TILE_ROUTING_FLAGS16", RoutingSize), Take(v)
             PROVE  ParserInv'
  BY BadTilesInv, RefusedInv DEF ParseRouting, TakeTiles
<1>1. /\ AtHeader /\ "TOPOLOGY" \in seen
      /\ rec.len = view.n * RoutingSize /\ rec.type = "TILE_ROUTING_FLAGS16"
  BY DEF AtTiles, At
<1>2. \A t \in InView : rec.body[t].dirs \in SUBSET Dirs
  BY <1>1, AtHand, InViewTiles DEF BodyOK
<1>3. Overlaid(view.mask, [t \in InView |-> rec.body[t].dirs]) \in [Tiles -> SUBSET Dirs]
  BY <1>2 DEF Overlaid, ParserInv, ViewOK
<1>4. ViewOK(v) /\ v.w = view.w /\ v.n = view.n
  BY <1>3, InViewTiles DEF ParserInv, ViewOK
<1> HIDE DEF v
<1>5. QED
  BY <1>1, <1>4, AtHand, TakenInv DEF ViewFits, TopologyFits

LEMMA WeightsInv == ParserInv /\ ParseWeights => ParserInv'
<1> DEFINE v == [view EXCEPT !.weight = Overlaid(@, rec.body)]
<1> SUFFICES ASSUME ParserInv, AtTiles("TILE_WEIGHTS_PACKED", WeightsSize), Take(v)
             PROVE  ParserInv'
  BY BadTilesInv, RefusedInv DEF ParseWeights, TakeTiles
<1>1. /\ AtHeader /\ "TOPOLOGY" \in seen
      /\ rec.len = view.n * WeightsSize /\ rec.type = "TILE_WEIGHTS_PACKED"
  BY DEF AtTiles, At
<1>2. \A t \in InView : rec.body[t] \in Weights
  BY <1>1, AtHand, InViewTiles DEF BodyOK
<1>3. Overlaid(view.weight, rec.body) \in [Tiles -> Weights]
  BY <1>2 DEF Overlaid, ParserInv, ViewOK
<1>4. ViewOK(v) /\ v.w = view.w /\ v.n = view.n
  BY <1>3 DEF ParserInv, ViewOK
<1> HIDE DEF v
<1>5. QED
  BY <1>1, <1>4, AtHand, TakenInv DEF ViewFits, TopologyFits

LEMMA ResetInv == ParserInv /\ ParseResetOnFire => ParserInv'
<1> DEFINE par == [t \in Tiles |-> IF t \in InView
                                   THEN [view.par[t] EXCEPT !.rof = rec.body[t]]
                                   ELSE view.par[t]]
           v == [view EXCEPT !.par = par]
<1> SUFFICES ASSUME ParserInv, AtTiles("RESET_ON_FIRE_MASK16", ResetSize), Take(v)
             PROVE  ParserInv'
  BY BadTilesInv, RefusedInv DEF ParseResetOnFire, TakeTiles
<1>1. /\ AtHeader /\ "TOPOLOGY" \in seen
      /\ rec.len = view.n * ResetSize /\ rec.type = "RESET_ON_FIRE_MASK16"
  BY DEF AtTiles, At
<1>2. ASSUME NEW t \in Tiles PROVE TileOK(par[t])
  <2>1. TileOK(view.par[t])
    BY DEF ParserInv, ViewOK
  <2>2. CASE t \in InView
    <3>1. rec.body[t] \in SUBSET Domains
      BY <1>1, <2>2, AtHand, InViewTiles DEF BodyOK
    <3>2. QED
      BY <2>1, <2>2, <3>1 DEF TileOK, Params
  <2>3. QED
    BY <2>1, <2>2
<1>3. ViewOK(v) /\ v.w = view.w /\ v.n = view.n
  <2>1. DOMAIN par = Tiles
    OBVIOUS
  <2> HIDE DEF par
  <2>2. QED
    BY <1>2, <2>1 DEF ParserInv, ViewOK
<1> HIDE DEF v
<1>4. QED
  BY <1>1, <1>3, AtHand, TakenInv DEF ViewFits, TopologyFits

LEMMA PlainInv ==
  ASSUME ParserInv, ParseReadout \/ ParseFieldLimit \/ ParseCrc \/ Unknown
  PROVE  ParserInv'
<1>1. CASE ParseReadout
  <2> SUFFICES ASSUME At("READOUT_POLICY"), rec.body <= 1,
                      Take([view EXCEPT !.mode = rec.body])
               PROVE  ParserInv'
    BY <1>1, RefusedInv DEF ParseReadout
  <2>1. rec.body \in {0, 1}
    BY AtHand DEF At, BodyOK
  <2> DEFINE v == [view EXCEPT !.mode = rec.body]
  <2>2. ViewOK(v) /\ v.w = view.w /\ v.n = view.n
    BY <2>1 DEF ParserInv, ViewOK
  <2>3. Take(v) /\ AtHeader /\ rec.type = "READOUT_POLICY"
    BY DEF At
  <2> HIDE DEF v
  <2>4. QED
    BY <2>2, <2>3, AtHand, TakenInv DEF ViewFits, TopologyFits
<1>2. CASE ParseFieldLimit
  <2> SUFFICES ASSUME At("TILE_FIELD_LIMIT"), Take([view EXCEPT !.limit = rec.body])
               PROVE  ParserInv'
    BY <1>2, RefusedInv DEF ParseFieldLimit
  <2>1. rec.body \in Nat
    BY AtHand DEF At, BodyOK
  <2> DEFINE v == [view EXCEPT !.limit = rec.body]
  <2>2. ViewOK(v) /\ v.w = view.w /\ v.n = view.n
    BY <2>1 DEF ParserInv, ViewOK
  <2>3. Take(v) /\ AtHeader /\ rec.type = "TILE_FIELD_LIMIT"
    BY DEF At
  <2> HIDE DEF v
  <2>4. QED
    BY <2>2, <2>3, AtHand, TakenInv DEF ViewFits, TopologyFits
<1>3. CASE ParseCrc
  BY <1>3, RefusedInv, AtHand, TakenInv DEF ParseCrc, At, ParserInv, ViewFits
<1>4. CASE Unknown
  BY <1>4, AtHand, TakenInv DEF Unknown, Known, ParserInv, ViewFits
<1>5. QED
  BY <1>1, <1>2, <1>3, <1>4

-----------------------------------------------------------------------------
(* Where the parser is                                                     *)

\* The records of a blob are a sequence of them.
IsRecs(recs) ==
  /\ Len(recs) \in Nat /\ DOMAIN recs = 1 .. Len(recs)
  /\ \A k \in DOMAIN recs : recs[k].len \in Nat /\ recs[k].held \in Nat

Bytes(recs) == [k \in DOMAIN recs |-> TlvHeader + recs[k].held]

\* What is left of a blob at its record j.
Left(b, j) == SumOver(Bytes(b.recs), j .. Len(b.recs))

LEMMA LeftStep ==
  ASSUME NEW b, IsRecs(b.recs)
  PROVE  /\ \A j \in 1 .. Len(b.recs) + 1 : Left(b, j) \in Nat
         /\ \A j \in 1 .. Len(b.recs) :
              Left(b, j) = (TlvHeader + b.recs[j].held) + Left(b, j + 1)
         /\ Left(b, Len(b.recs) + 1) = 0
         /\ SizeOf(b.recs) = HeaderSize + Left(b, 1)
<1> DEFINE n == Len(b.recs)
           g == Bytes(b.recs)
<1>1. n \in Nat /\ \A k \in 1 .. n : g[k] \in Nat /\ g[k] = TlvHeader + b.recs[k].held
  BY DEF IsRecs, Bytes, TlvHeader
<1>2. SizeOf(b.recs) = HeaderSize + Left(b, 1)
  BY DEF SizeOf, Left, Bytes, IsRecs
<1>3. Left(b, n + 1) = 0
  <2>1. n + 1 .. n = {}
    BY <1>1
  <2>2. QED
    BY <2>1, SumEmpty DEF Left
<1> HIDE DEF g, n
<1>4. ASSUME NEW j \in 1 .. n + 1 PROVE SumOver(g, j .. n) \in Nat
  <2>1. j \in Int /\ n \in Int
    BY <1>1
  <2>2. IsFiniteSet(j .. n)
    BY <2>1, FS_Interval
  <2>3. \A k \in j .. n : g[k] \in Nat
    BY <1>1
  <2>4. QED
    BY <2>2, <2>3, SumNat
<1>5. ASSUME NEW j \in 1 .. n PROVE SumOver(g, j .. n) = g[j] + SumOver(g, j + 1 .. n)
  <2>1. j \in Int /\ n \in Int
    BY <1>1
  <2>2. IsFiniteSet(j .. n)
    BY <2>1, FS_Interval
  <2>3. j \in j .. n /\ (\A k \in j .. n : g[k] \in Int) /\ (j .. n) \ {j} = j + 1 .. n
    BY <1>1
  <2>4. SumOver(g, j .. n) = g[j] + SumOver(g, (j .. n) \ {j})
    BY <2>2, <2>3, SumRemove
  <2>5. QED
    BY <2>3, <2>4
<1>6. QED
  BY <1>1, <1>2, <1>3, <1>4, <1>5 DEF Left, g, n

\* A blob of one of the two writers, or a foreign one.
Written(b) ==
  \/ b \in Foreign
  \/ \E c \in Saved : b = Serialized(c)
  \/ \E g \in Requests : b = Generated(g)

\* Unpadded and padded records alike.
LEMMA PadFits ==
  ASSUME NEW len \in Nat
  PROVE  /\ Pad(len) \in 0 .. 3 /\ Span(len) \in Nat /\ len <= Span(len)
         /\ Span(len) % 4 = 0
         /\ Span(len) = len <=> len % 4 = 0
BY DEF Pad, Span

LEMMA SevenAndOne ==
  ASSUME NEW a1, NEW a2, NEW a3, NEW a4, NEW a5, NEW a6, NEW a7, NEW e
  PROVE  LET s == <<a1, a2, a3, a4, a5, a6, a7>>
             r == Append(s, e)
         IN  /\ Len(s) = 7 /\ DOMAIN s = 1 .. 7
             /\ Len(r) = 8 /\ DOMAIN r = 1 .. 8
             /\ \A j \in 1 .. 7 : r[j] = s[j]
             /\ r[1] = a1 /\ r[2] = a2 /\ r[3] = a3 /\ r[4] = a4
             /\ r[5] = a5 /\ r[6] = a6 /\ r[7] = a7 /\ r[8] = e
OBVIOUS

\* The record of the sum adds its twelve bytes, whatever comes before it.
LEMMA SizeWithCrc ==
  ASSUME NEW s, NEW r, Len(s) = 7, DOMAIN s = 1 .. 7, Len(r) = 8, DOMAIN r = 1 .. 8,
         \A j \in 1 .. 7 : r[j] = s[j] /\ s[j].held \in Nat, r[8] = Crc(s)
  PROVE  SizeOf(s) = SizeOf(r) - CrcRecord
<1> DEFINE g == Bytes(r)
           h == Bytes(s)
<1>1. \A j \in 1 .. 7 : g[j] = h[j] /\ g[j] \in Int
  BY DEF Bytes, TlvHeader
<1>2. g[8] = CrcRecord
  <2>1. r[8].held = 4
    BY DEF Crc, Padded, Span, Pad
  <2>2. 8 \in DOMAIN r
    OBVIOUS
  <2>3. QED
    BY <2>1, <2>2 DEF Bytes, TlvHeader, CrcRecord
<1>3. SizeOf(r) = HeaderSize + SumOver(g, 1 .. 8) /\ SizeOf(s) = HeaderSize + SumOver(h, 1 .. 7)
  BY DEF SizeOf, Bytes
<1> HIDE DEF g, h
<1>4. SumOver(g, 1 .. 7) = SumOver(h, 1 .. 7) /\ SumOver(g, 1 .. 7) \in Int
  <2> DEFINE S == 1 .. 7
  <2>0. 1 \in Int /\ 7 \in Int
    OBVIOUS
  <2>1. IsFiniteSet(S)
    BY <2>0, FS_Interval, Zenon
  <2>2. \A j \in S : g[j] = h[j] /\ g[j] \in Int
    BY <1>1
  <2> HIDE DEF S
  <2>3. SumOver(g, S) = SumOver(h, S) /\ SumOver(g, S) \in Int
    BY <2>1, <2>2, SumSame, SumInt
  <2>4. QED
    BY <2>3 DEF S
<1>5. SumOver(g, 1 .. 8) = g[8] + SumOver(g, 1 .. 7)
  <2>1. 8 \in 1 .. 8 /\ (1 .. 8) \ {8} = 1 .. 7
    OBVIOUS
  <2>0. 1 \in Int /\ 8 \in Int
    OBVIOUS
  <2>2. IsFiniteSet(1 .. 8)
    BY <2>0, FS_Interval, Zenon
  <2>3. \A j \in 1 .. 8 : g[j] \in Int
    BY <1>1, <1>2 DEF CrcRecord
  <2> DEFINE S == 1 .. 8
             e == 8
  <2>4. IsFiniteSet(S) /\ e \in S /\ (\A j \in S : g[j] \in Int) /\ S \ {e} = 1 .. 7
    BY <2>1, <2>2, <2>3
  <2> HIDE DEF S, e
  <2>5. SumOver(g, S) = g[e] + SumOver(g, S \ {e})
    BY <2>4, SumRemove
  <2>6. QED
    BY <2>4, <2>5 DEF S, e
<1>6. QED
  BY <1>2, <1>3, <1>4, <1>5 DEF CrcRecord, HeaderSize

\* The parser returns, or leaves the arrays of the view.
Returns ==
  /\ Walking
  /\ \E st : /\ StopWith(st)
             /\ st \in Refusals \cup {"OK", "past_arrays"}
             /\ st = "OK" => rest = 0
             /\ st = "past_arrays" =>
                  \/ status = "astray"
                  \/ status = "walking" /\ "TOPOLOGY" \in seen /\ view.n > MaxTiles

Takes == AtHeader /\ rec.len <= rest - TlvHeader /\ \E v : Take(v)

Strays ==
  /\ status = "astray"
  /\ \E len \in StrayLens : /\ len <= rest - TlvHeader
                            /\ Advance(len, "astray") /\ UNCHANGED <<blob, i, view, seen>>

\* The parser's steps: it takes a record, reads on astray, or ends.
LEMMA Steps ==
  ASSUME [Next]_vars
  PROVE  UNCHANGED vars \/ CheckHeader \/ Returns \/ Takes \/ Strays
<1>1. ASSUME NEW st \in Refusals, StopWith(st), Walking
      PROVE  Returns
  BY <1>1 DEF Returns, Refusals
<1>0. /\ "MISSING_TLV" \in Refusals /\ "BAD_TLV_LEN" \in Refusals
      /\ "TOPOLOGY_MISMATCH" \in Refusals /\ "RESERVED_NON_ZERO" \in Refusals
      /\ "CRC_FAIL" \in Refusals
  BY DEF Refusals
<1>2. ASSUME NEW type, At(type) PROVE Walking
  BY <1>2 DEF At, AtHeader, Walking
<1>3. TooShort \/ Overlong => Returns
  BY <1>0, <1>1 DEF TooShort, Overlong, AtHeader, Walking
<1>4. EndOfBlob => Returns
  BY <1>0 DEF EndOfBlob, Returns
<1>5. ASSUME NEW type, NEW size, BadTiles(type, size) PROVE Returns
  BY <1>0, <1>1, <1>2, <1>5 DEF BadTiles
<1>6. ASSUME NEW type, At(type), NEW v, Take(v) PROVE Takes
  BY <1>6 DEF At, Takes
<1>7. ASSUME NEW type, NEW size, AtTiles(type, size), NEW v, TakeTiles(v)
      PROVE  Returns \/ Takes
  <2>1. CASE Take(v)
    BY <1>6, <1>7, <2>1 DEF AtTiles
  <2>2. CASE view.n > MaxTiles /\ StopWith("past_arrays")
    BY <1>7, <2>2 DEF AtTiles, At, AtHeader, Walking, Returns, Refusals
  <2>3. QED
    BY <1>7, <2>1, <2>2 DEF TakeTiles
<1>8. ParseTopology => Returns \/ Takes
  BY <1>0, <1>1, <1>2, <1>6 DEF ParseTopology
<1>9. ParseTileParams => Returns \/ Takes
  BY <1>0, <1>1, <1>2, <1>5, <1>7 DEF ParseTileParams, AtTiles
<1>10. ParseRouting => Returns \/ Takes
  BY <1>0, <1>1, <1>2, <1>5, <1>7 DEF ParseRouting, AtTiles
<1>11. ParseWeights \/ ParseResetOnFire => Returns \/ Takes
  BY <1>5, <1>7 DEF ParseWeights, ParseResetOnFire
<1>12. ParseReadout \/ ParseFieldLimit \/ ParseCrc => Returns \/ Takes
  BY <1>0, <1>1, <1>2, <1>6 DEF ParseReadout, ParseFieldLimit, ParseCrc
<1>13. Unknown => Takes
  BY DEF Unknown, Takes
<1>14. ASSUME Stray PROVE Returns \/ Strays
  <2>1. CASE \E st \in Refusals \cup {"past_arrays"} : StopWith(st)
    BY <1>1, <1>14, <2>1 DEF Stray, Returns, Walking
  <2>2. CASE ~\E st \in Refusals \cup {"past_arrays"} : StopWith(st)
    BY <1>14, <2>2 DEF Stray, Strays
  <2>3. QED
    BY <2>1, <2>2
<1>15. QED
  BY <1>3, <1>4, <1>8, <1>9, <1>10, <1>11, <1>12, <1>13, <1>14 DEF Next, ParseRecord

\* What the serializer writes, record by record.
SerializedAs(c, k, b) ==
  /\ k \in 1 .. MaxTiles /\ b.defects = {} /\ b.tail = 0
  /\ IsRecs(b.recs) /\ Len(b.recs) = 8
  /\ b.recs[1] = TopologyOf(c, k) /\ b.recs[2] = ParamsOf(c, k)
  /\ b.recs[3] = RoutingOf(c, k) /\ b.recs[4] = WeightsOf(c, k)
  /\ b.recs[5] = ResetOf(c, k) /\ b.recs[6] = ReadoutOf(c) /\ b.recs[7] = LimitOf(c)
  /\ b.recs[8].type = "CRC32" /\ b.recs[8].len = 4 /\ b.recs[8].held = 4
  /\ b.recs[8].body.sound /\ b.recs[8].body.over = BlobSize(b) - CrcRecord

LEMMA SerializedShape ==
  ASSUME NEW c, ConfigOK(c)
  PROVE  SerializedAs(c, SerializedCount(c), Serialized(c))
<1> DEFINE k == SerializedCount(c)
           b == Serialized(c)
           s == <<TopologyOf(c, k), ParamsOf(c, k), RoutingOf(c, k), WeightsOf(c, k),
                  ResetOf(c, k), ReadoutOf(c), LimitOf(c)>>
           r == Append(s, Crc(s))
<1>1. k \in 1 .. MaxTiles /\ k \in Nat
  BY MaxTilesAssumption DEF SerializedCount
<1>2. b.recs = r /\ r = WithCrc(s) /\ b.defects = {} /\ b.tail = 0
  BY DEF Serialized, SerializedRecords, WithCrc
<1>3. /\ Len(s) = 7 /\ DOMAIN s = 1 .. 7 /\ Len(r) = 8 /\ DOMAIN r = 1 .. 8
      /\ \A j \in 1 .. 7 : r[j] = s[j]
      /\ r[1] = TopologyOf(c, k) /\ r[2] = ParamsOf(c, k)
      /\ r[3] = RoutingOf(c, k) /\ r[4] = WeightsOf(c, k)
      /\ r[5] = ResetOf(c, k) /\ r[6] = ReadoutOf(c) /\ r[7] = LimitOf(c)
      /\ r[8] = Crc(s)
  <2> HIDE DEF k
  <2>1. QED
    BY SevenAndOne
<1> HIDE DEF k, s, r, b
<1>4. /\ r[1].len = 16 /\ r[1].held = 16
      /\ r[2].len = k * 13 /\ r[2].held = k * 13
      /\ r[3].len = k * 2 /\ r[3].held = k * 2
      /\ r[4].len = k * 40 /\ r[4].held = k * 40
      /\ r[5].len = k * 2 /\ r[5].held = k * 2
      /\ r[6].len = 12 /\ r[6].held = 12
      /\ r[7].len = 4 /\ r[7].held = 4
  BY <1>3 DEF TopologyOf, ParamsOf, RoutingOf, WeightsOf, ResetOf, ReadoutOf, LimitOf, Unpadded,
              ParamsSize, RoutingSize, WeightsSize, ResetSize
<1>5. /\ r[8].type = "CRC32" /\ r[8].len = 4 /\ r[8].held = 4
      /\ r[8].body.sound /\ r[8].body.over = SizeOf(s)
  BY <1>3 DEF Crc, Padded, Span, Pad
<1>6. IsRecs(r)
  <2>1. ASSUME NEW j \in 1 .. 8 PROVE r[j].len \in Nat /\ r[j].held \in Nat
    <3>1. j \in {1, 2, 3, 4, 5, 6, 7, 8}
      OBVIOUS
    <3>2. QED
      BY <1>1, <1>4, <1>5, <3>1
  <2>2. QED
    BY <1>3, <2>1 DEF IsRecs
<1>7. SizeOf(s) = SizeOf(r) - CrcRecord
  <2>1. \A j \in 1 .. 7 : r[j] = s[j] /\ s[j].held \in Nat
    BY <1>3, <1>6 DEF IsRecs
  <2>2. QED
    BY <1>3, <2>1, SizeWithCrc
<1>8. SizeOf(s) = BlobSize(b) - CrcRecord
  <2>1. SizeOf(r) \in Nat
    <3>1. IsRecs(b.recs) /\ Len(b.recs) = 8 /\ b.recs = r
      BY <1>2, <1>3, <1>6
    <3>2. Left(b, 1) \in Nat /\ SizeOf(b.recs) = HeaderSize + Left(b, 1)
      BY <3>1, LeftStep
    <3>3. QED
      BY <3>1, <3>2 DEF HeaderSize
  <2>2. QED
    BY <1>2, <1>7, <2>1 DEF BlobSize
<1>9. SerializedAs(c, k, b)
  BY <1>1, <1>2, <1>3, <1>5, <1>6, <1>8 DEF SerializedAs
<1>10. QED
  BY <1>9 DEF k, b

\* What the generator writes.
GeneratedAs(g, b) ==
  /\ g.n \in 1 .. MaxTiles /\ b.defects = {} /\ b.tail = 0
  /\ IsRecs(b.recs) /\ Len(b.recs) = 8
  /\ b.recs[1] = GeneratedTopology(g) /\ b.recs[2] = GeneratedParams(g)
  /\ b.recs[3] = GeneratedRouting(g) /\ b.recs[4] = Padded("READOUT_POLICY", 12, 0)
  /\ b.recs[5] = Padded("RESET_ON_FIRE_MASK16", g.n * ResetSize, [t \in 0 .. g.n - 1 |-> {}])
  /\ b.recs[6] = Padded("TILE_WEIGHTS_PACKED", g.n * WeightsSize,
                        [t \in 0 .. g.n - 1 |-> ZeroWeight])
  /\ b.recs[7] = Padded("TILE_FIELD_LIMIT", 4, g.n)
  /\ b.recs[8].type = "CRC32" /\ b.recs[8].len = 4 /\ b.recs[8].held = 4
  /\ b.recs[8].body.sound /\ b.recs[8].body.over = BlobSize(b) - CrcRecord

LEMMA GeneratedShape ==
  ASSUME NEW g \in [n : 1 .. MaxTiles, lo : I16, hi : I16, decay : U16]
  PROVE  GeneratedAs(g, Generated(g))
<1> DEFINE b == Generated(g)
           a4 == Padded("READOUT_POLICY", 12, 0)
           a5 == Padded("RESET_ON_FIRE_MASK16", g.n * ResetSize, [t \in 0 .. g.n - 1 |-> {}])
           a6 == Padded("TILE_WEIGHTS_PACKED", g.n * WeightsSize,
                        [t \in 0 .. g.n - 1 |-> ZeroWeight])
           a7 == Padded("TILE_FIELD_LIMIT", 4, g.n)
           s == <<GeneratedTopology(g), GeneratedParams(g), GeneratedRouting(g),
                  a4, a5, a6, a7>>
           r == Append(s, Crc(s))
<1>1. g.n \in 1 .. MaxTiles /\ g.n \in Nat
  BY MaxTilesAssumption
<1>2. b.recs = r /\ r = WithCrc(s) /\ b.defects = {} /\ b.tail = 0
  BY DEF Generated, GeneratedRecords, WithCrc
<1>3. /\ Len(s) = 7 /\ DOMAIN s = 1 .. 7 /\ Len(r) = 8 /\ DOMAIN r = 1 .. 8
      /\ \A j \in 1 .. 7 : r[j] = s[j]
      /\ r[1] = GeneratedTopology(g) /\ r[2] = GeneratedParams(g)
      /\ r[3] = GeneratedRouting(g) /\ r[4] = a4 /\ r[5] = a5 /\ r[6] = a6 /\ r[7] = a7
      /\ r[8] = Crc(s)
  <2> HIDE DEF a4, a5, a6, a7
  <2>1. QED
    BY SevenAndOne
<1> HIDE DEF s, r, b
<1>4. \A len \in Nat : Span(len) \in Nat
  BY PadFits
<1>5. /\ r[1].len = 16 /\ r[1].held = Span(16)
      /\ r[2].len = g.n * 13 /\ r[2].held = Span(g.n * 13)
      /\ r[3].len = g.n * 2 /\ r[3].held = Span(g.n * 2)
      /\ r[4].len = 12 /\ r[4].held = Span(12)
      /\ r[5].len = g.n * 2 /\ r[5].held = Span(g.n * 2)
      /\ r[6].len = g.n * 40 /\ r[6].held = Span(g.n * 40)
      /\ r[7].len = 4 /\ r[7].held = Span(4)
  BY <1>3 DEF GeneratedTopology, GeneratedParams, GeneratedRouting, Padded,
              ParamsSize, RoutingSize, WeightsSize, ResetSize
<1>6. /\ r[8].type = "CRC32" /\ r[8].len = 4 /\ r[8].held = 4
      /\ r[8].body.sound /\ r[8].body.over = SizeOf(s)
  BY <1>3 DEF Crc, Padded, Span, Pad
<1>7. IsRecs(r)
  <2>1. ASSUME NEW j \in 1 .. 8 PROVE r[j].len \in Nat /\ r[j].held \in Nat
    <3>1. j \in {1, 2, 3, 4, 5, 6, 7, 8}
      OBVIOUS
    <3>2. g.n * 13 \in Nat /\ g.n * 2 \in Nat /\ g.n * 40 \in Nat
      BY <1>1
    <3>3. QED
      BY <1>4, <1>5, <1>6, <3>1, <3>2
  <2>2. QED
    BY <1>3, <2>1 DEF IsRecs
<1>8. SizeOf(s) = SizeOf(r) - CrcRecord
  <2>1. \A j \in 1 .. 7 : r[j] = s[j] /\ s[j].held \in Nat
    <3> HIDE DEF a4, a5, a6, a7
    <3>1. QED
      BY <1>3, <1>7 DEF IsRecs
  <2>2. QED
    BY <1>3, <2>1, SizeWithCrc
<1>9. SizeOf(s) = BlobSize(b) - CrcRecord
  <2>1. SizeOf(r) \in Nat
    <3>1. IsRecs(b.recs) /\ Len(b.recs) = 8 /\ b.recs = r
      BY <1>2, <1>3, <1>7
    <3>2. Left(b, 1) \in Nat /\ SizeOf(b.recs) = HeaderSize + Left(b, 1)
      BY <3>1, LeftStep
    <3>3. QED
      BY <3>1, <3>2 DEF HeaderSize
  <2>2. QED
    BY <1>2, <1>8, <2>1 DEF BlobSize
<1>10. GeneratedAs(g, b)
  BY <1>1, <1>2, <1>3, <1>6, <1>7, <1>9 DEF GeneratedAs
<1>11. QED
  BY <1>10 DEF b

LEMMA WrittenShape ==
  ASSUME NEW b, Written(b)
  PROVE  IsRecs(b.recs) /\ b.tail \in Nat
<1>1. CASE b \in Foreign
  <2>1. ForeignOK(b)
    BY <1>1, ForeignAssumption
  <2> DEFINE S == {b.recs[k] : k \in DOMAIN b.recs}
  <2>2. b.recs \in Seq(S)
    BY <2>1 DEF ForeignOK
  <2> HIDE DEF S
  <2>3. Len(b.recs) \in Nat /\ DOMAIN b.recs = 1 .. Len(b.recs)
    BY <2>2
  <2>4. QED
    BY <2>1, <2>3 DEF ForeignOK, IsRecs, TlvHeader
<1>2. ASSUME NEW c \in Saved, b = Serialized(c) PROVE IsRecs(b.recs) /\ b.tail \in Nat
  BY <1>2, SerializedShape, SavedAssumption DEF SerializedAs
<1>3. ASSUME NEW g \in Requests, b = Generated(g) PROVE IsRecs(b.recs) /\ b.tail \in Nat
  <2>1. GeneratedAs(g, b)
    BY <1>3, GeneratedShape, RequestsAssumption
  <2>2. QED
    BY <2>1 DEF GeneratedAs
<1>4. QED
  BY <1>1, <1>2, <1>3 DEF Written

\* Who wrote a blob is told by its source.
LEMMA WrittenBy ==
  ASSUME NEW b, Written(b)
  PROVE  /\ b.src.by = "serializer" =>
              b.src.cfg \in Saved /\ b = Serialized(b.src.cfg)
                /\ SerializedAs(b.src.cfg, SerializedCount(b.src.cfg), b)
         /\ b.src.by = "generator" =>
              b.src.args \in Requests /\ b = Generated(b.src.args)
                /\ GeneratedAs(b.src.args, b)
<1>1. "other" # "serializer" /\ "other" # "generator" /\ "serializer" # "generator"
  OBVIOUS
<1>2. CASE b \in Foreign
  BY <1>1, <1>2, ForeignAssumption
<1>3. ASSUME NEW c \in Saved, b = Serialized(c)
      PROVE  b.src.by = "serializer" /\ b.src.cfg = c
               /\ SerializedAs(c, SerializedCount(c), b)
  <2>1. SerializedAs(c, SerializedCount(c), b)
    BY <1>3, SerializedShape, SavedAssumption
  <2>2. QED
    BY <1>3, <2>1 DEF Serialized
<1>4. ASSUME NEW g \in Requests, b = Generated(g)
      PROVE  b.src.by = "generator" /\ b.src.args = g /\ GeneratedAs(g, b)
  <2>1. GeneratedAs(g, b)
    BY <1>4, GeneratedShape, RequestsAssumption
  <2>2. QED
    BY <1>4, <2>1 DEF Generated
<1>5. QED
  BY <1>1, <1>2, <1>3, <1>4, Zenon DEF Written

LEMMA LeftOfEight ==
  ASSUME NEW b, IsRecs(b.recs), Len(b.recs) = 8
  PROVE  /\ SizeOf(b.recs) = HeaderSize + 64 + b.recs[1].held + b.recs[2].held
                               + b.recs[3].held + b.recs[4].held + b.recs[5].held
                               + b.recs[6].held + b.recs[7].held + b.recs[8].held
         /\ \A j \in 1 .. 8 : b.recs[j].held \in Nat /\ b.recs[j].len \in Nat
<1>1. \A j \in 1 .. 8 : b.recs[j].held \in Nat /\ b.recs[j].len \in Nat
  BY DEF IsRecs
<1>2. /\ \A j \in 1 .. 9 : Left(b, j) \in Nat
      /\ \A j \in 1 .. 8 : Left(b, j) = (TlvHeader + b.recs[j].held) + Left(b, j + 1)
      /\ Left(b, 9) = 0 /\ SizeOf(b.recs) = HeaderSize + Left(b, 1)
  <2>1. /\ \A j \in 1 .. Len(b.recs) + 1 : Left(b, j) \in Nat
        /\ \A j \in 1 .. Len(b.recs) :
             Left(b, j) = (TlvHeader + b.recs[j].held) + Left(b, j + 1)
        /\ Left(b, Len(b.recs) + 1) = 0
        /\ SizeOf(b.recs) = HeaderSize + Left(b, 1)
    BY LeftStep
  <2>2. Len(b.recs) + 1 = 9
    OBVIOUS
  <2>3. QED
    BY <2>1, <2>2
<1>3. /\ Left(b, 1) = (8 + b.recs[1].held) + Left(b, 2)
      /\ Left(b, 2) = (8 + b.recs[2].held) + Left(b, 3)
      /\ Left(b, 3) = (8 + b.recs[3].held) + Left(b, 4)
      /\ Left(b, 4) = (8 + b.recs[4].held) + Left(b, 5)
      /\ Left(b, 5) = (8 + b.recs[5].held) + Left(b, 6)
      /\ Left(b, 6) = (8 + b.recs[6].held) + Left(b, 7)
      /\ Left(b, 7) = (8 + b.recs[7].held) + Left(b, 8)
      /\ Left(b, 8) = (8 + b.recs[8].held) + Left(b, 9)
  BY <1>2 DEF TlvHeader
<1>4. QED
  BY <1>1, <1>2, <1>3 DEF HeaderSize

LEMMA SerializedFits ==
  ASSUME NEW c, NEW k, NEW b, SerializedAs(c, k, b)
  PROVE  BlobSize(b) <= EstimateSerialized(k)
<1>1. k \in Nat /\ k * 13 \in Nat /\ k * 2 \in Nat /\ k * 40 \in Nat
  BY MaxTilesAssumption DEF SerializedAs
<1>2. /\ b.recs[1].held = 16
      /\ b.recs[2].held = k * 13 /\ b.recs[3].held = k * 2
      /\ b.recs[4].held = k * 40 /\ b.recs[5].held = k * 2
      /\ b.recs[6].held = 12 /\ b.recs[7].held = 4 /\ b.recs[8].held = 4
  BY DEF SerializedAs, TopologyOf, ParamsOf, RoutingOf, WeightsOf, ResetOf, ReadoutOf, LimitOf,
         Unpadded, ParamsSize, RoutingSize, WeightsSize, ResetSize
<1>3. SizeOf(b.recs) = 28 + 64 + 16 + k * 13 + k * 2 + k * 40 + k * 2 + 12 + 4 + 4
  BY SMTT(30), <1>2, LeftOfEight DEF SerializedAs, HeaderSize
<1>4. BlobSize(b) = SizeOf(b.recs)
  BY <1>1, <1>3 DEF BlobSize, SerializedAs
<1>5. Span(16) = 16 /\ Span(12) = 12 /\ Span(4) = 4
  BY DEF Span, Pad
<1>6. EstimateSerialized(k) =
        28 + (8 + 16) + (8 + Span(k * 13)) + (8 + Span(k * 2)) + (8 + Span(k * 40))
          + (8 + Span(k * 2)) + (8 + 12) + (8 + 4) + 12
  BY <1>5 DEF EstimateSerialized, Sized, HeaderSize, TlvHeader, CrcRecord,
              ParamsSize, RoutingSize, WeightsSize, ResetSize
<1>7. /\ k * 13 <= Span(k * 13) /\ Span(k * 13) \in Nat
      /\ k * 2 <= Span(k * 2) /\ Span(k * 2) \in Nat
      /\ k * 40 <= Span(k * 40) /\ Span(k * 40) \in Nat
  BY <1>1, PadFits
<1>8. QED
  BY <1>1, <1>3, <1>4, <1>6, <1>7

LEMMA GeneratedFits ==
  ASSUME NEW g, NEW b, GeneratedAs(g, b)
  PROVE  BlobSize(b) = EstimateGenerated(g.n)
<1> DEFINE k == g.n
<1>1. k \in Nat /\ k * 13 \in Nat /\ k * 2 \in Nat /\ k * 40 \in Nat
  <2>1. k \in 1 .. MaxTiles
    BY DEF GeneratedAs
  <2> HIDE DEF k
  <2>2. QED
    BY <2>1, MaxTilesAssumption
<1>2. Span(16) = 16 /\ Span(12) = 12 /\ Span(4) = 4
  BY DEF Span, Pad
<1>3. /\ b.recs[1].held = 16
      /\ b.recs[2].held = Span(k * 13) /\ b.recs[3].held = Span(k * 2)
      /\ b.recs[4].held = 12 /\ b.recs[5].held = Span(k * 2)
      /\ b.recs[6].held = Span(k * 40) /\ b.recs[7].held = 4 /\ b.recs[8].held = 4
  BY <1>2 DEF GeneratedAs, GeneratedTopology, GeneratedParams, GeneratedRouting,
         Padded, ParamsSize, RoutingSize, WeightsSize, ResetSize
<1>4. /\ Span(k * 13) \in Nat /\ Span(k * 2) \in Nat /\ Span(k * 40) \in Nat
  BY <1>1, PadFits
<1>5. SizeOf(b.recs) = 28 + 64 + 16 + Span(k * 13) + Span(k * 2) + 12 + Span(k * 2)
                         + Span(k * 40) + 4 + 4
  <2>1. IsRecs(b.recs) /\ Len(b.recs) = 8
    BY DEF GeneratedAs
  <2> HIDE DEF k
  <2>2. SizeOf(b.recs) = HeaderSize + 64 + b.recs[1].held + b.recs[2].held
                               + b.recs[3].held + b.recs[4].held + b.recs[5].held
                               + b.recs[6].held + b.recs[7].held + b.recs[8].held
    BY <2>1, LeftOfEight
  <2>3. QED
    BY <1>3, <2>2 DEF HeaderSize
<1>6. BlobSize(b) = SizeOf(b.recs)
  BY <1>4, <1>5 DEF BlobSize, GeneratedAs
<1>7. EstimateGenerated(k) =
        28 + (8 + 16) + (8 + Span(k * 13)) + (8 + Span(k * 2)) + (8 + Span(k * 40))
          + (8 + Span(k * 2)) + (8 + 12) + (8 + 4) + 12
  BY DEF EstimateGenerated, Sized, HeaderSize, TlvHeader, CrcRecord,
              ParamsSize, RoutingSize, WeightsSize, ResetSize
<1> HIDE DEF k
<1>8. BlobSize(b) = EstimateGenerated(k)
  BY <1>4, <1>5, <1>6, <1>7
<1>9. QED
  BY <1>8 DEF k

\* The walk: what is left is what the records from the cursor on take up, and a
\* parse that accepts has come to the end of them.  Every step leaves what is left
\* as it was modulo four, so a walk that is astray never comes to its end.
WalkInv ==
  /\ Written(blob)
  /\ status = "header" => i = 1 /\ seen = {} /\ view = ClearedView(blob)
  /\ status = "walking" => /\ i \in 1 .. Len(blob.recs) + 1
                           /\ rest = Left(blob, i) + blob.tail
  /\ Walking => rest \in Nat /\ (rest % 4 = 0 <=> Aligned(blob))
  /\ status \in {"astray", "past_blob"} => ~Aligned(blob)
  /\ Accepted => i = Len(blob.recs) + 1

LEMMA InitWalk == Init => WalkInv
BY DEF Init, WalkInv, Written, Accepted, Walking

\* The end of the blob is the end of its records.
LEMMA AtTheEnd ==
  ASSUME WalkInv, status = "walking", rest = 0
  PROVE  i = Len(blob.recs) + 1
<1>1. IsRecs(blob.recs) /\ blob.tail \in Nat
  BY WrittenShape DEF WalkInv
<1>2. i \in 1 .. Len(blob.recs) + 1 /\ Left(blob, i) + blob.tail = 0 /\ Len(blob.recs) \in Nat
  BY <1>1 DEF WalkInv, IsRecs
<1>3. ASSUME i \in 1 .. Len(blob.recs) PROVE FALSE
  <2>1. Left(blob, i) = (TlvHeader + blob.recs[i].held) + Left(blob, i + 1)
          /\ Left(blob, i + 1) \in Nat /\ blob.recs[i].held \in Nat
    <3>1. i + 1 \in 1 .. Len(blob.recs) + 1 /\ i \in DOMAIN blob.recs
      BY <1>1, <1>2, <1>3 DEF IsRecs
    <3>2. QED
      BY <1>1, <1>3, <3>1, LeftStep DEF IsRecs
  <2> DEFINE x == Left(blob, i)
             y == Left(blob, i + 1)
             z == blob.tail
             h == blob.recs[i].held
  <2>2. x = (8 + h) + y /\ y \in Nat /\ h \in Nat /\ z \in Nat /\ x + z = 0
    BY <1>1, <1>2, <2>1 DEF TlvHeader
  <2> HIDE DEF x, y, z, h
  <2>3. QED
    BY <2>2
<1>4. QED
  BY <1>2, <1>3

LEMMA NotAstray ==
  ASSUME WalkInv, Walking, rest = 0
  PROVE  status = "walking"
BY DEF WalkInv, Walking

\* Record by record the walk keeps what is left modulo four.
LEMMA FourOff ==
  ASSUME NEW len \in Nat, NEW r \in Nat, Span(len) <= r - TlvHeader
  PROVE  /\ r - TlvHeader - Span(len) \in Nat
         /\ (r - TlvHeader - Span(len)) % 4 = 0 <=> r % 4 = 0
<1> DEFINE q == Span(len)
<1>1. q \in Nat /\ q % 4 = 0 /\ q <= r - 8
  BY PadFits DEF TlvHeader
<1> HIDE DEF q
<1>2. r - 8 - q \in Nat /\ ((r - 8 - q) % 4 = 0 <=> r % 4 = 0)
  BY <1>1
<1>3. QED
  BY <1>2 DEF TlvHeader, q

\* The sizes of the blobs that the serializer writes.
LEMMA SerializedSize ==
  ASSUME NEW c, NEW k, NEW b, SerializedAs(c, k, b)
  PROVE  /\ Aligned(b) <=> k % 4 = 0
         /\ k % 4 = 0 => \A j \in 1 .. 8 : b.recs[j].held = Span(b.recs[j].len)
<1>1. k \in Nat /\ k * 13 \in Nat /\ k * 2 \in Nat /\ k * 40 \in Nat
  BY MaxTilesAssumption DEF SerializedAs
<1>2. /\ b.recs[1].held = 16 /\ b.recs[1].len = 16
      /\ b.recs[2].held = k * 13 /\ b.recs[2].len = k * 13
      /\ b.recs[3].held = k * 2 /\ b.recs[3].len = k * 2
      /\ b.recs[4].held = k * 40 /\ b.recs[4].len = k * 40
      /\ b.recs[5].held = k * 2 /\ b.recs[5].len = k * 2
      /\ b.recs[6].held = 12 /\ b.recs[6].len = 12
      /\ b.recs[7].held = 4 /\ b.recs[7].len = 4
      /\ b.recs[8].held = 4 /\ b.recs[8].len = 4
  BY DEF SerializedAs, TopologyOf, ParamsOf, RoutingOf, WeightsOf, ResetOf, ReadoutOf, LimitOf,
         Unpadded, ParamsSize, RoutingSize, WeightsSize, ResetSize
<1>3. BlobSize(b) = 128 + k * 57
  <2>1. IsRecs(b.recs) /\ Len(b.recs) = 8 /\ b.tail = 0
    BY DEF SerializedAs
  <2>2. SizeOf(b.recs) = 28 + 64 + 16 + k * 13 + k * 2 + k * 40 + k * 2 + 12 + 4 + 4
    BY SMTT(30), <1>2, <2>1, LeftOfEight DEF HeaderSize
  <2>3. QED
    BY <1>1, <2>1, <2>2 DEF BlobSize
<1>4. (128 + k * 57) % 4 = 0 <=> k % 4 = 0
  BY <1>1
<1>5. ASSUME k % 4 = 0, NEW j \in 1 .. 8 PROVE b.recs[j].held = Span(b.recs[j].len)
  <2>1. /\ (k * 13) % 4 = 0 /\ (k * 2) % 4 = 0 /\ (k * 40) % 4 = 0
        /\ 16 % 4 = 0 /\ 12 % 4 = 0 /\ 4 % 4 = 0
    BY <1>1, <1>5
  <2>2. \A len \in {16, 12, 4, k * 13, k * 2, k * 40} : Span(len) = len
    BY <1>1, <2>1, PadFits
  <2>3. j \in {1, 2, 3, 4, 5, 6, 7, 8}
    BY <1>5
  <2>4. QED
    BY <1>2, <2>2, <2>3
<1>6. QED
  BY <1>3, <1>4, <1>5 DEF Aligned

LEMMA GeneratedPadded ==
  ASSUME NEW g, NEW b, GeneratedAs(g, b), NEW j \in 1 .. 8
  PROVE  b.recs[j].held = Span(b.recs[j].len)
<1>1. \A type, len, body : Padded(type, len, body).held = Span(Padded(type, len, body).len)
  BY DEF Padded
<1>2. /\ GeneratedTopology(g).held = Span(GeneratedTopology(g).len)
      /\ GeneratedParams(g).held = Span(GeneratedParams(g).len)
      /\ GeneratedRouting(g).held = Span(GeneratedRouting(g).len)
  BY <1>1 DEF GeneratedTopology, GeneratedParams, GeneratedRouting
<1>3. \A m \in {1, 2, 3} : b.recs[m].held = Span(b.recs[m].len)
  BY <1>2 DEF GeneratedAs
<1>4. \A m \in {4, 5, 6, 7} : b.recs[m].held = Span(b.recs[m].len)
  BY <1>1 DEF GeneratedAs
<1>5. b.recs[8].held = Span(b.recs[8].len)
  <2>1. Span(4) = 4
    BY DEF Span, Pad
  <2>2. QED
    BY <2>1 DEF GeneratedAs
<1>6. j \in {1, 2, 3} \/ j \in {4, 5, 6, 7} \/ j = 8
  OBVIOUS
<1>7. QED
  BY <1>3, <1>4, <1>5, <1>6

\* Behind a record whose padding is missing: the size of the blob is no multiple
\* of four.
LEMMA PaddingMissing ==
  ASSUME WalkInv, AtHeader, rec.len <= rest - TlvHeader, rec.held # Span(rec.len)
  PROVE  ~Aligned(blob)
<1>1. IsRecs(blob.recs) /\ blob.tail \in Nat /\ Written(blob)
  BY WrittenShape DEF WalkInv
<1>2. /\ i \in 1 .. Len(blob.recs) /\ rec = blob.recs[i] /\ Len(blob.recs) \in Nat
      /\ rec.len \in Nat /\ rec.held \in Nat
      /\ rest = Left(blob, i) + blob.tail /\ rest \in Nat
      /\ rest % 4 = 0 <=> Aligned(blob)
  BY <1>1 DEF WalkInv, AtHeader, rec, IsRecs, Walking
<1>3. CASE blob \in Foreign
  <2>1. ForeignOK(blob)
    BY <1>3, ForeignAssumption
  <2>2. i = Len(blob.recs) /\ rec.held < Span(rec.len) /\ blob.tail = 0
    BY <1>2, <2>1 DEF ForeignOK, AtHeader, rec
  <2>3. rest = 8 + rec.held
    <3>1. /\ Left(blob, i) = (TlvHeader + rec.held) + Left(blob, i + 1)
          /\ Left(blob, Len(blob.recs) + 1) = 0
      BY <1>1, <1>2, LeftStep
    <3>2. QED
      BY <1>2, <2>2, <3>1 DEF TlvHeader
  <2> DEFINE h == rec.held
             l == rec.len
             q == Span(rec.len)
  <2>4. /\ h \in Nat /\ l \in Nat /\ q \in Nat
        /\ l <= h /\ h < q /\ q <= l + 3 /\ q % 4 = 0
    <3>1. Pad(rec.len) \in 0 .. 3 /\ Span(rec.len) \in Nat /\ Span(rec.len) % 4 = 0
      BY <1>2, PadFits
    <3>2. Span(rec.len) = rec.len + Pad(rec.len)
      BY DEF Span
    <3>3. rec.len <= rec.held
      BY <1>2, <2>3 DEF TlvHeader
    <3> DEFINE y == Pad(rec.len)
    <3>4. /\ h \in Nat /\ l \in Nat /\ q \in Nat /\ y \in 0 .. 3
          /\ l <= h /\ h < q /\ q = l + y /\ q % 4 = 0
      BY <1>2, <2>2, <3>1, <3>2, <3>3
    <3> HIDE DEF h, l, q, y
    <3>5. QED
      BY <3>4
  <2>5. rest % 4 # 0
    <3>1. rest = 8 + h
      BY <2>3
    <3> HIDE DEF h, l, q
    <3>2. QED
      BY <2>4, <3>1
  <2>6. QED
    BY <1>2, <2>5
<1>4. ASSUME NEW c \in Saved, blob = Serialized(c) PROVE ~Aligned(blob)
  <2>1. SerializedAs(c, SerializedCount(c), blob)
    BY <1>4, SerializedShape, SavedAssumption
  <2>2. i \in 1 .. 8
    BY <1>2, <2>1 DEF SerializedAs
  <2>3. QED
    BY <1>2, <2>1, <2>2, SerializedSize
<1>5. ASSUME NEW g \in Requests, blob = Generated(g) PROVE FALSE
  <2>1. GeneratedAs(g, blob)
    BY <1>5, GeneratedShape, RequestsAssumption
  <2>2. i \in 1 .. 8
    BY <1>2, <2>1 DEF GeneratedAs
  <2>3. QED
    BY <1>2, <2>1, <2>2, GeneratedPadded
<1>6. QED
  BY <1>1, <1>3, <1>4, <1>5 DEF Written

LEMMA HeaderWalk == WalkInv /\ CheckHeader => WalkInv'
<1> SUFFICES ASSUME WalkInv, CheckHeader PROVE WalkInv'
  OBVIOUS
<1>1. IsRecs(blob.recs) /\ blob.tail \in Nat
  BY WrittenShape DEF WalkInv
<1>2. /\ status' \notin {"OK", "header", "astray", "past_blob"}
      /\ status = "header" /\ UNCHANGED <<blob, i, view, seen>>
  BY DEF CheckHeader, HeaderStatus
<1>3. i = 1 /\ i \in 1 .. Len(blob.recs) + 1
  BY <1>1, <1>2 DEF WalkInv, IsRecs
<1>4. SizeOf(blob.recs) = HeaderSize + Left(blob, 1) /\ Left(blob, 1) \in Nat
  <2>1. 1 \in 1 .. Len(blob.recs) + 1
    BY <1>3
  <2>2. QED
    BY <1>1, <2>1, LeftStep
<1>5. ASSUME status' = "walking"
      PROVE  /\ rest' = Left(blob, 1) + blob.tail /\ rest' \in Nat
             /\ rest' % 4 = 0 <=> Aligned(blob)
  <2> DEFINE x == Left(blob, 1)
             y == blob.tail
  <2>1. rest' = BlobSize(blob) - 28 /\ BlobSize(blob) = (28 + x) + y
    BY <1>4, <1>5 DEF CheckHeader, BlobSize, HeaderSize
  <2>2. x \in Nat /\ y \in Nat
    BY <1>1, <1>4
  <2> HIDE DEF x, y
  <2>3. rest' = x + y /\ BlobSize(blob) = 28 + (x + y)
    BY <2>1, <2>2
  <2>4. \A z \in Nat : z % 4 = 0 <=> (28 + z) % 4 = 0
    OBVIOUS
  <2>5. x + y \in Nat
    BY <2>2
  <2>6. QED
    BY <2>3, <2>4, <2>5 DEF Aligned, x, y
<1>6. QED
  BY <1>2, <1>3, <1>5 DEF WalkInv, Accepted, Walking, Aligned

LEMMA TakeWalk == WalkInv /\ Takes => WalkInv'
<1> SUFFICES ASSUME WalkInv, AtHeader, rec.len <= rest - TlvHeader, NEW v, Take(v)
             PROVE  WalkInv'
  BY DEF Takes
<1>1. IsRecs(blob.recs) /\ blob.tail \in Nat
  BY WrittenShape DEF WalkInv
<1>2. /\ status = "walking" /\ blob' = blob /\ Walking
      /\ i \in 1 .. Len(blob.recs) /\ i + 1 \in 1 .. Len(blob.recs) + 1
      /\ rec = blob.recs[i] /\ rec.len \in Nat /\ rec.held \in Nat
  BY <1>1 DEF AtHeader, Take, IsRecs, rec, Walking
<1>3. /\ Left(blob, i) = (TlvHeader + rec.held) + Left(blob, i + 1)
      /\ Left(blob, i + 1) \in Nat
      /\ rest = Left(blob, i) + blob.tail /\ rest \in Nat
      /\ rest % 4 = 0 <=> Aligned(blob)
  BY <1>1, <1>2, LeftStep DEF WalkInv
<1>4. CASE rec.held = Span(rec.len)
  <2>1. i' = i + 1 /\ Advance(rec.len, "walking")
    BY <1>4 DEF Take
  <2> DEFINE x == Left(blob, i)
             y == Left(blob, i + 1)
             z == blob.tail
             q == Span(rec.len)
  <2>2. q <= rest - 8 /\ rest - 8 - q = y + z /\ q \in Nat
    <3>1. x = (8 + q) + y /\ y \in Nat /\ z \in Nat /\ q \in Nat /\ rest = x + z
      BY <1>1, <1>2, <1>3, <1>4 DEF TlvHeader
    <3> HIDE DEF x, y, z, q
    <3>2. QED
      BY <3>1
  <2>3. q <= rest - TlvHeader /\ rest - TlvHeader - q = y + z
    BY <2>2 DEF TlvHeader
  <2>4. status' = "walking" /\ rest' = rest - TlvHeader - q
    <3>1. ~(q > rest - TlvHeader)
      BY <1>3, <2>2 DEF TlvHeader
    <3>2. QED
      BY <2>1, <3>1 DEF Advance
  <2>5. rest' = Left(blob, i + 1) + blob.tail
    BY <2>3, <2>4
  <2>6. rest' \in Nat /\ (rest' % 4 = 0 <=> Aligned(blob))
    BY <1>2, <1>3, <2>3, <2>4, FourOff
  <2>7. QED
    BY <1>2, <2>1, <2>4, <2>5, <2>6 DEF WalkInv, Accepted, Walking, Aligned
<1>5. CASE rec.held # Span(rec.len)
  <2>1. ~Aligned(blob)
    BY <1>5, PaddingMissing
  <2>2. Advance(rec.len, "astray")
    BY <1>5 DEF Take
  <2>3. CASE status' = "past_blob"
    BY <1>2, <2>1, <2>3 DEF WalkInv, Accepted, Walking, Aligned
  <2>4. CASE status' # "past_blob"
    <3>1. /\ status' = "astray" /\ Span(rec.len) <= rest - TlvHeader
          /\ rest' = rest - TlvHeader - Span(rec.len)
      BY <2>2, <2>4 DEF Advance
    <3>2. rest' \in Nat /\ (rest' % 4 = 0 <=> Aligned(blob))
      BY <1>2, <1>3, <3>1, FourOff
    <3>3. QED
      BY <1>2, <2>1, <3>1, <3>2 DEF WalkInv, Accepted, Walking, Aligned
  <2>5. QED
    BY <2>3, <2>4
<1>6. QED
  BY <1>4, <1>5

LEMMA NextWalk == WalkInv /\ [Next]_vars => WalkInv'
<1> SUFFICES ASSUME WalkInv, [Next]_vars PROVE WalkInv'
  OBVIOUS
<1>1. CASE UNCHANGED vars
  BY <1>1 DEF vars, WalkInv, Accepted, Walking, Aligned
<1>2. CASE Returns
  <2>1. PICK st : /\ StopWith(st) /\ st \in Refusals \cup {"OK", "past_arrays"}
                  /\ st = "OK" => rest = 0
    BY <1>2 DEF Returns
  <2>2. st \notin {"header", "walking", "astray", "past_blob"}
    BY <2>1 DEF Refusals
  <2>3. st = "OK" => i = Len(blob.recs) + 1
    BY <1>2, <2>1, NotAstray, AtTheEnd DEF Returns
  <2>4. QED
    BY <2>1, <2>2, <2>3 DEF StopWith, WalkInv, Accepted, Walking, Aligned
<1>3. CASE Strays
  <2>1. PICK len \in StrayLens : /\ len <= rest - TlvHeader
                                 /\ Advance(len, "astray") /\ UNCHANGED <<blob, i, view, seen>>
    BY <1>3 DEF Strays
  <2>2. len \in Nat /\ status = "astray" /\ Walking
    BY <1>3, <2>1, StrayLensAssumption DEF Strays, Walking
  <2>3. rest \in Nat /\ (rest % 4 = 0 <=> Aligned(blob)) /\ ~Aligned(blob)
    BY <2>2 DEF WalkInv
  <2>4. CASE status' = "past_blob"
    BY <2>1, <2>3, <2>4 DEF WalkInv, Accepted, Walking, Aligned
  <2>5. CASE status' # "past_blob"
    <3>1. /\ status' = "astray" /\ Span(len) <= rest - TlvHeader
          /\ rest' = rest - TlvHeader - Span(len)
      BY <2>1, <2>5 DEF Advance
    <3>2. rest' \in Nat /\ (rest' % 4 = 0 <=> Aligned(blob))
      BY <2>2, <2>3, <3>1, FourOff
    <3>3. QED
      BY <2>1, <2>3, <3>1, <3>2 DEF WalkInv, Accepted, Walking, Aligned
  <2>6. QED
    BY <2>4, <2>5
<1>4. QED
  BY <1>1, <1>2, <1>3, HeaderWalk, TakeWalk, Steps

LEMMA NextParser == ParserInv /\ WalkInv /\ [Next]_vars => ParserInv'
<1> SUFFICES ASSUME ParserInv, WalkInv, [Next]_vars PROVE ParserInv'
  OBVIOUS
<1>1. CASE CheckHeader
  <2>1. status' # "OK"
    BY <1>1 DEF CheckHeader, HeaderStatus
  <2>2. UNCHANGED <<blob, view, seen>> /\ seen = {}
    BY <1>1 DEF CheckHeader, WalkInv
  <2>3. QED
    BY <2>1, <2>2 DEF ParserInv, Accepted, ViewFits
<1>2. CASE TooShort
  BY <1>2, RefusedInv DEF TooShort
<1>3. CASE Overlong
  BY <1>3, RefusedInv DEF Overlong
<1>4. CASE EndOfBlob
  <2>1. (\A k \in DOMAIN RequiredTypes : RequiredTypes[k] \in seen) => "TOPOLOGY" \in seen
    BY DEF RequiredTypes
  <2>2. status = "walking"
    BY <1>4, NotAstray DEF EndOfBlob, Walking
  <2>3. QED
    BY <1>4, <2>1, <2>2, RefusedInv DEF EndOfBlob
<1>5. CASE ParseRecord
  BY <1>5, TopologyInv, TileParamsInv, RoutingInv, WeightsInv, ResetInv, PlainInv
     DEF ParseRecord
<1>6. CASE Stray
  <2>1. ASSUME NEW len, Advance(len, "astray"), UNCHANGED <<blob, i, view, seen>>
        PROVE  ParserInv'
    BY <2>1 DEF Advance, ParserInv, Accepted
  <2>2. QED
    BY <1>6, <2>1, RefusedInv DEF Stray, Refusals
<1>7. CASE UNCHANGED vars
  BY <1>7 DEF vars, ParserInv, Accepted, ViewFits
<1>8. QED
  BY <1>1, <1>2, <1>3, <1>4, <1>5, <1>6, <1>7 DEF Next

LEMMA ImageTyped == ParserInv => AcceptedIsImage
<1> SUFFICES ASSUME ParserInv, Accepted, TopologiesFit(blob) PROVE ImageOK(Image)
  BY DEF AcceptedIsImage
<1>1. view.n \in 0 .. MaxTiles /\ view.w \in Nat \ {0}
  BY MaxTilesAssumption DEF ParserInv, ViewOK, ViewFits, TopologyFits, Accepted
<1>2. ASSUME NEW t \in 0 .. view.n - 1 PROVE t \in Tiles
  BY <1>1, MaxTilesAssumption DEF Tiles
<1>3. \A t \in 0 .. view.n - 1 : TileOK(view.par[t])
  BY <1>2 DEF ParserInv, ViewOK
<1>4. First(view.n, view.par) \in [0 .. view.n - 1 -> Params]
  BY <1>3 DEF First, TileOK
<1>5. /\ First(view.n, view.mask) \in [0 .. view.n - 1 -> SUBSET Dirs]
      /\ First(view.n, view.weight) \in [0 .. view.n - 1 -> Weights]
  BY <1>2 DEF First, ParserInv, ViewOK
<1>6. \A t \in 0 .. view.n - 1 :
        /\ First(view.n, view.par)[t].lo <= First(view.n, view.par)[t].hi
        /\ First(view.n, view.par)[t].dom \in 0 .. 15
  BY <1>3 DEF First, TileOK
<1>7. InView \subseteq 0 .. view.n - 1
  BY <1>1 DEF InView, Tiles
<1>8. QED
  BY <1>1, <1>4, <1>5, <1>6, <1>7 DEF Image, ImageOK, ParserInv, ViewOK

\* What the parser accepts of a blob whose topologies fit satisfies the assumption
\* under which the swarm is modelled, ImagesAssumption of Swarm.
THEOREM ParserYieldsImages == Spec => []AcceptedIsImage
<1>1. ParserInv => AcceptedIsImage
  BY ImageTyped
<1>2. ParserInv /\ WalkInv /\ [Next]_vars => (ParserInv /\ WalkInv)'
  BY NextParser, NextWalk
<1>3. QED
  BY <1>1, <1>2, InitParser, InitWalk, PTL DEF Spec

LEMMA AlwaysWalk == Spec => [](ParserInv /\ WalkInv)
<1>1. ParserInv /\ WalkInv /\ [Next]_vars => (ParserInv /\ WalkInv)'
  BY NextParser, NextWalk
<1>2. QED
  BY <1>1, InitParser, InitWalk, PTL DEF Spec

\* Of a blob whose size is a multiple of four and whose topologies fit, the parser
\* overruns neither the end nor the arrays of its view, though it tests neither
\* the padding nor the number of tiles.
THEOREM ParserStaysInside == Spec => []StaysInside
<1>1. Init => StaysInside
  BY DEF Init, StaysInside, Undefined
<1>2. ASSUME ParserInv, WalkInv, WalkInv', StaysInside, [Next]_vars PROVE StaysInside'
  <2> SUFFICES ASSUME Aligned(blob)', TopologiesFit(blob)', status' = "past_arrays"
               PROVE  FALSE
    BY <1>2 DEF StaysInside, Undefined, WalkInv
  <2>1. CASE UNCHANGED vars
    BY <1>2, <2>1 DEF vars, StaysInside, Undefined
  <2>2. CASE CheckHeader
    BY <2>2 DEF CheckHeader, HeaderStatus
  <2>3. CASE Takes
    BY <2>3 DEF Takes, Take, Advance
  <2>4. CASE Strays
    BY <2>4 DEF Strays, Advance
  <2>5. CASE Returns
    <3>1. /\ blob' = blob
          /\ \/ status = "astray"
             \/ status = "walking" /\ "TOPOLOGY" \in seen /\ view.n > MaxTiles
      BY <2>5 DEF Returns, StopWith
    <3>2. status # "astray"
      BY <1>2, <3>1 DEF WalkInv
    <3>3. TopologyFits(view) /\ view.n \in Nat
      BY <1>2, <3>1, <3>2 DEF ParserInv, ViewFits, ViewOK
    <3>4. QED
      BY <3>1, <3>2, <3>3, MaxTilesAssumption DEF TopologyFits
  <2>6. QED
    BY <1>2, <2>1, <2>2, <2>3, <2>4, <2>5, Steps
<1>3. QED
  BY <1>1, <1>2, AlwaysWalk, PTL DEF Spec

\* A caller's buffer of the estimated size holds the blob that is written, for
\* every number of tiles: the two estimates are no smaller than the writers'
\* sums of the records.
THEOREM EstimatesHold == Spec => []WithinEstimate
<1>1. WalkInv => WithinEstimate
  <2> SUFFICES ASSUME WalkInv PROVE WithinEstimate
    OBVIOUS
  <2>1. Written(blob)
    BY DEF WalkInv
  <2>2. QED
    BY <2>1, WrittenBy, SerializedFits, GeneratedFits DEF WithinEstimate
<1>2. QED
  BY <1>1, AlwaysWalk, PTL

-----------------------------------------------------------------------------
(* What the writers write is accepted                                      *)

\* A record that comes after the topology and the parameters.
LaterFits(b, r, k) ==
  /\ r.type \in Known \ {"TOPOLOGY", "TILE_PARAMS_V2"}
  /\ r.type = "TILE_ROUTING_FLAGS16" =>
       r.len = k * RoutingSize /\ \A t \in 0 .. k - 1 : ~r.body[t].spare
  /\ r.type = "TILE_WEIGHTS_PACKED" => r.len = k * WeightsSize
  /\ r.type = "RESET_ON_FIRE_MASK16" => r.len = k * ResetSize
  /\ r.type = "READOUT_POLICY" => r.len = 12 /\ r.body \in {0, 1}
  /\ r.type = "TILE_FIELD_LIMIT" => r.len = 4
  /\ r.type = "CRC32" => r.len = 4 /\ r.body.sound /\ r.body.over = BlobSize(b) - CrcRecord

\* The order both writers keep: eight records, the topology of k tiles first,
\* their parameters second.  A blob whose parameters end on a multiple of four
\* is padded all the way.
Layout(b, k) ==
  /\ k \in 1 .. MaxTiles /\ b.defects = {} /\ b.tail = 0
  /\ IsRecs(b.recs) /\ Len(b.recs) = 8
  /\ b.recs[1].type = "TOPOLOGY" /\ b.recs[1].len = 16 /\ b.recs[1].held = 16
  /\ b.recs[1].body.n = k /\ ~b.recs[1].body.reserved
  /\ b.recs[2].type = "TILE_PARAMS_V2" /\ b.recs[2].len = k * ParamsSize
  /\ \A j \in 3 .. 8 : LaterFits(b, b.recs[j], k)
  /\ \A j \in 1 .. 8 : b.recs[j].len <= b.recs[j].held
  /\ b.recs[2].held = Span(b.recs[2].len) =>
       \A j \in 3 .. 8 : b.recs[j].held = Span(b.recs[j].len)
  /\ \A m \in DOMAIN RequiredTypes : \E j \in 1 .. 8 : b.recs[j].type = RequiredTypes[m]

\* What the parser asks of such a blob.
Sound(b, k) ==
  /\ b.recs[1].body.matches
  /\ \A t \in 0 .. k - 1 : b.recs[2].body[t].lo <= b.recs[2].body[t].hi
  /\ b.recs[2].held = Span(b.recs[2].len)

LayoutWalk(k) ==
  /\ status = "walking" => /\ seen = {blob.recs[j].type : j \in 1 .. i - 1}
                           /\ i > 1 => view.n = k /\ blob.recs[1].body.matches
                           /\ i > 2 => Sound(blob, k)
  /\ status = "astray" => ~Sound(blob, k)
  /\ Ended => (Accepted <=> Sound(blob, k))

LayoutInv == \A k : Layout(blob, k) => LayoutWalk(k)

LEMMA InitLayout == Init => LayoutInv
BY DEF Init, LayoutInv, LayoutWalk, Accepted, Ended

\* There is a whole record at the cursor until the last one is taken.
LEMMA WholeRecord ==
  ASSUME WalkInv, status = "walking", NEW k, Layout(blob, k), i # 9
  PROVE  /\ i \in 1 .. 8 /\ i \in DOMAIN blob.recs
         /\ rest >= TlvHeader /\ rest # 0 /\ rest \notin 1 .. TlvHeader - 1
         /\ rec.len <= rest - TlvHeader /\ ~(rec.len > rest - TlvHeader)
         /\ rec.held <= rest - TlvHeader /\ ~(rec.held > rest - TlvHeader)
         /\ rec = blob.recs[i]
<1>1. IsRecs(blob.recs) /\ blob.tail = 0 /\ Len(blob.recs) = 8
  BY DEF Layout
<1>2. i \in 1 .. 8 /\ rest = Left(blob, i) + 0 /\ i \in DOMAIN blob.recs
  BY <1>1 DEF WalkInv, IsRecs
<1> DEFINE x == Left(blob, i)
           y == Left(blob, i + 1)
           h == blob.recs[i].held
           l == blob.recs[i].len
<1>3. x = (8 + h) + y /\ y \in Nat /\ h \in Nat /\ l \in Nat /\ l <= h
  <2>1. i \in 1 .. Len(blob.recs) /\ i + 1 \in 1 .. Len(blob.recs) + 1
    BY <1>1, <1>2
  <2>2. Left(blob, i) = (TlvHeader + blob.recs[i].held) + Left(blob, i + 1)
          /\ Left(blob, i + 1) \in Nat
    BY <1>1, <2>1, LeftStep
  <2>3. h \in Nat /\ l \in Nat /\ l <= h
    BY <1>1, <1>2 DEF IsRecs, Layout
  <2>4. QED
    BY <2>2, <2>3 DEF TlvHeader
<1>4. rec.len = l /\ rec.held = h /\ rec = blob.recs[i] /\ rest = x + 0
  BY <1>2 DEF rec
<1> HIDE DEF x, y, h, l
<1>5. QED
  BY <1>2, <1>3, <1>4 DEF TlvHeader

\* The only steps are the ones the record's type allows.
LEMMA RecordSteps ==
  ASSUME WalkInv, status = "walking", NEW k, Layout(blob, k), i # 9, [Next]_vars
  PROVE  \/ UNCHANGED vars
         \/ ParseRecord
<1>1. rest # 0 /\ rest \notin 1 .. TlvHeader - 1 /\ ~(rec.len > rest - TlvHeader)
  BY WholeRecord
<1>2. QED
  BY <1>1 DEF Next, TooShort, Overlong, EndOfBlob, CheckHeader, Stray

\* A padded record takes the walk to the next one.
LEMMA PaddedOn ==
  ASSUME WalkInv, status = "walking", NEW k, Layout(blob, k), i # 9,
         rec.held = Span(rec.len), NEW v, Take(v)
  PROVE  i' = i + 1 /\ status' = "walking" /\ blob' = blob /\ view' = v
           /\ seen' = seen \cup {rec.type}
<1>1. ~(Span(rec.len) > rest - TlvHeader)
  BY WholeRecord
<1>2. QED
  BY <1>1 DEF Take, Advance

\* The tiles of the view.
LEMMA FieldInView ==
  ASSUME NEW k \in 1 .. MaxTiles, view.n = k
  PROVE  InView = 0 .. k - 1 /\ view.n <= MaxTiles /\ ~(view.n > MaxTiles)
BY MaxTilesAssumption DEF InView, Tiles

\* The step at the topology.
LEMMA AtFirst ==
  ASSUME WalkInv, status = "walking", NEW k, Layout(blob, k), LayoutWalk(k), i = 1, ParseRecord
  PROVE  LayoutWalk(k)'
<1>1. rec = blob.recs[1] /\ blob.recs[1].len = 16 /\ blob.recs[1].held = 16 /\ i \in 1 .. 8
      /\ rec.type = "TOPOLOGY" /\ rec.body.n = k /\ ~rec.body.reserved
  BY WholeRecord DEF Layout
<1>2. ParseTopology
  BY <1>1 DEF ParseRecord, ParseTileParams, ParseRouting, ParseWeights, ParseResetOnFire,
              ParseReadout, ParseFieldLimit, ParseCrc, Unknown, At, AtTiles, BadTiles, Known
<1>3. CASE ~rec.body.matches /\ StopWith("TOPOLOGY_MISMATCH")
  BY <1>1, <1>3 DEF StopWith, LayoutWalk, Sound, Accepted, Ended
<1>4. CASE /\ rec.body.matches
           /\ Take([view EXCEPT !.n = rec.body.n, !.w = rec.body.w, !.resv = rec.body.resv])
  <2>1. Span(16) = 16
    BY DEF Span, Pad
  <2>2. /\ i' = 2 /\ status' = "walking" /\ blob' = blob /\ seen' = seen \cup {rec.type}
        /\ view' = [view EXCEPT !.n = rec.body.n, !.w = rec.body.w, !.resv = rec.body.resv]
    <3>1. rec.held = Span(rec.len) /\ i # 9
      BY <1>1, <2>1
    <3>2. i' = i + 1 /\ status' = "walking" /\ blob' = blob /\ seen' = seen \cup {rec.type}
          /\ view' = [view EXCEPT !.n = rec.body.n, !.w = rec.body.w, !.resv = rec.body.resv]
      BY <1>4, <3>1, PaddedOn
    <3>3. QED
      BY <3>2
  <2>3. seen = {}
    <3>1. 1 .. i - 1 = {}
      OBVIOUS
    <3>2. QED
      BY <3>1 DEF LayoutWalk
  <2>4. seen' = {blob.recs[j].type : j \in 1 .. 1}
    BY <1>1, <2>2, <2>3
  <2>5. QED
    BY <1>1, <1>4, <2>2, <2>4 DEF LayoutWalk, Accepted, Ended
<1>5. QED
  BY <1>1, <1>2, <1>3, <1>4 DEF ParseTopology

\* The step at the parameters: here the range is checked, and here a serialized
\* blob of an odd size goes astray.
LEMMA AtSecond ==
  ASSUME WalkInv, status = "walking", NEW k, Layout(blob, k), LayoutWalk(k), i = 2, ParseRecord
  PROVE  LayoutWalk(k)'
<1>1. /\ rec = blob.recs[2] /\ rec.type = "TILE_PARAMS_V2" /\ rec.len = k * ParamsSize
      /\ view.n = k /\ blob.recs[1].body.matches /\ blob.recs[1].type = "TOPOLOGY"
  BY WholeRecord DEF Layout, LayoutWalk
<1>2. seen = {"TOPOLOGY"}
  <2>1. 1 .. i - 1 = {1}
    OBVIOUS
  <2>2. seen = {blob.recs[j].type : j \in {1}}
    BY <2>1 DEF LayoutWalk
  <2>3. QED
    BY <1>1, <2>2
<1>3. ParseTileParams
  BY <1>1 DEF ParseRecord, ParseTopology, ParseRouting, ParseWeights, ParseResetOnFire,
              ParseReadout, ParseFieldLimit, ParseCrc, Unknown, At, AtTiles, BadTiles, Known
<1>4. ~BadTiles("TILE_PARAMS_V2", ParamsSize)
  BY <1>1, <1>2 DEF BadTiles
<1>5. InView = 0 .. k - 1 /\ ~(view.n > MaxTiles)
  BY <1>1, FieldInView DEF Layout
<1>6. CASE ~RangesOK(rec.body) /\ StopWith("RESERVED_NON_ZERO")
  <2>1. ~Sound(blob, k)
    BY <1>1, <1>5, <1>6 DEF RangesOK, Sound
  <2>2. status' = "RESERVED_NON_ZERO" /\ blob' = blob
    BY <1>6 DEF StopWith
  <2>3. QED
    BY <2>1, <2>2 DEF LayoutWalk, Accepted, Ended, Sound
<1>7. ASSUME RangesOK(rec.body), NEW v, Take(v), v.n = view.n
      PROVE  LayoutWalk(k)'
  <2>1. blob' = blob /\ view' = v
    BY <1>7 DEF Take
  <2>2. CASE rec.held = Span(rec.len)
    <3>1. Sound(blob, k)
      BY <1>1, <1>5, <1>7, <2>2 DEF RangesOK, Sound
    <3>2. i' = 3 /\ status' = "walking" /\ seen' = seen \cup {rec.type}
      <4>1. i # 9
        OBVIOUS
      <4>2. i' = i + 1 /\ status' = "walking" /\ seen' = seen \cup {rec.type}
        BY <1>7, <2>2, <4>1, PaddedOn
      <4>3. QED
        BY <4>2
    <3>3. seen' = {blob.recs[j].type : j \in 1 .. 2}
      <4>1. 1 .. 2 = {1, 2}
        OBVIOUS
      <4>2. {blob.recs[j].type : j \in {1, 2}} = {blob.recs[1].type, blob.recs[2].type}
        OBVIOUS
      <4>3. QED
        BY <1>1, <1>2, <3>2, <4>1, <4>2
    <3>4. QED
      BY <1>1, <1>7, <2>1, <3>1, <3>2, <3>3 DEF LayoutWalk, Accepted, Ended, Sound
  <2>3. CASE rec.held # Span(rec.len)
    <3>1. status' \in {"astray", "past_blob"}
      BY <1>7, <2>3 DEF Take, Advance
    <3>2. ~Sound(blob, k)
      BY <1>1, <2>3 DEF Sound
    <3>3. QED
      BY <2>1, <3>1, <3>2 DEF LayoutWalk, Accepted, Ended, Sound
  <2>4. QED
    BY <2>2, <2>3
<1>8. QED
  <2>1. ASSUME RangesOK(rec.body),
               Take([view EXCEPT !.par = Overlaid(@, [t \in InView |->
                                                ParamsRead(rec.body[t], view.par[t])])])
        PROVE  LayoutWalk(k)'
    <3> DEFINE v == [view EXCEPT !.par = Overlaid(@, [t \in InView |->
                                                ParamsRead(rec.body[t], view.par[t])])]
    <3>1. v.n = view.n
      OBVIOUS
    <3>2. Take(v)
      BY <2>1
    <3> HIDE DEF v
    <3>3. QED
      BY <1>7, <2>1, <3>1, <3>2
  <2>2. QED
    BY <1>3, <1>4, <1>5, <1>6, <2>1 DEF ParseTileParams, TakeTiles

\* The steps at the records behind: none of them is refused.
LEMMA AtLater ==
  ASSUME WalkInv, status = "walking", NEW k, Layout(blob, k), LayoutWalk(k),
         i \in 3 .. 8, ParseRecord
  PROVE  LayoutWalk(k)'
<1>1. /\ rec = blob.recs[i] /\ LaterFits(blob, rec, k) /\ view.n = k /\ Sound(blob, k)
      /\ blob.recs[1].body.matches /\ i \in 1 .. 8
  BY WholeRecord DEF Layout, LayoutWalk
<1>2. rec.held = Span(rec.len)
  BY <1>1 DEF Layout, Sound
<1>3. "TOPOLOGY" \in seen
  <2>1. 1 \in 1 .. i - 1 /\ blob.recs[1].type = "TOPOLOGY"
    BY DEF Layout
  <2>2. QED
    BY <2>1 DEF LayoutWalk
<1>4. InView = 0 .. k - 1 /\ ~(view.n > MaxTiles)
  BY <1>1, FieldInView DEF Layout
<1>5. ASSUME NEW v, Take(v), v.n = view.n
      PROVE  LayoutWalk(k)'
  <2>1. /\ blob' = blob /\ view' = v /\ seen' = seen \cup {rec.type}
        /\ i' = i + 1 /\ status' = "walking"
    <3>1. i # 9
      OBVIOUS
    <3>2. QED
      BY <1>2, <1>5, <3>1, PaddedOn
  <2>2. seen' = {blob.recs[j].type : j \in 1 .. i}
    <3>1. 1 .. i = (1 .. i - 1) \cup {i}
      OBVIOUS
    <3>2. seen = {blob.recs[j].type : j \in 1 .. i - 1}
      BY DEF LayoutWalk
    <3>3. QED
      BY <1>1, <2>1, <3>1, <3>2
  <2>3. i + 1 - 1 = i /\ i + 1 > 1 /\ i + 1 > 2
    OBVIOUS
  <2>4. QED
    BY <1>1, <1>5, <2>1, <2>2, <2>3 DEF LayoutWalk, Accepted, Ended, Sound
<1>6. rec.type \in Known \ {"TOPOLOGY", "TILE_PARAMS_V2"}
  BY <1>1 DEF LaterFits
<1>7. ~ParseTopology /\ ~ParseTileParams /\ ~Unknown
  BY <1>6 DEF ParseTopology, ParseTileParams, AtTiles, BadTiles, At, Unknown
<1>8. CASE ParseRouting
  <2>1. rec.type = "TILE_ROUTING_FLAGS16" /\ rec.len = k * RoutingSize
          /\ \A t \in InView : ~rec.body[t].spare
    BY <1>1, <1>4, <1>8 DEF ParseRouting, AtTiles, BadTiles, At, LaterFits
  <2> DEFINE v == [view EXCEPT
                      !.mask = Overlaid(@, [t \in InView |-> rec.body[t].dirs]),
                      !.busR = (@ \ InView) \cup {t \in InView : rec.body[t].busR},
                      !.busW = (@ \ InView) \cup {t \in InView : rec.body[t].busW}]
  <2>2. Take(v)
    BY <1>1, <1>3, <1>4, <1>8, <2>1 DEF ParseRouting, BadTiles, TakeTiles
  <2>3. v.n = view.n
    OBVIOUS
  <2> HIDE DEF v
  <2>4. QED
    BY <1>5, <2>2, <2>3
<1>9. CASE ParseWeights
  <2> DEFINE v == [view EXCEPT !.weight = Overlaid(@, rec.body)]
  <2>1. rec.type = "TILE_WEIGHTS_PACKED" /\ rec.len = k * WeightsSize
    BY <1>1, <1>9 DEF ParseWeights, AtTiles, BadTiles, At, LaterFits
  <2>2. Take(v)
    BY <1>1, <1>3, <1>4, <1>9, <2>1 DEF ParseWeights, BadTiles, TakeTiles
  <2>3. v.n = view.n
    OBVIOUS
  <2> HIDE DEF v
  <2>4. QED
    BY <1>5, <2>2, <2>3
<1>10. CASE ParseResetOnFire
  <2> DEFINE v == [view EXCEPT
                !.par = [t \in Tiles |-> IF t \in InView THEN [@[t] EXCEPT !.rof = rec.body[t]]
                                                         ELSE @[t]]]
  <2>1. rec.type = "RESET_ON_FIRE_MASK16" /\ rec.len = k * ResetSize
    BY <1>1, <1>10 DEF ParseResetOnFire, AtTiles, BadTiles, At, LaterFits
  <2>2. Take(v)
    BY <1>1, <1>3, <1>4, <1>10, <2>1 DEF ParseResetOnFire, BadTiles, TakeTiles
  <2>3. v.n = view.n
    OBVIOUS
  <2> HIDE DEF v
  <2>4. QED
    BY <1>5, <2>2, <2>3
<1>11. CASE ParseReadout
  <2> DEFINE v == [view EXCEPT !.mode = rec.body]
  <2>1. rec.type = "READOUT_POLICY" /\ rec.len = 12 /\ rec.body \in {0, 1}
    BY <1>1, <1>11 DEF ParseReadout, At, LaterFits
  <2>2. ~(rec.body > 1)
    BY <2>1
  <2>3. Take(v)
    BY <1>11, <2>1, <2>2 DEF ParseReadout
  <2>4. v.n = view.n
    OBVIOUS
  <2> HIDE DEF v
  <2>5. QED
    BY <1>5, <2>3, <2>4
<1>12. CASE ParseFieldLimit
  <2> DEFINE v == [view EXCEPT !.limit = rec.body]
  <2>1. rec.type = "TILE_FIELD_LIMIT" /\ rec.len = 4
    BY <1>1, <1>12 DEF ParseFieldLimit, At, LaterFits
  <2>2. Take(v)
    BY <1>12, <2>1 DEF ParseFieldLimit
  <2>3. v.n = view.n
    OBVIOUS
  <2> HIDE DEF v
  <2>4. QED
    BY <1>5, <2>2, <2>3
<1>13. CASE ParseCrc
  <2>1. rec.type = "CRC32" /\ rec.len = 4 /\ rec.body.sound
          /\ rec.body.over = BlobSize(blob) - CrcRecord
    BY <1>1, <1>13 DEF ParseCrc, At, LaterFits
  <2>2. Take(view)
    BY <1>13, <2>1 DEF ParseCrc
  <2>3. QED
    BY <1>5, <2>2
<1>14. QED
  BY <1>7, <1>8, <1>9, <1>10, <1>11, <1>12, <1>13 DEF ParseRecord

\* The end: every type that is required has been seen.
LEMMA AtLast ==
  ASSUME WalkInv, status = "walking", NEW k, Layout(blob, k), LayoutWalk(k), i = 9, [Next]_vars
  PROVE  LayoutWalk(k)'
<1>1. rest = 0
  <2>1. Left(blob, 9) = 0
    <3>1. IsRecs(blob.recs) /\ Len(blob.recs) + 1 = 9
      BY DEF Layout
    <3>2. Left(blob, Len(blob.recs) + 1) = 0
      BY <3>1, LeftStep
    <3>3. QED
      BY <3>1, <3>2
  <2>2. QED
    BY <2>1 DEF WalkInv, Layout
<1>2. Sound(blob, k)
  BY DEF LayoutWalk
<1>3. \A m \in DOMAIN RequiredTypes : RequiredTypes[m] \in seen
  BY DEF Layout, LayoutWalk
<1>4. ~AtHeader
  BY <1>1 DEF AtHeader, TlvHeader
<1>5. CASE UNCHANGED vars
  BY <1>5 DEF vars, LayoutWalk, Sound, Accepted, Ended
<1>6. CASE EndOfBlob
  <2>1. StopWith("OK")
    BY <1>3, <1>6 DEF EndOfBlob
  <2>2. QED
    BY <1>2, <2>1 DEF StopWith, LayoutWalk, Sound, Accepted, Ended
<1>7. ~TooShort /\ ~CheckHeader /\ ~Stray
  BY <1>1 DEF TooShort, CheckHeader, Stray
<1>8. ~Overlong /\ ~ParseRecord
  BY <1>4 DEF Overlong, ParseRecord, ParseTopology, ParseTileParams, ParseRouting, ParseWeights,
              ParseResetOnFire, ParseReadout, ParseFieldLimit, ParseCrc, Unknown,
              At, AtTiles, BadTiles
<1>9. QED
  BY <1>5, <1>6, <1>7, <1>8 DEF Next

LEMMA NextLayout == WalkInv /\ LayoutInv /\ [Next]_vars => LayoutInv'
<1> SUFFICES ASSUME WalkInv, LayoutInv, [Next]_vars, NEW k, Layout(blob, k)'
             PROVE  LayoutWalk(k)'
  BY DEF LayoutInv
<1>0. blob' = blob
  <2>1. CASE UNCHANGED vars
    BY <2>1 DEF vars
  <2>2. CASE CheckHeader
    BY <2>2 DEF CheckHeader
  <2>3. CASE Returns \/ Strays
    BY <2>3 DEF Returns, Strays, StopWith
  <2>4. CASE Takes
    BY <2>4 DEF Takes, Take
  <2>5. QED
    BY <2>1, <2>2, <2>3, <2>4, Steps
<1>1. Layout(blob, k) /\ LayoutWalk(k)
  <2>1. Layout(blob, k)
    BY <1>0
  <2>2. QED
    BY <2>1 DEF LayoutInv
<1>2. CASE UNCHANGED vars
  BY <1>1, <1>2 DEF vars, LayoutWalk, Sound, Accepted, Ended
<1>3. CASE status = "header"
  <2>1. CASE CheckHeader
    <3>1. status' = "walking" /\ UNCHANGED <<blob, i, view, seen>>
      BY <1>1, <2>1 DEF CheckHeader, HeaderStatus, Layout
    <3>2. i = 1 /\ seen = {} /\ 1 .. 1 - 1 = {}
      BY <1>3 DEF WalkInv
    <3>3. QED
      BY <3>1, <3>2 DEF LayoutWalk, Accepted, Ended
  <2>2. ~Returns /\ ~Strays /\ ~Takes
    BY <1>3 DEF Returns, Strays, Takes, AtHeader, Walking
  <2>3. QED
    BY <1>2, <2>1, <2>2, Steps
<1>4. CASE status = "walking"
  <2>1. i \in 1 .. 9
    BY <1>1, <1>4 DEF WalkInv, Layout
  <2>2. CASE i = 9
    BY <1>1, <1>4, <2>2, AtLast
  <2>3. CASE i # 9
    <3>1. UNCHANGED vars \/ ParseRecord
      BY <1>1, <1>4, <2>3, RecordSteps
    <3>2. i = 1 \/ i = 2 \/ i \in 3 .. 8
      BY <2>1, <2>3
    <3>3. QED
      BY <1>1, <1>2, <1>4, <3>1, <3>2, AtFirst, AtSecond, AtLater
  <2>4. QED
    BY <2>2, <2>3
<1>5. CASE status = "astray"
  <2>1. ~CheckHeader /\ ~Takes /\ ~Sound(blob, k)
    BY <1>1, <1>5 DEF CheckHeader, Takes, AtHeader, LayoutWalk
  <2>2. CASE Returns
    <3>1. PICK st : /\ StopWith(st) /\ st \in Refusals \cup {"OK", "past_arrays"}
                    /\ st = "OK" => rest = 0
      BY <2>2 DEF Returns
    <3>2. st # "OK"
      BY <1>5, <3>1, NotAstray DEF Walking
    <3>3. QED
      BY <2>1, <3>1, <3>2 DEF StopWith, Refusals, LayoutWalk, Accepted, Ended, Sound
  <2>3. CASE Strays
    BY <2>1, <2>3 DEF Strays, Advance, LayoutWalk, Accepted, Ended, Sound
  <2>4. QED
    BY <1>2, <2>1, <2>2, <2>3, Steps
<1>6. CASE status \notin {"header", "walking", "astray"}
  <2>1. ~CheckHeader /\ ~Returns /\ ~Strays /\ ~Takes
    BY <1>6 DEF CheckHeader, Returns, Strays, Takes, AtHeader, Walking
  <2>2. QED
    BY <1>2, <2>1, Steps
<1>7. QED
  BY <1>3, <1>4, <1>5, <1>6

LEMMA AlwaysLayout == Spec => [](ParserInv /\ WalkInv /\ LayoutInv)
BY AlwaysWalk, InitLayout, NextLayout, PTL DEF Spec

\* Eight records, each with the facts that a layout asks of it.
LEMMA LayoutOf ==
  ASSUME NEW b, NEW k \in 1 .. MaxTiles, b.defects = {}, b.tail = 0,
         IsRecs(b.recs), Len(b.recs) = 8,
         b.recs[1].type = "TOPOLOGY", b.recs[1].len = 16, b.recs[1].held = 16,
         b.recs[1].body.n = k, ~b.recs[1].body.reserved,
         b.recs[2].type = "TILE_PARAMS_V2", b.recs[2].len = k * ParamsSize,
         \A j \in {3, 4, 5, 6, 7, 8} : LaterFits(b, b.recs[j], k),
         \A j \in {1, 2, 3, 4, 5, 6, 7, 8} : b.recs[j].len <= b.recs[j].held,
         b.recs[2].held = Span(b.recs[2].len) =>
           \A j \in {3, 4, 5, 6, 7, 8} : b.recs[j].held = Span(b.recs[j].len),
         b.recs[3].type = "TILE_ROUTING_FLAGS16",
         "TILE_WEIGHTS_PACKED" \in {b.recs[4].type, b.recs[6].type},
         b.recs[8].type = "CRC32"
  PROVE  Layout(b, k)
<1>1. 3 .. 8 = {3, 4, 5, 6, 7, 8} /\ 1 .. 8 = {1, 2, 3, 4, 5, 6, 7, 8}
  OBVIOUS
<1>2. ASSUME NEW m \in DOMAIN RequiredTypes
      PROVE  \E j \in 1 .. 8 : b.recs[j].type = RequiredTypes[m]
  <2>1. RequiredTypes[m] \in {"TOPOLOGY", "TILE_PARAMS_V2", "TILE_ROUTING_FLAGS16",
                              "TILE_WEIGHTS_PACKED", "CRC32"}
    BY DEF RequiredTypes
  <2>2. QED
    BY <1>1, <2>1
<1>3. QED
  BY ZenonT(30), <1>1, <1>2 DEF Layout

LEMMA SerializedLayout ==
  ASSUME NEW c, ConfigOK(c), NEW b, SerializedAs(c, SerializedCount(c), b)
  PROVE  LET k == SerializedCount(c)
         IN  /\ Layout(b, k)
             /\ Sound(b, k) <=> InRanges(c) /\ k % 4 = 0
<1> DEFINE k == SerializedCount(c)
<1>1. /\ k \in 1 .. MaxTiles /\ k \in Nat /\ k * 13 \in Nat /\ k * 2 \in Nat /\ k * 40 \in Nat
      /\ b.defects = {} /\ b.tail = 0 /\ IsRecs(b.recs) /\ Len(b.recs) = 8
  BY MaxTilesAssumption DEF SerializedAs
<1> DEFINE r == b.recs
<1>2. /\ r[1] = TopologyOf(c, k) /\ r[2] = ParamsOf(c, k)
      /\ r[3] = RoutingOf(c, k) /\ r[4] = WeightsOf(c, k)
      /\ r[5] = ResetOf(c, k) /\ r[6] = ReadoutOf(c) /\ r[7] = LimitOf(c)
      /\ r[8].type = "CRC32" /\ r[8].len = 4 /\ r[8].held = 4
      /\ r[8].body.sound /\ r[8].body.over = BlobSize(b) - CrcRecord
  BY DEF SerializedAs
<1> HIDE DEF k
<1>3. /\ r[1].type = "TOPOLOGY" /\ r[1].len = 16 /\ r[1].held = 16
      /\ r[1].body.n = k /\ r[1].body.reserved = FALSE /\ r[1].body.matches = TRUE
      /\ r[2].type = "TILE_PARAMS_V2" /\ r[2].len = k * 13 /\ r[2].held = k * 13
      /\ r[3].type = "TILE_ROUTING_FLAGS16" /\ r[3].len = k * 2 /\ r[3].held = k * 2
      /\ r[4].type = "TILE_WEIGHTS_PACKED" /\ r[4].len = k * 40 /\ r[4].held = k * 40
      /\ r[5].type = "RESET_ON_FIRE_MASK16" /\ r[5].len = k * 2 /\ r[5].held = k * 2
      /\ r[6].type = "READOUT_POLICY" /\ r[6].len = 12 /\ r[6].held = 12 /\ r[6].body = c.mode
      /\ r[7].type = "TILE_FIELD_LIMIT" /\ r[7].len = 4 /\ r[7].held = 4
  BY <1>2 DEF TopologyOf, ParamsOf, RoutingOf, WeightsOf, ResetOf, ReadoutOf, LimitOf, Unpadded,
              ParamsSize, RoutingSize, WeightsSize, ResetSize
<1>4. \A t \in 0 .. k - 1 : r[2].body[t].lo = c.par[t].lo /\ r[2].body[t].hi = c.par[t].hi
  BY <1>2 DEF ParamsOf, Unpadded
<1>5. \A t \in 0 .. k - 1 : r[3].body[t].spare = FALSE
  BY <1>2 DEF RoutingOf, Unpadded
<1>6. /\ Span(k * 13) = k * 13 <=> k % 4 = 0
      /\ k % 4 = 0 => Span(k * 2) = k * 2 /\ Span(k * 40) = k * 40
      /\ Span(4) = 4 /\ Span(12) = 12
  <2>1. /\ (k * 13) % 4 = 0 <=> k % 4 = 0
        /\ k % 4 = 0 => (k * 2) % 4 = 0 /\ (k * 40) % 4 = 0
    BY <1>1
  <2>2. \A len \in Nat : Span(len) = len <=> len % 4 = 0
    BY PadFits
  <2>3. QED
    BY <1>1, <2>1, <2>2
<1>7. /\ \A j \in {1, 2, 3, 4, 5, 6, 7, 8} : r[j].len <= r[j].held
      /\ r[2].held = Span(r[2].len) =>
           \A j \in {3, 4, 5, 6, 7, 8} : r[j].held = Span(r[j].len)
  BY <1>1, <1>2, <1>3, <1>6
<1>8. c.mode \in {0, 1}
  BY DEF ConfigOK
<1>9. r[8].body.over = BlobSize(b) - CrcRecord
  BY <1>2
<1>10. \A j \in {3, 4, 5, 6, 7, 8} : LaterFits(b, r[j], k)
  <2> HIDE DEF r
  <2>1. LaterFits(b, r[3], k)
    BY <1>3, <1>5 DEF LaterFits, Known, RoutingSize
  <2>2. LaterFits(b, r[4], k) /\ LaterFits(b, r[5], k) /\ LaterFits(b, r[7], k)
    BY <1>3 DEF LaterFits, Known, WeightsSize, ResetSize
  <2>3. LaterFits(b, r[6], k)
    BY <1>3, <1>8 DEF LaterFits, Known
  <2>4. LaterFits(b, r[8], k)
    BY <1>2, <1>9 DEF LaterFits, Known
  <2>5. QED
    BY <2>1, <2>2, <2>3, <2>4
<1>11. Layout(b, k)
  BY <1>1, <1>2, <1>3, <1>7, <1>10, LayoutOf DEF ParamsSize
<1>12. Sound(b, k) <=> InRanges(c) /\ k % 4 = 0
  BY <1>3, <1>4, <1>6 DEF Sound, InRanges, k
<1>13. QED
  BY <1>11, <1>12 DEF k
LEMMA GeneratedLayout ==
  ASSUME NEW g, g.lo \in Int, g.hi \in Int, NEW b, GeneratedAs(g, b)
  PROVE  /\ Layout(b, g.n)
         /\ Sound(b, g.n) <=> g.lo <= g.hi
<1> DEFINE k == g.n
           r == b.recs
<1>1. k \in 1 .. MaxTiles /\ b.defects = {} /\ b.tail = 0 /\ IsRecs(b.recs) /\ Len(b.recs) = 8
  BY DEF GeneratedAs
<1>2. /\ r[1] = GeneratedTopology(g) /\ r[2] = GeneratedParams(g) /\ r[3] = GeneratedRouting(g)
      /\ r[4] = Padded("READOUT_POLICY", 12, 0)
      /\ r[5] = Padded("RESET_ON_FIRE_MASK16", k * ResetSize, [t \in 0 .. k - 1 |-> {}])
      /\ r[6] = Padded("TILE_WEIGHTS_PACKED", k * WeightsSize, [t \in 0 .. k - 1 |-> ZeroWeight])
      /\ r[7] = Padded("TILE_FIELD_LIMIT", 4, k)
      /\ r[8].type = "CRC32" /\ r[8].len = 4 /\ r[8].held = 4
      /\ r[8].body.sound /\ r[8].body.over = BlobSize(b) - CrcRecord
  BY DEF GeneratedAs
<1>3. r[2].body = [t \in 0 .. k - 1 |-> [lo |-> g.lo, hi |-> g.hi, decay |-> g.decay,
                                         dom |-> 0, prio |-> 0, pat |-> 0]]
  BY <1>2 DEF GeneratedParams, Padded
<1>4. \A t \in 0 .. k - 1 : r[2].body[t].lo = g.lo /\ r[2].body[t].hi = g.hi
  BY <1>3
<1>5. \A t \in 0 .. k - 1 : r[3].body[t].spare = FALSE
  BY <1>2 DEF GeneratedRouting, Padded
<1>6. /\ r[1].type = "TOPOLOGY" /\ r[1].len = 16 /\ r[1].held = Span(16)
      /\ r[1].body.n = k /\ r[1].body.reserved = FALSE /\ r[1].body.matches = TRUE
      /\ r[2].type = "TILE_PARAMS_V2" /\ r[2].len = k * 13 /\ r[2].held = Span(k * 13)
      /\ r[3].type = "TILE_ROUTING_FLAGS16" /\ r[3].len = k * 2 /\ r[3].held = Span(k * 2)
      /\ r[4].type = "READOUT_POLICY" /\ r[4].len = 12 /\ r[4].held = Span(12) /\ r[4].body = 0
      /\ r[5].type = "RESET_ON_FIRE_MASK16" /\ r[5].len = k * 2 /\ r[5].held = Span(k * 2)
      /\ r[6].type = "TILE_WEIGHTS_PACKED" /\ r[6].len = k * 40 /\ r[6].held = Span(k * 40)
      /\ r[7].type = "TILE_FIELD_LIMIT" /\ r[7].len = 4 /\ r[7].held = Span(4)
  BY <1>2 DEF GeneratedTopology, GeneratedParams, GeneratedRouting, Padded,
              ParamsSize, RoutingSize, WeightsSize, ResetSize
<1> HIDE DEF k
<1>7. k \in Nat /\ k * 13 \in Nat /\ k * 2 \in Nat /\ k * 40 \in Nat
  BY <1>1, MaxTilesAssumption
<1>8. Span(16) = 16 /\ Span(12) = 12 /\ Span(4) = 4
  BY DEF Span, Pad
<1>9. k * 13 <= Span(k * 13) /\ k * 2 <= Span(k * 2) /\ k * 40 <= Span(k * 40)
  BY <1>7, PadFits
<1>10. /\ \A j \in {1, 2, 3, 4, 5, 6, 7, 8} : r[j].len <= r[j].held
       /\ \A j \in {2, 3, 4, 5, 6, 7, 8} : r[j].held = Span(r[j].len)
  BY SMTT(30), <1>2, <1>6, <1>8, <1>9
<1>11. \A j \in {3, 4, 5, 6, 7, 8} : LaterFits(b, r[j], k)
  <2> HIDE DEF r
  <2>1. LaterFits(b, r[3], k)
    BY <1>5, <1>6 DEF LaterFits, Known, RoutingSize
  <2>2. LaterFits(b, r[4], k) /\ LaterFits(b, r[5], k) /\ LaterFits(b, r[6], k)
          /\ LaterFits(b, r[7], k)
    BY <1>6 DEF LaterFits, Known, WeightsSize, ResetSize
  <2>3. LaterFits(b, r[8], k)
    BY <1>2 DEF LaterFits, Known
  <2>4. QED
    BY <2>1, <2>2, <2>3
<1>12. Layout(b, k)
  <2>1. /\ r[1].type = "TOPOLOGY" /\ r[1].len = 16 /\ r[1].held = 16
        /\ r[1].body.n = k /\ ~r[1].body.reserved
        /\ r[2].type = "TILE_PARAMS_V2" /\ r[2].len = k * ParamsSize
        /\ r[3].type = "TILE_ROUTING_FLAGS16"
        /\ "TILE_WEIGHTS_PACKED" \in {r[4].type, r[6].type} /\ r[8].type = "CRC32"
    BY <1>2, <1>6, <1>8 DEF ParamsSize
  <2>2. r[2].held = Span(r[2].len) => \A j \in {3, 4, 5, 6, 7, 8} : r[j].held = Span(r[j].len)
    BY <1>10
  <2>3. QED
    BY <1>1, <1>10, <1>11, <2>1, <2>2, LayoutOf
<1>13. Sound(b, k) <=> g.lo <= g.hi
  <2>1. 0 \in 0 .. k - 1
    BY <1>1, <1>7
  <2>2. r[2].held = Span(r[2].len)
    BY <1>10
  <2>3. QED
    BY <1>4, <1>6, <2>1, <2>2 DEF Sound
<1>14. QED
  BY <1>12, <1>13 DEF k

\* What was written is accepted, unless a range is empty or an odd size has the
\* walk go astray.
LEMMA LayoutAccepted == WalkInv /\ LayoutInv => WrittenIsAccepted
<1> SUFFICES ASSUME WalkInv, LayoutInv, Ended PROVE WrittenIsAccepted
  BY DEF WrittenIsAccepted
<1>1. Written(blob)
  BY DEF WalkInv
<1>2. ASSUME NEW k, Layout(blob, k) PROVE Accepted <=> Sound(blob, k)
  BY <1>2 DEF LayoutInv, LayoutWalk
<1>3. ASSUME blob.src.by = "generator"
      PROVE  Accepted <=> blob.src.args.lo <= blob.src.args.hi
  <2> DEFINE g == blob.src.args
  <2>1. g \in Requests /\ GeneratedAs(g, blob)
    BY <1>1, <1>3, WrittenBy
  <2>2. g.lo \in Int /\ g.hi \in Int
    <3>1. g \in [n : 1 .. MaxTiles, lo : I16, hi : I16, decay : U16]
      BY <2>1, RequestsAssumption
    <3>2. I16 \subseteq Int
      BY HalfAssumption DEF I16
    <3>3. QED
      BY <3>1, <3>2
  <2> HIDE DEF g
  <2>3. Layout(blob, g.n) /\ (Sound(blob, g.n) <=> g.lo <= g.hi)
    BY <2>1, <2>2, GeneratedLayout
  <2>4. QED
    BY <1>2, <2>3 DEF g
<1>4. ASSUME blob.src.by = "serializer"
      PROVE  LET c == blob.src.cfg
             IN  Accepted <=> InRanges(c) /\ SerializedCount(c) % 4 = 0
  <2> DEFINE c == blob.src.cfg
  <2>1. c \in Saved /\ SerializedAs(c, SerializedCount(c), blob)
    BY <1>1, <1>4, WrittenBy
  <2>2. ConfigOK(c)
    BY <2>1, SavedAssumption
  <2> HIDE DEF c
  <2>3. /\ Layout(blob, SerializedCount(c))
        /\ Sound(blob, SerializedCount(c)) <=>
             InRanges(c) /\ SerializedCount(c) % 4 = 0
    BY <2>1, <2>2, SerializedLayout
  <2>4. QED
    BY <1>2, <2>3 DEF c
<1>5. QED
  BY <1>3, <1>4 DEF WrittenIsAccepted

\* The parser accepts a blob of one of the two writers exactly when it should:
\* the generator's unless the range was empty, the serializer's when the swarm
\* has been baked, holds no empty range and has a multiple of four tiles.
THEOREM WrittenAreAccepted == Spec => []WrittenIsAccepted
<1>1. WalkInv /\ LayoutInv => WrittenIsAccepted
  BY LayoutAccepted
<1>2. QED
  BY <1>1, AlwaysLayout, PTL
-----------------------------------------------------------------------------
(* What the view keeps of the records                                      *)

\* Record r has a value for tile t and is of one of these types.
CoversTile(r, types, t) == r.type \in types /\ t * BytesPerTile(r.type) < r.len

\* Those of the first m records.
Covers(b, types, t, m) == {k \in 1 .. m : CoversTile(b.recs[k], types, t)}

Latest(S) == IF S = {} THEN 0 ELSE Max(S)

LEMMA LatestStep ==
  ASSUME NEW b, NEW types, NEW t, NEW m \in Nat
  PROVE  /\ CoversTile(b.recs[m + 1], types, t) => Latest(Covers(b, types, t, m + 1)) = m + 1
         /\ ~CoversTile(b.recs[m + 1], types, t) =>
              Latest(Covers(b, types, t, m + 1)) = Latest(Covers(b, types, t, m))
<1>1. 1 .. m + 1 = (1 .. m) \cup {m + 1}
  OBVIOUS
<1>2. CASE ~CoversTile(b.recs[m + 1], types, t)
  BY <1>1, <1>2 DEF Covers
<1>3. CASE CoversTile(b.recs[m + 1], types, t)
  <2> DEFINE S == Covers(b, types, t, m + 1)
  <2>1. m + 1 \in S /\ \A y \in S : m + 1 >= y /\ y \in Int
    BY <1>3 DEF Covers
  <2> HIDE DEF S
  <2>2. S # {} /\ Max(S) \in S /\ \A y \in S : Max(S) >= y
    BY <2>1 DEF Max
  <2>3. Max(S) = m + 1
    BY <2>1, <2>2
  <2>4. QED
    BY <1>3, <2>2, <2>3 DEF Latest, S
<1>4. QED
  BY <1>2, <1>3

ParamsAt(b, t, m)  == Latest(Covers(b, {"TILE_PARAMS_V2"}, t, m))
ResetAt(b, t, m)   ==
  Latest(Covers(b, {"TILE_PARAMS_V2", "RESET_ON_FIRE_MASK16"}, t, m))
RoutingAt(b, t, m) == Latest(Covers(b, {"TILE_ROUTING_FLAGS16"}, t, m))
WeightsAt(b, t, m) == Latest(Covers(b, {"TILE_WEIGHTS_PACKED"}, t, m))

LEMMA LatestMoves ==
  ASSUME NEW b, NEW t, NEW m \in Nat
  PROVE  LET r == b.recs[m + 1]
         IN  /\ ParamsAt(b, t, m + 1) = IF CoversTile(r, {"TILE_PARAMS_V2"}, t)
                                        THEN m + 1 ELSE ParamsAt(b, t, m)
             /\ ResetAt(b, t, m + 1) =
                  IF CoversTile(r, {"TILE_PARAMS_V2", "RESET_ON_FIRE_MASK16"}, t)
                  THEN m + 1 ELSE ResetAt(b, t, m)
             /\ RoutingAt(b, t, m + 1) = IF CoversTile(r, {"TILE_ROUTING_FLAGS16"}, t)
                                         THEN m + 1 ELSE RoutingAt(b, t, m)
             /\ WeightsAt(b, t, m + 1) = IF CoversTile(r, {"TILE_WEIGHTS_PACKED"}, t)
                                         THEN m + 1 ELSE WeightsAt(b, t, m)
<1>1. \A types : Latest(Covers(b, types, t, m + 1)) =
                   IF CoversTile(b.recs[m + 1], types, t)
                   THEN m + 1 ELSE Latest(Covers(b, types, t, m))
  BY LatestStep
<1>2. QED
  BY <1>1 DEF ParamsAt, ResetAt, RoutingAt, WeightsAt

\* The parameters that record p gives tile t, with the reset mask of record o.
Given(b, t, p, o) ==
  [(IF p = 0 THEN ZeroParams ELSE ParamsRead(b.recs[p].body[t], ZeroParams))
     EXCEPT !.rof = IF o \in {0, p} THEN {} ELSE b.recs[o].body[t]]

\* View v holds for tile t what the last of the first m records says.
Told(b, v, t, m) ==
  /\ ParamsAt(b, t, m) \in 0 .. m /\ ResetAt(b, t, m) \in 0 .. m
  /\ RoutingAt(b, t, m) \in 0 .. m /\ WeightsAt(b, t, m) \in 0 .. m
  /\ v.par[t] = Given(b, t, ParamsAt(b, t, m), ResetAt(b, t, m))
  /\ v.mask[t] = IF RoutingAt(b, t, m) = 0 THEN {} ELSE b.recs[RoutingAt(b, t, m)].body[t].dirs
  /\ t \in v.busR <=> RoutingAt(b, t, m) # 0 /\ b.recs[RoutingAt(b, t, m)].body[t].busR
  /\ t \in v.busW <=> RoutingAt(b, t, m) # 0 /\ b.recs[RoutingAt(b, t, m)].body[t].busW
  /\ v.weight[t] = IF WeightsAt(b, t, m) = 0 THEN ZeroWeight
                                             ELSE b.recs[WeightsAt(b, t, m)].body[t]

\* The parts of two views that differ in nothing tile t has.
SameTile(v, u, t) ==
  /\ v.par[t] = u.par[t] /\ v.mask[t] = u.mask[t] /\ v.weight[t] = u.weight[t]
  /\ (t \in v.busR <=> t \in u.busR) /\ (t \in v.busW <=> t \in u.busW)

TileTypes ==
  {"TILE_PARAMS_V2", "RESET_ON_FIRE_MASK16", "TILE_ROUTING_FLAGS16", "TILE_WEIGHTS_PACKED"}

\* A record that says nothing of the tile.
LEMMA ToldBefore ==
  ASSUME NEW b, NEW v, NEW u, NEW t, NEW m \in Nat, Told(b, v, t, m), SameTile(u, v, t),
         ~CoversTile(b.recs[m + 1], TileTypes, t)
  PROVE  Told(b, u, t, m + 1)
<1>1. /\ ParamsAt(b, t, m + 1) = ParamsAt(b, t, m)
      /\ ResetAt(b, t, m + 1) = ResetAt(b, t, m)
      /\ RoutingAt(b, t, m + 1) = RoutingAt(b, t, m)
      /\ WeightsAt(b, t, m + 1) = WeightsAt(b, t, m)
  <2>1. /\ ~CoversTile(b.recs[m + 1], {"TILE_PARAMS_V2"}, t)
        /\ ~CoversTile(b.recs[m + 1], {"TILE_PARAMS_V2", "RESET_ON_FIRE_MASK16"}, t)
        /\ ~CoversTile(b.recs[m + 1], {"TILE_ROUTING_FLAGS16"}, t)
        /\ ~CoversTile(b.recs[m + 1], {"TILE_WEIGHTS_PACKED"}, t)
    BY DEF CoversTile, TileTypes
  <2>2. QED
    BY <2>1, LatestMoves
<1>2. \A k \in 0 .. m : k \in 0 .. m + 1
  OBVIOUS
<1>3. QED
  BY <1>1, <1>2 DEF Told, SameTile

LEMMA GivenByParams ==
  ASSUME NEW b, NEW t, NEW q, q # 0, NEW old
  PROVE  Given(b, t, q, q) = ParamsRead(b.recs[q].body[t], old)
<1> DEFINE z == b.recs[q].body[t]
<1>1. Given(b, t, q, q) = [ParamsRead(z, ZeroParams) EXCEPT !.rof = {}]
  <2> q \in {0, q}
    OBVIOUS
  <2> QED
    BY DEF Given
<1> HIDE DEF z
<1>2. [ParamsRead(z, ZeroParams) EXCEPT !.rof = {}] = ParamsRead(z, old)
  BY DEF ParamsRead
<1>3. QED
  BY <1>1, <1>2 DEF z

LEMMA GivenByReset ==
  ASSUME NEW b, NEW t, NEW p, NEW o, NEW q, q # 0, q # p
  PROVE  Given(b, t, p, q) = [Given(b, t, p, o) EXCEPT !.rof = b.recs[q].body[t]]
<1> DEFINE x == IF o \in {0, p} THEN {} ELSE b.recs[o].body[t]
           y == b.recs[q].body[t]
<1>1. ~(q \in {0, p})
  OBVIOUS
<1> HIDE DEF x, y
<1>2. CASE p = 0
  <2>1. [ZeroParams EXCEPT !.rof = y] = [[ZeroParams EXCEPT !.rof = x] EXCEPT !.rof = y]
    BY DEF ZeroParams
  <2>2. QED
    BY <1>1, <1>2, <2>1 DEF Given, x, y
<1>3. CASE p # 0
  <2> DEFINE z == b.recs[p].body[t]
  <2>1. [ParamsRead(z, ZeroParams) EXCEPT !.rof = y]
          = [[ParamsRead(z, ZeroParams) EXCEPT !.rof = x] EXCEPT !.rof = y]
    <3> HIDE DEF z
    <3>1. QED
      BY DEF ParamsRead
  <2>2. QED
    BY <1>1, <1>3, <2>1 DEF Given, x, y, z
<1>4. QED
  BY <1>2, <1>3

LEMMA ToldByParams ==
  ASSUME NEW b, NEW v, NEW u, NEW t, NEW m \in Nat, Told(b, v, t, m),
         CoversTile(b.recs[m + 1], {"TILE_PARAMS_V2"}, t),
         u.mask[t] = v.mask[t], u.weight[t] = v.weight[t],
         t \in u.busR <=> t \in v.busR, t \in u.busW <=> t \in v.busW,
         u.par[t] = ParamsRead(b.recs[m + 1].body[t], v.par[t])
  PROVE  Told(b, u, t, m + 1)
<1>1. /\ ParamsAt(b, t, m + 1) = m + 1
      /\ ResetAt(b, t, m + 1) = m + 1
      /\ RoutingAt(b, t, m + 1) = RoutingAt(b, t, m)
      /\ WeightsAt(b, t, m + 1) = WeightsAt(b, t, m)
  <2>1. /\ CoversTile(b.recs[m + 1], {"TILE_PARAMS_V2", "RESET_ON_FIRE_MASK16"}, t)
        /\ ~CoversTile(b.recs[m + 1], {"TILE_ROUTING_FLAGS16"}, t)
        /\ ~CoversTile(b.recs[m + 1], {"TILE_WEIGHTS_PACKED"}, t)
    BY DEF CoversTile
  <2>2. QED
    BY <2>1, LatestMoves
<1>2. (\A k \in 0 .. m : k \in 0 .. m + 1) /\ m + 1 # 0 /\ m + 1 \in 0 .. m + 1
  OBVIOUS
<1>3. u.par[t] = Given(b, t, m + 1, m + 1)
  BY <1>2, GivenByParams
<1>4. QED
  BY <1>1, <1>2, <1>3 DEF Told

LEMMA ToldByReset ==
  ASSUME NEW b, NEW v, NEW u, NEW t, NEW m \in Nat, Told(b, v, t, m),
         CoversTile(b.recs[m + 1], {"RESET_ON_FIRE_MASK16"}, t),
         u.mask[t] = v.mask[t], u.weight[t] = v.weight[t],
         t \in u.busR <=> t \in v.busR, t \in u.busW <=> t \in v.busW,
         u.par[t] = [v.par[t] EXCEPT !.rof = b.recs[m + 1].body[t]]
  PROVE  Told(b, u, t, m + 1)
<1>1. /\ ParamsAt(b, t, m + 1) = ParamsAt(b, t, m)
      /\ ResetAt(b, t, m + 1) = m + 1
      /\ RoutingAt(b, t, m + 1) = RoutingAt(b, t, m)
      /\ WeightsAt(b, t, m + 1) = WeightsAt(b, t, m)
  <2>1. /\ CoversTile(b.recs[m + 1], {"TILE_PARAMS_V2", "RESET_ON_FIRE_MASK16"}, t)
        /\ ~CoversTile(b.recs[m + 1], {"TILE_PARAMS_V2"}, t)
        /\ ~CoversTile(b.recs[m + 1], {"TILE_ROUTING_FLAGS16"}, t)
        /\ ~CoversTile(b.recs[m + 1], {"TILE_WEIGHTS_PACKED"}, t)
    BY DEF CoversTile
  <2>2. QED
    BY <2>1, LatestMoves
<1>2. (\A k \in 0 .. m : k \in 0 .. m + 1 /\ k # m + 1) /\ m + 1 # 0 /\ m + 1 \in 0 .. m + 1
  OBVIOUS
<1>3. u.par[t] = Given(b, t, ParamsAt(b, t, m), m + 1)
  <2>1. v.par[t] = Given(b, t, ParamsAt(b, t, m), ResetAt(b, t, m)) /\ ParamsAt(b, t, m) # m + 1
    BY <1>2 DEF Told
  <2>2. QED
    BY <1>2, <2>1, GivenByReset
<1>4. QED
  BY <1>1, <1>2, <1>3 DEF Told

LEMMA ToldByRouting ==
  ASSUME NEW b, NEW v, NEW u, NEW t, NEW m \in Nat, Told(b, v, t, m),
         CoversTile(b.recs[m + 1], {"TILE_ROUTING_FLAGS16"}, t),
         u.par[t] = v.par[t], u.weight[t] = v.weight[t],
         u.mask[t] = b.recs[m + 1].body[t].dirs,
         t \in u.busR <=> b.recs[m + 1].body[t].busR,
         t \in u.busW <=> b.recs[m + 1].body[t].busW
  PROVE  Told(b, u, t, m + 1)
<1>1. /\ ParamsAt(b, t, m + 1) = ParamsAt(b, t, m)
      /\ ResetAt(b, t, m + 1) = ResetAt(b, t, m)
      /\ RoutingAt(b, t, m + 1) = m + 1
      /\ WeightsAt(b, t, m + 1) = WeightsAt(b, t, m)
  <2>1. /\ ~CoversTile(b.recs[m + 1], {"TILE_PARAMS_V2", "RESET_ON_FIRE_MASK16"}, t)
        /\ ~CoversTile(b.recs[m + 1], {"TILE_PARAMS_V2"}, t)
        /\ ~CoversTile(b.recs[m + 1], {"TILE_WEIGHTS_PACKED"}, t)
    BY DEF CoversTile
  <2>2. QED
    BY <2>1, LatestMoves
<1>2. (\A k \in 0 .. m : k \in 0 .. m + 1) /\ m + 1 # 0 /\ m + 1 \in 0 .. m + 1
  OBVIOUS
<1>3. QED
  BY <1>1, <1>2 DEF Told

LEMMA ToldByWeights ==
  ASSUME NEW b, NEW v, NEW u, NEW t, NEW m \in Nat, Told(b, v, t, m),
         CoversTile(b.recs[m + 1], {"TILE_WEIGHTS_PACKED"}, t),
         u.par[t] = v.par[t], u.mask[t] = v.mask[t],
         t \in u.busR <=> t \in v.busR, t \in u.busW <=> t \in v.busW,
         u.weight[t] = b.recs[m + 1].body[t]
  PROVE  Told(b, u, t, m + 1)
<1>1. /\ ParamsAt(b, t, m + 1) = ParamsAt(b, t, m)
      /\ ResetAt(b, t, m + 1) = ResetAt(b, t, m)
      /\ RoutingAt(b, t, m + 1) = RoutingAt(b, t, m)
      /\ WeightsAt(b, t, m + 1) = m + 1
  <2>1. /\ ~CoversTile(b.recs[m + 1], {"TILE_PARAMS_V2", "RESET_ON_FIRE_MASK16"}, t)
        /\ ~CoversTile(b.recs[m + 1], {"TILE_PARAMS_V2"}, t)
        /\ ~CoversTile(b.recs[m + 1], {"TILE_ROUTING_FLAGS16"}, t)
    BY DEF CoversTile
  <2>2. QED
    BY <2>1, LatestMoves
<1>2. (\A k \in 0 .. m : k \in 0 .. m + 1) /\ m + 1 # 0 /\ m + 1 \in 0 .. m + 1
  OBVIOUS
<1>3. QED
  BY <1>1, <1>2 DEF Told

\* The invariant: while the walk lasts, and at its end, the view holds for every
\* tile what the last record before the cursor says of it.
ToldInv == status = "walking" \/ Accepted => \A t \in Tiles : Told(blob, view, t, i - 1)

\* Before the first record the view is clear.
LEMMA ToldAtFirst ==
  ASSUME NEW b, NEW t \in Tiles
  PROVE  Told(b, ClearedView(b), t, 0)
<1>1. 1 .. 0 = {}
  OBVIOUS
<1>2. \A types : Latest(Covers(b, types, t, 0)) = 0
  BY <1>1 DEF Latest, Covers
<1>3. /\ ParamsAt(b, t, 0) = 0 /\ ResetAt(b, t, 0) = 0
      /\ RoutingAt(b, t, 0) = 0 /\ WeightsAt(b, t, 0) = 0
  BY <1>2 DEF ParamsAt, ResetAt, RoutingAt, WeightsAt
<1>4. Given(b, t, 0, 0) = ZeroParams
  BY DEF Given, ZeroParams
<1>5. QED
  BY <1>3, <1>4 DEF Told, ClearedView

\* A record whose value the view takes is followed by the next one; a record the
\* walk goes astray behind, or leaves the blob, is the last.
LEMMA ToldByTake ==
  ASSUME WalkInv, status = "walking", AtHeader, NEW u, Take(u),
         \A t \in Tiles : Told(blob, u, t, i - 1 + 1)
  PROVE  ToldInv'
<1>1. i \in Nat
  BY WrittenShape DEF WalkInv, IsRecs
<1>2. blob' = blob /\ view' = u
        /\ \/ i' = i + 1 /\ status' = status
           \/ status' \in {"astray", "past_blob"}
  BY DEF Take, Advance
<1>3. CASE i' = i + 1 /\ status' = status
  <2>1. i' - 1 = i - 1 + 1
    BY <1>1, <1>3
  <2>2. \A t \in Tiles : Told(blob', view', t, i' - 1)
    BY <1>2, <2>1
  <2>3. QED
    BY <2>2 DEF ToldInv
<1>4. CASE status' \in {"astray", "past_blob"}
  BY <1>4 DEF ToldInv, Accepted
<1>5. QED
  BY <1>2, <1>3, <1>4

\* The tiles a record covers whose length is that of the view.
LEMMA CoveredInView ==
  ASSUME ParserInv, NEW t \in Tiles, rec.type \in TileTypes,
         rec.len = view.n * BytesPerTile(rec.type)
  PROVE  CoversTile(rec, {rec.type}, t) <=> t \in InView
<1>1. view.n \in Nat /\ t \in Nat
  BY InViewTiles DEF Tiles
<1>2. BytesPerTile(rec.type) \in {13, 2, 40}
  BY DEF TileTypes, BytesPerTile, ParamsSize, RoutingSize, WeightsSize, ResetSize
<1> DEFINE z == BytesPerTile(rec.type)
           n == view.n
<1> HIDE DEF z, n
<1>3. t * z < n * z <=> t < n
  BY <1>1, <1>2 DEF z, n
<1>4. QED
  BY <1>1, <1>3 DEF CoversTile, InView, z, n

\* The cursor counts the records taken.
LEMMA Cursor ==
  ASSUME WalkInv, AtHeader
  PROVE  /\ i - 1 \in Nat /\ blob.recs[i - 1 + 1] = rec /\ status = "walking"
BY WrittenShape DEF WalkInv, IsRecs, AtHeader, rec

LEMMA ToldRefused ==
  ASSUME ToldInv, status = "walking", NEW st, StopWith(st)
  PROVE  ToldInv'
BY DEF ToldInv, StopWith

LEMMA ToldBadTiles ==
  ASSUME ToldInv, NEW type, NEW size, BadTiles(type, size)
  PROVE  ToldInv'
BY ToldRefused DEF BadTiles, At, AtHeader

\* A record that gives the tiles nothing.
LEMMA ToldPlain ==
  ASSUME ParserInv, WalkInv, ToldInv, AtHeader, rec.type \notin TileTypes, NEW u, Take(u),
         \A t \in Tiles : SameTile(u, view, t)
  PROVE  ToldInv'
<1>1. \A t \in Tiles : Told(blob, u, t, i - 1 + 1)
  <2> TAKE t \in Tiles
  <2>1. Told(blob, view, t, i - 1)
    BY Cursor DEF ToldInv
  <2>2. ~CoversTile(blob.recs[i - 1 + 1], TileTypes, t)
    BY Cursor DEF CoversTile
  <2>3. QED
    BY <2>1, <2>2, Cursor, ToldBefore
<1>2. QED
  BY <1>1, Cursor, ToldByTake

\* A record with a value for each tile of the view: tile by tile.
LEMMA ToldTiles ==
  ASSUME ParserInv, WalkInv, ToldInv, AtHeader, rec.type \in TileTypes,
         rec.len = view.n * BytesPerTile(rec.type), NEW u, Take(u),
         \A t \in Tiles \ InView : SameTile(u, view, t),
         \A t \in InView : Told(blob, u, t, i - 1 + 1)
  PROVE  ToldInv'
<1>1. \A t \in Tiles : Told(blob, u, t, i - 1 + 1)
  <2> TAKE t \in Tiles
  <2>1. CASE t \in InView
    BY <2>1
  <2>2. CASE t \notin InView
    <3>1. Told(blob, view, t, i - 1)
      BY Cursor DEF ToldInv
    <3>2. ~CoversTile(rec, {rec.type}, t)
      BY <2>2, CoveredInView
    <3>3. ~CoversTile(blob.recs[i - 1 + 1], TileTypes, t)
      BY <3>2, Cursor DEF CoversTile
    <3>4. QED
      BY <2>2, <3>1, <3>3, Cursor, ToldBefore
  <2>3. QED
    BY <2>1, <2>2
<1>2. QED
  BY <1>1, Cursor, ToldByTake

LEMMA ParamsTold ==
  ASSUME ParserInv, WalkInv, ToldInv, ParseTileParams
  PROVE  ToldInv'
<1> SUFFICES ASSUME AtTiles("TILE_PARAMS_V2", ParamsSize),
                    Take([view EXCEPT !.par = Overlaid(@, [t \in InView |->
                                                  ParamsRead(rec.body[t], view.par[t])])])
             PROVE  ToldInv'
  BY ToldBadTiles, ToldRefused DEF ParseTileParams, TakeTiles, AtTiles, At, AtHeader
<1> DEFINE par == Overlaid(view.par, [t \in InView |-> ParamsRead(rec.body[t], view.par[t])])
           u == [view EXCEPT !.par = par]
<1>1. /\ AtHeader /\ rec.type = "TILE_PARAMS_V2" /\ rec.type \in TileTypes
      /\ rec.len = view.n * BytesPerTile(rec.type)
  BY DEF AtTiles, At, BytesPerTile, TileTypes
<1>2. \A t \in Tiles : par[t] = IF t \in InView THEN ParamsRead(rec.body[t], view.par[t])
                                                 ELSE view.par[t]
  BY DEF Overlaid
<1>3. Take(u)
  OBVIOUS
<1> HIDE DEF par
<1>4. /\ u.mask = view.mask /\ u.weight = view.weight
      /\ u.busR = view.busR /\ u.busW = view.busW
      /\ u.par = par
  BY DEF ParserInv, ViewOK
<1> HIDE DEF u
<1>5. \A t \in Tiles \ InView : SameTile(u, view, t)
  BY <1>2, <1>4 DEF SameTile
<1>6. \A t \in InView : Told(blob, u, t, i - 1 + 1)
  <2> TAKE t \in InView
  <2>1. t \in Tiles
    BY InViewTiles
  <2>2. Told(blob, view, t, i - 1)
    BY <1>1, <2>1, Cursor DEF ToldInv
  <2>3. CoversTile(blob.recs[i - 1 + 1], {"TILE_PARAMS_V2"}, t)
    BY <1>1, <2>1, CoveredInView, Cursor
  <2>4. u.par[t] = ParamsRead(blob.recs[i - 1 + 1].body[t], view.par[t])
    BY <1>1, <1>2, <1>4, <2>1, Cursor
  <2>5. QED
    BY <1>1, <1>4, <2>2, <2>3, <2>4, Cursor, ToldByParams
<1>7. QED
  BY <1>1, <1>3, <1>5, <1>6, ToldTiles

LEMMA ResetTold ==
  ASSUME ParserInv, WalkInv, ToldInv, ParseResetOnFire
  PROVE  ToldInv'
<1> DEFINE par == [t \in Tiles |-> IF t \in InView
                                   THEN [view.par[t] EXCEPT !.rof = rec.body[t]]
                                   ELSE view.par[t]]
           u == [view EXCEPT !.par = par]
<1> SUFFICES ASSUME AtTiles("RESET_ON_FIRE_MASK16", ResetSize), Take(u)
             PROVE  ToldInv'
  BY ToldBadTiles, ToldRefused DEF ParseResetOnFire, TakeTiles, AtTiles, At, AtHeader
<1>1. /\ AtHeader /\ rec.type = "RESET_ON_FIRE_MASK16" /\ rec.type \in TileTypes
      /\ rec.len = view.n * BytesPerTile(rec.type)
  BY DEF AtTiles, At, BytesPerTile, TileTypes
<1>2. \A t \in Tiles : par[t] = IF t \in InView THEN [view.par[t] EXCEPT !.rof = rec.body[t]]
                                                 ELSE view.par[t]
  OBVIOUS
<1> HIDE DEF par
<1>3. /\ u.mask = view.mask /\ u.weight = view.weight
      /\ u.busR = view.busR /\ u.busW = view.busW
      /\ u.par = par
  BY DEF ParserInv, ViewOK
<1> HIDE DEF u
<1>4. \A t \in Tiles \ InView : SameTile(u, view, t)
  BY <1>2, <1>3 DEF SameTile
<1>5. \A t \in InView : Told(blob, u, t, i - 1 + 1)
  <2> TAKE t \in InView
  <2>1. t \in Tiles
    BY InViewTiles
  <2>2. Told(blob, view, t, i - 1)
    BY <1>1, <2>1, Cursor DEF ToldInv
  <2>3. CoversTile(blob.recs[i - 1 + 1], {"RESET_ON_FIRE_MASK16"}, t)
    BY <1>1, <2>1, CoveredInView, Cursor
  <2>4. u.par[t] = [view.par[t] EXCEPT !.rof = blob.recs[i - 1 + 1].body[t]]
    BY <1>1, <1>2, <1>3, <2>1, Cursor
  <2>5. QED
    BY <1>1, <1>3, <2>2, <2>3, <2>4, Cursor, ToldByReset
<1>6. QED
  BY <1>1, <1>4, <1>5, ToldTiles

LEMMA RoutingTold ==
  ASSUME ParserInv, WalkInv, ToldInv, ParseRouting
  PROVE  ToldInv'
<1> DEFINE mask == Overlaid(view.mask, [t \in InView |-> rec.body[t].dirs])
           busR == (view.busR \ InView) \cup {t \in InView : rec.body[t].busR}
           busW == (view.busW \ InView) \cup {t \in InView : rec.body[t].busW}
           u == [view EXCEPT !.mask = mask, !.busR = busR, !.busW = busW]
<1> SUFFICES ASSUME AtTiles("TILE_ROUTING_FLAGS16", RoutingSize), Take(u)
             PROVE  ToldInv'
  BY ToldBadTiles, ToldRefused DEF ParseRouting, TakeTiles, AtTiles, At, AtHeader
<1>1. /\ AtHeader /\ rec.type = "TILE_ROUTING_FLAGS16" /\ rec.type \in TileTypes
      /\ rec.len = view.n * BytesPerTile(rec.type)
  BY DEF AtTiles, At, BytesPerTile, TileTypes
<1>2. \A t \in Tiles :
        /\ mask[t] = IF t \in InView THEN rec.body[t].dirs ELSE view.mask[t]
        /\ t \in busR <=> IF t \in InView THEN rec.body[t].busR ELSE t \in view.busR
        /\ t \in busW <=> IF t \in InView THEN rec.body[t].busW ELSE t \in view.busW
  BY DEF Overlaid
<1> HIDE DEF mask, busR, busW
<1>3. /\ u.mask = mask /\ u.busR = busR /\ u.busW = busW
      /\ u.weight = view.weight /\ u.par = view.par
  BY DEF ParserInv, ViewOK
<1> HIDE DEF u
<1>4. \A t \in Tiles \ InView : SameTile(u, view, t)
  BY <1>2, <1>3 DEF SameTile
<1>5. \A t \in InView : Told(blob, u, t, i - 1 + 1)
  <2> TAKE t \in InView
  <2>1. t \in Tiles
    BY InViewTiles
  <2>2. Told(blob, view, t, i - 1)
    BY <1>1, <2>1, Cursor DEF ToldInv
  <2>3. CoversTile(blob.recs[i - 1 + 1], {"TILE_ROUTING_FLAGS16"}, t)
    BY <1>1, <2>1, CoveredInView, Cursor
  <2>4. /\ u.mask[t] = blob.recs[i - 1 + 1].body[t].dirs
        /\ t \in u.busR <=> blob.recs[i - 1 + 1].body[t].busR
        /\ t \in u.busW <=> blob.recs[i - 1 + 1].body[t].busW
    BY <1>1, <1>2, <1>3, <2>1, Cursor
  <2>5. QED
    BY <1>1, <1>3, <2>2, <2>3, <2>4, Cursor, ToldByRouting
<1>6. QED
  BY <1>1, <1>4, <1>5, ToldTiles

LEMMA WeightsTold ==
  ASSUME ParserInv, WalkInv, ToldInv, ParseWeights
  PROVE  ToldInv'
<1> DEFINE weight == Overlaid(view.weight, rec.body)
           u == [view EXCEPT !.weight = weight]
<1> SUFFICES ASSUME AtTiles("TILE_WEIGHTS_PACKED", WeightsSize), Take(u)
             PROVE  ToldInv'
  BY ToldBadTiles, ToldRefused DEF ParseWeights, TakeTiles, AtTiles, At, AtHeader
<1>1. /\ AtHeader /\ rec.type = "TILE_WEIGHTS_PACKED" /\ rec.type \in TileTypes
      /\ rec.len = view.n * BytesPerTile(rec.type)
  BY DEF AtTiles, At, BytesPerTile, TileTypes
<1>2. \A t \in Tiles : weight[t] = IF t \in InView THEN rec.body[t] ELSE view.weight[t]
  BY DEF Overlaid
<1> HIDE DEF weight
<1>3. /\ u.mask = view.mask /\ u.par = view.par
      /\ u.busR = view.busR /\ u.busW = view.busW
      /\ u.weight = weight
  BY DEF ParserInv, ViewOK
<1> HIDE DEF u
<1>4. \A t \in Tiles \ InView : SameTile(u, view, t)
  BY <1>2, <1>3 DEF SameTile
<1>5. \A t \in InView : Told(blob, u, t, i - 1 + 1)
  <2> TAKE t \in InView
  <2>1. t \in Tiles
    BY InViewTiles
  <2>2. Told(blob, view, t, i - 1)
    BY <1>1, <2>1, Cursor DEF ToldInv
  <2>3. CoversTile(blob.recs[i - 1 + 1], {"TILE_WEIGHTS_PACKED"}, t)
    BY <1>1, <2>1, CoveredInView, Cursor
  <2>4. u.weight[t] = blob.recs[i - 1 + 1].body[t]
    BY <1>1, <1>2, <1>3, <2>1, Cursor
  <2>5. QED
    BY <1>1, <1>3, <2>2, <2>3, <2>4, Cursor, ToldByWeights
<1>6. QED
  BY <1>1, <1>4, <1>5, ToldTiles

\* The records that say something else, or nothing.
LEMMA OtherTold ==
  ASSUME ParserInv, WalkInv, ToldInv,
         ParseTopology \/ ParseReadout \/ ParseFieldLimit \/ ParseCrc \/ Unknown
  PROVE  ToldInv'
<1>1. ASSUME NEW type, At(type), type \notin TileTypes, NEW u, Take(u),
             u.par = view.par, u.mask = view.mask, u.weight = view.weight,
             u.busR = view.busR, u.busW = view.busW
      PROVE  ToldInv'
  <2>1. AtHeader /\ rec.type \notin TileTypes
    BY <1>1 DEF At
  <2>2. \A t \in Tiles : SameTile(u, view, t)
    BY <1>1 DEF SameTile
  <2>3. QED
    BY <1>1, <2>1, <2>2, ToldPlain
<1>2. ASSUME NEW type, At(type), NEW st, StopWith(st) PROVE ToldInv'
  BY <1>2, ToldRefused DEF At, AtHeader
<1>3. /\ "TOPOLOGY" \notin TileTypes /\ "READOUT_POLICY" \notin TileTypes
      /\ "TILE_FIELD_LIMIT" \notin TileTypes /\ "CRC32" \notin TileTypes
  BY DEF TileTypes
<1>4. CASE ParseTopology
  <2> DEFINE u == [view EXCEPT !.n = rec.body.n, !.w = rec.body.w, !.resv = rec.body.resv]
  <2>1. At("TOPOLOGY") /\ (Take(u) \/ \E st : StopWith(st))
    BY <1>4 DEF ParseTopology
  <2>2. /\ u.par = view.par /\ u.mask = view.mask /\ u.weight = view.weight
        /\ u.busR = view.busR /\ u.busW = view.busW
    OBVIOUS
  <2> HIDE DEF u
  <2>3. QED
    BY <1>1, <1>2, <1>3, <2>1, <2>2
<1>5. CASE ParseReadout
  <2> DEFINE u == [view EXCEPT !.mode = rec.body]
  <2>1. At("READOUT_POLICY") /\ (Take(u) \/ \E st : StopWith(st))
    BY <1>5 DEF ParseReadout
  <2>2. /\ u.par = view.par /\ u.mask = view.mask /\ u.weight = view.weight
        /\ u.busR = view.busR /\ u.busW = view.busW
    OBVIOUS
  <2> HIDE DEF u
  <2>3. QED
    BY <1>1, <1>2, <1>3, <2>1, <2>2
<1>6. CASE ParseFieldLimit
  <2> DEFINE u == [view EXCEPT !.limit = rec.body]
  <2>1. At("TILE_FIELD_LIMIT") /\ (Take(u) \/ \E st : StopWith(st))
    BY <1>6 DEF ParseFieldLimit
  <2>2. /\ u.par = view.par /\ u.mask = view.mask /\ u.weight = view.weight
        /\ u.busR = view.busR /\ u.busW = view.busW
    OBVIOUS
  <2> HIDE DEF u
  <2>3. QED
    BY <1>1, <1>2, <1>3, <2>1, <2>2
<1>7. CASE ParseCrc
  <2>1. At("CRC32") /\ (Take(view) \/ \E st : StopWith(st))
    BY <1>7 DEF ParseCrc
  <2>2. QED
    BY <1>1, <1>2, <1>3, <2>1
<1>8. CASE Unknown
  <2>1. AtHeader /\ rec.type \notin TileTypes /\ Take(view)
    BY <1>8 DEF Unknown, Known, TileTypes
  <2>2. \A t \in Tiles : SameTile(view, view, t)
    BY DEF SameTile
  <2>3. QED
    BY <2>1, <2>2, ToldPlain
<1>9. QED
  BY <1>4, <1>5, <1>6, <1>7, <1>8

LEMMA NextTold == ParserInv /\ WalkInv /\ ToldInv /\ [Next]_vars => ToldInv'
<1> SUFFICES ASSUME ParserInv, WalkInv, ToldInv, [Next]_vars PROVE ToldInv'
  OBVIOUS
<1>1. CASE UNCHANGED vars
  BY <1>1 DEF vars, ToldInv, Accepted
<1>2. CASE CheckHeader
  <2>1. i = 1 /\ view = ClearedView(blob) /\ UNCHANGED <<blob, i, view>>
    BY <1>2 DEF CheckHeader, WalkInv
  <2>2. \A t \in Tiles : Told(blob, ClearedView(blob), t, 0)
    BY ToldAtFirst
  <2>3. i' - 1 = 0
    BY <2>1
  <2>4. \A t \in Tiles : Told(blob', view', t, i' - 1)
    BY <2>1, <2>2, <2>3
  <2>5. QED
    BY <2>4 DEF ToldInv
<1>3. CASE TooShort \/ Overlong \/ EndOfBlob
  <2>1. EndOfBlob => status = "walking"
    BY NotAstray DEF EndOfBlob
  <2>2. CASE TooShort
    BY <2>2 DEF TooShort, StopWith, ToldInv, Accepted
  <2>3. QED
    BY <1>3, <2>1, <2>2, ToldRefused DEF Overlong, EndOfBlob, AtHeader
<1>4. CASE ParseRecord
  BY <1>4, ParamsTold, RoutingTold, WeightsTold, ResetTold, OtherTold DEF ParseRecord
<1>5. CASE Stray
  <2>1. status' \notin {"walking", "OK"}
    BY <1>5 DEF Stray, StopWith, Refusals, Advance
  <2>2. QED
    BY <2>1 DEF ToldInv, Accepted
<1>6. QED
  BY <1>1, <1>2, <1>3, <1>4, <1>5 DEF Next

LEMMA AlwaysTold == Spec => [](ParserInv /\ WalkInv /\ ToldInv)
<1>1. Init => ToldInv
  BY DEF Init, ToldInv, Accepted
<1>2. QED
  BY <1>1, AlwaysWalk, NextTold, PTL DEF Spec

\* The accepted view depends on the last record for each tile only, whatever the
\* blob holds: no value of an earlier record, no size of an earlier field and no
\* mask of a reset record before the parameters is left in it.
THEOREM TheLastRecordWins == Spec => []LastRecordWins
<1>1. ASSUME WalkInv, ToldInv PROVE LastRecordWins
  <2> SUFFICES ASSUME Accepted, NEW t \in Tiles
               PROVE  LET p == LastFor({"TILE_PARAMS_V2"}, t)
                          o == LastFor({"TILE_PARAMS_V2", "RESET_ON_FIRE_MASK16"}, t)
                          m == LastFor({"TILE_ROUTING_FLAGS16"}, t)
                          w == LastFor({"TILE_WEIGHTS_PACKED"}, t)
                      IN  /\ view.par[t] = Given(blob, t, p, o)
                          /\ view.mask[t] = IF m = 0 THEN {} ELSE blob.recs[m].body[t].dirs
                          /\ t \in view.busR <=> m # 0 /\ blob.recs[m].body[t].busR
                          /\ view.weight[t] = IF w = 0 THEN ZeroWeight
                                                       ELSE blob.recs[w].body[t]
    BY DEF LastRecordWins, Given
  <2>1. IsRecs(blob.recs) /\ Len(blob.recs) \in Nat /\ i = Len(blob.recs) + 1
    BY <1>1, WrittenShape DEF WalkInv, IsRecs
  <2>2. i - 1 = Len(blob.recs)
    BY <2>1
  <2>3. Told(blob, view, t, Len(blob.recs))
    BY <1>1, <2>2 DEF ToldInv
  <2>4. /\ ParamsAt(blob, t, Len(blob.recs)) = LastFor({"TILE_PARAMS_V2"}, t)
        /\ ResetAt(blob, t, Len(blob.recs)) =
             LastFor({"TILE_PARAMS_V2", "RESET_ON_FIRE_MASK16"}, t)
        /\ RoutingAt(blob, t, Len(blob.recs)) = LastFor({"TILE_ROUTING_FLAGS16"}, t)
        /\ WeightsAt(blob, t, Len(blob.recs)) = LastFor({"TILE_WEIGHTS_PACKED"}, t)
    <3>1. \A types : Latest(Covers(blob, types, t, Len(blob.recs))) = LastFor(types, t)
      BY <2>1 DEF IsRecs, Latest, Covers, CoversTile, LastFor
    <3>2. QED
      BY <3>1 DEF ParamsAt, ResetAt, RoutingAt, WeightsAt
  <2>5. QED
    BY <2>3, <2>4 DEF Told
<1>2. QED
  BY <1>1, AlwaysTold, PTL
-----------------------------------------------------------------------------
(* What a saved swarm gets back                                            *)

\* The records the serializer writes once each, where it writes them.
SerialOrder(b) ==
  /\ IsRecs(b.recs) /\ Len(b.recs) = 8
  /\ \A j \in 1 .. 8 : /\ b.recs[j].type = "TOPOLOGY" <=> j = 1
                       /\ b.recs[j].type = "READOUT_POLICY" <=> j = 6
                       /\ b.recs[j].type = "TILE_FIELD_LIMIT" <=> j = 7

\* What the view holds of the whole field when m records have been taken.
HeadTold(b, v, m) ==
  /\ v.bakeId = b.bakeId /\ v.strait = b.strait
  /\ m >= 1 => v.n = b.recs[1].body.n /\ v.w = b.recs[1].body.w /\ v.resv = b.recs[1].body.resv
  /\ m >= 6 => v.mode = b.recs[6].body
  /\ m >= 7 => v.limit = b.recs[7].body

HeadInv ==
  SerialOrder(blob) /\ (status = "walking" \/ Accepted) => HeadTold(blob, view, i - 1)

LEMMA HeadByTake ==
  ASSUME WalkInv, HeadInv, AtHeader, NEW u, Take(u),
         u.bakeId = view.bakeId, u.strait = view.strait,
         IF rec.type = "TOPOLOGY"
         THEN u.n = rec.body.n /\ u.w = rec.body.w /\ u.resv = rec.body.resv
         ELSE u.n = view.n /\ u.w = view.w /\ u.resv = view.resv,
         u.mode = (IF rec.type = "READOUT_POLICY" THEN rec.body ELSE view.mode),
         u.limit = (IF rec.type = "TILE_FIELD_LIMIT" THEN rec.body ELSE view.limit)
  PROVE  HeadInv'
<1> SUFFICES ASSUME SerialOrder(blob)', (status = "walking" \/ Accepted)'
             PROVE  HeadTold(blob, view, i - 1)'
  BY DEF HeadInv
<1>1. /\ blob' = blob /\ view' = u /\ i' = i + 1
  BY DEF Take, Advance, Accepted
<1>2. SerialOrder(blob)
  BY <1>1
<1>3. i \in 1 .. 8 /\ rec = blob.recs[i] /\ status = "walking"
  BY <1>2 DEF AtHeader, SerialOrder, IsRecs, rec
<1>4. HeadTold(blob, view, i - 1)
  BY <1>2, <1>3 DEF HeadInv
<1>5. /\ rec.type = "TOPOLOGY" <=> i = 1
      /\ rec.type = "READOUT_POLICY" <=> i = 6
      /\ rec.type = "TILE_FIELD_LIMIT" <=> i = 7
  BY <1>2, <1>3 DEF SerialOrder
<1>6. HeadTold(blob, u, i)
  <2>1. u.bakeId = blob.bakeId /\ u.strait = blob.strait
    BY <1>4 DEF HeadTold
  <2>2. u.n = blob.recs[1].body.n /\ u.w = blob.recs[1].body.w /\ u.resv = blob.recs[1].body.resv
    BY <1>3, <1>4, <1>5 DEF HeadTold
  <2>3. i >= 6 => u.mode = blob.recs[6].body
    BY <1>3, <1>4, <1>5 DEF HeadTold
  <2>4. i >= 7 => u.limit = blob.recs[7].body
    BY <1>3, <1>4, <1>5 DEF HeadTold
  <2>5. QED
    BY <2>1, <2>2, <2>3, <2>4 DEF HeadTold
<1>7. i' - 1 = i
  BY <1>1, <1>3
<1>8. HeadTold(blob', view', i' - 1)
  BY <1>1, <1>6, <1>7
<1>9. QED
  BY <1>8

\* A record whose view differs in none of those fields.
LEMMA HeadBySame ==
  ASSUME WalkInv, HeadInv, AtHeader, NEW u, Take(u),
         rec.type \notin {"TOPOLOGY", "READOUT_POLICY", "TILE_FIELD_LIMIT"},
         u.bakeId = view.bakeId, u.strait = view.strait,
         u.n = view.n, u.w = view.w, u.resv = view.resv,
         u.mode = view.mode, u.limit = view.limit
  PROVE  HeadInv'
BY HeadByTake

LEMMA HeadRefused ==
  ASSUME HeadInv, status = "walking", NEW st, StopWith(st)
  PROVE  HeadInv'
BY DEF HeadInv, StopWith

LEMMA TilesHead ==
  ASSUME WalkInv, HeadInv, ParserInv,
         ParseTileParams \/ ParseRouting \/ ParseWeights \/ ParseResetOnFire
  PROVE  HeadInv'
<1>1. ASSUME NEW type, NEW size, BadTiles(type, size) PROVE HeadInv'
  BY <1>1, HeadRefused DEF BadTiles, At, AtHeader
<1>2. ASSUME NEW type \in TileTypes, NEW size, AtTiles(type, size), NEW st, StopWith(st)
      PROVE  HeadInv'
  BY <1>2, HeadRefused DEF AtTiles, At, AtHeader
<1>3. ASSUME NEW type \in TileTypes, NEW size, AtTiles(type, size), NEW u, Take(u),
             u.bakeId = view.bakeId, u.strait = view.strait,
             u.n = view.n, u.w = view.w, u.resv = view.resv,
             u.mode = view.mode, u.limit = view.limit
      PROVE  HeadInv'
  <2>1. AtHeader /\ rec.type = type
    BY <1>3 DEF AtTiles, At
  <2>2. rec.type \notin {"TOPOLOGY", "READOUT_POLICY", "TILE_FIELD_LIMIT"}
    BY <2>1 DEF TileTypes
  <2>3. QED
    BY <1>3, <2>1, <2>2, HeadBySame
<1>4. /\ "TILE_PARAMS_V2" \in TileTypes /\ "TILE_ROUTING_FLAGS16" \in TileTypes
      /\ "TILE_WEIGHTS_PACKED" \in TileTypes /\ "RESET_ON_FIRE_MASK16" \in TileTypes
  BY DEF TileTypes
<1>5. CASE ParseTileParams
  <2> DEFINE x == Overlaid(view.par, [t \in InView |-> ParamsRead(rec.body[t], view.par[t])])
             u == [view EXCEPT !.par = x]
  <2>1. \/ BadTiles("TILE_PARAMS_V2", ParamsSize)
        \/ AtTiles("TILE_PARAMS_V2", ParamsSize) /\ (Take(u) \/ \E st : StopWith(st))
    BY <1>5 DEF ParseTileParams, TakeTiles
  <2> HIDE DEF x
  <2>2. /\ u.bakeId = view.bakeId /\ u.strait = view.strait
        /\ u.n = view.n /\ u.w = view.w /\ u.resv = view.resv
        /\ u.mode = view.mode /\ u.limit = view.limit
    OBVIOUS
  <2> HIDE DEF u
  <2>3. QED
    BY <1>1, <1>2, <1>3, <1>4, <2>1, <2>2
<1>6. CASE ParseRouting
  <2> DEFINE x == Overlaid(view.mask, [t \in InView |-> rec.body[t].dirs])
             y == (view.busR \ InView) \cup {t \in InView : rec.body[t].busR}
             z == (view.busW \ InView) \cup {t \in InView : rec.body[t].busW}
             u == [view EXCEPT !.mask = x, !.busR = y, !.busW = z]
  <2>1. \/ BadTiles("TILE_ROUTING_FLAGS16", RoutingSize)
        \/ AtTiles("TILE_ROUTING_FLAGS16", RoutingSize) /\ (Take(u) \/ \E st : StopWith(st))
    BY <1>6 DEF ParseRouting, TakeTiles
  <2> HIDE DEF x, y, z
  <2>2. /\ u.bakeId = view.bakeId /\ u.strait = view.strait
        /\ u.n = view.n /\ u.w = view.w /\ u.resv = view.resv
        /\ u.mode = view.mode /\ u.limit = view.limit
    OBVIOUS
  <2> HIDE DEF u
  <2>3. QED
    BY <1>1, <1>2, <1>3, <1>4, <2>1, <2>2
<1>7. CASE ParseWeights
  <2> DEFINE u == [view EXCEPT !.weight = Overlaid(@, rec.body)]
  <2>1. \/ BadTiles("TILE_WEIGHTS_PACKED", WeightsSize)
        \/ AtTiles("TILE_WEIGHTS_PACKED", WeightsSize) /\ (Take(u) \/ \E st : StopWith(st))
    BY <1>7 DEF ParseWeights, TakeTiles
  <2>2. /\ u.bakeId = view.bakeId /\ u.strait = view.strait
        /\ u.n = view.n /\ u.w = view.w /\ u.resv = view.resv
        /\ u.mode = view.mode /\ u.limit = view.limit
    OBVIOUS
  <2> HIDE DEF u
  <2>3. QED
    BY <1>1, <1>2, <1>3, <1>4, <2>1, <2>2
<1>8. CASE ParseResetOnFire
  <2> DEFINE x == [t \in Tiles |-> IF t \in InView THEN [view.par[t] EXCEPT !.rof = rec.body[t]]
                                                   ELSE view.par[t]]
             u == [view EXCEPT !.par = x]
  <2>1. \/ BadTiles("RESET_ON_FIRE_MASK16", ResetSize)
        \/ AtTiles("RESET_ON_FIRE_MASK16", ResetSize) /\ (Take(u) \/ \E st : StopWith(st))
    BY <1>8 DEF ParseResetOnFire, TakeTiles
  <2> HIDE DEF x
  <2>2. /\ u.bakeId = view.bakeId /\ u.strait = view.strait
        /\ u.n = view.n /\ u.w = view.w /\ u.resv = view.resv
        /\ u.mode = view.mode /\ u.limit = view.limit
    OBVIOUS
  <2> HIDE DEF u
  <2>3. QED
    BY <1>1, <1>2, <1>3, <1>4, <2>1, <2>2
<1>9. QED
  BY <1>5, <1>6, <1>7, <1>8

LEMMA PlainHead ==
  ASSUME WalkInv, HeadInv, ParserInv,
         ParseTopology \/ ParseReadout \/ ParseFieldLimit \/ ParseCrc \/ Unknown
  PROVE  HeadInv'
<1>1. ASSUME NEW type, At(type), NEW st, StopWith(st) PROVE HeadInv'
  BY <1>1, HeadRefused DEF At, AtHeader
<1>2. CASE ParseTopology
  <2> DEFINE u == [view EXCEPT !.n = rec.body.n, !.w = rec.body.w, !.resv = rec.body.resv]
  <2>1. At("TOPOLOGY") /\ (Take(u) \/ \E st : StopWith(st))
    BY <1>2 DEF ParseTopology
  <2>2. /\ u.bakeId = view.bakeId /\ u.strait = view.strait
        /\ u.mode = view.mode /\ u.limit = view.limit
        /\ u.n = rec.body.n /\ u.w = rec.body.w /\ u.resv = rec.body.resv
    BY DEF ParserInv, ViewOK
  <2> HIDE DEF u
  <2>3. AtHeader /\ rec.type = "TOPOLOGY"
    BY <2>1 DEF At
  <2>4. QED
    BY <1>1, <2>1, <2>2, <2>3, HeadByTake
<1>3. CASE ParseReadout
  <2> DEFINE u == [view EXCEPT !.mode = rec.body]
  <2>1. At("READOUT_POLICY") /\ (Take(u) \/ \E st : StopWith(st))
    BY <1>3 DEF ParseReadout
  <2>2. /\ u.bakeId = view.bakeId /\ u.strait = view.strait
        /\ u.n = view.n /\ u.w = view.w /\ u.resv = view.resv
        /\ u.mode = rec.body /\ u.limit = view.limit
    BY DEF ParserInv, ViewOK
  <2> HIDE DEF u
  <2>3. AtHeader /\ rec.type = "READOUT_POLICY"
    BY <2>1 DEF At
  <2>4. QED
    BY <1>1, <2>1, <2>2, <2>3, HeadByTake
<1>4. CASE ParseFieldLimit
  <2> DEFINE u == [view EXCEPT !.limit = rec.body]
  <2>1. At("TILE_FIELD_LIMIT") /\ (Take(u) \/ \E st : StopWith(st))
    BY <1>4 DEF ParseFieldLimit
  <2>2. /\ u.bakeId = view.bakeId /\ u.strait = view.strait
        /\ u.n = view.n /\ u.w = view.w /\ u.resv = view.resv
        /\ u.mode = view.mode /\ u.limit = rec.body
    BY DEF ParserInv, ViewOK
  <2> HIDE DEF u
  <2>3. AtHeader /\ rec.type = "TILE_FIELD_LIMIT"
    BY <2>1 DEF At
  <2>4. QED
    BY <1>1, <2>1, <2>2, <2>3, HeadByTake
<1>5. CASE ParseCrc
  <2>1. At("CRC32") /\ (Take(view) \/ \E st : StopWith(st))
    BY <1>5 DEF ParseCrc
  <2>2. AtHeader /\ rec.type = "CRC32"
    BY <2>1 DEF At
  <2>3. QED
    BY <1>1, <2>1, <2>2, HeadBySame
<1>6. CASE Unknown
  BY <1>6, HeadBySame DEF Unknown, Known
<1>7. QED
  BY <1>2, <1>3, <1>4, <1>5, <1>6

LEMMA NextHead == ParserInv /\ WalkInv /\ HeadInv /\ [Next]_vars => HeadInv'
<1> SUFFICES ASSUME ParserInv, WalkInv, HeadInv, [Next]_vars PROVE HeadInv'
  OBVIOUS
<1>1. CASE UNCHANGED vars
  BY <1>1 DEF vars, HeadInv, Accepted
<1>2. CASE CheckHeader
  <2>1. i = 1 /\ view = ClearedView(blob) /\ UNCHANGED <<blob, i, view>>
    BY <1>2 DEF CheckHeader, WalkInv
  <2>2. HeadTold(blob, ClearedView(blob), 0)
    BY DEF HeadTold, ClearedView
  <2>3. i' - 1 = 0
    BY <2>1
  <2>4. HeadTold(blob', view', i' - 1)
    BY <2>1, <2>2, <2>3
  <2>5. QED
    BY <2>4 DEF HeadInv
<1>3. CASE TooShort \/ Overlong \/ EndOfBlob
  <2>1. EndOfBlob => status = "walking"
    BY NotAstray DEF EndOfBlob
  <2>2. CASE TooShort
    BY <2>2 DEF TooShort, StopWith, HeadInv, Accepted
  <2>3. QED
    BY <1>3, <2>1, <2>2, HeadRefused DEF Overlong, EndOfBlob, AtHeader
<1>4. CASE ParseRecord
  BY <1>4, TilesHead, PlainHead DEF ParseRecord
<1>5. CASE Stray
  <2>1. status' \notin {"walking", "OK"}
    BY <1>5 DEF Stray, StopWith, Refusals, Advance
  <2>2. QED
    BY <2>1 DEF HeadInv, Accepted
<1>6. QED
  BY <1>1, <1>2, <1>3, <1>4, <1>5 DEF Next

LEMMA AlwaysHead == Spec => [](ParserInv /\ WalkInv /\ ToldInv /\ HeadInv)
<1>1. Init => HeadInv
  BY DEF Init, HeadInv, Accepted
<1>2. QED
  BY <1>1, AlwaysTold, NextHead, PTL DEF Spec

LEMMA LatestIs ==
  ASSUME NEW S, NEW x \in Nat, x \in S, \A y \in S : y \in Nat /\ y <= x
  PROVE  Latest(S) = x
<1>1. x \in S /\ \A y \in S : x >= y
  OBVIOUS
<1>2. Max(S) \in S /\ \A y \in S : Max(S) >= y
  BY <1>1 DEF Max
<1>3. S # {} /\ Max(S) \in Nat /\ Max(S) <= x /\ Max(S) >= x
  BY <1>2
<1>4. QED
  BY <1>3 DEF Latest

\* The serializer's records by their types, and the bytes each has.
LEMMA SerializedTypes ==
  ASSUME NEW c, NEW k, NEW b, SerializedAs(c, k, b)
  PROVE  /\ SerialOrder(b) /\ k \in 1 .. MaxTiles /\ k \in Nat
         /\ b.recs[1].type = "TOPOLOGY" /\ b.recs[2].type = "TILE_PARAMS_V2"
         /\ b.recs[3].type = "TILE_ROUTING_FLAGS16" /\ b.recs[4].type = "TILE_WEIGHTS_PACKED"
         /\ b.recs[5].type = "RESET_ON_FIRE_MASK16" /\ b.recs[6].type = "READOUT_POLICY"
         /\ b.recs[7].type = "TILE_FIELD_LIMIT" /\ b.recs[8].type = "CRC32"
         /\ b.recs[2].len = k * 13 /\ b.recs[3].len = k * 2
         /\ b.recs[4].len = k * 40 /\ b.recs[5].len = k * 2
<1>1. k \in 1 .. MaxTiles /\ k \in Nat
  BY MaxTilesAssumption DEF SerializedAs
<1>2. /\ b.recs[1].type = "TOPOLOGY" /\ b.recs[2].type = "TILE_PARAMS_V2"
      /\ b.recs[3].type = "TILE_ROUTING_FLAGS16" /\ b.recs[4].type = "TILE_WEIGHTS_PACKED"
      /\ b.recs[5].type = "RESET_ON_FIRE_MASK16" /\ b.recs[6].type = "READOUT_POLICY"
      /\ b.recs[7].type = "TILE_FIELD_LIMIT" /\ b.recs[8].type = "CRC32"
      /\ b.recs[2].len = k * 13 /\ b.recs[3].len = k * 2
      /\ b.recs[4].len = k * 40 /\ b.recs[5].len = k * 2
  BY DEF SerializedAs, TopologyOf, ParamsOf, RoutingOf, WeightsOf, ResetOf, ReadoutOf, LimitOf,
         Unpadded, ParamsSize, RoutingSize, WeightsSize, ResetSize
<1>3. SerialOrder(b)
  <2>1. IsRecs(b.recs) /\ Len(b.recs) = 8
    BY DEF SerializedAs
  <2>2. ASSUME NEW j \in 1 .. 8
        PROVE  /\ b.recs[j].type = "TOPOLOGY" <=> j = 1
               /\ b.recs[j].type = "READOUT_POLICY" <=> j = 6
               /\ b.recs[j].type = "TILE_FIELD_LIMIT" <=> j = 7
    <3>1. j \in {1, 2, 3, 4, 5, 6, 7, 8}
      OBVIOUS
    <3>2. QED
      BY <1>2, <3>1
  <2>3. QED
    BY <2>1, <2>2 DEF SerialOrder
<1>4. QED
  BY <1>1, <1>2, <1>3

\* Each kind of value is written once, and for every tile that is written.
LEMMA WrittenOnce ==
  ASSUME NEW c, NEW k, NEW b, SerializedAs(c, k, b), NEW t \in 0 .. k - 1
  PROVE  /\ ParamsAt(b, t, 8) = 2 /\ ResetAt(b, t, 8) = 5
         /\ RoutingAt(b, t, 8) = 3 /\ WeightsAt(b, t, 8) = 4
<1>1. k \in Nat /\ t \in Nat /\ t < k
  BY SerializedTypes
<1>2. t * 13 < k * 13 /\ t * 2 < k * 2 /\ t * 40 < k * 40
  BY <1>1
<1> DEFINE r == b.recs
<1>3. /\ r[1].type = "TOPOLOGY" /\ r[2].type = "TILE_PARAMS_V2"
      /\ r[3].type = "TILE_ROUTING_FLAGS16" /\ r[4].type = "TILE_WEIGHTS_PACKED"
      /\ r[5].type = "RESET_ON_FIRE_MASK16" /\ r[6].type = "READOUT_POLICY"
      /\ r[7].type = "TILE_FIELD_LIMIT" /\ r[8].type = "CRC32"
      /\ r[2].len = k * 13 /\ r[3].len = k * 2 /\ r[4].len = k * 40 /\ r[5].len = k * 2
  BY SerializedTypes
<1> HIDE DEF r
<1>4. /\ CoversTile(r[2], {"TILE_PARAMS_V2"}, t)
      /\ CoversTile(r[3], {"TILE_ROUTING_FLAGS16"}, t)
      /\ CoversTile(r[4], {"TILE_WEIGHTS_PACKED"}, t)
      /\ CoversTile(r[5], {"TILE_PARAMS_V2", "RESET_ON_FIRE_MASK16"}, t)
  BY <1>2, <1>3 DEF CoversTile, BytesPerTile, ParamsSize, RoutingSize, WeightsSize, ResetSize
<1>5. ASSUME NEW j \in 1 .. 8
      PROVE  /\ CoversTile(r[j], {"TILE_PARAMS_V2"}, t) => j <= 2
             /\ CoversTile(r[j], {"TILE_ROUTING_FLAGS16"}, t) => j <= 3
             /\ CoversTile(r[j], {"TILE_WEIGHTS_PACKED"}, t) => j <= 4
             /\ CoversTile(r[j], {"TILE_PARAMS_V2", "RESET_ON_FIRE_MASK16"}, t) => j <= 5
  <2>1. j \in {1, 2, 3, 4, 5, 6, 7, 8}
    OBVIOUS
  <2>2. QED
    BY <1>3, <2>1 DEF CoversTile
<1>6. ASSUME NEW types, NEW x \in 1 .. 8, CoversTile(r[x], types, t),
             \A j \in 1 .. 8 : CoversTile(r[j], types, t) => j <= x
      PROVE  Latest(Covers(b, types, t, 8)) = x
  <2> DEFINE S == Covers(b, types, t, 8)
  <2>1. x \in S /\ \A y \in S : y \in Nat /\ y <= x
    BY <1>6 DEF Covers, r
  <2>2. x \in Nat
    OBVIOUS
  <2> HIDE DEF S
  <2>3. Latest(S) = x
    BY <2>1, <2>2, LatestIs
  <2>4. QED
    BY <2>3 DEF S
<1>7. 2 \in 1 .. 8 /\ 3 \in 1 .. 8 /\ 4 \in 1 .. 8 /\ 5 \in 1 .. 8
  OBVIOUS
<1>8. Latest(Covers(b, {"TILE_PARAMS_V2"}, t, 8)) = 2
  BY <1>4, <1>5, <1>6, <1>7
<1>9. Latest(Covers(b, {"TILE_PARAMS_V2", "RESET_ON_FIRE_MASK16"}, t, 8)) = 5
  BY <1>4, <1>5, <1>6, <1>7
<1>10. Latest(Covers(b, {"TILE_ROUTING_FLAGS16"}, t, 8)) = 3
  BY <1>4, <1>5, <1>6, <1>7
<1>11. Latest(Covers(b, {"TILE_WEIGHTS_PACKED"}, t, 8)) = 4
  BY <1>4, <1>5, <1>6, <1>7
<1>12. QED
  BY <1>8, <1>9, <1>10, <1>11 DEF ParamsAt, ResetAt, RoutingAt, WeightsAt

\* What is written of a tile's parameters and read back differs from them in the
\* domain alone.
LEMMA ParamsBack ==
  ASSUME NEW q \in Params, NEW z,
         z = [lo |-> q.lo, hi |-> q.hi, decay |-> q.decay, dom |-> q.dom % 16,
              prio |-> q.prio, pat |-> q.pat]
  PROVE  [ParamsRead(z, ZeroParams) EXCEPT !.rof = q.rof] = [q EXCEPT !.dom = @ % 16]
<1>1. q = [lo |-> q.lo, hi |-> q.hi, decay |-> q.decay, dom |-> q.dom, prio |-> q.prio,
           pat |-> q.pat, rof |-> q.rof]
  BY DEF Params
<1>2. (q.dom % 16) % 16 = q.dom % 16
  BY DEF Params, DomainBits
<1> DEFINE d == q.dom % 16
<1>3. [ParamsRead(z, ZeroParams) EXCEPT !.rof = q.rof]
        = [lo |-> q.lo, hi |-> q.hi, decay |-> q.decay, dom |-> d, prio |-> q.prio,
           pat |-> q.pat, rof |-> q.rof]
  <2>1. z.lo = q.lo /\ z.hi = q.hi /\ z.decay = q.decay /\ z.dom % 16 = d
          /\ z.prio = q.prio /\ z.pat = q.pat
    BY <1>2
  <2> HIDE DEF d
  <2>2. QED
    BY <2>1 DEF ParamsRead
<1>4. [q EXCEPT !.dom = d]
        = [lo |-> q.lo, hi |-> q.hi, decay |-> q.decay, dom |-> d, prio |-> q.prio,
           pat |-> q.pat, rof |-> q.rof]
  <2> HIDE DEF d
  <2>1. QED
    BY <1>1
<1>5. QED
  BY <1>3, <1>4

\* What the view has of a tile that was written.
LEMMA TileBack ==
  ASSUME NEW c, ConfigOK(c), NEW k, NEW b, SerializedAs(c, k, b), NEW t \in 0 .. k - 1,
         NEW v, Told(b, v, t, 8)
  PROVE  /\ v.par[t] = [c.par[t] EXCEPT !.dom = @ % 16]
         /\ v.mask[t] = c.mask[t] /\ v.weight[t] = c.weight[t]
         /\ t \in v.busR <=> t \in c.busR
         /\ t \in v.busW <=> t \in c.busW
<1>1. t \in Tiles
  BY MaxTilesAssumption DEF SerializedAs, Tiles
<1>2. c.par[t] \in Params
  BY <1>1 DEF ConfigOK
<1>3. /\ b.recs[2] = ParamsOf(c, k) /\ b.recs[3] = RoutingOf(c, k)
      /\ b.recs[4] = WeightsOf(c, k) /\ b.recs[5] = ResetOf(c, k)
  BY DEF SerializedAs
<1>4. /\ b.recs[2].body[t] = [lo |-> c.par[t].lo, hi |-> c.par[t].hi, decay |-> c.par[t].decay,
                              dom |-> c.par[t].dom % 16, prio |-> c.par[t].prio,
                              pat |-> c.par[t].pat]
      /\ b.recs[3].body[t] = [dirs |-> c.mask[t], busR |-> t \in c.busR, busW |-> t \in c.busW,
                              spare |-> FALSE]
      /\ b.recs[4].body[t] = c.weight[t] /\ b.recs[5].body[t] = c.par[t].rof
  BY <1>3 DEF ParamsOf, RoutingOf, WeightsOf, ResetOf, Unpadded, First
<1>5. /\ ParamsAt(b, t, 8) = 2 /\ ResetAt(b, t, 8) = 5
      /\ RoutingAt(b, t, 8) = 3 /\ WeightsAt(b, t, 8) = 4
  BY WrittenOnce
<1>6. /\ v.par[t] = Given(b, t, 2, 5)
      /\ v.mask[t] = b.recs[3].body[t].dirs /\ v.weight[t] = b.recs[4].body[t]
      /\ t \in v.busR <=> b.recs[3].body[t].busR
      /\ t \in v.busW <=> b.recs[3].body[t].busW
  BY <1>5 DEF Told
<1>7. Given(b, t, 2, 5) = [ParamsRead(b.recs[2].body[t], ZeroParams) EXCEPT !.rof = c.par[t].rof]
  <2>1. ~(5 \in {0, 2}) /\ 2 # 0 /\ b.recs[5].body[t] = c.par[t].rof
    BY <1>4
  <2>2. QED
    BY <2>1 DEF Given
<1>8. [ParamsRead(b.recs[2].body[t], ZeroParams) EXCEPT !.rof = c.par[t].rof]
        = [c.par[t] EXCEPT !.dom = @ % 16]
  BY <1>2, <1>4, ParamsBack
<1>9. /\ b.recs[3].body[t].dirs = c.mask[t]
      /\ b.recs[3].body[t].busR <=> t \in c.busR
      /\ b.recs[3].body[t].busW <=> t \in c.busW
  <2> DEFINE x == t \in c.busR
             y == t \in c.busW
  <2>1. b.recs[3].body[t] = [dirs |-> c.mask[t], busR |-> x, busW |-> y, spare |-> FALSE]
    BY <1>4
  <2> HIDE DEF x, y
  <2>2. /\ b.recs[3].body[t].dirs = c.mask[t]
        /\ b.recs[3].body[t].busR = x /\ b.recs[3].body[t].busW = y
    BY <2>1
  <2>3. QED
    BY <2>2 DEF x, y
<1>10. QED
  BY <1>4, <1>6, <1>7, <1>8, <1>9

\* The whole field: its size, its width and the flags of its tiles.
LEMMA FieldBack ==
  ASSUME ParserInv, NEW c, ConfigOK(c), c.n > 0, NEW k, k = SerializedCount(c),
         SerializedAs(c, k, blob), HeadTold(blob, view, 8),
         blob.bakeId = c.bakeId, blob.strait = c.strait
  PROVE  /\ k = c.n /\ k \in 1 .. MaxTiles
         /\ view.n = k /\ view.w = c.topoW /\ view.limit = c.n
         /\ view.mode = c.mode /\ view.bakeId = c.bakeId /\ view.strait = c.strait
         /\ ActiveCount(Image) = c.n
         /\ FieldWidth(ActiveCount(Image), Image.w) = FieldWidth(c.n, c.topoW)
<1>1. c.n \in 1 .. MaxTiles /\ k = c.n
  BY MaxTilesAssumption DEF ConfigOK, SerializedCount
<1>2. /\ blob.recs[1] = TopologyOf(c, k) /\ blob.recs[6] = ReadoutOf(c)
      /\ blob.recs[7] = LimitOf(c)
  BY DEF SerializedAs
<1>3. /\ blob.recs[1].body.n = k /\ blob.recs[1].body.w = c.topoW
      /\ blob.recs[6].body = c.mode /\ blob.recs[7].body = c.n
  BY <1>2 DEF TopologyOf, ReadoutOf, LimitOf, Unpadded
<1>4. /\ view.n = k /\ view.w = c.topoW /\ view.limit = c.n
      /\ view.mode = c.mode /\ view.bakeId = c.bakeId /\ view.strait = c.strait
  BY <1>3 DEF HeadTold
<1>5. Image.limit = c.n /\ Image.w = c.topoW
  BY <1>4 DEF Image
<1>6. ActiveCount(Image) = c.n
  BY <1>1, <1>5 DEF ActiveCount
<1>7. QED
  BY <1>1, <1>4, <1>5, <1>6

\* A width that changes was given by a limit, of a field of no standard size.
LEMMA WidthBack ==
  ASSUME NEW c, ConfigOK(c), c.n > 0, FieldWidth(c.n, c.topoW) # c.w
  PROVE  c.w # c.topoW /\ c.n \notin {MaxTiles} \cup DOMAIN StdWidth
<1>1. c.w = FieldWidth(c.n, Narrow(c.n))
  BY DEF ConfigOK
<1>2. ASSUME c.n = MaxTiles PROVE FALSE
  BY <1>1, <1>2 DEF FieldWidth
<1>3. ASSUME c.n # MaxTiles, c.n \in DOMAIN StdWidth PROVE FALSE
  <2>1. c.n # 0
    BY DEF ConfigOK
  <2>2. QED
    BY <1>1, <1>3, <2>1 DEF FieldWidth
<1>4. c.n \notin {0, MaxTiles} /\ c.n \notin DOMAIN StdWidth
  BY <1>2, <1>3 DEF ConfigOK
<1>5. FieldWidth(c.n, c.topoW) = c.topoW
  BY <1>4 DEF FieldWidth
<1>6. QED
  BY <1>4, <1>5

LEMMA BakedBack ==
  ASSUME ParserInv, Accepted, NEW c, ConfigOK(c), c.n > 0, NEW k, k = SerializedCount(c),
         SerializedAs(c, k, blob), HeadTold(blob, view, 8),
         blob.bakeId = c.bakeId, blob.strait = c.strait,
         \A t \in Tiles : Told(blob, view, t, 8)
  PROVE  LET d == BakedConfig(FreshConfig, Image)
         IN  /\ d.n = c.n /\ d.mode = c.mode /\ d.bakeId = c.bakeId /\ d.strait = c.strait
             /\ d.w # c.w => c.w # c.topoW /\ c.n \notin {MaxTiles} \cup DOMAIN StdWidth
             /\ d.busW = c.busW \cap Field(c) /\ d.busR = c.busR \cap Field(c)
             /\ \A t \in Field(c) :
                  /\ d.mask[t] = c.mask[t] /\ d.weight[t] = c.weight[t]
                  /\ d.par[t] = [c.par[t] EXCEPT !.dom = @ % 16]
<1> DEFINE d == BakedConfig(FreshConfig, Image)
<1>1. /\ k = c.n /\ k \in 1 .. MaxTiles /\ view.n = k
      /\ view.mode = c.mode /\ view.bakeId = c.bakeId /\ view.strait = c.strait
      /\ ActiveCount(Image) = c.n
      /\ FieldWidth(ActiveCount(Image), Image.w) = FieldWidth(c.n, c.topoW)
  BY FieldBack
<1>2. /\ d.n = ActiveCount(Image) /\ d.w = FieldWidth(ActiveCount(Image), Image.w)
      /\ d.mask = CopyTiles(Image.mask, FreshConfig.mask, Image.n)
      /\ d.par = CopyTiles(Image.par, FreshConfig.par, Image.n)
      /\ d.weight = CopyTiles(Image.weight, FreshConfig.weight, Image.n)
      /\ d.busW = CopyFlags(Image.busW, FreshConfig.busW, Image.n)
      /\ d.busR = CopyFlags(Image.busR, FreshConfig.busR, Image.n)
      /\ d.mode = Image.mode /\ d.bakeId = Image.bakeId /\ d.strait = Image.strait
  BY DEF BakedConfig, FreshConfig
<1>3. /\ Image.n = view.n /\ Image.mode = view.mode /\ Image.bakeId = view.bakeId
      /\ Image.strait = view.strait
      /\ Image.mask = First(view.n, view.mask) /\ Image.par = First(view.n, view.par)
      /\ Image.weight = First(view.n, view.weight)
      /\ Image.busW = view.busW \cap InView /\ Image.busR = view.busR \cap InView
  BY DEF Image
<1> HIDE DEF d
<1>4. d.n = c.n /\ d.mode = c.mode /\ d.bakeId = c.bakeId /\ d.strait = c.strait
  BY <1>1, <1>2, <1>3
<1>5. d.w # c.w => c.w # c.topoW /\ c.n \notin {MaxTiles} \cup DOMAIN StdWidth
  BY <1>1, <1>2, WidthBack
<1>6. /\ Field(c) = 0 .. k - 1 /\ InView = 0 .. k - 1
      /\ \A t \in 0 .. k - 1 : t \in Tiles /\ t < k
  BY <1>1, FieldInView, MaxTilesAssumption DEF Field, Tiles
<1>7. ASSUME NEW t \in Field(c)
      PROVE  /\ view.par[t] = [c.par[t] EXCEPT !.dom = @ % 16]
             /\ view.mask[t] = c.mask[t] /\ view.weight[t] = c.weight[t]
             /\ t \in view.busR <=> t \in c.busR
             /\ t \in view.busW <=> t \in c.busW
  <2>1. t \in 0 .. k - 1 /\ Told(blob, view, t, 8)
    BY <1>6
  <2>2. QED
    BY <2>1, TileBack
<1>8. ASSUME NEW t \in Field(c)
      PROVE  d.par[t] = view.par[t] /\ d.mask[t] = view.mask[t] /\ d.weight[t] = view.weight[t]
  BY <1>1, <1>2, <1>3, <1>6 DEF CopyTiles, First
<1>9. d.busW = c.busW \cap Field(c) /\ d.busR = c.busR \cap Field(c)
  <2>1. FreshConfig.busW = {} /\ FreshConfig.busR = {}
    BY DEF FreshConfig
  <2>2. d.busW = view.busW \cap Field(c) /\ d.busR = view.busR \cap Field(c)
    BY <1>2, <1>3, <1>6, <2>1 DEF CopyFlags
  <2>3. QED
    BY <1>7, <2>2
<1>10. \A t \in Field(c) :
         /\ d.mask[t] = c.mask[t] /\ d.weight[t] = c.weight[t]
         /\ d.par[t] = [c.par[t] EXCEPT !.dom = @ % 16]
  BY <1>7, <1>8
<1>11. QED
  BY <1>4, <1>5, <1>9, <1>10 DEF d

\* A swarm that is baked from its own saved configuration is what it was: every
\* tile of the field in every parameter, whatever bakes, limits and edits had
\* led to it, but for a domain above 15 and a width that a limit had narrowed.
THEOREM SavedIsRestored == Spec => []RestoredFaithfully
<1>1. ASSUME ParserInv, WalkInv, ToldInv, HeadInv PROVE RestoredFaithfully
  <2> SUFFICES ASSUME Accepted, blob.src.by = "serializer", blob.src.cfg.n > 0
               PROVE  LET c == blob.src.cfg
                          d == BakedConfig(FreshConfig, Image)
                      IN  /\ d.n = c.n /\ d.mode = c.mode /\ d.bakeId = c.bakeId
                          /\ d.strait = c.strait
                          /\ d.w # c.w => c.w # c.topoW
                                            /\ c.n \notin {MaxTiles} \cup DOMAIN StdWidth
                          /\ d.busW = c.busW \cap Field(c) /\ d.busR = c.busR \cap Field(c)
                          /\ \A t \in Field(c) :
                               /\ d.mask[t] = c.mask[t] /\ d.weight[t] = c.weight[t]
                               /\ d.par[t] = [c.par[t] EXCEPT !.dom = @ % 16]
    BY DEF RestoredFaithfully
  <2> DEFINE c == blob.src.cfg
             k == SerializedCount(c)
  <2>1. c \in Saved /\ blob = Serialized(c) /\ SerializedAs(c, k, blob)
    BY <1>1, WrittenBy DEF WalkInv
  <2>2. ConfigOK(c)
    BY <2>1, SavedAssumption
  <2> HIDE DEF c
  <2>3. blob.bakeId = c.bakeId /\ blob.strait = c.strait
    BY <2>1 DEF Serialized
  <2> HIDE DEF k
  <2>4. SerialOrder(blob)
    BY <2>1, SerializedTypes
  <2>5. i - 1 = 8
    BY <1>1, <2>4 DEF WalkInv, SerialOrder
  <2>6. HeadTold(blob, view, 8)
    BY <1>1, <2>4, <2>5 DEF HeadInv
  <2>7. \A t \in Tiles : Told(blob, view, t, 8)
    BY <1>1, <2>5 DEF ToldInv
  <2>8. c.n > 0 /\ k = SerializedCount(c)
    BY DEF c, k
  <2>9. QED
    BY <1>1, <2>1, <2>2, <2>3, <2>6, <2>7, <2>8, BakedBack DEF c
<1>2. QED
  BY <1>1, AlwaysHead, PTL
=============================================================================
