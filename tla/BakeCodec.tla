------------------------------ MODULE BakeCodec -----------------------------
(***************************************************************************)
(* The parser of bake blobs (d8_bake_parse_view, src/src/tlv.c), one       *)
(* record per step, run over blobs of the two writers of BakeFormat and    *)
(* over foreign ones.  Each action of a record type refuses in the order   *)
(* of the code's tests and then writes into the view.                      *)
(*                                                                         *)
(* What a refused parse leaves in the view is not modelled: every caller   *)
(* drops it.  After a value the parser skips to the next multiple of four. *)
(* Where the writer has put the next record at once it goes on in the      *)
(* middle of a header: the walk is astray, and what it reads there may be  *)
(* a header of any type and length.  What such records would write into    *)
(* the view is left out, since no blob on which a walk goes astray is      *)
(* accepted (BakeProofs).                                                  *)
(*                                                                         *)
(* Two tests are missing in the code, and what follows is undefined: the   *)
(* padding is subtracted from tlv_remaining without asking whether it is   *)
(* there (past_blob), and a topology may have more tiles than the arrays   *)
(* of the view (past_arrays).                                              *)
(***************************************************************************)
EXTENDS BakeFormat

CONSTANTS
  Foreign,      \* blobs of other writers, padded as docs/CONTRACT_v02.md asks
  Saved,        \* configurations of swarms that are serialized
  Requests,     \* [n, lo, hi, decay] the generator is called with
  StrayLens     \* lengths that a walk astray may read

RequiredTypes ==
  <<"TOPOLOGY", "TILE_PARAMS_V2", "TILE_ROUTING_FLAGS16", "TILE_WEIGHTS_PACKED", "CRC32">>

Known ==
  {"TOPOLOGY", "TILE_PARAMS_V2", "TILE_ROUTING_FLAGS16", "TILE_WEIGHTS_PACKED",
   "RESET_ON_FIRE_MASK16", "READOUT_POLICY", "TILE_FIELD_LIMIT", "CRC32"}

\* A value means something for every tile its length covers.
BodyOK(r) ==
  /\ r.type = "TOPOLOGY" =>
       r.body.n \in Nat /\ r.body.w \in Nat /\ r.body.resv \in Nat
  /\ r.type = "TILE_PARAMS_V2" =>
       \A t \in Tiles : t * ParamsSize < r.len =>
         r.body[t] \in [lo : I16, hi : I16, decay : U16, dom : 0 .. 255, prio : Nat, pat : Nat]
  /\ r.type = "TILE_ROUTING_FLAGS16" =>
       \A t \in Tiles : t * RoutingSize < r.len =>
         r.body[t] \in [dirs : SUBSET Dirs, busR : BOOLEAN, busW : BOOLEAN, spare : BOOLEAN]
  /\ r.type = "TILE_WEIGHTS_PACKED" =>
       \A t \in Tiles : t * WeightsSize < r.len => r.body[t] \in Weights
  /\ r.type = "RESET_ON_FIRE_MASK16" =>
       \A t \in Tiles : t * ResetSize < r.len => r.body[t] \in SUBSET Domains
  /\ r.type \in {"READOUT_POLICY", "TILE_FIELD_LIMIT"} => r.body \in Nat

\* The records of a foreign blob are those that the parser finds: each begins
\* where the padding of the one before ends.  Only after the last may the padding
\* be missing, or a part of the value.
ForeignOK(b) ==
  /\ b.bakeId \in Nat /\ b.strait \in BOOLEAN /\ b.tail \in 0 .. TlvHeader - 1
  /\ b.recs \in Seq({b.recs[k] : k \in DOMAIN b.recs})
  /\ \A k \in DOMAIN b.recs :
       LET r == b.recs[k]
       IN  /\ BodyOK(r) /\ r.len \in Nat /\ r.held \in Nat
           /\ \/ r.held = Span(r.len)
              \/ k = Len(b.recs) /\ r.held < Span(r.len) /\ b.tail = 0

ASSUME ForeignAssumption == \A b \in Foreign : b.src.by = "other" /\ ForeignOK(b)

\* The states a swarm may be in when it is asked to save its bake.
ASSUME SavedAssumption == \A c \in Saved : ConfigOK(c)

ASSUME RequestsAssumption ==
  Requests \subseteq [n : 1 .. MaxTiles, lo : I16, hi : I16, decay : U16]

ASSUME StrayLensAssumption == StrayLens \subseteq Nat

VARIABLES
  blob,
  i, rest,  \* the record at tlv_data, and tlv_remaining
  view,     \* *out_view, its arrays over all tiles
  seen,     \* the has_ flags: the types that were parsed
  status    \* where the parser is, then what it returns, or that it is lost

vars == <<blob, i, rest, view, seen, status>>

\* memset of the view, and what the header gives it.
ClearedView(b) ==
  [n |-> 0, w |-> 0, resv |-> 0, limit |-> 0, mode |-> 0,
   par |-> [t \in Tiles |-> ZeroParams], mask |-> [t \in Tiles |-> {}],
   busR |-> {}, busW |-> {}, weight |-> [t \in Tiles |-> ZeroWeight],
   bakeId |-> b.bakeId, strait |-> b.strait]

Init ==
  /\ \/ blob \in Foreign
     \/ \E c \in Saved : blob = Serialized(c)
     \/ \E g \in Requests : blob = Generated(g)
  /\ i = 1 /\ rest = 0 /\ view = ClearedView(blob) /\ seen = {}
  /\ status = "header"

-----------------------------------------------------------------------------
Refusals ==
  {"MISSING_TLV", "BAD_TLV_LEN", "TOPOLOGY_MISMATCH", "RESERVED_NON_ZERO", "CRC_FAIL"}

\* The parser has left the blob, or the arrays of the view: there is no telling
\* what it does next.
Undefined == {"past_blob", "past_arrays"}

StopWith(st) == status' = st /\ UNCHANGED <<blob, i, rest, view, seen>>

HeaderStatus(b) ==
  CASE "small" \in b.defects -> "BAD_LEN"
    [] b.defects \cap {"small", "magic"} = {"magic"} -> "BAD_MAGIC"
    [] b.defects \cap {"small", "magic", "version"} = {"version"} -> "BAD_VERSION"
    [] b.defects \cap {"small", "magic", "version", "total"} = {"total"} -> "BAD_LEN_TOTAL"
    [] b.defects = {"reserved"} -> "RESERVED_NON_ZERO"
    [] OTHER -> "walking"

CheckHeader ==
  /\ status = "header"
  /\ status' = HeaderStatus(blob)
  /\ rest' = IF status' = "walking" THEN BlobSize(blob) - HeaderSize ELSE rest
  /\ UNCHANGED <<blob, i, view, seen>>

rec == blob.recs[i]

Walking == status \in {"walking", "astray"}

TooShort == Walking /\ rest \in 1 .. TlvHeader - 1 /\ StopWith("MISSING_TLV")

\* There is a header to read.
AtHeader == status = "walking" /\ rest >= TlvHeader /\ i \in DOMAIN blob.recs

Overlong ==
  /\ AtHeader
  /\ rec.len > rest - TlvHeader
  /\ StopWith("BAD_TLV_LEN")

At(type) ==
  /\ AtHeader
  /\ rec.len <= rest - TlvHeader
  /\ rec.type = type

\* A bug the properties catch: the padding of an aligned value is four.
AdvanceFour(len, next) ==
  LET span == len + 4 - (len % 4)
  IN  \/ /\ span <= rest - TlvHeader
         /\ rest' = rest - TlvHeader - span /\ status' = next
      \/ /\ span > rest - TlvHeader
         /\ status' = "past_blob" /\ UNCHANGED rest

\* Past a value and its padding.  Only the value is known to be there: where the
\* padding is not, tlv_remaining wraps and the walk leaves the blob.
Advance(len, next) ==
  \/ /\ Span(len) <= rest - TlvHeader
     /\ rest' = rest - TlvHeader - Span(len) /\ status' = next
  \/ /\ Span(len) > rest - TlvHeader
     /\ status' = "past_blob" /\ UNCHANGED rest

\* A record is taken: to the next one, or astray, where any type may be among
\* those that are read.
Take(newView) ==
  /\ view' = newView
  /\ \/ /\ rec.held = Span(rec.len)
        /\ i' = i + 1 /\ seen' = seen \cup {rec.type} /\ Advance(rec.len, "walking")
     \/ /\ rec.held # Span(rec.len)
        /\ i' = i /\ seen' = Known /\ Advance(rec.len, "astray")
  /\ UNCHANGED blob

\* Astray: a header with any type, and so any outcome.
Stray ==
  /\ status = "astray" /\ rest >= TlvHeader
  /\ \/ \E st \in Refusals \cup {"past_arrays"} : StopWith(st)
     \/ \E len \in StrayLens :
          /\ len <= rest - TlvHeader
          /\ Advance(len, "astray") /\ UNCHANGED <<blob, i, view, seen>>

Unknown ==
  /\ AtHeader /\ rec.len <= rest - TlvHeader
  /\ rec.type \notin Known
  /\ Take(view)

-----------------------------------------------------------------------------
ParseTopology ==
  /\ At("TOPOLOGY")
  /\ \/ rec.len # 16 /\ StopWith("BAD_TLV_LEN")
     \/ rec.len = 16 /\ ~rec.body.matches /\ StopWith("TOPOLOGY_MISMATCH")
     \/ rec.len = 16 /\ rec.body.matches /\ rec.body.reserved /\ StopWith("RESERVED_NON_ZERO")
     \/ /\ rec.len = 16 /\ rec.body.matches /\ ~rec.body.reserved
        /\ Take([view EXCEPT !.n = rec.body.n, !.w = rec.body.w, !.resv = rec.body.resv])

\* A record with size bytes for each tile: the tests they have in common.
AtTiles(type, size) ==
  /\ At(type)
  /\ "TOPOLOGY" \in seen /\ rec.len = view.n * size

BadTiles(type, size) ==
  /\ At(type)
  /\ \/ "TOPOLOGY" \notin seen /\ StopWith("MISSING_TLV")
     \/ "TOPOLOGY" \in seen /\ rec.len # view.n * size /\ StopWith("BAD_TLV_LEN")

\* The tiles of the view that its arrays hold.
InView == {t \in Tiles : t < view.n}

\* The loop over the view's tiles goes on behind the end of the arrays.
TakeTiles(newView) ==
  \/ view.n <= MaxTiles /\ Take(newView)
  \/ view.n > MaxTiles /\ StopWith("past_arrays")

\* The first view.n tiles take f, the others keep what they have.
Overlaid(old, f) == [t \in Tiles |-> IF t \in InView THEN f[t] ELSE old[t]]

\* Bugs the properties catch: the reset masks of an earlier record survive, the
\* whole byte is taken for the domain, and the range is not checked.
ParamsKept(p, old) ==
  [lo |-> p.lo, hi |-> p.hi, decay |-> p.decay, dom |-> p.dom % 16,
   prio |-> p.prio, pat |-> p.pat, rof |-> old.rof]

ParamsRead(p, old) ==
  [lo |-> p.lo, hi |-> p.hi, decay |-> p.decay, dom |-> p.dom % 16,
   prio |-> p.prio, pat |-> p.pat, rof |-> {}]

RangesNotChecked(body) == TRUE

RangesOK(body) == \A t \in InView : body[t].lo <= body[t].hi

ParseTileParams ==
  \/ BadTiles("TILE_PARAMS_V2", ParamsSize)
  \/ /\ AtTiles("TILE_PARAMS_V2", ParamsSize)
     /\ \/ ~RangesOK(rec.body) /\ StopWith("RESERVED_NON_ZERO")
        \/ /\ RangesOK(rec.body)
           /\ LET read == [t \in InView |-> ParamsRead(rec.body[t], view.par[t])]
              IN  TakeTiles([view EXCEPT !.par = Overlaid(@, read)])

ParseRouting ==
  \/ BadTiles("TILE_ROUTING_FLAGS16", RoutingSize)
  \/ /\ AtTiles("TILE_ROUTING_FLAGS16", RoutingSize)
     /\ \/ (\E t \in InView : rec.body[t].spare) /\ StopWith("RESERVED_NON_ZERO")
        \/ /\ \A t \in InView : ~rec.body[t].spare
           /\ TakeTiles([view EXCEPT
                   !.mask = Overlaid(@, [t \in InView |-> rec.body[t].dirs]),
                   !.busR = (@ \ InView) \cup {t \in InView : rec.body[t].busR},
                   !.busW = (@ \ InView) \cup {t \in InView : rec.body[t].busW}])

ParseWeights ==
  \/ BadTiles("TILE_WEIGHTS_PACKED", WeightsSize)
  \/ /\ AtTiles("TILE_WEIGHTS_PACKED", WeightsSize)
     /\ TakeTiles([view EXCEPT !.weight = Overlaid(@, rec.body)])

ParseResetOnFire ==
  \/ BadTiles("RESET_ON_FIRE_MASK16", ResetSize)
  \/ /\ AtTiles("RESET_ON_FIRE_MASK16", ResetSize)
     /\ TakeTiles([view EXCEPT
             !.par = [t \in Tiles |-> IF t \in InView THEN [@[t] EXCEPT !.rof = rec.body[t]]
                                                      ELSE @[t]]])

ParseReadout ==
  /\ At("READOUT_POLICY")
  /\ \/ rec.len # 12 /\ StopWith("BAD_TLV_LEN")
     \/ rec.len = 12 /\ rec.body > 1 /\ StopWith("RESERVED_NON_ZERO")
     \/ rec.len = 12 /\ rec.body <= 1 /\ Take([view EXCEPT !.mode = rec.body])

ParseFieldLimit ==
  /\ At("TILE_FIELD_LIMIT")
  /\ \/ rec.len # 4 /\ StopWith("BAD_TLV_LEN")
     \/ rec.len = 4 /\ Take([view EXCEPT !.limit = rec.body])

\* The sum is taken of all but the last twelve bytes, wherever its record is.
ParseCrc ==
  /\ At("CRC32")
  /\ LET matches == rec.body.sound /\ rec.body.over = BlobSize(blob) - CrcRecord
     IN  \/ rec.len # 4 /\ StopWith("BAD_TLV_LEN")
         \/ rec.len = 4 /\ ~matches /\ StopWith("CRC_FAIL")
         \/ rec.len = 4 /\ matches /\ Take(view)

\* The first of the types required that is missing is told.
EndOfBlob ==
  /\ Walking /\ rest = 0
  /\ StopWith(IF \A k \in DOMAIN RequiredTypes : RequiredTypes[k] \in seen
            THEN "OK" ELSE "MISSING_TLV")

ParseRecord ==
  \/ ParseTopology \/ ParseTileParams \/ ParseRouting \/ ParseWeights
  \/ ParseResetOnFire \/ ParseReadout \/ ParseFieldLimit \/ ParseCrc \/ Unknown

Next == CheckHeader \/ TooShort \/ Overlong \/ ParseRecord \/ Stray \/ EndOfBlob

Spec == Init /\ [][Next]_vars

\* The parser is not interrupted.
FairSpec == Spec /\ WF_vars(Next)

-----------------------------------------------------------------------------
(***************************************************************************)
(* Properties                                                              *)
(***************************************************************************)
Accepted == status = "OK"
Ended    == status \notin {"header", "walking", "astray"}
Finished == Ended /\ status \notin Undefined

\* No field larger than the arrays, and a field has columns.
TopologyFits(t) == t.n <= MaxTiles /\ t.w # 0

\* Of every topology that the parser takes.  It tests neither, nor what
\* docs/CONTRACT_v02.md 15.7 asks, that tile_count is tile_w times tile_h.
TopologiesFit(b) ==
  \A k \in DOMAIN b.recs :
    b.recs[k].type = "TOPOLOGY" /\ b.recs[k].body.matches => TopologyFits(b.recs[k].body)

\* What EV_BAKE takes from the view.
Image ==
  [n |-> view.n, w |-> view.w, limit |-> view.limit, resv |-> view.resv,
   mask |-> First(view.n, view.mask), busW |-> view.busW \cap InView,
   busR |-> view.busR \cap InView, par |-> First(view.n, view.par),
   weight |-> First(view.n, view.weight), mode |-> view.mode,
   bakeId |-> view.bakeId, strait |-> view.strait]

\* In whatever order and number the records of a blob come, a second topology of
\* another size included: if its topologies fit, what the parser accepts is an
\* image, the assumption under which the swarm is modelled.
AcceptedIsImage == Accepted /\ TopologiesFit(blob) => ImageOK(Image)

BytesPerTile(type) ==
  CASE type = "TILE_PARAMS_V2"       -> ParamsSize
    [] type = "TILE_ROUTING_FLAGS16" -> RoutingSize
    [] type = "TILE_WEIGHTS_PACKED"  -> WeightsSize
    [] type = "RESET_ON_FIRE_MASK16" -> ResetSize

\* The last record of these types with a value for tile t, 0 for none.
LastFor(types, t) ==
  LET S == {k \in DOMAIN blob.recs :
              /\ blob.recs[k].type \in types
              /\ t * BytesPerTile(blob.recs[k].type) < blob.recs[k].len}
  IN  IF S = {} THEN 0 ELSE Max(S)

\* The view that is accepted depends on the last record for each tile only,
\* not on what was parsed before it, nor on how large the field was then.  A
\* record of tile parameters clears the reset masks given before it.
LastRecordWins ==
  Accepted =>
    \A t \in Tiles :
      LET p == LastFor({"TILE_PARAMS_V2"}, t)
          o == LastFor({"TILE_PARAMS_V2", "RESET_ON_FIRE_MASK16"}, t)
          m == LastFor({"TILE_ROUTING_FLAGS16"}, t)
          w == LastFor({"TILE_WEIGHTS_PACKED"}, t)
          body(k) == blob.recs[k].body[t]
          given == IF p = 0 THEN ZeroParams ELSE ParamsRead(body(p), ZeroParams)
          rof   == IF o \in {0, p} THEN {} ELSE body(o)
      IN  /\ view.par[t] = [given EXCEPT !.rof = rof]
          /\ view.mask[t] = IF m = 0 THEN {} ELSE body(m).dirs
          /\ t \in view.busR <=> m # 0 /\ body(m).busR
          /\ view.weight[t] = IF w = 0 THEN ZeroWeight ELSE body(w)

InRanges(c) == \A t \in 0 .. SerializedCount(c) - 1 : c.par[t].lo <= c.par[t].hi

\* The parser accepts what the generator writes, unless it was asked for an
\* empty range; and what the serializer writes exactly when the swarm, baked or
\* not, holds no empty range and has a multiple of four tiles.
WrittenIsAccepted ==
  Ended =>
    /\ blob.src.by = "generator" => (Accepted <=> blob.src.args.lo <= blob.src.args.hi)
    /\ blob.src.by = "serializer" =>
         LET c == blob.src.cfg
         IN  Accepted <=> InRanges(c) /\ SerializedCount(c) % 4 = 0

\* A swarm baked from its own serialized configuration is configured as before,
\* tile for tile, whatever limits and edits came since the first bake.  Two
\* things do not survive: a domain_id above 15, and the width of a field that a
\* limit has narrowed below the topology's.
RestoredFaithfully ==
  Accepted /\ blob.src.by = "serializer" =>
    LET c == blob.src.cfg
        d == BakedConfig(FreshConfig, Image)
    IN  c.n > 0 =>
          /\ d.n = c.n /\ d.mode = c.mode /\ d.bakeId = c.bakeId /\ d.strait = c.strait
          /\ d.w # c.w => c.w # c.topoW /\ c.n \notin {MaxTiles} \cup DOMAIN StdWidth
          /\ d.busW = c.busW \cap Field(c) /\ d.busR = c.busR \cap Field(c)
          /\ \A t \in Field(c) :
               /\ d.mask[t] = c.mask[t] /\ d.weight[t] = c.weight[t]
               /\ d.par[t] = [c.par[t] EXCEPT !.dom = @ % 16]

\* A buffer of the estimated size holds the blob: the generator clears and fills
\* its caller's buffer without asking how large it is.
WithinEstimate ==
  /\ blob.src.by = "generator" => BlobSize(blob) = EstimateGenerated(blob.src.args.n)
  /\ blob.src.by = "serializer" =>
       BlobSize(blob) <= EstimateSerialized(SerializedCount(blob.src.cfg))

\* Blobs on which the two tests that are missing are not needed: each record can
\* be padded within the blob, and the topologies fit.
Aligned(b) == BlobSize(b) % 4 = 0

\* On those the parser leaves neither the blob nor the arrays of its view, whatever
\* order the records come in.
StaysInside == Aligned(blob) /\ TopologiesFit(blob) => status \notin Undefined

\* And every parse of them returns: each record takes the walk on, an unknown one
\* and an empty one too, and none takes it past the end.
WalkEnds == Aligned(blob) /\ TopologiesFit(blob) => <>Finished

-----------------------------------------------------------------------------
(***************************************************************************)
(* What a comment of the serializer says and the code does not do          *)
(***************************************************************************)

\* "This ensures that small swarms can be properly restored": the blob of a
\* swarm is accepted, also of one with few tiles.
SmallSwarmsRestored ==
  Finished /\ blob.src.by = "serializer" => (InRanges(blob.src.cfg) => Accepted)
=============================================================================
