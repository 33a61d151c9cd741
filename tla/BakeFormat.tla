----------------------------- MODULE BakeFormat -----------------------------
(***************************************************************************)
(* Bake blobs as sequences of TLV records, and the two writers of the      *)
(* repository: the serializer of a running swarm                           *)
(* (d8_swarm_serialize_current_bake, src/src/swarm.c) and the generator    *)
(* (d8_bake_gen_custom, src/bake_gen/bake_gen.c).                          *)
(*                                                                         *)
(* A record is [type, len, held, body]: len is the length its header       *)
(* tells, held the bytes that follow the header up to the next record, and *)
(* body what the value means.  A blob is [src, defects, bakeId, strait,    *)
(* recs, tail]: src who wrote it, defects what is wrong with its header,   *)
(* tail the bytes after the last record.                                   *)
(***************************************************************************)
EXTENDS BakeImage, Sequences, Sums

HeaderSize == 28      \* d8_bake_header_t
TlvHeader  == 8       \* type, tflags, len
CrcRecord  == 12      \* the CRC32 record, header included

ParamsSize  == 13     \* bytes per tile
RoutingSize == 2
WeightsSize == 40
ResetSize   == 2

\* From a value of this length to the next multiple of four.
Pad(len) == (4 - (len % 4)) % 4

Span(len) == len + Pad(len)

SizeOf(recs) ==
  HeaderSize + SumOver([k \in DOMAIN recs |-> TlvHeader + recs[k].held], DOMAIN recs)

BlobSize(b) == SizeOf(b.recs) + b.tail

Unpadded(type, len, body) == [type |-> type, len |-> len, held |-> len, body |-> body]
Padded(type, len, body)   == [type |-> type, len |-> len, held |-> Span(len), body |-> body]

\* A bug the properties catch: a sum that stops before the last record.
CrcEarly(recs) ==
  Padded("CRC32", 4, [over |-> SizeOf(SubSeq(recs, 1, Len(recs) - 1)), sound |-> TRUE])

\* over is the number of bytes, from the first on, the sum was taken of.
Crc(recs) == Padded("CRC32", 4, [over |-> SizeOf(recs), sound |-> TRUE])

WithCrc(recs) == Append(recs, Crc(recs))

First(k, f) == [t \in 0 .. k - 1 |-> f[t]]

-----------------------------------------------------------------------------
(* The serializer.  k is the number of tiles it writes.                    *)
SerializedCount(c) == IF c.n \in 1 .. MaxTiles THEN c.n ELSE MaxTiles

\* lanes and domains are those of the swarm's topology: the ones it was created
\* with, or those of the last bake, which the parser has compared with them.
TopologyOf(c, k) ==
  Unpadded("TOPOLOGY", 16,
           [n |-> k, w |-> c.topoW, resv |-> c.n, reserved |-> FALSE,
            matches |-> TRUE])

ParamsOf(c, k) ==
  Unpadded("TILE_PARAMS_V2", k * ParamsSize,
           [t \in 0 .. k - 1 |->
              [lo |-> c.par[t].lo, hi |-> c.par[t].hi, decay |-> c.par[t].decay,
               dom |-> c.par[t].dom % 16, prio |-> c.par[t].prio, pat |-> c.par[t].pat]])

\* A bug the properties catch: the bus flags written crosswise.
RoutingCrossed(c, k) ==
  Unpadded("TILE_ROUTING_FLAGS16", k * RoutingSize,
           [t \in 0 .. k - 1 |->
              [dirs |-> c.mask[t], busR |-> t \in c.busW, busW |-> t \in c.busR,
               spare |-> FALSE]])

RoutingOf(c, k) ==
  Unpadded("TILE_ROUTING_FLAGS16", k * RoutingSize,
           [t \in 0 .. k - 1 |->
              [dirs |-> c.mask[t], busR |-> t \in c.busR, busW |-> t \in c.busW,
               spare |-> FALSE]])

WeightsOf(c, k) ==
  Unpadded("TILE_WEIGHTS_PACKED", k * WeightsSize, First(k, c.weight))

ResetOf(c, k) ==
  Unpadded("RESET_ON_FIRE_MASK16", k * ResetSize, [t \in 0 .. k - 1 |-> c.par[t].rof])

ReadoutOf(c) == Unpadded("READOUT_POLICY", 12, c.mode)

LimitOf(c) == Unpadded("TILE_FIELD_LIMIT", 4, c.n)

SerializedRecords(c) ==
  LET k == SerializedCount(c)
  IN  WithCrc(<<TopologyOf(c, k), ParamsOf(c, k), RoutingOf(c, k), WeightsOf(c, k),
                ResetOf(c, k), ReadoutOf(c), LimitOf(c)>>)

Serialized(c) ==
  [src |-> [by |-> "serializer", cfg |-> c], defects |-> {}, bakeId |-> c.bakeId,
   strait |-> c.strait, recs |-> SerializedRecords(c), tail |-> 0]

-----------------------------------------------------------------------------
(* The generator.  g is [n, lo, hi, decay], its arguments.                 *)
GeneratedParams(g) ==
  Padded("TILE_PARAMS_V2", g.n * ParamsSize,
         [t \in 0 .. g.n - 1 |-> [lo |-> g.lo, hi |-> g.hi, decay |-> g.decay,
                                  dom |-> 0, prio |-> 0, pat |-> 0]])

GeneratedRouting(g) ==
  Padded("TILE_ROUTING_FLAGS16", g.n * RoutingSize,
         [t \in 0 .. g.n - 1 |-> [dirs |-> {}, busR |-> FALSE, busW |-> FALSE,
                                  spare |-> FALSE]])

GeneratedTopology(g) ==
  Padded("TOPOLOGY", 16, [n |-> g.n, w |-> ExpectedW, resv |-> g.n, reserved |-> FALSE,
                          matches |-> TRUE])

GeneratedRecords(g) ==
  WithCrc(<<GeneratedTopology(g), GeneratedParams(g), GeneratedRouting(g),
            Padded("READOUT_POLICY", 12, 0),
            Padded("RESET_ON_FIRE_MASK16", g.n * ResetSize, [t \in 0 .. g.n - 1 |-> {}]),
            Padded("TILE_WEIGHTS_PACKED", g.n * WeightsSize,
                   [t \in 0 .. g.n - 1 |-> ZeroWeight]),
            Padded("TILE_FIELD_LIMIT", 4, g.n)>>)

Generated(g) ==
  [src |-> [by |-> "generator", args |-> g], defects |-> {}, bakeId |-> 1,
   strait |-> FALSE, recs |-> GeneratedRecords(g), tail |-> 0]

-----------------------------------------------------------------------------
(* The sizes a caller sizes its buffer by.                                 *)

\* A bug the properties catch: records counted without their padding.
EstimateRaw(k) ==
  HeaderSize + (TlvHeader + 16) + (TlvHeader + k * ParamsSize) + (TlvHeader + k * RoutingSize)
    + (TlvHeader + k * WeightsSize) + (TlvHeader + k * ResetSize) + (TlvHeader + 12)
    + (TlvHeader + 4) + CrcRecord

Sized(len) == TlvHeader + Span(len)

\* d8_bake_estimate_serialized_size
EstimateSerialized(k) ==
  HeaderSize + Sized(16) + Sized(k * ParamsSize) + Sized(k * RoutingSize)
    + Sized(k * WeightsSize) + Sized(k * ResetSize) + Sized(12) + Sized(4) + CrcRecord

\* d8_bake_gen_estimate_size
EstimateGenerated(k) ==
  HeaderSize + (TlvHeader + 16) + Sized(k * ParamsSize) + Sized(k * RoutingSize)
    + Sized(k * WeightsSize) + Sized(k * ResetSize) + (TlvHeader + 12)
    + (TlvHeader + 4) + CrcRecord
=============================================================================
