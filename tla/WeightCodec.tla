------------------------------ MODULE WeightCodec ------------------------------
(* The weight streams (memory/weight_compress.c): run-length and bitmap      *)
(* codecs, the frame that holds the smallest of raw, RLE and bitmap, their   *)
(* validators, and the estimate of the decoder's cycles.                     *)
(*                                                                           *)
(* A stream is the structure its bytes spell and their number; a half-float  *)
(* is a code, NegZero the code of -0.0, which equals 0 as a number only.     *)
EXTENDS Integers, Sequences, SequencesExt, FiniteSets, FiniteSetsExt, TLC

CONSTANTS
    Halfs, NegZero,         \* element codes; 0 is the all-zero pattern
    HalfBytes,              \* sizeof(fp16_t)
    RunBytes,               \* TU_RLE_RUN_BYTES
    HeadBytes,              \* the two counts before an RLE or a bitmap body
    FrameBytes,             \* TU_WEIGHT_FRAME_HEADER_BYTES
    ByteBits,               \* mask bits in a byte
    WireMax,                \* UINT32_MAX
    Tensors,                \* the tensors encoded
    CodecConfigs,           \* [type, epsilon, capacity, ...]: tu_compress_config_t
    Rooms                   \* output capacities of the decoder, in elements

ASSUME CodecAssumption ==
    /\ Halfs \subseteq Nat /\ 0 \in Halfs
    /\ {HalfBytes, RunBytes, HeadBytes, FrameBytes, ByteBits} \subseteq Nat \ {0}
    /\ Tensors \subseteq Seq(Halfs)

VARIABLES
    tensor,     \* the elements given to the encoder
    codecConfig,\* the configuration both ends share
    wire,       \* the encoded stream, or Nothing
    damaged,    \* whether the stream changed on its way
    decoded     \* the decoder's answer

codecVars == <<tensor, codecConfig, wire, damaged, decoded>>

Number(h) == IF h = NegZero THEN 0 ELSE h
Distance(a, b) == IF Number(a) < Number(b) THEN Number(b) - Number(a) ELSE Number(a) - Number(b)
CeilOf(n, k) == n \div k + (IF n % k = 0 THEN 0 ELSE 1)

\* Equal bits, or close as numbers: without a tolerance only equal bits.
NearEqual(a, b, epsilon) == a = b \/ (epsilon > 0 /\ Distance(a, b) <= epsilon)

-------------------------------------------------------------------------------
(* Streams and their sizes in bytes.                                         *)

Raw(t) == [kind |-> "RAW", values |-> t]
Rle(n, runs, body) == [kind |-> "RLE", count |-> n, runs |-> runs, body |-> body]
Bitmap(n, nonzero, bits, values) ==
    [kind |-> "BITMAP", count |-> n, nonzero |-> nonzero, bits |-> bits, values |-> values]
Nothing == [kind |-> "NOTHING"]

PayloadSize(s) ==
    CASE s.kind = "NOTHING" -> 0
      [] s.kind = "RAW" -> Len(s.values) * HalfBytes
      [] s.kind = "RLE" -> HeadBytes + Len(s.body) * RunBytes
      [] s.kind = "BITMAP" -> HeadBytes + Len(s.bits) \div ByteBits + Len(s.values) * HalfBytes

Frame(n, payload) ==
    [kind |-> "FRAME", magic |-> TRUE, codec |-> payload.kind, count |-> n,
     bytes |-> PayloadSize(payload), payload |-> payload]

WireSize(s) == IF s.kind = "FRAME" THEN FrameBytes + PayloadSize(s.payload) ELSE PayloadSize(s)

-------------------------------------------------------------------------------
(* Encoders.  Each is refused when its stream exceeds the capacity.          *)

Refusal == [ok |-> FALSE]

Fits(s, capacity) == IF WireSize(s) <= capacity THEN [ok |-> TRUE, wire |-> s] ELSE Refusal

\* Compares each element with its neighbour, so that a slope drifts away.
RunsDrifting(t, epsilon) ==
    LET step(acc, h) ==
            IF NearEqual(h, acc.last, epsilon)
            THEN [runs |-> [acc.runs EXCEPT ![Len(acc.runs)].count = @ + 1], last |-> h]
            ELSE [runs |-> Append(acc.runs, [value |-> h, count |-> 1]), last |-> h]
    IN  IF t = <<>> THEN <<>>
        ELSE FoldLeft(step, [runs |-> <<[value |-> Head(t), count |-> 1]>>, last |-> Head(t)],
                      Tail(t)).runs

\* A run takes every element close to the run's own first one.
RunsOf(t, epsilon) ==
    LET step(runs, h) ==
            IF NearEqual(h, runs[Len(runs)].value, epsilon)
            THEN [runs EXCEPT ![Len(runs)].count = @ + 1]
            ELSE Append(runs, [value |-> h, count |-> 1])
    IN  IF t = <<>> THEN <<>>
        ELSE FoldLeft(step, <<[value |-> Head(t), count |-> 1]>>, Tail(t))

\* An empty tensor is encoded as no bytes at all, not even the counts.
EncodeRle(t, epsilon, capacity) ==
    LET runs == RunsOf(t, epsilon)
    IN  IF t = <<>> THEN Fits(Nothing, capacity)
        ELSE Fits(Rle(Len(t), Len(runs), runs), capacity)

\* Tests the number and not the bits: -0.0 would come back as +0.0.
IsKeptByNumber(h) == Number(h) # 0
IsKept(h) == h # 0

EncodeBitmap(t, capacity) ==
    LET kept == SelectSeq(t, IsKept)
        bits == [i \in 1..(CeilOf(Len(t), ByteBits) * ByteBits) |->
                   i <= Len(t) /\ IsKept(t[i])]
    IN  Fits(Bitmap(Len(t), Len(kept), bits, kept), capacity)

RleEstimate(t, epsilon) == HeadBytes + Len(RunsOf(t, epsilon)) * RunBytes
BitmapEstimate(t) ==
    HeadBytes + (Len(t) + ByteBits - 1) \div ByteBits + Len(SelectSeq(t, IsKept)) * HalfBytes

\* The smallest stream; raw before RLE before bitmap on a tie.
ChooseCodec(t, epsilon) ==
    LET raw == Len(t) * HalfBytes
        rle == RleEstimate(t, epsilon)
        smaller == IF rle < raw THEN rle ELSE raw
    IN  IF BitmapEstimate(t) < smaller THEN "BITMAP" ELSE IF rle < raw THEN "RLE" ELSE "RAW"

\* tu_compress_adaptive and, without the bitmap, tu_compress_adaptive_rle;
\* the capacity must hold the raw tensor whichever codec is chosen.
EncodeAdaptive(t, epsilon, capacity, bitmaps) ==
    LET codec == IF bitmaps THEN ChooseCodec(t, epsilon)
                 ELSE IF RleEstimate(t, epsilon) < Len(t) * HalfBytes THEN "RLE" ELSE "RAW"
        body == CASE codec = "RLE" -> EncodeRle(t, epsilon, capacity - FrameBytes)
                  [] codec = "BITMAP" -> EncodeBitmap(t, capacity - FrameBytes)
                  [] codec = "RAW" -> [ok |-> TRUE, wire |-> Raw(t)]
    IN  IF capacity < FrameBytes + Len(t) * HalfBytes \/ ~body.ok THEN Refusal
        ELSE [ok |-> TRUE, wire |-> Frame(Len(t), body.wire)]

\* tu_compress_for_dma.
Encode(t, cfg) ==
    CASE cfg.type = "NONE" -> Fits(Raw(t), cfg.capacity)
      [] cfg.type = "RLE" -> EncodeRle(t, cfg.epsilon, cfg.capacity)
      [] cfg.type = "BITMAP" -> EncodeBitmap(t, cfg.capacity)
      [] cfg.type = "ADAPTIVE_RLE" -> EncodeAdaptive(t, cfg.epsilon, cfg.capacity, FALSE)
      [] cfg.type = "ADAPTIVE" -> EncodeAdaptive(t, cfg.epsilon, cfg.capacity, TRUE)

-------------------------------------------------------------------------------
(* Decoders.  out is what is written to the destination, refused or not.     *)

Answer(ok, out) == [ok |-> ok, out |-> out]

\* A run that is empty or larger than what is left refuses the stream; the
\* elements written before it stay written.
DecodeRle(s, room) ==
    LET step(acc, run) ==
            IF ~acc.ok \/ run.count = 0 \/ run.count > s.count - Len(acc.out)
            THEN [acc EXCEPT !.ok = FALSE]
            ELSE [acc EXCEPT !.out = @ \o [i \in 1..run.count |-> run.value]]
    IN  IF s.kind = "NOTHING" THEN Answer(FALSE, <<>>)
        ELSE IF s.count = 0 THEN Answer(s.runs = 0, <<>>)
        ELSE IF s.runs \notin 1..s.count \/ s.runs > Len(s.body) \/ room < s.count
             THEN Answer(FALSE, <<>>)
             ELSE LET done == FoldLeft(step, Answer(TRUE, <<>>), SubSeq(s.body, 1, s.runs))
                  IN  Answer(done.ok /\ Len(done.out) = s.count, done.out)

\* tu_compress_validate looks at the two counts and the size only.
RleValid(s) ==
    /\ s.kind = "RLE" /\ s.runs = Len(s.body)
    /\ IF s.count = 0 THEN s.runs = 0 ELSE s.runs \in 1..s.count

SetBits(s, n) == Cardinality({i \in 1..n : s.bits[i]})

\* Takes the counts at their word.
BitmapValidBySize(s) ==
    /\ s.kind = "BITMAP" /\ s.nonzero <= s.count /\ s.count <= WireMax - (ByteBits - 1)
    /\ PayloadSize(s) = HeadBytes + CeilOf(s.count, ByteBits) + s.nonzero * HalfBytes
    /\ Len(s.bits) = CeilOf(s.count, ByteBits) * ByteBits

\* The mask holds as many bits as values follow, none of them past the end.
BitmapValid(s) ==
    /\ s.kind = "BITMAP" /\ s.nonzero <= s.count /\ s.count <= WireMax - (ByteBits - 1)
    /\ PayloadSize(s) = HeadBytes + CeilOf(s.count, ByteBits) + s.nonzero * HalfBytes
    /\ Len(s.bits) = CeilOf(s.count, ByteBits) * ByteBits
    /\ SetBits(s, s.count) = s.nonzero
    /\ \A i \in (s.count + 1)..Len(s.bits) : ~s.bits[i]

DecodeBitmap(s, room) ==
    IF ~BitmapValid(s) \/ room < s.count THEN Answer(FALSE, <<>>)
    ELSE Answer(TRUE, [i \in 1..s.count |->
                         IF s.bits[i] THEN s.values[SetBits(s, i)] ELSE 0])

FrameValid(s) ==
    /\ s.kind = "FRAME" /\ s.magic /\ s.bytes = PayloadSize(s.payload)
    /\ CASE s.codec = "RAW" -> s.bytes = s.count * HalfBytes
         [] s.codec = "RLE" -> RleValid(s.payload) /\ s.payload.count = s.count
         [] s.codec = "BITMAP" -> BitmapValid(s.payload) /\ s.payload.count = s.count

DecodeAdaptive(s, room) ==
    IF ~FrameValid(s) \/ room < s.count THEN Answer(FALSE, <<>>)
    ELSE CASE s.codec = "RAW" -> Answer(TRUE, s.payload.values)
           [] s.codec = "RLE" -> DecodeRle(s.payload, room)
           [] s.codec = "BITMAP" -> DecodeBitmap(s.payload, room)

\* tu_decompress_from_dma.
Decode(s, cfg, room) ==
    CASE cfg.type = "NONE" -> IF room < Len(s.values) THEN Answer(FALSE, <<>>)
                              ELSE Answer(TRUE, s.values)
      [] cfg.type = "RLE" -> DecodeRle(s, room)
      [] cfg.type = "BITMAP" -> DecodeBitmap(s, room)
      [] cfg.type \in {"ADAPTIVE_RLE", "ADAPTIVE"} -> DecodeAdaptive(s, room)

\* tu_compress_estimate_cycles: bus cycles and decoder cycles, overlapped or
\* one after the other; a stream that does not validate has no estimate.
Estimate(s, cfg) ==
    LET framed == cfg.type \in {"ADAPTIVE_RLE", "ADAPTIVE"}
        body == IF framed THEN s.payload ELSE s
        valid == CASE cfg.type = "NONE" -> TRUE
                   [] cfg.type = "RLE" -> RleValid(s)
                   [] cfg.type = "BITMAP" -> BitmapValid(s)
                   [] OTHER -> FrameValid(s)
        elements == CASE cfg.type = "NONE" -> Len(s.values) [] OTHER -> s.count
        metadata == IF body.kind = "RLE" THEN CeilOf(body.runs, cfg.runsPerCycle)
                    ELSE CeilOf(elements, cfg.bitsPerCycle)
        dma == CeilOf(WireSize(s), cfg.busBytes)
        decode == IF body.kind = "RAW" \/ ~cfg.decoder THEN 0
                  ELSE Max({CeilOf(elements, cfg.lanes), metadata})
    IN  IF ~valid THEN Refusal
        ELSE [ok |-> TRUE, elements |-> elements, dma |-> dma, decode |-> decode,
              total |-> IF cfg.overlap THEN Max({dma, decode}) ELSE dma + decode]

-------------------------------------------------------------------------------
(* One tensor sent through the codec.                                        *)

CodecInit ==
    /\ tensor = <<>> /\ codecConfig = [type |-> "NONE", capacity |-> 0]
    /\ wire = Refusal /\ damaged = FALSE /\ decoded = Answer(FALSE, <<>>)

EncodeTensor(t, cfg) ==
    /\ ~wire.ok
    /\ Encode(t, cfg).ok
    /\ tensor' = t /\ codecConfig' = cfg /\ wire' = Encode(t, cfg)
    /\ damaged' = FALSE /\ decoded' = Answer(FALSE, <<>>)

\* A count, a run, a bit, the frame's mark or the tail of the stream changes.
DamagedPayloads(s) ==
    CASE s.kind = "RAW" -> IF s.values = <<>> THEN {} ELSE {[s EXCEPT !.values = Front(@)]}
      [] s.kind = "RLE" ->
            {[s EXCEPT !.count = n] : n \in {s.count - 1, s.count + 1, WireMax} \cap Nat}
            \cup {[s EXCEPT !.runs = n] : n \in {s.runs - 1, s.runs + 1} \cap Nat}
            \cup {[s EXCEPT !.body[i].count = n] :
                    i \in DOMAIN s.body, n \in {0, 2, WireMax}}
            \cup {[s EXCEPT !.body = Front(@)], [s EXCEPT !.body = @ \o @]}
      [] s.kind = "BITMAP" ->
            {[s EXCEPT !.count = n] : n \in {s.count - 1, s.count + 1, WireMax} \cap Nat}
            \cup {[s EXCEPT !.nonzero = @ + 1]}
            \cup {[s EXCEPT !.bits[i] = ~@] : i \in DOMAIN s.bits}
            \cup {[s EXCEPT !.values = Append(@, 0)]}
      [] OTHER -> {}

DamagedWires(s) ==
    IF s.kind = "FRAME"
    THEN {[s EXCEPT !.payload = p] : p \in DamagedPayloads(s.payload)}
         \cup {[s EXCEPT !.magic = FALSE], [s EXCEPT !.count = @ + 1]}
    ELSE DamagedPayloads(s)

\* External: what a transfer may do to the bytes between the two ends.
DamageWire ==
    /\ wire.ok /\ ~damaged
    /\ \E s \in DamagedWires(wire.wire) : wire' = [wire EXCEPT !.wire = s]
    /\ damaged' = TRUE /\ decoded' = Answer(FALSE, <<>>)
    /\ UNCHANGED <<tensor, codecConfig>>

DecodeWire(room) ==
    /\ wire.ok /\ decoded = Answer(FALSE, <<>>)
    /\ decoded' = Decode(wire.wire, codecConfig, room) @@ [room |-> room]
    /\ UNCHANGED <<tensor, codecConfig, wire, damaged>>

CodecNext ==
    \/ \E t \in Tensors, cfg \in CodecConfigs : EncodeTensor(t, cfg)
    \/ DamageWire
    \/ \E room \in Rooms : DecodeWire(room)

-------------------------------------------------------------------------------
(* Properties.                                                               *)

DecodeTried == "room" \in DOMAIN decoded

\* An encoder writes no more than its capacity; a decoder, elements.
CodecTypeOK ==
    /\ tensor \in Tensors \cup {<<>>}
    /\ damaged \in BOOLEAN
    /\ wire.ok /\ ~damaged => WireSize(wire.wire) <= codecConfig.capacity
    /\ \A i \in DOMAIN decoded.out : decoded.out[i] \in Halfs

MergesRuns(s) == s.kind = "RLE" \/ (s.kind = "FRAME" /\ s.codec = "RLE")

\* A stream that arrives whole decodes, if there is room, to as many elements,
\* each equal bit for bit, or within epsilon where runs were merged.  The
\* RLE stream of an empty tensor has no header and is the exception.
RoundTrip ==
    DecodeTried /\ ~damaged /\ decoded.room >= Len(tensor) =>
        \/ tensor = <<>> /\ codecConfig.type = "RLE" /\ ~decoded.ok
        \/ /\ decoded.ok /\ Len(decoded.out) = Len(tensor)
           /\ \A i \in 1..Len(tensor) :
                \/ decoded.out[i] = tensor[i]
                \/ /\ MergesRuns(wire.wire)
                   /\ Distance(decoded.out[i], tensor[i]) <= codecConfig.epsilon

\* Whatever happened to the stream, a decoder writes no element past its room,
\* and one that succeeds has written the count the stream announced.
WritesWithinRoom ==
    DecodeTried =>
        /\ Len(decoded.out) <= decoded.room
        /\ decoded.ok /\ codecConfig.type # "NONE" => Len(decoded.out) = wire.wire.count

\* A damaged frame never decodes to another number of elements, and a bitmap
\* never with another mask (tu_compress_bitmap_validate).
DamageNoticed ==
    DecodeTried /\ damaged /\ decoded.ok =>
        /\ wire.wire.kind = "FRAME" => Len(decoded.out) = Len(tensor)
        /\ wire.wire.kind = "BITMAP" =>
             \A i \in 1..Len(tensor) : wire.wire.bits[i] <=> IsKept(tensor[i])

\* The adaptive frame is no larger than raw and its header, and no larger
\* than any codec's own stream in a frame (weight_compress.h:108-111).
SmallestChosen ==
    wire.ok /\ ~damaged /\ codecConfig.type = "ADAPTIVE" =>
        \A other \in {Raw(tensor), EncodeRle(tensor, codecConfig.epsilon, WireMax).wire,
                      EncodeBitmap(tensor, WireMax).wire} \ {Nothing} :
            WireSize(wire.wire) <= FrameBytes + PayloadSize(other)

\* Every stream that an encoder made has an estimate, of the tensor's own
\* elements; a decoder never delays the transfer of a raw payload.
EstimateCoversStream ==
    wire.ok /\ ~damaged /\ wire.wire.kind # "NOTHING" =>
        LET e == Estimate(wire.wire, codecConfig)
        IN  /\ e.ok /\ e.elements = Len(tensor)
            /\ e.total >= e.dma
            /\ wire.wire.kind = "FRAME" /\ wire.wire.codec = "RAW" => e.total = e.dma

\* What was encoded is what is decoded, in the room there is, in no more bytes
\* than promised; and what was damaged is not taken for something else.
CodecLossless ==
    /\ CodecTypeOK
    /\ RoundTrip /\ WritesWithinRoom /\ DamageNoticed
    /\ SmallestChosen /\ EstimateCoversStream

===============================================================================
