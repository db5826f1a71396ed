------------------------------ MODULE DmaTransfer ------------------------------
(* What one DMA descriptor does (dma_descriptor.c): the constructors, the      *)
(* check of the SRAM spans it touches, the copying, and the cycles its bursts  *)
(* take; with the legacy load and store.                                       *)
(*                                                                             *)
(* The byte at position i of the host's source is i + 1, 0 a byte never        *)
(* written.  "r" and "s" are regions that do not overlap; the host's other     *)
(* buffer receives.  32-bit sizes wrap at Word; addresses and counts do not.   *)
(* Queues, the clock and completion are DmaEngine's: a descriptor is executed  *)
(* as soon as it is made.                                                      *)
EXTENDS DmaConfig, SequencesExt

CONSTANTS
    Word,           \* 2^32
    RegionSize,     \* [r, s]
    HostSize,       \* of the receiving buffer
    Page,           \* 4096
    Meter,          \* [width, banks, words, window, penalty] of a region
    CostMax,        \* UINT64_MAX
    Orders,         \* constructor calls
    Repeated,       \* those made again later: a bound
    MaxTransfers    \* bound on executions

\* What a constructor may be given.
OrderTyped(o) ==
    /\ o.make \in {"linear", "2d", "3d", "scatter", "gather", "multicast"}
    /\ o.dir \in {"in", "out", "internal"} /\ o.region \in {"r", "s", "none"}
    /\ o.ch \in Nat /\ o.base \in Nat /\ o.elem \in Nat /\ o.ext \in Nat /\ o.host \in BOOLEAN
    /\ o.dims \in Nat \X Nat \X Nat /\ o.sramStride \in Nat \X Nat /\ o.hostStride \in Nat \X Nat
    /\ o.make = "2d" => o.dims[3] = 1
    /\ o.index \in Seq(Nat) /\ o.targets \in Seq({"r", "s", "none"} \X Nat)

\* A region's size is a 32-bit number.
ASSUME TransferAssumption ==
    /\ Word \in Nat /\ RegionSize \in [{"r", "s"} -> 0..(Word - 1)] /\ HostSize \in Nat
    /\ Page \in Nat \ {0} /\ CostMax \in Nat
    /\ Meter \in [width : Nat \ {0}, banks : Nat \ {0}, words : Nat, window : Nat, penalty : Nat]
    /\ \A o \in Orders : OrderTyped(o)

VARIABLES
    memory,     \* contents of "r", "s" and the receiving "host"
    meters,     \* [words, refilled, now] of each region
    metered,    \* bw_modeling
    totals,     \* [bytes, occupied, transfers, cycles] of the engine
    channelTotals,  \* [bytes, occupied, cycles] per channel
    legacy,     \* bytes and cycles the legacy calls added to the totals, and
                \* those of channels the engine does not have
    last,       \* what was executed last, with the memory before
    strayed     \* a copy left its region

transferVars == <<memory, meters, metered, totals, channelTotals, legacy, last, strayed>>

-------------------------------------------------------------------------------
(* Constructors.  An order names the constructor, the direction, the region,   *)
(* base and geometry; a region "none" is the null pointer.                     *)

\* The indexed constructors and multicast set the direction themselves.
Direction(o) ==
    IF o.make = "gather" THEN "out" ELSE IF o.make \in {"scatter", "multicast"} THEN "in" ELSE o.dir

Sram(o) == IF Direction(o) = "internal" THEN "none" ELSE o.region

\* tu_dma_desc_create_*: the size is computed in 32 bits.  With direction
\* "internal" the three plain constructors leave both regions unset.
Made(o) ==
    [type |-> o.make, dir |-> Direction(o), ch |-> o.ch, region |-> Sram(o),
     base |-> IF o.make \in {"scatter", "gather"} THEN 0 ELSE o.base,
     dims |-> o.dims, elem |-> o.elem, sramStride |-> o.sramStride, hostStride |-> o.hostStride,
     index |-> o.index, targets |-> o.targets, from |-> "none", ext |-> Unset, host |-> o.host,
     bytes |-> IF o.make \in {"scatter", "gather"} THEN (o.elem * Len(o.index)) % Word
               ELSE IF o.make = "multicast" THEN (o.elem * o.dims[1] * Len(o.targets)) % Word
               ELSE (o.elem * o.dims[1] * o.dims[2] * o.dims[3]) % Word]

\* tu_dma_desc_set_external_address.
WithAddress(d, address) == IF d.dir = "internal" THEN d ELSE [d EXCEPT !.ext = address]

\* A descriptor between two regions has no constructor; its makers fill it in.
Internal(d, from, to) == [d EXCEPT !.dir = "internal", !.from = from, !.region = to]

-------------------------------------------------------------------------------
(* The spans.                                                                  *)

RangeFits(r, offset, n) == r # "none" => offset + n <= RegionSize[r]

\* Takes the end of the last row of the first slice for the end.
Strided3dFitsSlice(r, base, stride, d) ==
    r # "none" /\ d.dims[1] > 0 /\ d.dims[2] > 0 /\ d.elem * d.dims[3] > 0 =>
        base + (d.dims[2] - 1) * stride[1] + d.elem * d.dims[3] <= RegionSize[r]

Strided3dFits(r, base, stride, d) ==
    r # "none" /\ d.dims[1] > 0 /\ d.dims[2] > 0 /\ d.elem * d.dims[3] > 0 =>
        base + (d.dims[1] - 1) * stride[2] + (d.dims[2] - 1) * stride[1] + d.elem * d.dims[3]
            <= RegionSize[r]

Strided2dFits(r, base, stride, d) ==
    r # "none" /\ d.dims[1] > 0 /\ d.elem * d.dims[2] > 0 =>
        base + (d.dims[1] - 1) * stride[1] + d.elem * d.dims[2] <= RegionSize[r]

\* descriptor_sram_spans_valid: products are checked in 64 bits.  An internal
\* transfer strides its source as the host.
SpansValid(d) ==
    /\ IF d.type = "multicast" THEN d.dir = "in"
       ELSE d.region # "none" /\ (d.dir = "internal" => d.from # "none")
    /\ CASE d.type = "linear" -> RangeFits(d.from, 0, d.bytes) /\ RangeFits(d.region, d.base, d.bytes)
         [] d.type = "2d" -> Strided2dFits(d.from, 0, d.hostStride, d)
                             /\ Strided2dFits(d.region, d.base, d.sramStride, d)
         [] d.type = "3d" -> Strided3dFits(d.from, 0, d.hostStride, d)
                             /\ Strided3dFits(d.region, d.base, d.sramStride, d)
         [] d.type \in {"scatter", "gather"} ->
                \A i \in DOMAIN d.index : RangeFits(d.region, d.index[i], d.elem)
         [] d.type = "multicast" ->
                \A t \in DOMAIN d.targets :
                    d.targets[t][1] # "none"
                    /\ RangeFits(d.targets[t][1], d.targets[t][2], d.dims[1] * d.elem)

ExternalBound(e) == e.boundary \in {"ext4k", "both4k", "ext", "both"}
SramBound(e) == e.boundary \in {"sram", "sram4k", "both4k", "both"}

\* Checked at submission and again at execution, which needs pointers as well.
Executable(e, d) ==
    SpansValid(d) /\ (ExternalBound(e) => d.ext # Unset) /\ (d.dir = "internal" \/ d.host)

-------------------------------------------------------------------------------
(* Bursts.                                                                     *)

Writes(d) == d.dir = "out"
BurstBytes(e, d) == IF Writes(d) THEN e.writeBurst ELSE e.readBurst

SegmentCount(d) ==
    IF d.bytes = 0 THEN 0
    ELSE CASE d.type = "2d" -> d.dims[1]
           [] d.type = "3d" -> d.dims[1] * d.dims[2]
           [] d.type \in {"scatter", "gather"} -> Len(d.index)
           [] OTHER -> 1

SegmentBytes(d) ==
    CASE d.type = "2d" -> d.elem * d.dims[2]
      [] d.type = "3d" -> d.elem * d.dims[3]
      [] d.type \in {"scatter", "gather"} -> d.elem
      [] OTHER -> d.bytes

\* The segments as <<address in SRAM, external address, bytes>>.
AllSegments(d) ==
    LET at(s, x, n) == <<s, d.ext + x, n>>
    IN  IF d.bytes = 0 \/ SegmentBytes(d) = 0 THEN <<>>
        ELSE CASE d.type = "2d" ->
                    [i \in 1..d.dims[1] |->
                        at(d.base + (i - 1) * d.sramStride[1], (i - 1) * d.hostStride[1], SegmentBytes(d))]
               [] d.type = "3d" ->
                    [i \in 1..(d.dims[1] * d.dims[2]) |->
                        LET z == (i - 1) \div d.dims[2]
                            y == (i - 1) % d.dims[2]
                        IN  at(d.base + z * d.sramStride[2] + y * d.sramStride[1],
                               z * d.hostStride[2] + y * d.hostStride[1], SegmentBytes(d))]
               [] d.type \in {"scatter", "gather"} ->
                    [i \in DOMAIN d.index |-> at(d.index[i], (i - 1) * d.elem, d.elem)]
               [] d.type = "multicast" ->
                    [t \in DOMAIN d.targets |-> at(d.targets[t][2], 0, d.dims[1] * d.elem)]
               [] OTHER -> <<at(d.base, 0, d.bytes)>>

\* Where the next boundary lies: the burst's own size, or a page.
SramBoundary(e, d) == IF e.boundary \in {"sram", "both"} THEN BurstBytes(e, d) ELSE Page
ExternalBoundary(e, d) == IF e.boundary \in {"ext", "both"} THEN BurstBytes(e, d) ELSE Page
Room(bound, address, boundary, n) == IF bound THEN boundary - (address % boundary) ELSE n

\* Cuts at the boundary of the SRAM address only.
ChunkSramOnly(e, d, seg, left) ==
    LET done == seg[3] - left
    IN  Min({left, BurstBytes(e, d), Room(SramBound(e), seg[1] + done, SramBoundary(e, d), left)})

\* add_address_bounded_segment: the next burst when so many bytes are left.
Chunk(e, d, seg, left) ==
    LET done == seg[3] - left
    IN  Min({left, BurstBytes(e, d), Room(SramBound(e), seg[1] + done, SramBoundary(e, d), left),
             Room(ExternalBound(e), seg[2] + done, ExternalBoundary(e, d), left)})

\* Bursts and payload cycles of a segment, by the bytes left.
BoundedSegment(e, d, seg) ==
    LET rest[left \in 0..seg[3]] ==
            IF left = 0 THEN <<0, 0>>
            ELSE LET after == rest[left - Chunk(e, d, seg, left)]
                 IN  <<after[1] + 1, after[2] + CeilDiv(Chunk(e, d, seg, left), e.bus)>>
    IN  rest[seg[3]]

\* The same of all segments: k = 1 for the bursts, 2 for the payload cycles.
BoundedTotal(e, d, k) ==
    SumFunction([i \in DOMAIN AllSegments(d) |-> BoundedSegment(e, d, AllSegments(d)[i])[k]])

BurstCount(e, d) ==
    IF d.bytes = 0 THEN 0
    ELSE IF e.boundary # "size" THEN BoundedTotal(e, d, 1)
    ELSE IF e.segmentation = "aggregate" THEN CeilDiv(d.bytes, BurstBytes(e, d))
    ELSE SegmentCount(d) * CeilDiv(SegmentBytes(d), BurstBytes(e, d))

BurstAligned(n, burst, bus) ==
    (n \div burst) * CeilDiv(burst, bus) + CeilDiv(n % burst, bus)

PayloadCycles(e, d) ==
    IF d.bytes = 0 THEN 0
    ELSE IF e.payload = "packed" THEN CeilDiv(d.bytes, e.bus)
    ELSE IF e.payload = "segment" THEN SegmentCount(d) * CeilDiv(SegmentBytes(d), e.bus)
    ELSE IF e.boundary # "size" THEN BoundedTotal(e, d, 2)
    ELSE IF e.segmentation = "logical"
         THEN SegmentCount(d) * BurstAligned(SegmentBytes(d), BurstBytes(e, d), e.bus)
    ELSE BurstAligned(d.bytes, BurstBytes(e, d), e.bus)

\* A descriptor without bytes still pays its setup.
BaseCycles(e, d) ==
    (IF Writes(d) THEN e.writeLatency ELSE e.readLatency)
    * (IF e.base = "segment" THEN SegmentCount(d) ELSE 1)

IssueCycles(e, d) == IF Writes(d) THEN e.writeIssue ELSE e.readIssue

\* The first command precedes the payload; the others overlap it.
Combine(e, payload, bursts, issue) ==
    IF e.overlap = "overlapped" /\ bursts > 0 /\ issue > 0
    THEN issue + Max({payload, bursts * issue - issue}) ELSE payload + bursts * issue

TransferCycles(e, d) ==
    BaseCycles(e, d) + Combine(e, PayloadCycles(e, d), BurstCount(e, d), IssueCycles(e, d))

RoundedCost(cost, quantum) ==
    IF cost > CostMax - (quantum - 1) THEN CostMax ELSE CeilDiv(cost, quantum) * quantum

ExactCost(e, d) ==
    CASE e.cost = "service" -> TransferCycles(e, d)
      [] e.cost = "occupied" -> PayloadCycles(e, d) * e.bus
      [] e.cost = "useful" -> d.bytes

DrrQuantum(e) == IF e.cost = "service" THEN e.quantumCycles ELSE e.quantumBytes

DrrCost(e, granularity, d) ==
    IF ExactCost(e, d) = 0 \/ granularity = 0 THEN ExactCost(e, d)
    ELSE RoundedCost(ExactCost(e, d), DrrQuantum(e))

-------------------------------------------------------------------------------
(* Copying.                                                                    *)

\* execute_strided_3d: rows within slices.
Slices(d) ==
    [i \in 1..(d.dims[1] * d.dims[2]) |->
        LET z == (i - 1) \div d.dims[2]
            y == (i - 1) % d.dims[2]
        IN  [host |-> z * d.hostStride[2] + y * d.hostStride[1],
             sram |-> z * d.sramStride[2] + y * d.sramStride[1]]]

IndexedHost(d, i) == (i - 1) * d.elem

\* The copies in order, each from a host to an SRAM offset; rows in 32 bits.
Copies(d) ==
    LET sized(offsets, n) == [i \in DOMAIN offsets |-> [n |-> n, host |-> offsets[i].host, sram |-> offsets[i].sram]]
    IN  CASE d.type = "linear" -> <<[n |-> d.bytes, host |-> 0, sram |-> 0]>>
          [] d.type = "2d" ->
                sized([i \in 1..d.dims[1] |-> [host |-> (i - 1) * d.hostStride[1],
                                               sram |-> (i - 1) * d.sramStride[1]]],
                      (d.elem * d.dims[2]) % Word)
          [] d.type = "3d" -> sized(Slices(d), (d.elem * d.dims[3]) % Word)
          [] d.type \in {"scatter", "gather"} ->
                [i \in DOMAIN d.index |-> [n |-> d.elem, host |-> IndexedHost(d, i), sram |-> d.index[i]]]

\* The last copy that covers a byte gives it its value: values[i][k] is the
\* k-th byte of the i-th copy.
Pasted(mem, copies, to, values) ==
    [a \in DOMAIN mem |->
        LET hits == {i \in DOMAIN copies : to[i] <= a /\ a < to[i] + copies[i].n}
        IN  IF hits = {} THEN mem[a] ELSE values[Max(hits)][a - to[Max(hits)]]]

\* What lies past the end of a region is not the model's.
ByteAt(mem, a) == IF a \in DOMAIN mem THEN mem[a] ELSE 0

\* What a region holds after a multicast: every target receives the message.
Received(mem, d, r) ==
    [a \in DOMAIN mem |->
        LET hits == {t \in DOMAIN d.targets :
                        /\ d.targets[t][1] = r
                        /\ d.targets[t][2] <= a /\ a < d.targets[t][2] + d.dims[1] * d.elem}
        IN  IF hits = {} THEN mem[a] ELSE a - d.targets[Max(hits)][2] + 1]

\* Scatter and gather address the region from its start, whatever the base;
\* their descriptors have base 0.
Stored(m, d) ==
    LET copies == Copies(d)
        atSram == [i \in DOMAIN copies |-> d.base + copies[i].sram]
        atHost == [i \in DOMAIN copies |-> copies[i].host]
        ofHost == [i \in DOMAIN copies |-> [k \in 0..copies[i].n - 1 |-> copies[i].host + k + 1]]
        ofRegion(mem, from) == [i \in DOMAIN copies |-> [k \in 0..copies[i].n - 1 |-> ByteAt(mem, from[i] + k)]]
    IN  CASE d.type = "multicast" -> [m EXCEPT !["r"] = Received(@, d, "r"), !["s"] = Received(@, d, "s")]
          [] d.type # "multicast" /\ d.dir = "in" ->
                [m EXCEPT ![d.region] =
                    Pasted(@, copies, atSram, ofHost)]
          [] d.type # "multicast" /\ d.dir = "out" ->
                [m EXCEPT !["host"] =
                    Pasted(@, copies, atHost, ofRegion(m[d.region], atSram))]
          [] d.type # "multicast" /\ d.dir = "internal" ->
                [m EXCEPT ![d.region] =
                    Pasted(@, copies, atSram, ofRegion(m[d.from], atHost))]

\* Whether a copy reaches past the end of a region.
Strays(d) ==
    d.type # "multicast" /\
    \E i \in DOMAIN Copies(d) :
        LET c == Copies(d)[i]
        IN  c.n > 0 /\ (\/ d.base + c.sram + c.n > RegionSize[d.region]
                        \/ d.dir = "internal" /\ c.host + c.n > RegionSize[d.from])

-------------------------------------------------------------------------------
(* Accounting.                                                                 *)

\* The words of a region with metering are taken one by one from the start of
\* the transfer, whatever its strides, after the refill its cycles bring.
Advanced(meter, cycles) ==
    [meter EXCEPT !.now = @ + cycles,
        !.words = [b \in DOMAIN @ |-> IF meter.now + cycles - meter.refilled[b] >= Meter.window
                                      THEN Meter.words ELSE @[b]],
        !.refilled = [b \in DOMAIN @ |-> IF meter.now + cycles - @[b] >= Meter.window
                                         THEN meter.now + cycles ELSE @[b]]]

WordsOn(d, b) ==
    Cardinality({i \in 0..(CeilDiv(d.bytes, Meter.width) - 1) :
                    ((d.base + i * Meter.width) \div Meter.width) % Meter.banks = b})

\* Only a plain transfer from or to the host is metered.
Metering(d) == metered /\ d.type # "multicast" /\ d.dir # "internal"

StallOf(meter, d) ==
    Meter.penalty * SumFunction([b \in DOMAIN meter.words |-> Max({0, WordsOn(d, b) - meter.words[b]})])

Consumed(meter, d) ==
    [meter EXCEPT !.words = [b \in DOMAIN @ |-> Max({0, @[b] - WordsOn(d, b)})]]

Counted(sums, d, e, cycles) ==
    [bytes |-> sums.bytes + d.bytes, occupied |-> sums.occupied + PayloadCycles(e, d) * e.bus,
     cycles |-> sums.cycles + cycles]

NoSums == [bytes |-> 0, occupied |-> 0, cycles |-> 0]
Nothing == [done |-> FALSE]

TransferInit ==
    /\ ConfigInit
    /\ memory = [r |-> [a \in 0..(RegionSize["r"] - 1) |-> 0], s |-> [a \in 0..(RegionSize["s"] - 1) |-> 0],
                 host |-> [a \in 0..(HostSize - 1) |-> 0]]
    /\ meters = [r \in {"r", "s"} |-> [words |-> [b \in 0..(Meter.banks - 1) |-> Meter.words],
                                       refilled |-> [b \in 0..(Meter.banks - 1) |-> 0], now |-> 0]]
    /\ metered \in BOOLEAN
    /\ totals = [sums |-> NoSums, transfers |-> 0]
    /\ channelTotals = [c \in 0..(Limits.channels[2] - 1) |-> NoSums]
    /\ legacy = NoSums /\ last = Nothing /\ strayed = FALSE

\* Another initialization, or tu_dma_destroy, clears the totals, and neither
\* memory nor meters.
Reinitialize ==
    /\ Initialize \/ Destroy
    /\ totals' = [sums |-> NoSums, transfers |-> 0]
    /\ channelTotals' = [c \in DOMAIN channelTotals |-> NoSums]
    /\ legacy' = NoSums /\ last' = Nothing
    /\ UNCHANGED <<memory, meters, metered, strayed>>

MayMake(o) == totals.transfers < MaxTransfers /\ (totals.transfers = 0 \/ o \in Repeated)

Descriptors(o) ==
    {Made(o), WithAddress(Made(o), o.ext)}
    \cup IF o.region = "r" /\ o.make \in {"linear", "2d", "3d"} THEN {Internal(Made(o), "s", "r")} ELSE {}

\* A channel the engine does not have is counted by the engine alone.
Added(d, cycles) ==
    /\ totals' = [sums |-> Counted(totals.sums, d, engine, cycles), transfers |-> totals.transfers + 1]
    /\ IF d.ch < engine.channels
       THEN /\ channelTotals' = [channelTotals EXCEPT ![d.ch] = Counted(@, d, engine, cycles)]
            /\ UNCHANGED legacy
       ELSE legacy' = Counted(legacy, d, engine, cycles) /\ UNCHANGED channelTotals

\* tu_dma_execute_desc of an engine with a bus.
Execute(d) ==
    /\ engine.bus > 0
    /\ Executable(engine, d)
    /\ LET cycles == TransferCycles(engine, d)
           meter == Advanced(meters[d.region], cycles)
       IN  /\ memory' = Stored(memory, d)
           /\ strayed' = (strayed \/ Strays(d))
           /\ meters' = IF Metering(d) THEN [meters EXCEPT ![d.region] = Consumed(meter, d)] ELSE meters
           /\ Added(d, cycles + IF Metering(d) THEN StallOf(meter, d) ELSE 0)
           /\ last' = [done |-> TRUE, d |-> d, before |-> memory]
    /\ UNCHANGED <<configVars, metered>>

\* A refused descriptor changes nothing.
Refuse(d) ==
    /\ ~Executable(engine, d)
    /\ UNCHANGED <<configVars, transferVars>>

\* tu_dma_load and tu_dma_store: no channel, no occupied bytes, one latency,
\* the primary buffer.  An engine that failed to configure has no bus to
\* divide by.  Offset and size stay within 32 bits here.
Legacy(o, writes) ==
    LET d == [Made(o) EXCEPT !.region = o.region, !.dir = IF writes THEN "out" ELSE "in", !.ext = 0]
        latency == IF writes THEN engine.writeLatency ELSE engine.readLatency
        cost == [bytes |-> d.bytes, occupied |-> 0,
                 cycles |-> latency + Combine(engine, PayloadCycles(engine, d), BurstCount(engine, d),
                                              IssueCycles(engine, d))]
    IN  /\ engine.bus > 0
        /\ o.make = "linear" /\ o.region # "none" /\ o.base + d.bytes <= RegionSize[o.region]
        /\ memory' = Stored(memory, d)
        /\ totals' = [sums |-> [k \in DOMAIN cost |-> totals.sums[k] + cost[k]],
                      transfers |-> totals.transfers + 1]
        /\ legacy' = [k \in DOMAIN cost |-> legacy[k] + cost[k]]
        /\ last' = [done |-> TRUE, d |-> d, before |-> memory]
        /\ UNCHANGED <<configVars, meters, metered, channelTotals, strayed>>

Transfers(orders) ==
    \E o \in {x \in orders : MayMake(x)} :
        \/ \E d \in Descriptors(o) : Execute(d) \/ Refuse(d)
        \/ \E writes \in BOOLEAN : Legacy(o, writes)

TransferNext == Reinitialize \/ Transfers(Orders) \/ (Settings /\ UNCHANGED transferVars)

TransferSpec == TransferInit /\ [][TransferNext]_<<configVars, transferVars>>

-------------------------------------------------------------------------------
(* Properties.                                                                 *)

TransferTypeOK ==
    /\ \A m \in {"r", "s", "host"} : \A a \in DOMAIN memory[m] : memory[m][a] \in Nat
    /\ \A r \in {"r", "s"} : \A b \in DOMAIN meters[r].words : meters[r].words[b] \in 0..Meter.words
    /\ totals.transfers \in Nat

\* No copy of an accepted descriptor leaves its region: the check of the spans
\* covers every row of every shape, holes and 32-bit sizes included.
NothingStrays == ~strayed

\* Where element <<z, y, x>> of a transfer lies, on the host and in SRAM.
Elements(d) ==
    CASE d.type = "linear" -> {<<0, 0, x>> : x \in 0..(d.bytes - 1)}
      [] d.type = "2d" -> {<<0, y, x>> : y \in 0..(d.dims[1] - 1), x \in 0..(d.dims[2] - 1)}
      [] d.type = "3d" -> {<<z, y, x>> : z \in 0..(d.dims[1] - 1), y \in 0..(d.dims[2] - 1),
                                         x \in 0..(d.dims[3] - 1)}
Width(d) == IF d.type = "linear" THEN 1 ELSE d.elem
HostAt(d, e) == e[1] * d.hostStride[2] + e[2] * d.hostStride[1] + e[3] * Width(d)
SramAt(d, e) == d.base + e[1] * d.sramStride[2] + e[2] * d.sramStride[1] + e[3] * Width(d)

\* Where a strided transfer brings its elements and leaves the other bytes:
\* an element has its place unless another one is written to it.
Delivered(d, before, after) ==
    LET to == IF d.dir = "out" THEN "host" ELSE d.region
        goal(e) == IF d.dir = "out" THEN HostAt(d, e) ELSE SramAt(d, e)
        value(e, k) == CASE d.dir = "in" -> HostAt(d, e) + k + 1
                         [] d.dir = "out" -> ByteAt(before[d.region], SramAt(d, e) + k)
                         [] d.dir = "internal" -> ByteAt(before[d.from], HostAt(d, e) + k)
        written(a) == {ek \in Elements(d) \X (0..(Width(d) - 1)) : goal(ek[1]) + ek[2] = a}
    IN  \A a \in DOMAIN after[to] :
            LET w == written(a)
            IN  /\ w = {} => after[to][a] = before[to][a]
                /\ \A ek \in w : w = {ek} => after[to][a] = value(ek[1], ek[2])

\* Every element of a strided transfer arrives at its coordinates, unless
\* another one is written to the same place, and no other byte changes.
ElementsArrive ==
    last.done /\ last.d.type \in {"linear", "2d", "3d"} => Delivered(last.d, last.before, memory)

Apart(d) ==
    \A i, j \in DOMAIN d.index :
        i # j => d.index[i] + d.elem <= d.index[j] \/ d.index[j] + d.elem <= d.index[i]

Scattered(d, after) ==
    \A i \in DOMAIN d.index, k \in 0..(d.elem - 1) :
        after[d.region][d.index[i] + k] = IndexedHost(d, i) + k + 1

Gathered(d, before, after) ==
    \A i \in DOMAIN d.index, k \in 0..(d.elem - 1) :
        IndexedHost(d, i) + k < HostSize =>
            after["host"][IndexedHost(d, i) + k] = before[d.region][d.index[i] + k]

MulticastDone(d, after) ==
    \A t \in DOMAIN d.targets :
        (\A u \in DOMAIN d.targets : u # t => d.targets[u][1] # d.targets[t][1]) =>
            \A k \in 0..(d.dims[1] * d.elem - 1) :
                after[d.targets[t][1]][d.targets[t][2] + k] = k + 1

\* What is gathered from where it was scattered is what was sent, and every
\* target of a multicast holds the whole message.
IndexedArrive ==
    last.done =>
        /\ last.d.type = "scatter" /\ Apart(last.d) => Scattered(last.d, memory)
        /\ last.d.type = "gather" => Gathered(last.d, last.before, memory)
        /\ last.d.type = "multicast" => MulticastDone(last.d, memory)

\* Under every scope the bus is occupied for at least the useful bytes, as long
\* as sizes fit in 32 bits.
Unwrapped(d) ==
    CASE d.type = "3d" -> d.elem * d.dims[1] * d.dims[2] * d.dims[3] < Word
      [] d.type = "2d" -> d.elem * d.dims[1] * d.dims[2] < Word
      [] d.type = "multicast" -> d.elem * d.dims[1] * Len(d.targets) < Word
      [] OTHER -> TRUE

OccupiedCoversUseful ==
    last.done /\ engine.bus > 0 /\ Unwrapped(last.d) =>
        PayloadCycles(engine, last.d) * engine.bus >= last.d.bytes

\* The first byte of a segment and the boundaries inside it.
Cuts(e, d, seg) ==
    {0} \cup {k \in 1..(seg[3] - 1) :
                \/ SramBound(e) /\ (seg[1] + k) % SramBoundary(e, d) = 0
                \/ ExternalBound(e) /\ (seg[2] + k) % ExternalBoundary(e, d) = 0}

\* A burst starts at each cut and at every full burst after the last one.
BurstStarts(e, d, seg) ==
    {k \in 0..(seg[3] - 1) :
        \E c \in Cuts(e, d, seg) :
            /\ c <= k /\ (k - c) % BurstBytes(e, d) = 0
            /\ \A x \in Cuts(e, d, seg) : x <= c \/ k < x}

\* A bounded segment is cut at every boundary inside it and at nothing but
\* those and full bursts, so no burst crosses a boundary and none is wasted.
BurstsMeetBoundaries ==
    last.done /\ engine.bus > 0 /\ engine.boundary # "size" =>
        \A i \in DOMAIN AllSegments(last.d) :
            BoundedSegment(engine, last.d, AllSegments(last.d)[i])[1]
                = Cardinality(BurstStarts(engine, last.d, AllSegments(last.d)[i]))

\* Overlapping commands with the payload saves time and hides all commands but
\* the first at best.
OverlapIsBounded ==
    last.done /\ engine.bus > 0 =>
        LET d == last.d
            cycles(mode) == TransferCycles([engine EXCEPT !.overlap = mode], d)
            issue == IssueCycles(engine, d)
            n == BurstCount(engine, d)
        IN  /\ cycles("overlapped") <= cycles("serialized")
            /\ cycles("overlapped") - BaseCycles(engine, d) >= n * issue
            /\ n > 0 => cycles("overlapped") - BaseCycles(engine, d) >= PayloadCycles(engine, d) + issue

\* An engine configured by one of the first initializers keeps their timing,
\* whatever scopes, modes and directions were added since: one latency, the
\* bytes packed on the bus, and the default cost of each full or last burst.
HistoricalTiming ==
    last.done /\ short.channels > 0 /\ engine = short =>
        LET d == last.d
        IN  TransferCycles(engine, d) =
              (IF Writes(d) THEN engine.writeLatency ELSE engine.readLatency)
              + CeilDiv(d.bytes, engine.bus) + CeilDiv(d.bytes, Defaults.burst) * Defaults.issue

\* The cost of a descriptor in rounds is a whole number of quanta, never less
\* than its exact cost and less than a quantum more.
CostRoundsUp ==
    last.done /\ engine.bus > 0 =>
        LET exact == ExactCost(engine, last.d)
            rounded == DrrCost(engine, 1, last.d)
        IN  exact > 0 /\ rounded < CostMax =>
              rounded % DrrQuantum(engine) = 0 /\ exact <= rounded /\ rounded - exact < DrrQuantum(engine)

\* What the engine counts is what its channels, the legacy calls and the
\* channels it does not have count together.
LedgersAgree ==
    \A k \in {"bytes", "occupied", "cycles"} :
        totals.sums[k] =
            legacy[k] + SumFunction([c \in DOMAIN channelTotals |-> channelTotals[c][k]])

\* Every accepted descriptor moves each of its elements to its place and nothing
\* else, and the ledgers say so.
TransfersDeliver ==
    /\ TransferTypeOK
    /\ NothingStrays
    /\ ElementsArrive /\ IndexedArrive
    /\ LedgersAgree

\* The cycles charged for a transfer follow from the bytes, boundaries and scopes
\* it has: never less than the useful ones, never lost by overlap or rounding.
ChargesRight ==
    /\ OccupiedCoversUseful /\ BurstsMeetBoundaries
    /\ OverlapIsBounded
    /\ HistoricalTiming
    /\ CostRoundsUp /\ ScanDelaysOrdered

===============================================================================
