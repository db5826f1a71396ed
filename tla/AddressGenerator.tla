--------------------------- MODULE AddressGenerator ---------------------------
(* The address generator (memory/address_generator.c): an iterator that      *)
(* streams the byte address of each element of an access pattern, the point  *)
(* query of im2col, the coalescing of addresses into ranges and of ranges    *)
(* into a chain of DMA descriptors.                                          *)
(*                                                                           *)
(* A uint32_t is 0..MaxWord.  Its largest value means "exhausted"; Padding   *)
(* stands for 0xFFFFFF00, the address of an element outside the input.       *)
EXTENDS Integers, Sequences, SequencesExt, FiniteSets

CONSTANTS
    MaxWord,        \* UINT32_MAX
    Padding,        \* 0xFFFFFF00
    DefaultBytes,   \* the element size where a configuration leaves it 0 (4)
    AgenConfigs,    \* the configurations handed to tu_agen_iterator_init
    BufferSizes     \* the capacities handed to tu_agen_generate_all

ASSUME AgenAssumption ==
    /\ Padding \in 0..(MaxWord - 1)
    /\ DefaultBytes \in 1..MaxWord
    /\ BufferSizes \subseteq Nat

VARIABLES
    iter,       \* the configuration accepted last, with elem_size and total
    current,    \* current_idx
    addresses   \* what tu_agen_next returned since the index was last reset

agenVars == <<iter, current, addresses>>

Word == 0..MaxWord
Wrap(n) == n % (MaxWord + 1)
Volume(d) == d[1] * d[2] * d[3]
CeilDiv(n, k) == n \div k + (IF n % k = 0 THEN 0 ELSE 1)
Least(a, b) == IF a < b THEN a ELSE b

-------------------------------------------------------------------------------
(* Geometry.  A configuration has dims <<depth, rows, cols>> (channels,      *)
(* height and width for im2col), strides <<depth, row>> in elements, a tile  *)
(* <<depth, rows, cols>>, the tile counts it claims and the convolution.     *)

TiledValid(base, dims, size) ==
    0 \in {dims[1], dims[2], dims[3]} \/
    (Volume(dims) <= MaxWord /\ base + Volume(dims) * size <= MaxWord)

AffineValid(base, dims, strides, size) ==
    0 \in {dims[1], dims[2], dims[3]} \/
    /\ Volume(dims) <= MaxWord /\ size > 0
    /\ dims[3] + (dims[2] - 1) * strides[2] + (dims[1] - 1) * strides[1]
         <= (MaxWord - base) \div size

\* The output size along one axis: 0 when the kernel is larger than the input.
OutputDim(input, kernel, pad, stride, dilation) ==
    LET reach == (kernel - 1) * dilation + 1
        padded == input + 2 * pad
    IN  IF input = 0 \/ padded < reach THEN 0 ELSE (padded - reach) \div stride + 1

OutputDims(cfg) ==
    LET axis(i) == OutputDim(cfg.dims[i + 1], cfg.conv.kernel[i], cfg.conv.pad[i],
                             cfg.conv.stride[i], cfg.conv.dilation[i])
    IN  <<axis(1), axis(2)>>

ConvValid(cfg) ==
    /\ \A i \in 1..2 : 0 \notin {cfg.conv.kernel[i], cfg.conv.stride[i], cfg.conv.dilation[i]}
    /\ \A i \in 1..2 : OutputDims(cfg)[i] <= MaxWord

\* Elements of the expanded matrix, one row for each output position.
Expanded(cfg) ==
    LET out == OutputDims(cfg)
    IN  out[1] * out[2] * cfg.conv.kernel[1] * cfg.conv.kernel[2] * cfg.dims[1]

TilesPerDim(dims, tile) ==
    [i \in 1..3 |-> CeilDiv(dims[i], IF tile[i] = 0 THEN 1 ELSE tile[i])]

\* tu_agen_compute_tiling: 0 tiles for a grid that is empty or too large.
NumTiles(dims, tile) ==
    LET n == Volume(TilesPerDim(dims, tile)) IN IF n > MaxWord THEN 0 ELSE n

\* A 2-D configuration may claim its tile counts; 0 claims nothing.
ClaimHolds(cfg) ==
    \A i \in 2..3 : cfg.claimed[i] \in {0, TilesPerDim(cfg.dims, cfg.tile)[i]}

ElemSize(cfg) ==
    CASE cfg.mode = "LINEAR" -> cfg.size
      [] cfg.mode = "STRIDED_2D" -> IF Volume(cfg.dims) > 0 THEN DefaultBytes ELSE 0
      [] cfg.mode = "TILED_2D" -> DefaultBytes
      [] OTHER -> IF cfg.size = 0 THEN DefaultBytes ELSE cfg.size

Accepted(cfg) ==
    CASE cfg.mode \in {"LINEAR", "BLOCK_INTERLEAVED"} ->
            AffineValid(cfg.base, cfg.dims, <<0, 0>>, ElemSize(cfg))
      [] cfg.mode = "STRIDED_2D" ->
            AffineValid(cfg.base, cfg.dims, cfg.strides, DefaultBytes)
      [] cfg.mode = "STRIDED_3D" ->
            AffineValid(cfg.base, cfg.dims, cfg.strides, ElemSize(cfg))
      [] cfg.mode = "TRANSPOSED" ->
            AffineValid(cfg.base, cfg.dims, <<0, cfg.dims[3]>>, ElemSize(cfg))
      [] cfg.mode \in {"TILED_2D", "TILED_3D"} ->
            /\ 0 \notin {cfg.tile[1], cfg.tile[2], cfg.tile[3]}
            /\ TiledValid(cfg.base, cfg.dims, ElemSize(cfg))
            /\ cfg.mode = "TILED_2D" => ClaimHolds(cfg)
      [] cfg.mode = "IM2COL" ->
            ConvValid(cfg) /\
            (Expanded(cfg) = 0 \/
             (Expanded(cfg) <= MaxWord /\ TiledValid(cfg.base, cfg.dims, ElemSize(cfg))))

Total(cfg) == IF cfg.mode = "IM2COL" THEN Expanded(cfg) ELSE Volume(cfg.dims)

-------------------------------------------------------------------------------
(* The offset, in elements, of the element with ordinal i.                   *)

StridedOffset(i, dims, strides) ==
    LET slab == dims[2] * dims[3]
    IN  (i \div slab) * strides[1] + ((i % slab) \div dims[3]) * strides[2] + (i % dims[3])

TransposedOffset(i, dims) == (i % dims[2]) * dims[3] + i \div dims[2]

\* Takes the last, clipped tile of a row to be as wide as the others.
TiledOffsetUnclipped(i, dims, tile) ==
    LET t == [a \in 1..3 |-> Least(tile[a], dims[a])]
        slab == t[1] * dims[2] * dims[3]
        z == (i \div slab) * t[1]       zs == Least(t[1], dims[1] - z)
        bar == zs * t[2] * dims[3]
        y == ((i % slab) \div bar) * t[2]  ys == Least(t[2], dims[2] - y)
        tileSize == zs * ys * t[3]
        inBar == (i % slab) % bar
        x == (inBar \div tileSize) * t[3]
        j == inBar % tileSize
    IN  ((z + j \div (ys * t[3])) * dims[2] + y + ((j \div t[3]) % ys)) * dims[3] + x + (j % t[3])

\* Whole slabs of depth, then of rows, then of columns precede the clipped one.
TiledOffset(i, dims, tile) ==
    LET t == [a \in 1..3 |-> Least(tile[a], dims[a])]
        slab == t[1] * dims[2] * dims[3]
        z == (i \div slab) * t[1]       zs == Least(t[1], dims[1] - z)
        bar == zs * t[2] * dims[3]
        y == ((i % slab) \div bar) * t[2]  ys == Least(t[2], dims[2] - y)
        tileSize == zs * ys * t[3]
        inBar == (i % slab) % bar
        x == (inBar \div tileSize) * t[3]  xs == Least(t[3], dims[3] - x)
        j == inBar % tileSize
    IN  ((z + j \div (ys * xs)) * dims[2] + y + ((j \div xs) % ys)) * dims[3] + x + (j % xs)

\* <<oh, ow, kh, kw, ic>> of an ordinal: channels change fastest.
ConvCoordinates(i, cfg) ==
    LET c == cfg.dims[1]
        perIc == cfg.conv.kernel[1] * cfg.conv.kernel[2]
        perOh == perIc * c * OutputDims(cfg)[2]
        inOh == i % perOh
        inOw == inOh % (perIc * c)
    IN  <<i \div perOh, inOh \div (perIc * c), (inOw \div c) \div cfg.conv.kernel[2],
          (inOw \div c) % cfg.conv.kernel[2], inOw % c>>

\* Height and width in the padded input.
PaddedPosition(at, cfg) ==
    <<at[1] * cfg.conv.stride[1] + at[3] * cfg.conv.dilation[1],
      at[2] * cfg.conv.stride[2] + at[4] * cfg.conv.dilation[2]>>

InsideInput(hw, cfg) ==
    \A a \in 1..2 : hw[a] >= cfg.conv.pad[a] /\ hw[a] - cfg.conv.pad[a] < cfg.dims[a + 1]

ConvAddress(at, cfg, size) ==
    LET hw == PaddedPosition(at, cfg)
    IN  Wrap(cfg.base + (at[5] * cfg.dims[2] * cfg.dims[3]
                           + (hw[1] - cfg.conv.pad[1]) * cfg.dims[3]
                           + (hw[2] - cfg.conv.pad[2])) * size)

\* tu_agen_next for the ordinal i of a pattern.
AddressOf(i, cfg) ==
    LET at(offset) == Wrap(cfg.base + offset * ElemSize(cfg))
    IN  CASE cfg.mode \in {"LINEAR", "BLOCK_INTERLEAVED"} -> at(i)
          [] cfg.mode \in {"STRIDED_2D", "STRIDED_3D"} ->
                at(StridedOffset(i, cfg.dims, cfg.strides))
          [] cfg.mode \in {"TILED_2D", "TILED_3D"} -> at(TiledOffset(i, cfg.dims, cfg.tile))
          [] cfg.mode = "TRANSPOSED" -> at(TransposedOffset(i, cfg.dims))
          [] cfg.mode = "IM2COL" ->
                IF InsideInput(PaddedPosition(ConvCoordinates(i, cfg), cfg), cfg)
                THEN ConvAddress(ConvCoordinates(i, cfg), cfg, ElemSize(cfg)) ELSE Padding

\* tu_agen_addr_im2col: the point query, which has no expanded-count limit.
PointAddress(at, cfg) ==
    IF /\ ConvValid(cfg) /\ cfg.size > 0
       /\ at[1] < OutputDims(cfg)[1] /\ at[2] < OutputDims(cfg)[2]
       /\ at[3] < cfg.conv.kernel[1] /\ at[4] < cfg.conv.kernel[2] /\ at[5] < cfg.dims[1]
       /\ TiledValid(cfg.base, cfg.dims, cfg.size)
       /\ InsideInput(PaddedPosition(at, cfg), cfg)
    THEN ConvAddress(at, cfg, cfg.size) ELSE MaxWord

AllAddresses(cfg) == [i \in 1..Total(cfg) |-> AddressOf(i - 1, cfg)]

-------------------------------------------------------------------------------
(* Ranges: addresses one element apart, a padded element always apart.       *)

Fresh(a) == [base |-> a, length |-> 1]

Coalesce(seq, size) ==
    LET step(done, a) ==
            LET last == done[Len(done)]
            IN  IF a = Wrap(last.base + last.length * size) /\ a # Padding
                THEN [done EXCEPT ![Len(done)].length = @ + 1] ELSE Append(done, Fresh(a))
    IN  IF seq = <<>> THEN <<>> ELSE FoldLeft(step, <<Fresh(Head(seq))>>, Tail(seq))

\* tu_agen_generate_ranges: the number of ranges needed, and the stored prefix.
Ranges(cfg, capacity) ==
    LET all == Coalesce(AllAddresses(cfg), ElemSize(cfg))
        stored == [k \in 1..Least(capacity, Len(all)) |->
                     [base |-> all[k].base, bytes |-> Wrap(all[k].length * ElemSize(cfg))]]
    IN  IF capacity = 0 THEN [count |-> 0, stored |-> <<>>]
        ELSE [count |-> Len(all), stored |-> stored]

\* tu_agen_desc_from_range: a linear descriptor, or none.
DescriptorValid(range, size) == size > 0 /\ range.bytes > 0 /\ range.bytes % size = 0

\* tu_agen_desc_chain_from_iterator: a descriptor for each range, whose host
\* address is the range's own offset from host_base; no chain at all otherwise.
Chain(cfg) ==
    LET needed == Ranges(cfg, 1).count
        ranges == Ranges(cfg, needed).stored
    IN  IF ElemSize(cfg) = 0 \/ needed = 0 \/
           \E k \in 1..needed : ~DescriptorValid(ranges[k], ElemSize(cfg))
        THEN <<>>
        ELSE [k \in 1..needed |-> [region |-> ranges[k].base, host |-> ranges[k].base,
                                   elements |-> ranges[k].bytes \div ElemSize(cfg)]]

-------------------------------------------------------------------------------
(* The iterator.                                                             *)

None == [mode |-> "NONE"]
Total0 == IF iter = None THEN 0 ELSE Total(iter)

AgenInit == iter = None /\ current = 0 /\ addresses = <<>>

\* tu_agen_iterator_init; a refused configuration leaves an empty iterator.
IteratorInit(cfg) ==
    /\ iter = None
    /\ iter' = IF Accepted(cfg) THEN cfg ELSE None
    /\ current' = 0 /\ addresses' = <<>>

\* tu_agen_next of an iterator that has a next element.
NextAddress ==
    /\ current < Total0
    /\ current' = current + 1
    /\ addresses' = Append(addresses, AddressOf(current, iter))
    /\ UNCHANGED iter

AgenReset ==
    /\ current > 0
    /\ current' = 0 /\ addresses' = <<>> /\ UNCHANGED iter

\* tu_agen_generate_all: from the first element, at most `size` of them.
GenerateAll(size) ==
    /\ iter # None
    /\ current' = Least(size, Total0)
    /\ addresses' = [i \in 1..Least(size, Total0) |-> AddressOf(i - 1, iter)]
    /\ UNCHANGED iter

AgenNext ==
    \/ \E cfg \in AgenConfigs : IteratorInit(cfg)
    \/ NextAddress
    \/ AgenReset
    \/ \E size \in BufferSizes : GenerateAll(size)

-------------------------------------------------------------------------------
(* Properties.                                                               *)

Drained == iter # None /\ current = Total(iter)

\* Every address handed out is a word, and as many as the index says.
AgenTypeOK ==
    /\ iter = None \/ (iter \in AgenConfigs /\ Accepted(iter))
    /\ current \in 0..Total0
    /\ addresses \in [1..current -> Word]

\* The whole element lies below UINT32_MAX, which stays the mark of the end:
\* no accepted geometry wraps, whatever its strides (affine_geometry_valid).
ElementsBelowEnd ==
    \A i \in 1..current :
        \/ addresses[i] = Padding
        \/ addresses[i] >= iter.base /\ addresses[i] + ElemSize(iter) <= MaxWord

\* The tile of an element and its place in it.
TileKey(address) ==
    LET offset == (address - iter.base) \div ElemSize(iter)
        at == <<offset \div (iter.dims[2] * iter.dims[3]),
                (offset \div iter.dims[3]) % iter.dims[2], offset % iter.dims[3]>>
    IN  [a \in 1..3 |-> at[a] \div iter.tile[a]] \o at

Before(s, t) == \E k \in DOMAIN s : s[k] < t[k] /\ \A j \in 1..(k - 1) : s[j] = t[j]

\* A tiled iterator finishes a tile before the next, tiles and elements in
\* row-major order, clipped tiles included: no element twice and none left out.
TilesInOrder ==
    iter # None /\ iter.mode \in {"TILED_2D", "TILED_3D"} =>
        /\ \A i \in 2..current : Before(TileKey(addresses[i - 1]), TileKey(addresses[i]))
        /\ Drained => Cardinality({SubSeq(TileKey(addresses[i]), 1, 3) : i \in 1..current})
                        = NumTiles(iter.dims, iter.tile)

\* The streamed im2col matrix is the convolution's: row by row of output
\* positions, each the kernel's window with padding outside the input; the
\* point query agrees with it element by element.
Im2colIsConvolution ==
    iter # None /\ iter.mode = "IM2COL" =>
        LET out == OutputDims(iter)
            k == iter.conv.kernel
            place(oh, ow, kh, kw, ic) ==
                1 + ic + iter.dims[1] * (kw + k[2] * (kh + k[1] * (ow + out[2] * oh)))
        IN  Drained =>
            \A oh \in 0..(out[1] - 1), ow \in 0..(out[2] - 1), kh \in 0..(k[1] - 1),
               kw \in 0..(k[2] - 1), ic \in 0..(iter.dims[1] - 1) :
                LET y == oh * iter.conv.stride[1] + kh * iter.conv.dilation[1] - iter.conv.pad[1]
                    x == ow * iter.conv.stride[2] + kw * iter.conv.dilation[2] - iter.conv.pad[2]
                    here == addresses[place(oh, ow, kh, kw, ic)]
                    point == PointAddress(<<oh, ow, kh, kw, ic>>, iter)
                IN  IF y \in 0..(iter.dims[2] - 1) /\ x \in 0..(iter.dims[3] - 1)
                    THEN /\ here = iter.base + ElemSize(iter) *
                              (x + iter.dims[3] * (y + iter.dims[2] * ic))
                         /\ iter.size > 0 => point = here
                    ELSE here = Padding /\ point = MaxWord

\* The ranges, laid end to end, are the streamed addresses, so that a chain of
\* descriptors moves each element of the pattern once and in its order.
RangesReplayAddresses ==
    Drained /\ current > 0 =>
        LET moved(d) == [j \in 1..d.elements |-> Wrap(d.region + (j - 1) * ElemSize(iter))]
        IN  FoldLeft(LAMBDA s, d : s \o moved(d), <<>>, Chain(iter)) = addresses

\* What a pattern hands out is the pattern: in bounds, each element once, in its
\* order, and the same as ranges and as single addresses.
AddressesRight ==
    /\ AgenTypeOK
    /\ ElementsBelowEnd
    /\ TilesInOrder /\ Im2colIsConvolution
    /\ RangesReplayAddresses

===============================================================================
