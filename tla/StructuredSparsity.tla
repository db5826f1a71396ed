--------------------------- MODULE StructuredSparsity ---------------------------
(* 2:4 structured sparsity (sparsity/structured_2of4.c): of each four weights  *)
(* two are kept; they are packed behind each other with the mask of their      *)
(* places, and the sparse product reads only them, whole or tile by tile.      *)
(*                                                                             *)
(* Weights and activations are small integers, so that sums are exact.  The    *)
(* dimensions are those of the matrices: weights M x K, activations K x N.     *)
EXTENDS Integers, Sequences, SequencesExt, FiniteSets, FiniteSetsExt, TLC

CONSTANTS
    Weights,        \* weight matrices: sequences of rows of equal length, a multiple of 4
    Activations,    \* activation matrices: sequences of K rows
    Tiles,          \* <<tile_m, tile_n, tile_k>>
    Machines,       \* [pes, depth, busBytes, groups]: the configuration estimated for
    IndexModulus    \* 2^16: the width of a tile's indices

\* The calls the entry points accept, with indices that do not wrap: a tile
\* starts at 16 bits, and its successor is computed in as many.
ASSUME SparsityAssumption ==
    /\ \A w \in Weights :
          /\ w \in Seq(Seq(Int)) /\ w # <<>> /\ Len(w[1]) > 0 /\ Len(w[1]) % 4 = 0
          /\ \A m \in DOMAIN w : Len(w[m]) = Len(w[1])
    /\ \A a \in Activations :
          /\ a \in Seq(Seq(Int)) /\ a # <<>> /\ Len(a[1]) > 0
          /\ \A k \in DOMAIN a : Len(a[k]) = Len(a[1])
    /\ Tiles \subseteq (Nat \ {0}) \X (Nat \ {0}) \X (Nat \ {0})
    /\ \A t \in Tiles :
          /\ \A w \in Weights : Len(w) + t[1] <= IndexModulus /\ Len(w[1]) + t[3] <= IndexModulus
          /\ \A a \in Activations : Len(a[1]) + t[2] <= IndexModulus
    /\ Machines \subseteq [pes : Nat \ {0}, depth : Nat, busBytes : Nat \ {0}, groups : Nat \ {0}]

VARIABLES
    weights,    \* the matrix as given
    activations,
    pruned,     \* the matrix after pruning: a sequence of rows of groups
    masks,      \* the mask kept beside the packed weights, per row and group
    packed,     \* [values, mask] per row and group
    blocking,   \* tile sizes
    position,   \* <<m_tile, n_tile, k_tile>>, or Done
    product,    \* the output matrix
    macs        \* multiplications counted

sparseVars == <<weights, activations, pruned, masks, packed, blocking, position, product, macs>>

InGroup == 1..4
Magnitude(v) == IF v < 0 THEN 0 - v ELSE v

-------------------------------------------------------------------------------
(* Pruning one group.                                                        *)

\* One exchange of the code's sort: places i < j of the order.
Exchange(order, group, i, j) ==
    IF Magnitude(group[order[i]]) > Magnitude(group[order[j]])
    THEN [order EXCEPT ![i] = order[j], ![j] = order[i]] ELSE order

\* The places of a group by ascending magnitude: the two nested loops.
Order(group) ==
    LET exchange(order, i, j) == Exchange(order, group, i, j)
        first == exchange(exchange(exchange(<<1, 2, 3, 4>>, 1, 2), 1, 3), 1, 4)
    IN  exchange(exchange(exchange(first, 2, 3), 2, 4), 3, 4)

KeptPlaces(group) == {Order(group)[3], Order(group)[4]}
PruneGroup(group) == [p \in InGroup |-> IF p \in KeptPlaces(group) THEN group[p] ELSE 0]

-------------------------------------------------------------------------------
(* Packing one group behind a valid mask.                                    *)

MaskValid(mask) == Cardinality(mask) = 2

\* tu_sparsity_2of4_mask_nth_bit, counting from 1.
NthBit(mask, n) == IF n = 1 THEN Min(mask) ELSE Max(mask)

EncodeGroup(group, mask) ==
    [values |-> <<group[NthBit(mask, 1)], group[NthBit(mask, 2)]>>, mask |-> mask]

\* A group whose mask is not valid reads as zeros.
DecodeGroup(p) ==
    [k \in InGroup |->
        IF ~MaskValid(p.mask) THEN 0
        ELSE IF k = NthBit(p.mask, 1) THEN p.values[1]
        ELSE IF k = NthBit(p.mask, 2) THEN p.values[2] ELSE 0]

MasksAgree(outer, inner) ==
    \A m \in DOMAIN outer : \A g \in DOMAIN outer[m] :
        MaskValid(outer[m][g]) /\ inner[m][g].mask = outer[m][g]

-------------------------------------------------------------------------------
(* The products.  Rows, columns and k count from 0, as in the code.          *)

Groups(row) == [g \in 1..(Len(row) \div 4) |-> SubSeq(row, 4 * g - 3, 4 * g)]
Depth == Len(weights[1])
Rows == Len(weights)
Columns == Len(activations[1])

\* The k, counted from 1, of the i-th weight kept of group g of row m.
KeptAt(m, g, i) == 4 * (g - 1) + NthBit(masks[m + 1][g], i)

\* Adds, to row m, the terms of the kept weights with k in ks and column n.
Terms(m, ks) ==
    {gi \in (1..Len(packed[m + 1])) \X {1, 2} :
        /\ KeptAt(m, gi[1], gi[2]) - 1 \in ks
        /\ packed[m + 1][gi[1]].values[gi[2]] # 0}

SumTerms(m, ks, n) ==
    SumFunction([gi \in Terms(m, ks) |->
        packed[m + 1][gi[1]].values[gi[2]] * activations[KeptAt(m, gi[1], gi[2])][n + 1]])

\* Reads whole groups: a group that a tile border cuts is added by both tiles.
TileRangeWholeGroups(from, size, limit) ==
    LET last == Min({from + size, limit}) - 1
    IN  (4 * (from \div 4))..Min({4 * (last \div 4) + 3, limit - 1})

TileRange(from, size, limit) == from..(Min({from + size, limit}) - 1)

\* tu_sparsity_2of4_mma_tiled, one tile: the product of a block of each.
AddTile(o, ms, ns, ks) ==
    [m \in DOMAIN o |-> [n \in DOMAIN o[m] |->
        IF m - 1 \in ms /\ n - 1 \in ns THEN o[m][n] + SumTerms(m - 1, ks, n - 1) ELSE o[m][n]]]

\* One for each term and each column.
TileMacs(ms, ns, ks) ==
    Cardinality({x \in ms \X ns \X ((1..(Depth \div 4)) \X {1, 2}) : x[3] \in Terms(x[1], ks)})

Done == <<>>

\* k_tile is the inner loop, then n_tile, then m_tile.
Advance(here) ==
    IF here[3] + blocking[3] < Depth THEN <<here[1], here[2], here[3] + blocking[3]>>
    ELSE IF here[2] + blocking[2] < Columns THEN <<here[1], here[2] + blocking[2], 0>>
    ELSE IF here[1] + blocking[1] < Rows THEN <<here[1] + blocking[1], 0, 0>> ELSE Done

-------------------------------------------------------------------------------
(* tu_sparsity_2of4_estimate_cycles.                                         *)

Ceiling(n, k) == n \div k + (IF n % k = 0 THEN 0 ELSE 1)

GroupBytes(groups) == 5 * groups

EstimateCycles(m, n, k, machine) ==
    LET fill == IF machine.depth = 0 THEN 0 ELSE 2 * machine.depth - 1
        shared == 2 * k * n + 4 * m * n
        groups == (m * k) \div 4
        dense == Ceiling(2 * m * k + shared, machine.busBytes) + Ceiling(m * n * k, machine.pes) + fill
        compute == Ceiling((m * n * k) \div 2, machine.pes) + fill
        decode == Ceiling(groups, machine.groups)
    IN  [denseMacs |-> m * n * k, sparseMacs |-> (m * n * k) \div 2,
         decode |-> decode, compute |-> compute,
         dense |-> dense,
         sparse |-> Ceiling(GroupBytes(groups) + shared, machine.busBytes) + Max({compute, decode})]

-------------------------------------------------------------------------------
(* A product from pruning to its last tile.                                  *)

Empty == <<>>

SparseInit ==
    /\ weights = Empty /\ activations = Empty /\ pruned = Empty /\ masks = Empty
    /\ packed = Empty /\ blocking = Empty /\ position = Done /\ product = Empty /\ macs = 0

\* tu_sparsity_2of4_prune_with_masks_fp32.
Prune(w, a) ==
    /\ pruned = Empty
    /\ weights' = w /\ activations' = a
    /\ pruned' = [m \in DOMAIN w |-> [g \in DOMAIN Groups(w[m]) |-> PruneGroup(Groups(w[m])[g])]]
    /\ masks' = [m \in DOMAIN w |-> [g \in DOMAIN Groups(w[m]) |-> KeptPlaces(Groups(w[m])[g])]]
    /\ UNCHANGED <<packed, blocking, position, product, macs>>

\* tu_sparsity_2of4_compress: nothing is packed behind an invalid mask.
Compress ==
    /\ pruned # Empty /\ packed = Empty
    /\ \A m \in DOMAIN masks : \A g \in DOMAIN masks[m] : MaskValid(masks[m][g])
    /\ packed' = [m \in DOMAIN pruned |-> [g \in DOMAIN pruned[m] |->
                    EncodeGroup(pruned[m][g], masks[m][g])]]
    /\ UNCHANGED <<weights, activations, pruned, masks, blocking, position, product, macs>>

\* The caller hands over the masks of another matrix.
MistakeMask(m, g, mask) ==
    /\ packed # Empty /\ product = Empty /\ masks = [i \in DOMAIN packed |->
                                           [j \in DOMAIN packed[i] |-> packed[i][j].mask]]
    /\ masks' = [masks EXCEPT ![m][g] = mask]
    /\ UNCHANGED <<weights, activations, pruned, packed, blocking, position, product, macs>>

\* The caller clears the output; masks that disagree leave it so.
StartTiled(t) ==
    /\ packed # Empty /\ product = Empty
    /\ product' = [m \in 1..Rows |-> [n \in 1..Columns |-> 0]]
    /\ blocking' = t
    /\ position' = IF MasksAgree(masks, packed) THEN <<0, 0, 0>> ELSE Done
    /\ UNCHANGED <<weights, activations, pruned, masks, packed, macs>>

MultiplyTile ==
    /\ position # Done
    /\ LET ms == TileRange(position[1], blocking[1], Rows)
           ns == TileRange(position[2], blocking[2], Columns)
           ks == TileRange(position[3], blocking[3], Depth)
       IN  /\ product' = AddTile(product, ms, ns, ks)
           /\ macs' = macs + TileMacs(ms, ns, ks)
    /\ position' = Advance(position)
    /\ UNCHANGED <<weights, activations, pruned, masks, packed, blocking>>

SparseNext ==
    \/ \E w \in Weights, a \in Activations : Len(w[1]) = Len(a) /\ Prune(w, a)
    \/ Compress
    \/ \E m \in DOMAIN packed : \E g \in DOMAIN packed[m], mask \in SUBSET InGroup :
          MistakeMask(m, g, mask)
    \/ \E t \in Tiles : StartTiled(t)
    \/ MultiplyTile

SparseSpec == SparseInit /\ [][SparseNext]_sparseVars

-------------------------------------------------------------------------------
(* Properties.                                                               *)

Finished == product # Empty /\ position = Done

\* Masks, tile position and the count of multiplications keep their types.
SparseTypeOK ==
    /\ masks \in Seq(Seq(SUBSET InGroup))
    /\ macs \in Nat
    /\ position = Done \/ position \in (0..(Rows - 1)) \X (0..(Columns - 1)) \X (0..(Depth - 1))

\* Pruning keeps two weights of each group, and none it drops is larger than
\* one it keeps.
LargestKept ==
    \A m \in DOMAIN pruned : \A g \in DOMAIN pruned[m] :
        LET group == Groups(weights[m])[g]
            kept == {p \in InGroup : pruned[m][g][p] = group[p] /\ group[p] # 0}
        IN  /\ Cardinality(kept) <= 2
            /\ \A p \in InGroup \ kept : pruned[m][g][p] = 0
            /\ \A p \in kept, q \in InGroup \ kept : Magnitude(group[q]) <= Magnitude(group[p])
            /\ Cardinality(kept) < 2 => \A q \in InGroup \ kept : group[q] = 0

\* Unpacking gives back the pruned matrix.
PackingLossless ==
    \A m \in DOMAIN packed : \A g \in DOMAIN packed[m] : DecodeGroup(packed[m][g]) = pruned[m][g]

DenseProduct(m, n) ==
    SumFunction([k \in 1..Depth |->
        pruned[m][1 + (k - 1) \div 4][1 + ((k - 1) % 4)] * activations[k][n]])

\* Tile by tile, whatever the tile sizes and wherever their borders cut a
\* group, the result is the dense product of the pruned weights; and masks
\* that are not the packed ones change no output (validate_packed_masks).
TiledIsDense ==
    Finished => \A m \in 1..Rows, n \in 1..Columns :
        product[m][n] = IF MasksAgree(masks, packed) THEN DenseProduct(m, n) ELSE 0

DisagreementHarmless ==
    Finished /\ (\E m \in DOMAIN masks : \E g \in DOMAIN masks[m] :
                    masks[m][g] # packed[m][g].mask) =>
        macs = 0 /\ \A m \in 1..Rows, n \in 1..Columns : product[m][n] = 0

\* The multiplications done are those estimated, less the kept weights that
\* are zero; half the dense ones at most.
MacsAsEstimated ==
    Finished /\ MasksAgree(masks, packed) =>
        LET e == EstimateCycles(Rows, Columns, Depth, [pes |-> 1, depth |-> 0, busBytes |-> 1, groups |-> 1])
            zeros == Cardinality({x \in (1..Rows) \X (1..(Depth \div 4)) \X {1, 2} :
                                    packed[x[1]][x[2]].values[x[3]] = 0})
        IN  macs + zeros * Columns = e.sparseMacs

\* The sparse product is never estimated slower than the dense one, unless it
\* waits for the decoder of the masks.
SparseNoSlower ==
    product # Empty => \A machine \in Machines :
        LET e == EstimateCycles(Rows, Columns, Depth, machine)
        IN  e.sparse > e.dense => e.decode > e.compute

\* The sparse path computes the dense product of what pruning kept, whatever the
\* tiles, and its estimates count the work it does.
SparsityExact ==
    /\ SparseTypeOK
    /\ LargestKept /\ PackingLossless
    /\ TiledIsDense /\ DisagreementHarmless
    /\ MacsAsEstimated /\ SparseNoSlower

===============================================================================
