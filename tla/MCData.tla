-------------------------------- MODULE MCData --------------------------------
(* Small instances of the data paths for TLC: the address generator, the     *)
(* weight codecs and structured sparsity.  Each behaviour is one of the      *)
(* three, the others at rest.                                                *)
EXTENDS AddressGenerator, WeightCodec, StructuredSparsity

NoConv == [kernel |-> <<1, 1>>, pad |-> <<0, 0>>, stride |-> <<1, 1>>, dilation |-> <<1, 1>>]
Pattern(mode, base, size, dims, strides, tiling) ==
    [mode |-> mode, base |-> base, size |-> size, dims |-> dims, strides |-> strides,
     tile |-> tiling, claimed |-> <<0, 0, 0>>, conv |-> NoConv]
Image(base, size, dims, kernel, pad, stride, dilation) ==
    [Pattern("IM2COL", base, size, dims, <<0, 0>>, <<1, 1, 1>>) EXCEPT
        !.conv = [kernel |-> kernel, pad |-> pad, stride |-> stride, dilation |-> dilation]]

\* Patterns that fit, that end at the last word and one past it, that are
\* empty; clipped tiles along every axis; a padded image with strides and
\* dilations, and one whose padding address is one element below the wrap.
MCAgenConfigs ==
    {Pattern("LINEAR", base, 4, <<1, 1, 5>>, <<0, 0>>, <<1, 1, 1>>) : base \in {0, 107, 108}}
    \cup {Pattern("BLOCK_INTERLEAVED", 3, 0, <<1, 1, 3>>, <<0, 0>>, <<1, 1, 1>>),
          Pattern("LINEAR", 0, 0, <<1, 1, 3>>, <<0, 0>>, <<1, 1, 1>>),
          Pattern("STRIDED_2D", 0, 0, <<1, 2, 2>>, <<0, 5>>, <<1, 1, 1>>),
          Pattern("STRIDED_2D", 100, 0, <<1, 2, 2>>, <<0, 5>>, <<1, 1, 1>>),
          Pattern("STRIDED_3D", 1, 2, <<2, 2, 2>>, <<9, 3>>, <<1, 1, 1>>),
          Pattern("STRIDED_3D", 100, 2, <<2, 2, 2>>, <<9, 3>>, <<1, 1, 1>>),
          Pattern("TRANSPOSED", 2, 2, <<1, 3, 4>>, <<0, 0>>, <<1, 1, 1>>),
          Pattern("TRANSPOSED", 2, 2, <<1, 0, 4>>, <<0, 0>>, <<1, 1, 1>>),
          Pattern("TILED_2D", 1, 0, <<1, 3, 5>>, <<0, 0>>, <<1, 2, 2>>),
          [Pattern("TILED_2D", 1, 0, <<1, 3, 5>>, <<0, 0>>, <<1, 2, 2>>) EXCEPT
              !.claimed = <<0, 2, 2>>],
          Pattern("TILED_3D", 4, 1, <<3, 3, 3>>, <<0, 0>>, <<2, 2, 2>>),
          Pattern("TILED_3D", 4, 2, <<2, 2, 5>>, <<0, 0>>, <<4, 1, 3>>),
          Image(2, 2, <<2, 2, 3>>, <<2, 2>>, <<1, 0>>, <<1, 1>>, <<1, 1>>),
          Image(0, 4, <<1, 3, 3>>, <<2, 2>>, <<0, 1>>, <<2, 1>>, <<1, 2>>),
          Image(0, 0, <<1, 2, 2>>, <<3, 3>>, <<1, 1>>, <<1, 2>>, <<1, 1>>),
          Image(0, 16, <<1, 1, 3>>, <<1, 1>>, <<1, 1>>, <<1, 1>>, <<1, 1>>),
          Image(0, 2, <<1, 2, 2>>, <<3, 3>>, <<0, 0>>, <<1, 1>>, <<1, 1>>),
          Image(0, 2, <<1, 2, 2>>, <<1, 0>>, <<0, 0>>, <<1, 1>>, <<1, 1>>)}

MCHalfs == {0, 1, 2, 4}
MCTensors == UNION {[1..n -> MCHalfs] : n \in 0..4}

Codec(type, epsilon, capacity, decoder, overlap) ==
    [type |-> type, epsilon |-> epsilon, capacity |-> capacity, lanes |-> 2,
     runsPerCycle |-> 1, bitsPerCycle |-> 3, busBytes |-> 4, decoder |-> decoder,
     overlap |-> overlap]
MCCodecs ==
    {Codec("NONE", 0, 6, FALSE, TRUE), Codec("RLE", 0, 20, TRUE, TRUE),
     Codec("RLE", 1, 8, TRUE, FALSE), Codec("BITMAP", 0, 10, TRUE, FALSE),
     Codec("ADAPTIVE_RLE", 1, 10, TRUE, TRUE), Codec("ADAPTIVE", 0, 20, TRUE, FALSE),
     Codec("ADAPTIVE", 1, 20, TRUE, TRUE)}

\* Groups with ties, with fewer than two weights, with a large negative one.
MCGroups == {<<1, -2, 1, 0>>, <<0, 0, -3, 0>>, <<2, 2, 2, 2>>, <<-3, 1, 2, -1>>}
MCWeights == {<<g, h>> : g \in MCGroups, h \in MCGroups} \cup {<<g \o h>> : g, h \in MCGroups}
MCActivations == {<<<<1, 2, -1>>, <<2, 0, 1>>, <<-1, 1, 3>>, <<1, 1, 1>>>>,
                  <<<<1>>, <<2>>, <<-1>>, <<3>>, <<1>>, <<0>>, <<2>>, <<1>>>>}
MCTiles == {<<1, 2, 3>>, <<2, 1, 2>>, <<3, 4, 9>>, <<1, 1, 1>>}
MCMachines == {[pes |-> p, depth |-> d, busBytes |-> b, groups |-> g] :
                 p \in {1, 4, 64}, d \in {0, 2}, b \in {1, 16}, g \in {1, 4}}

DataInit == AgenInit /\ CodecInit /\ SparseInit
dataVars == <<agenVars, codecVars, sparseVars>>
DataNext(part) ==
    \/ part = "addresses" /\ AgenNext /\ UNCHANGED <<codecVars, sparseVars>>
    \/ part = "weights" /\ CodecNext /\ UNCHANGED <<agenVars, sparseVars>>
    \/ part = "sparsity" /\ SparseNext /\ UNCHANGED <<agenVars, codecVars>>

===============================================================================
