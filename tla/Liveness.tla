------------------------------ MODULE Liveness ------------------------------
(***************************************************************************)
(* The scratchpad allocator (isa/tu_liveness.c): virtual registers out of  *)
(* a program's writes and reads, their interference, greedy colouring with *)
(* spilling, and the program rewritten with fills and spills.              *)
(*                                                                         *)
(* An instruction has a family of opcodes the allocator treats alike; its  *)
(* immediates appear as their two halves.  Bytes count modulo WordModulus  *)
(* (2^32).                                                                 *)
(***************************************************************************)
EXTENDS Integers, SequencesExt, FiniteSetsExt

CONSTANTS
    LiveInstrs,     \* the instructions programs are made of
    MaxLength,      \* bound: length of a program
    LiveConfigs,    \* tu_live_config_t values
    MaxVregs,       \* TU_LIVE_MAX_VREGS
    MaxOut,         \* TU_SCHED_MAX_INSTRS * 2
    WordModulus,    \* 2^32
    HalfModulus     \* 2^16: the width of dim0, dim1 and half an immediate

Regions == {"W", "A", "O"}
Families == {"LOAD", "STORE", "MMA", "SPARSE_MMA", "ADD", "RELU", "SOFTMAX", "CONV",
             "ATTENTION", "LATE", "NONE"}   \* LATE: any other from LAYER_NORM on

\* tu_instruction_t
Instruction ==
    [op : Families, region : Regions, dim0 : 0 .. HalfModulus - 1,
     dim1 : 0 .. HalfModulus - 1, dim2 : 0 .. HalfModulus - 1,
     immLow : 0 .. HalfModulus - 1, immHigh : 0 .. HalfModulus - 1]

\* tu_live_config_t; the step of the search is what is left of the allocation
\* strategy, which searches again byte by byte when it is the best fit.
LiveConfig ==
    [capacity : [Regions -> 0 .. WordModulus - 1], margin : 0 .. WordModulus - 1,
     step : {4, 16}, retries : BOOLEAN, spilling : BOOLEAN,
     victims : {"FIFO", "LRU", "LARGEST", "LEAST_ACCESSED"}]

ASSUME LivenessAssumption ==
    /\ LiveInstrs \subseteq Instruction /\ LiveConfigs \subseteq LiveConfig
    /\ MaxLength \in Nat \ {0} /\ MaxVregs \in Nat /\ MaxOut \in Nat
    /\ HalfModulus \in Nat \ {0} /\ WordModulus \in Nat /\ WordModulus > HalfModulus

Unplaced == WordModulus - 1   \* UINT32_MAX, as an offset and as a full range

VARIABLES
    liveCode, liveConfig,
    vregs,          \* result->vregs, in the order they are found
    order,          \* the vregs of each region's graph, by position in vregs
    conflicts,      \* interference: pairs of positions in vregs
    next,           \* analysis, colouring and rewriting are at this position
    spills,         \* num_spills and spill_bytes
    output,         \* the rewritten instructions
    usage, peak,    \* w_usage and the rest, and their peaks
    livePc

liveVars == <<liveCode, liveConfig, vregs, order, conflicts, next, spills, output, usage,
              peak, livePc>>

-----------------------------------------------------------------------------
Operand(region, start, size) ==
    [region |-> region, start |-> start, size |-> size % WordModulus]

Transfer(instr) ==
    Operand(instr.region, instr.dim0, IF instr.dim1 = 0 THEN 1 ELSE instr.dim1)

\* extract_vreg_def: what an instruction writes, as a sequence of at most one.
\* Everything from LAYER_NORM on that is no load counts as a write of O: pools,
\* layout and sparse operations, and the stores too.
Defines(instr) ==
    CASE instr.op = "LOAD" -> <<Transfer(instr)>>
      [] instr.op \in {"MMA", "SPARSE_MMA"} ->
            <<Operand("O", instr.immHigh, instr.dim0 * instr.dim1 * 4)>>
      [] instr.op \in {"ADD", "RELU"} -> <<Operand("O", instr.dim0, instr.dim1 * 4)>>
      [] instr.op \in {"SOFTMAX", "LATE", "STORE"} ->
            <<Operand("O", instr.immHigh, instr.dim1 * 4)>>
      [] instr.op = "CONV"      -> <<Operand("O", 0, WordModulus - 1)>>
      [] instr.op = "ATTENTION" -> <<Operand("O", instr.immHigh, HalfModulus)>>
      [] OTHER -> <<>>

\* extract_vreg_uses: what it reads.  The same comparison makes loads and all
\* late operations readers of A; sums, convolution and attention read nothing.
Uses(instr) ==
    CASE instr.op = "STORE" -> <<Transfer(instr)>>
      [] instr.op \in {"MMA", "SPARSE_MMA"} ->
            <<Operand("W", instr.dim0, instr.dim2 * instr.dim1 * 2),
              Operand("A", instr.immLow, instr.dim2 * instr.dim1 * 2)>>
      [] instr.op = "RELU" -> <<Operand("O", instr.dim0, instr.dim1 * 4)>>
      [] instr.op \in {"SOFTMAX", "LATE", "LOAD"} ->
            <<Operand("A", instr.dim0, instr.dim1 * 4)>>
      [] OTHER -> <<>>

NewVreg(operand, def, i) ==
    [region |-> operand.region, size |-> operand.size, def |-> def, last |-> i,
     spilled |-> FALSE, count |-> 1, offset |-> Unplaced]

\* A definition is a new virtual register, lost when there are MaxVregs.
AddVreg(vs, v) == IF Len(vs) < MaxVregs THEN Append(vs, v) ELSE vs

\* The definitions of a region a use may belong to.
Owners(vs, region, i) == {p \in DOMAIN vs : vs[p].region = region /\ vs[p].def >= 0}

\* Variant: a use extends the oldest definition.
AddUseOldest(vs, operand, i) ==
    LET owners == Owners(vs, operand.region, i) IN
    IF owners = {} THEN AddVreg(vs, NewVreg(operand, -1, i))
    ELSE [vs EXCEPT ![Min(owners)].last = Max({@, i}), ![Min(owners)].count = @ + 1]

\* A use extends the newest of them, or is a register of its own that nothing
\* defines.
AddUse(vs, operand, i) ==
    LET owners == Owners(vs, operand.region, i) IN
    IF owners = {} THEN AddVreg(vs, NewVreg(operand, -1, i))
    ELSE [vs EXCEPT ![Max(owners)].last = Max({@, i}), ![Max(owners)].count = @ + 1]

\* find_or_create_vreg for the definition, then for the at most two uses, of
\* instruction i (instructions count from 0, as first_def and last_use do).
AddDefinition(vs, instr, i) ==
    IF Defines(instr) = <<>> THEN vs ELSE AddVreg(vs, NewVreg(Defines(instr)[1], i, i))
AddUseAt(vs, instr, k, i) == IF k \in DOMAIN Uses(instr) THEN AddUse(vs, Uses(instr)[k], i) ELSE vs

Analyzed(vs, instr, i) == AddUseAt(AddUseAt(AddDefinition(vs, instr, i), instr, 1, i), instr, 2, i)

InstrAt(i) == liveCode[i + 1]

-----------------------------------------------------------------------------
LiveInit ==
    /\ liveCode \in UNION {[1 .. n -> LiveInstrs] : n \in 1 .. MaxLength}
    /\ liveConfig \in LiveConfigs
    /\ vregs = <<>> /\ order = [r \in Regions |-> <<>>] /\ conflicts = [r \in Regions |-> {}]
    /\ next = 0 /\ spills = [num |-> 0, bytes |-> 0]
    /\ output = <<>> /\ usage = [r \in Regions |-> 0] /\ peak = [r \in Regions |-> 0]
    /\ livePc = "analyze"

\* tu_live_analyze, one instruction
LiveAnalyze ==
    /\ livePc = "analyze" /\ next < Len(liveCode)
    /\ vregs' = Analyzed(vregs, InstrAt(next), next)
    /\ next' = next + 1
    /\ UNCHANGED <<liveCode, liveConfig, order, conflicts, spills, output, usage, peak, livePc>>

\* Two live ranges of definitions that meet.
RangesMeet(u, v) == u.def >= 0 /\ v.def >= 0 /\ u.def <= v.last /\ v.def <= u.last

\* The members of a finite set S as a sequence, p behind those in below[p].
InOrder(S, below) ==
    [i \in 1 .. Cardinality(S) |-> CHOOSE p \in S : Cardinality(below[p]) = i - 1]

\* The same by number.
Ascending(S) == InOrder(S, [p \in S |-> {q \in S : q < p}])

\* tu_live_build_interference: the matrix is over places in the region's list.
LiveBuild ==
    /\ livePc = "analyze" /\ next = Len(liveCode)
    /\ LET listed == [r \in Regions |->
                         Ascending({p \in DOMAIN vregs : vregs[p].region = r})]
       IN  /\ order' = listed
           /\ conflicts' = [r \in Regions |->
                 {c \in (DOMAIN listed[r]) \X (DOMAIN listed[r]) :
                     c[1] # c[2] /\ RangesMeet(vregs[listed[r][c[1]]], vregs[listed[r][c[2]]])}]
    /\ livePc' = "sort" /\ next' = 1
    /\ UNCHANGED <<liveCode, liveConfig, vregs, spills, output, usage, peak>>

\* tu_live_color sorts each list, stably, by first definition, and leaves the
\* matrix as it is.
LiveSort ==
    /\ livePc = "sort"
    /\ order' = [r \in Regions |->
                    InOrder(ToSet(order[r]), [p \in ToSet(order[r]) |->
                        {q \in ToSet(order[r]) :
                            \/ vregs[q].def < vregs[p].def
                            \/ vregs[q].def = vregs[p].def /\ q < p}])]
    /\ livePc' = "color"
    /\ UNCHANGED <<liveCode, liveConfig, vregs, conflicts, next, spills, output, usage, peak>>

\* The places of the three lists, in the order they are coloured.
PlacesIn(r) == [i \in 1 .. Len(order[r]) |-> <<r, i>>]
Places == PlacesIn("W") \o PlacesIn("A") \o PlacesIn("O")

\* physical_conflict of the register at place i of region r
PhysicalConflict(r, i, offset) ==
    \E j \in DOMAIN order[r] :
        LET v == vregs[order[r][i]]
            o == vregs[order[r][j]]
        IN  /\ <<i, j>> \in conflicts[r] /\ o.offset # Unplaced
            /\ offset < o.offset + o.size /\ o.offset < offset + v.size

\* region_capacity less the margin, as an unsigned number.
Room(r) == (liveConfig.capacity[r] - liveConfig.margin) % WordModulus

\* The offsets the search with this step would accept.
FreeOffsets(r, i, step) ==
    {offset \in 0 .. Room(r) : /\ offset % step = 0
                               /\ offset + vregs[order[r][i]].size <= Room(r)
                               /\ ~PhysicalConflict(r, i, offset)}

\* select_spill_victim: a register neither spilled nor placed, the first with
\* the best score; the first of the list when there is none.
Score(p) ==
    CASE liveConfig.victims = "FIFO"    -> WordModulus - 1 - p
      [] liveConfig.victims = "LRU"     -> WordModulus - 1 - vregs[p].last
      [] liveConfig.victims = "LARGEST" -> vregs[p].size
      [] OTHER                          -> WordModulus - 1 - vregs[p].count

Victim(r) ==
    LET open == {i \in DOMAIN order[r] : /\ ~vregs[order[r][i]].spilled
                                         /\ vregs[order[r][i]].offset = Unplaced
                                         /\ Score(order[r][i]) > 0}
        best == {i \in open : \A j \in open : Score(order[r][j]) <= Score(order[r][i])}
    IN  order[r][IF open = {} THEN 1 ELSE Min(best)]

\* The step of the search, and the step of a second search.
Offsets(r, i) ==
    LET first == FreeOffsets(r, i, liveConfig.step) IN
    IF first = {} /\ liveConfig.spilling /\ liveConfig.retries THEN FreeOffsets(r, i, 1)
    ELSE first

ColorNext == livePc = "color" /\ next <= Len(Places)
ColorPlace(vs) ==
    /\ vregs' = vs
    /\ next' = next + 1
    /\ UNCHANGED <<liveCode, liveConfig, order, conflicts, output, usage, peak, livePc>>

\* A register nothing defines stands at offset 0, one that fits at the lowest
\* free offset, and without spilling the others at 0 as well.
LivePlace ==
    /\ ColorNext
    /\ LET r == Places[next][1]
           i == Places[next][2]
           p == order[r][i]
       IN  /\ vregs[p].def < 0 \/ Offsets(r, i) # {} \/ ~liveConfig.spilling
           /\ ColorPlace([vregs EXCEPT ![p].offset =
                 IF vregs[p].def >= 0 /\ Offsets(r, i) # {} THEN Min(Offsets(r, i)) ELSE 0])
    /\ UNCHANGED spills

\* Variant: the victim alone is spilled.
ToSpillVictim(w, p) == IF vregs[w].spilled THEN <<p>> ELSE <<w>>

\* The victim, unless it is spilled already, and register p: spilling the
\* victim frees nothing, since it has no place, and the search fails again.
ToSpill(w, p) == IF vregs[w].spilled THEN <<p>> ELSE <<w, p>>

\* Both are counted, even when they are the same.
LiveSpill ==
    /\ ColorNext
    /\ LET r == Places[next][1]
           i == Places[next][2]
           p == order[r][i]
           victims == ToSpill(Victim(r), p)
       IN  /\ vregs[p].def >= 0 /\ Offsets(r, i) = {} /\ liveConfig.spilling
           /\ spills' = [num |-> spills.num + Len(victims),
                         bytes |-> (spills.bytes + SumFunction([k \in DOMAIN victims |->
                                        vregs[victims[k]].size])) % WordModulus]
           /\ ColorPlace([q \in DOMAIN vregs |->
                 [vregs[q] EXCEPT !.spilled = @ \/ q \in ToSet(victims)]])

LiveColored ==
    /\ livePc = "color" /\ next > Len(Places)
    /\ livePc' = "apply" /\ next' = 0
    /\ UNCHANGED <<liveCode, liveConfig, vregs, order, conflicts, spills, output, usage, peak>>

-----------------------------------------------------------------------------
\* find_def_vreg: the first register defined by instruction i, if any.
DefAt(i) == {p \in DOMAIN vregs : vregs[p].def = i
                                  /\ \A q \in DOMAIN vregs : vregs[q].def = i => p <= q}

LiveAt(i, region) ==
    {p \in DOMAIN vregs : vregs[p].region = region /\ vregs[p].def \in 0 .. i
                          /\ i <= vregs[p].last}

Narrow(offset) == offset % HalfModulus

\* The operand of a matrix product is the newest register alive.
OperandAt(i, region, own) ==
    IF LiveAt(i, region) = {} THEN own ELSE Narrow(vregs[Max(LiveAt(i, region))].offset)

\* patch_instruction: an instruction whose own register has no place keeps its
\* operands, and so do all families but these; dim0 and the immediate's halves.
Patched(i) ==
    LET instr == InstrAt(i)
        own == [kind |-> "instr", i |-> i, dim0 |-> instr.dim0, low |-> instr.immLow,
                high |-> instr.immHigh]
        at == {vregs[p].offset : p \in DefAt(i)} \ {Unplaced}
        offset == CHOOSE x \in at : TRUE
        region == Defines(instr)[1].region
    IN  IF at = {} THEN own
        ELSE IF instr.op = "MMA"
        THEN [own EXCEPT !.high = IF region = "O" THEN Narrow(offset) ELSE @,
                         !.low = OperandAt(i, "A", @), !.dim0 = OperandAt(i, "W", @)]
        ELSE IF instr.op = "RELU" \/ (instr.op = "LOAD" /\ region # "O")
        THEN [own EXCEPT !.dim0 = Narrow(offset)] ELSE own

Spilled == {p \in DOMAIN vregs : vregs[p].spilled}

\* make_fill_instr and make_spill_instr for the registers ps, as long as a
\* place is left for an instruction.
Capped(out, kind, ps) ==
    LET free == MaxOut - 1 - Len(out)
        n == Min({Cardinality(ps), Max({free, 0})})
    IN  out \o [k \in 1 .. n |-> [kind |-> kind, vreg |-> Ascending(ps)[k]]]

\* The highest byte in use; an unspilled register that dies empties A or O,
\* whatever else is there.
UsedBy(i) ==
    [r \in Regions |-> Max({usage[r]} \cup
        {(vregs[p].offset + vregs[p].size) % WordModulus :
            p \in {q \in DefAt(i) : vregs[q].region = r /\ vregs[q].offset # Unplaced}})]
DyingAt(i) == {vregs[p].region : p \in {q \in DOMAIN vregs \ Spilled : vregs[q].last = i}}

\* Variant: no fill before the last use.
DueFillsInside(i) == {p \in Spilled : vregs[p].def < i /\ i < vregs[p].last}

\* The registers that instruction i may read and that are not in the SRAM.
DueFills(i) == {p \in Spilled : vregs[p].def < i /\ i <= vregs[p].last}

\* tu_live_apply, one instruction: fills for what it may read, the instruction,
\* and the spill of what it is the last to use.
LiveApply ==
    /\ livePc = "apply" /\ next < Len(liveCode) /\ Len(output) < MaxOut
    /\ LET filled == Append(Capped(output, "fill", DueFills(next)), Patched(next))
       IN  output' = Capped(filled, "spill", {p \in Spilled : vregs[p].last = next})
    /\ peak' = [r \in Regions |-> Max({peak[r], UsedBy(next)[r]})]
    /\ usage' = [r \in Regions |-> IF r \in DyingAt(next) \ {"W"} THEN 0 ELSE UsedBy(next)[r]]
    /\ next' = next + 1
    /\ UNCHANGED <<liveCode, liveConfig, vregs, order, conflicts, spills, livePc>>

\* Instructions that no longer fit are dropped and the result is valid.
LiveEnd ==
    /\ livePc = "apply" /\ (next = Len(liveCode) \/ Len(output) >= MaxOut)
    /\ livePc' = "allocated"
    /\ UNCHANGED <<liveCode, liveConfig, vregs, order, conflicts, next, spills, output,
                   usage, peak>>

LiveNext ==
    \/ LiveAnalyze \/ LiveBuild \/ LiveSort \/ LivePlace \/ LiveSpill \/ LiveColored
    \/ LiveApply \/ LiveEnd

LiveSpec == LiveInit /\ [][LiveNext]_liveVars

-----------------------------------------------------------------------------
Colored == livePc \in {"apply", "allocated"}
Defined(p) == vregs[p].def >= 0
Placed(p) == Defined(p) /\ vregs[p].offset # Unplaced
FitsRoom(p) == vregs[p].offset + vregs[p].size <= Room(vregs[p].region)

\* Two registers of one region are never alive together, since a read always
\* belongs to the newest definition and every definition is a new register: the
\* matrix stays empty, and what fits is placed at offset 0 (find_or_create_vreg,
\* tu_live_build_interference, tu_live_color).
NeverMeet ==
    /\ \A p, q \in DOMAIN vregs :
          vregs[p].region = vregs[q].region /\ vregs[p].def < vregs[q].def
          /\ Defined(p) => vregs[p].last < vregs[q].def
    /\ \A r \in Regions : conflicts[r] = {}
    /\ Colored => \A p \in DOMAIN vregs : Placed(p) => vregs[p].offset = 0

\* With spilling, nothing is placed or ever in use beyond the region less its
\* margin, whatever wraps (tu_live_color, tu_live_apply).
PlacedInside ==
    Colored /\ liveConfig.spilling =>
        /\ \A p \in DOMAIN vregs : Placed(p) => FitsRoom(p)
        /\ \A r \in Regions : peak[r] <= Room(r)

\* A read keeps alive the definition it is served from: the newest before it,
\* unless the reader itself redefines the region (find_or_create_vreg).
ReadsKeptLive ==
    livePc # "analyze" /\ Len(vregs) < MaxVregs =>
        \A i \in 0 .. Len(liveCode) - 1 : \A k \in DOMAIN Uses(InstrAt(i)) :
            LET region == Uses(InstrAt(i))[k].region
                earlier == {p \in DOMAIN vregs : vregs[p].region = region
                                                  /\ vregs[p].def \in 0 .. i - 1}
                redefined == \E p \in DOMAIN vregs : vregs[p].region = region
                                                     /\ vregs[p].def = i
            IN  earlier # {} /\ ~redefined => vregs[Max(earlier)].last >= i

\* Sorting the lists never moves a register: the matrix stays about the places
\* it was built for (tu_live_build_interference, tu_live_color).
SortKeepsPlaces ==
    \A r \in Regions : \A i, j \in DOMAIN order[r] : i < j => order[r][i] < order[r][j]

\* With spilling every defined register is placed or spilled, and each spilled
\* one is counted (tu_live_color).
NothingUnaccounted ==
    Colored =>
        /\ liveConfig.spilling => \A p \in DOMAIN vregs : Defined(p) =>
                                      Placed(p) \/ vregs[p].spilled
        /\ Cardinality(Spilled) <= spills.num

\* The rewritten program never overruns the output, and is the program with
\* fills and spills between, cut where the output was full (tu_live_apply).
KeepsProgram ==
    /\ Len(output) <= MaxOut
    /\ LET kept == {k \in DOMAIN output : output[k].kind = "instr"}
       IN  /\ \A k \in kept : output[k].i = 0 \/ \E j \in kept : j < k /\ output[j].i = output[k].i - 1
           /\ \A j, k \in kept : j < k => output[j].i < output[k].i
           /\ livePc = "allocated" => \/ \A i \in 0 .. Len(liveCode) - 1 : \E k \in kept : output[k].i = i
                                      \/ Len(output) = MaxOut

\* Between any two instructions that use a spilled register stands a fill of
\* it, unless the output has run full (tu_live_apply).
FilledBeforeUse ==
    livePc = "allocated" /\ Len(output) < MaxOut - 1 =>
        \A p \in Spilled : \A i \in vregs[p].def + 1 .. vregs[p].last :
            \E f, u \in DOMAIN output :
                /\ f < u /\ output[u].kind = "instr" /\ output[u].i = i
                /\ output[f] = [kind |-> "fill", vreg |-> p]
                /\ \A k \in f .. u - 1 : output[k].kind = "fill"

NewestBefore(region, i) ==
    LET earlier == {p \in DOMAIN vregs : vregs[p].region = region /\ vregs[p].def \in 0 .. i - 1}
    IN  IF earlier = {} THEN {} ELSE {Max(earlier)}

\* A matrix product whose output is placed reads W and A where the newest
\* definitions of them were placed (patch_instruction).
ProductsFollow ==
    Len(vregs) < MaxVregs =>
        \A k \in DOMAIN output :
            output[k].kind = "instr" /\ InstrAt(output[k].i).op = "MMA"
            /\ (\E p \in DefAt(output[k].i) : Placed(p)) =>
                /\ \A p \in NewestBefore("W", output[k].i) :
                      output[k].dim0 = Narrow(vregs[p].offset)
                /\ \A p \in NewestBefore("A", output[k].i) :
                      output[k].low = Narrow(vregs[p].offset)

Vreg == [region : Regions, size : 0 .. WordModulus - 1, def : -1 .. MaxLength - 1,
         last : 0 .. MaxLength - 1, spilled : BOOLEAN, count : Nat,
         offset : 0 .. WordModulus - 1]

\* The allocator's state keeps its types.
LiveTypeOK ==
    /\ vregs \in Seq(Vreg) /\ Len(vregs) <= MaxVregs
    /\ \A p \in DOMAIN vregs : vregs[p].def <= vregs[p].last
    /\ \A r \in Regions : \A i \in DOMAIN order[r] : vregs[order[r][i]].region = r
    /\ spills \in [num : Nat, bytes : 0 .. WordModulus - 1]
    /\ usage \in [Regions -> 0 .. WordModulus - 1] /\ peak \in [Regions -> 0 .. WordModulus - 1]
    /\ livePc \in {"analyze", "sort", "color", "apply", "allocated"}

\* Live ranges and places agree: what is read is alive, what is alive together
\* does not share bytes, and what has no place is spilled and counted.
PlacementSound ==
    /\ LiveTypeOK
    /\ NeverMeet /\ PlacedInside
    /\ ReadsKeptLive /\ SortKeepsPlaces
    /\ NothingUnaccounted

\* The rewritten program is the old one with its operands moved: nothing lost
\* before the output is full, nothing spilled used unfilled, nothing read from
\* where it no longer is.
PatchesKeepMeaning == KeepsProgram /\ FilledBeforeUse /\ ProductsFollow

=============================================================================
