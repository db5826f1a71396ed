--------------------------- MODULE InstrScheduler ---------------------------
(***************************************************************************)
(* The instruction scheduler (isa/tu_scheduler.c): SRAM accesses of each   *)
(* instruction, the dependency graph with its caps, ASAP/ALAP mobility,    *)
(* list scheduling under three policies, and the validation of the result. *)
(*                                                                         *)
(* An instruction has a family of opcodes the scheduler treats alike; the  *)
(* immediates appear as their two halves.  Offsets do not wrap.            *)
(***************************************************************************)
EXTENDS Integers, SequencesExt, FiniteSetsExt

CONSTANTS
    Instructions,   \* the instructions programs are made of
    MaxProgram,     \* bound: length of a program
    MaxInstrs,      \* TU_SCHED_MAX_INSTRS
    MaxDeps,        \* TU_SCHED_MAX_DEPS
    MaxHoist        \* max_hoist_distance

Loads == {"DMA_LOAD", "DMA_LOAD_STRIDED", "DMA_SCATTER", "DMA_BROADCAST"}
Stores == {"DMA_STORE", "DMA_STORE_STRIDED", "DMA_GATHER"}
Computing == {"MMA", "ATTENTION", "CONV", "ELEMENTWISE", "SOFTMAX", "POOL", "REDUCE"}
Barriers == {"BARRIER"}      \* and SYNC, FENCE, HALT
Others == {"GROUP_NORM", "NOP"}

\* tu_instruction_t
SchedInstruction ==
    [op : Loads \cup Stores \cup Computing \cup Barriers \cup Others,
     dim0 : Nat, dim1 : Nat, dim2 : Nat, immLow : Nat, immHigh : Nat, flags : Nat]

ASSUME SchedulerAssumption ==
    /\ Instructions \subseteq SchedInstruction
    /\ MaxProgram \in Nat \ {0} /\ MaxInstrs \in Nat /\ MaxDeps \in Nat
    /\ MaxHoist \in Nat

VARIABLES
    program, policy,  \* what is scheduled and how
    edges,            \* the dependencies <<producer, consumer>> kept
    mobility,         \* asap and alap cycle of every instruction
    counts,           \* num_dma_hoisted and num_barriers_inserted of the result
    remaining,        \* remaining_preds
    ready,            \* ready_queue, whose order no choice depends on
    emitted,          \* positions in the program, in the order they are emitted
    schedPc

schedVars == <<program, policy, edges, mobility, counts, remaining, ready, emitted, schedPc>>

Nodes == DOMAIN program

-----------------------------------------------------------------------------
\* extract_dma_range: the region is named by the flags, an unknown one is W.
Channel(instr) ==
    LET bits == IF instr.op \in {"DMA_LOAD_STRIDED", "DMA_STORE_STRIDED"}
                THEN (instr.flags \div 4) % 4 ELSE instr.flags % 4
    IN  IF bits = 1 THEN "A" ELSE IF bits = 2 THEN "O" ELSE "W"

Touch(kind, bank, lo, size) == [kind |-> kind, bank |-> bank, lo |-> lo, hi |-> lo + size]

DmaAccess(instr) ==
    {Touch(IF instr.op \in Loads THEN "write" ELSE "read", Channel(instr), instr.dim0,
           IF instr.dim1 = 0 THEN 1 ELSE instr.dim1)}

Whole == 2147483647   \* UINT32_MAX in the code: the conservative full range

\* extract_compute_range, by family; it knows group normalization.
ComputeAccess(instr) ==
    LET plane == instr.dim2 * instr.dim1 * 2 IN
    CASE instr.op = "MMA" ->
            {Touch("read", "W", instr.dim0, plane), Touch("read", "A", instr.immLow, plane),
             Touch("write", "O", instr.immHigh, instr.dim0 * instr.dim1 * 4)}
      [] instr.op \in {"ATTENTION", "POOL"} ->
            {Touch("read", "A", instr.dim0, 65536), Touch("write", "O", instr.immHigh, 65536)}
      [] instr.op = "CONV" ->
            {Touch("read", "W", 0, Whole), Touch("read", "A", 0, Whole),
             Touch("write", "O", 0, Whole)}
      [] instr.op = "ELEMENTWISE" ->
            {Touch(kind, "O", instr.dim0, instr.dim1 * 4) : kind \in {"read", "write"}}
      [] instr.op \in {"SOFTMAX", "GROUP_NORM"} ->
            {Touch("read", "A", instr.dim0, instr.dim1 * 4),
             Touch("write", "O", instr.immHigh, instr.dim1 * 4)}
      [] instr.op = "REDUCE" ->
            {Touch("read", "A", instr.dim0, instr.dim1 * 4),
             Touch("write", "O", instr.immHigh, instr.dim2 * 4)}
      [] OTHER -> {}

IsDma(instr) == instr.op \in Loads \cup Stores
IsBarrier(instr) == instr.op \in Barriers

\* tu_sched_analyze_access: is_compute_op leaves group normalization out.
Access(instr) ==
    IF IsDma(instr) THEN DmaAccess(instr)
    ELSE IF instr.op \in Computing THEN ComputeAccess(instr) ELSE {}

\* What an instruction really touches: extract_compute_range decides.
Touches(instr) == IF IsDma(instr) THEN DmaAccess(instr) ELSE ComputeAccess(instr)

Full(a) == a.lo = 0 /\ a.hi = Whole
RangesOverlap(a, b) == Full(a) \/ Full(b) \/ (a.lo < b.hi /\ b.lo < a.hi)

\* Variant: two writes to the same bytes count as independent.
HasDependencyNoWaw(producer, consumer) ==
    \E a \in Access(producer), b \in Access(consumer) :
        a.bank = b.bank /\ a.kind # b.kind /\ RangesOverlap(a, b)

\* has_dependency: read after write, write after read, write after write.
HasDependency(producer, consumer) ==
    \E a \in Access(producer), b \in Access(consumer) :
        /\ a.bank = b.bank
        /\ "write" \in {a.kind, b.kind}
        /\ RangesOverlap(a, b)

-----------------------------------------------------------------------------
\* Whom instruction i waits for, caps aside: a barrier for all before it but
\* barriers; nothing waits for a barrier.
Producers(i) ==
    {j \in 1 .. i - 1 : /\ ~IsBarrier(program[j])
                        /\ IsBarrier(program[i]) \/ HasDependency(program[j], program[i])}

\* Of these, in program order, the ones there is room for on both sides.
Kept(before, i) ==
    LET open == {j \in Producers(i) : Cardinality({e \in before : e[1] = j}) < MaxDeps}
    IN  {j \in open : Cardinality({l \in open : l < j}) < MaxDeps}

\* tu_sched_build_dag adds the edges consumer by consumer.
EdgesUpTo[i \in 0 .. MaxProgram] ==
    IF i = 0 THEN {}
    ELSE EdgesUpTo[i - 1] \cup {<<j, i>> : j \in Kept(EdgesUpTo[i - 1], i)}

Preds(i) == {e[1] : e \in {f \in edges : f[2] = i}}
Succs(i) == {e[2] : e \in {f \in edges : f[1] = i}}

Latency(i) == IF IsDma(program[i]) THEN 1 ELSE 4

\* tu_sched_compute_mobility: forward for ASAP, ...
Asap[i \in 1 .. MaxProgram] ==
    IF Preds(i) = {} THEN 0 ELSE Max({Asap[j] + Latency(j) : j \in Preds(i)})

LastAsap == Max({Asap[i] : i \in Nodes})

\* ... and backward for ALAP, clamped to it.
Alap[i \in 1 .. MaxProgram] ==
    IF Succs(i) = {} THEN LastAsap
    ELSE Max({Asap[i], Min({Alap[j] - Latency(i) : j \in Succs(i)})})

AccessKinds(i) == {a.kind : a \in Access(program[i])}

\* tu_sched_hoist_dma only counts the loads it would move.
Hoistable ==
    {i \in Nodes : /\ IsDma(program[i]) /\ "write" \in AccessKinds(i) /\ Preds(i) # {}
                   /\ i - Min(Preds(i)) - 1 \in 1 .. MaxHoist}

\* tu_sched_insert_barriers only counts the stores a compute waits for.
Fenceable ==
    {i \in Nodes : /\ IsDma(program[i]) /\ "read" \in AccessKinds(i)
                   /\ \E j \in Succs(i) : program[j].op \in Computing}

-----------------------------------------------------------------------------
SchedInit ==
    /\ program \in UNION {[1 .. n -> Instructions] : n \in 1 .. MaxProgram}
    /\ policy \in {"ASAP", "ALAP", "BALANCED"}
    /\ edges = {} /\ mobility = <<>> /\ counts = [hoisted |-> 0, barriers |-> 0]
    /\ remaining = <<>> /\ ready = {} /\ emitted = <<>>
    /\ schedPc = "build"

\* A program that does not fit is refused.
SchedRefuse ==
    /\ schedPc = "build" /\ Len(program) > MaxInstrs
    /\ schedPc' = "refused"
    /\ UNCHANGED <<program, policy, edges, mobility, counts, remaining, ready, emitted>>

SchedBuild ==
    /\ schedPc = "build" /\ Len(program) <= MaxInstrs
    /\ edges' = EdgesUpTo[Len(program)]
    /\ schedPc' = "analyze"
    /\ UNCHANGED <<program, policy, mobility, counts, remaining, ready, emitted>>

\* Mobility and the two counts of tu_sched_run.
SchedAnalyze ==
    /\ schedPc = "analyze"
    /\ mobility' = [i \in Nodes |-> [asap |-> Asap[i], alap |-> Alap[i]]]
    /\ counts' = [hoisted |-> Cardinality(Hoistable), barriers |-> Cardinality(Fenceable)]
    /\ schedPc' = "seed"
    /\ UNCHANGED <<program, policy, edges, remaining, ready, emitted>>

\* list_schedule begins: the counts of the result are lost, and barriers wait
\* even when nothing precedes them.
SchedSeed ==
    /\ schedPc = "seed"
    /\ remaining' = [i \in Nodes |-> Cardinality(Preds(i))]
    /\ ready' = {i \in Nodes : Preds(i) = {} /\ ~IsBarrier(program[i])}
    /\ counts' = [hoisted |-> 0, barriers |-> 0]
    /\ schedPc' = "emit"
    /\ UNCHANGED <<program, policy, edges, mobility, emitted>>

Unscheduled == Nodes \ ToSet(emitted)

\* With nothing ready the first unblocked instruction is taken.
SchedUnblock ==
    /\ schedPc = "emit" /\ ready = {}
    /\ \E i \in Unscheduled :
          /\ remaining[i] = 0
          /\ \A j \in Unscheduled : remaining[j] = 0 => i <= j
          /\ ready' = {i}
    /\ UNCHANGED <<program, policy, edges, mobility, counts, remaining, emitted, schedPc>>

BalancedPriority(i) ==
    IF IsBarrier(program[i]) THEN 0
    ELSE IF "write" \in AccessKinds(i) THEN 3     \* meant for DMA loads
    ELSE IF program[i].op \in Computing THEN 2
    ELSE IF IsDma(program[i]) THEN 1 ELSE 0

Priority(i) ==
    CASE policy = "ASAP" -> 0 - mobility[i].asap
      [] policy = "ALAP" -> mobility[i].alap
      [] OTHER           -> BalancedPriority(i)

\* Variant: a consumer becomes ready with its first producer.
ReleasedEarly(i) == {j \in Succs(i) : remaining[j] >= 1}

\* The consumers whose last producer is i.
Released(i) == {j \in Succs(i) : remaining[j] = 1}

\* The ready instruction of highest priority, the earliest of several.
SchedEmit ==
    \E i \in ready :
        /\ schedPc = "emit"
        /\ \A j \in ready : \/ Priority(j) < Priority(i)
                            \/ Priority(j) = Priority(i) /\ i <= j
        /\ emitted' = Append(emitted, i)
        /\ ready' = (ready \ {i}) \cup Released(i)
        /\ remaining' = [j \in Nodes |-> IF j \in Succs(i) THEN remaining[j] - 1
                                         ELSE remaining[j]]
        /\ UNCHANGED <<program, policy, edges, mobility, counts, schedPc>>

\* list_schedule ends, with everything or stuck.
SchedEnd ==
    /\ schedPc = "emit" /\ ready = {} /\ \A i \in Unscheduled : remaining[i] # 0
    /\ schedPc' = IF Unscheduled = {} THEN "valid" ELSE "stuck"
    /\ UNCHANGED <<program, policy, edges, mobility, counts, remaining, ready, emitted>>

SchedNext ==
    \/ SchedRefuse \/ SchedBuild \/ SchedAnalyze \/ SchedSeed
    \/ SchedUnblock \/ SchedEmit \/ SchedEnd

SchedSpec == SchedInit /\ [][SchedNext]_schedVars

-----------------------------------------------------------------------------
\* tu_sched_validate finds the instructions of the result in the program by
\* opcode, dimensions and flags, each time the first not found yet.
Alike(a, b) == a.op = b.op /\ a.dim0 = b.dim0 /\ a.dim1 = b.dim1 /\ a.flags = b.flags

FoundAt(i) ==    \* the k-th alike instruction of the program is the k-th alike emitted
    LET rank == Cardinality({j \in 1 .. i : Alike(program[j], program[i])})
    IN  CHOOSE p \in DOMAIN emitted :
            /\ Alike(program[emitted[p]], program[i])
            /\ Cardinality({q \in 1 .. p : Alike(program[emitted[q]], program[i])}) = rank

Validated == \A e \in edges : FoundAt(e[1]) < FoundAt(e[2])

-----------------------------------------------------------------------------
\* The meaning of an order of instructions: whose write each of them reads,
\* and whose write is last, at every byte where some range begins.
Points == UNION {{<<a.bank, a.lo>> : a \in Touches(program[i])} : i \in Nodes}
TouchesAt(i, kind, pt) ==
    \E a \in Touches(program[i]) :
        a.kind = kind /\ a.bank = pt[1] /\ a.lo <= pt[2] /\ pt[2] < a.hi

LastWriter(order, n, pt) ==
    Max({0} \cup {p \in 1 .. n : TouchesAt(order[p], "write", pt)})
WriterAt(order, n, pt) ==
    LET p == LastWriter(order, n, pt) IN IF p = 0 THEN 0 ELSE order[p]

Meaning(order) ==
    [reads |-> {<<order[x[1]], x[2], WriterAt(order, x[1] - 1, x[2])>> :
                   x \in {y \in (DOMAIN order) \X Points :
                              TouchesAt(order[y[1]], "read", y[2])}},
     final |-> {<<pt, WriterAt(order, Len(order), pt)>> : pt \in Points}]

\* No dependency was dropped for lack of room.
Untruncated == \A i \in Nodes : Producers(i) = Preds(i)

\* The graph is bounded and points forward, and what is left to wait for is
\* counted exactly.
SchedTypeOK ==
    /\ edges \subseteq Nodes \X Nodes
    /\ \A e \in edges : e[1] < e[2]
    /\ \A i \in Nodes : Cardinality(Preds(i)) <= MaxDeps /\ Cardinality(Succs(i)) <= MaxDeps
    /\ counts \in [hoisted : Nat, barriers : Nat]
    /\ ready \subseteq Nodes /\ emitted \in Seq(Nodes)
    /\ schedPc \in {"build", "analyze", "seed", "emit", "valid", "stuck", "refused"}
    /\ schedPc = "emit" =>
          \A i \in Unscheduled : remaining[i] = Cardinality(Preds(i) \ ToSet(emitted))

\* No group normalization, of which the analysis sees no access.
AccessesSeen == \A i \in Nodes : program[i].op # "GROUP_NORM"

\* The reordered program computes what the original does, as long as no
\* instruction has more dependencies than the graph holds.
ScheduleKeepsMeaning ==
    schedPc = "valid" /\ Untruncated /\ AccessesSeen =>
        Meaning(emitted) = Meaning([i \in Nodes |-> i])

\* A barrier stays behind all instructions before it.
BarriersHold ==
    schedPc = "valid" /\ Untruncated =>
        \A p, q \in DOMAIN emitted :
            IsBarrier(program[emitted[q]]) /\ ~IsBarrier(program[emitted[p]])
            /\ emitted[p] < emitted[q] => p < q

\* List scheduling never gets stuck and emits every instruction once.
ScheduleCompletes ==
    /\ schedPc # "stuck"
    /\ schedPc = "valid" => /\ Len(emitted) = Len(program)
                            /\ ToSet(emitted) = Nodes

\* The cycles leave every dependency its producer's latency on both sides, so
\* the clamp of ALAP to ASAP never distorts it.
MobilityConsistent ==
    mobility # <<>> =>
        \A e \in edges :
            /\ mobility[e[1]].asap + Latency(e[1]) <= mobility[e[2]].asap
            /\ mobility[e[1]].alap + Latency(e[1]) <= mobility[e[2]].alap

\* tu_sched_validate accepts what the scheduler emits, if it can tell the
\* instructions of the program apart.
ValidatorAccepts ==
    schedPc = "valid" /\ (\A i, j \in Nodes : Alike(program[i], program[j]) => i = j)
        => Validated

\* What tu_sched_run emits is a faithful reordering: it computes what the program
\* does, barriers hold, and the graph it was read from never left its bounds.
ScheduleFaithful == SchedTypeOK /\ ScheduleKeepsMeaning /\ BarriersHold

\* The passes agree with each other: list scheduling ends with everything
\* emitted, both mobilities leave room for every latency, and the validation
\* accepts what the scheduling emitted.
ScheduleSound == ScheduleCompletes /\ MobilityConsistent /\ ValidatorAccepts

=============================================================================
