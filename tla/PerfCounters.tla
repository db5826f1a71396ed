------------------------------ MODULE PerfCounters ------------------------------
(* The performance counters (perf/performance_counters.c): what each recording *)
(* call adds, the cycle count they all advance, energy, snapshots, their       *)
(* difference and the merge of one core's counters into another's.             *)
(*                                                                             *)
(* Counters do not wrap here; energies are integers; the derived ratios and    *)
(* the reports are left out.                                                   *)
EXTENDS Integers, Sequences, FiniteSets, FiniteSetsExt

CONSTANTS
    PerfChannels,   \* DMA channels with a counter of their own (8)
    Pj,             \* [mac, sramRead, sramWrite, dram, dmaByte, leak]
    PerfCalls,      \* the recording calls made, as [call, ...] records
    MaxRecords      \* bound on the calls

Channels8 == 0..(PerfChannels - 1)

\* Transfers name a channel that has a counter, as every channel of the engine
\* has (TU_DMA_ENGINE_MAX_CHANNELS), and no more tiles are at an edge than ran.
CallTypes ==
    [call : {"read"}, bytes : Nat, active : Nat, stall : Nat, ch : Channels8, type : Nat]
    \cup [call : {"write"}, bytes : Nat, active : Nat, stall : Nat, ch : Channels8]
    \cup [call : {"internal"}, bytes : Nat, active : Nat, ch : Channels8]
    \cup [call : {"mma"}, macs : Nat, tiles : Nat, edge : Nat, active : Nat, stall : Nat,
          type : Nat, flow : Nat]
    \cup [call : {"op"}, code : Nat, active : Nat, stall : Nat, flops : Nat]
    \cup [call : {"idle", "tick"}, cycles : Nat]
    \cup [call : {"bubble"}, count : Nat]
    \cup [call : {"spad"}, isWrite : BOOLEAN, words : Nat, conflicts : Nat, stall : Nat]
    \cup [call : {"gbuf"}, isWrite : BOOLEAN, words : Nat, conflicts : Nat]
    \cup [call : {"dram"}, isWrite : BOOLEAN, bytes : Nat, hit : BOOLEAN, stall : Nat]
    \cup [call : {"regfile"}, isWrite : BOOLEAN, words : Nat]
    \cup [call : {"descriptor"}, bytes : Nat, ch : Channels8, type : Nat, isRead : BOOLEAN,
          active : Nat, stall : Nat, sramStall : Nat]

ASSUME PerfAssumption ==
    /\ PerfChannels \in Nat
    /\ Pj \in [mac : Nat, sramRead : Nat, sramWrite : Nat, dram : Nat, dmaByte : Nat, leak : Nat]
    /\ PerfCalls \subseteq CallTypes
    /\ \A r \in PerfCalls : r.call = "mma" => r.edge <= r.tiles

VARIABLES
    perf,       \* the counters
    snapshot,   \* tu_perf_snapshot, or NoSnapshot
    current_since, \* whether the counters were only added to since the snapshot
    records     \* calls made, a bound

perfVars == <<perf, snapshot, current_since, records>>

DmaCounters == {"dma_read_bytes", "dma_write_bytes", "dma_internal_bytes", "dma_read_cycles",
    "dma_write_cycles", "dma_stall_cycles"}
TransferCounters == <<"dma_transfers_linear", "dma_transfers_strided_2d",
    "dma_transfers_strided_3d", "dma_transfers_scatter", "dma_transfers_gather",
    "dma_transfers_multicast">>
ComputeCounters == {"compute_total_cycles", "compute_active_cycles", "compute_stall_cycles",
    "compute_idle_cycles", "compute_pipeline_bubbles", "total_macs", "total_flops",
    "total_tiles", "edge_tiles", "full_tiles"}
OpCounters == {"op_mma_fp16", "op_mma_bf16", "op_mma_int8", "op_mma_fp8", "op_conv2d",
    "op_attention", "op_elementwise", "op_softmax", "op_layernorm", "op_rmsnorm",
    "op_pool_max", "op_pool_avg", "op_other"}
MemoryCounters == {"mem_reqfile_reads", "mem_reqfile_writes", "mem_spad_reads",
    "mem_spad_writes", "mem_spad_bank_conflicts", "mem_spad_stall_cycles", "mem_gbuf_reads",
    "mem_gbuf_writes", "mem_dram_reads", "mem_dram_writes", "mem_dram_stall_cycles",
    "mem_dram_bytes_read", "mem_dram_bytes_written"}
EnergyCounters == {"energy_mac", "energy_sram_read", "energy_sram_write", "energy_dram",
    "energy_dma", "energy_leakage"}

\* What tu_perf_diff and tu_perf_merge carry over, and what neither does.
CarriedCounters == DmaCounters \cup {TransferCounters[i] : i \in 1..6} \cup ComputeCounters
    \cup OpCounters \cup MemoryCounters \cup EnergyCounters \cup {"total_cycles"}
LeftCounters == {"df_ws_cycles", "df_os_cycles", "mem_gbuf_bank_conflicts",
    "mem_dram_row_hits", "mem_dram_row_misses"}

NoSnapshot == <<>>

\* tu_perf_init.
PerfZero ==
    [n |-> [c \in CarriedCounters \cup LeftCounters |-> 0],
     bytes |-> [c \in Channels8 |-> 0], stalls |-> [c \in Channels8 |-> 0],
     enabled |-> TRUE, power |-> TRUE]

Bump(p, add) ==
    [p EXCEPT !.n = [c \in DOMAIN @ |-> @[c] + (IF c \in DOMAIN add THEN add[c] ELSE 0)]]

\* One counter by n.
Once(counter, n) == [c \in {counter} |-> n]

Energy(p, add) == IF p.power THEN Bump(p, add) ELSE p

Tick(p, cycles) ==
    IF ~p.enabled THEN p
    ELSE Energy(Bump(p, [total_cycles |-> cycles]), [energy_leakage |-> Pj.leak * cycles])

OnChannel(p, ch, bytes, stall) ==
    IF ch \in Channels8 THEN [p EXCEPT !.bytes[ch] = @ + bytes, !.stalls[ch] = @ + stall] ELSE p

-------------------------------------------------------------------------------
(* The recording calls, as functions of the counters.                         *)

\* A type the switch does not know is counted nowhere.
Transferred(type) ==
    IF type + 1 \in DOMAIN TransferCounters THEN Once(TransferCounters[type + 1], 1)
    ELSE Once("total_cycles", 0)

\* Counts the bytes in the total and forgets the channel they moved on.
RecordReadNoChannel(p, bytes, active, stall, ch, type) ==
    IF ~p.enabled THEN p
    ELSE Energy(Tick(Bump(Bump(p, [dma_read_bytes |-> bytes, dma_read_cycles |-> active,
                                   dma_stall_cycles |-> stall]),
                          Transferred(type)),
                     active + stall),
                [energy_dma |-> Pj.dmaByte * bytes, energy_dram |-> Pj.dram * active])

RecordRead(p, bytes, active, stall, ch, type) ==
    IF ~p.enabled THEN p
    ELSE Energy(Tick(Bump(Bump(OnChannel(p, ch, bytes, stall),
                               [dma_read_bytes |-> bytes, dma_read_cycles |-> active,
                                dma_stall_cycles |-> stall]),
                          Transferred(type)),
                     active + stall),
                [energy_dma |-> Pj.dmaByte * bytes, energy_dram |-> Pj.dram * active])

RecordWrite(p, bytes, active, stall, ch) ==
    IF ~p.enabled THEN p
    ELSE Energy(Tick(Bump(OnChannel(p, ch, bytes, stall),
                          [dma_write_bytes |-> bytes, dma_write_cycles |-> active,
                           dma_stall_cycles |-> stall]),
                     active + stall),
                [energy_dma |-> Pj.dmaByte * bytes])

RecordInternal(p, bytes, active, ch) ==
    IF ~p.enabled THEN p
    ELSE Tick(Bump(OnChannel(p, ch, bytes, 0),
                   [dma_internal_bytes |-> bytes, dma_read_cycles |-> active]), active)

PrecisionOp(type) ==
    CASE type = 2 -> "op_mma_bf16" [] type = 3 -> "op_mma_int8"
      [] type = 4 -> "op_mma_fp8" [] OTHER -> "op_mma_fp16"

RecordMma(p, macs, tiles, edge, active, stall, precision, dataflow) ==
    IF ~p.enabled THEN p
    ELSE Energy(Tick(Bump(Bump(Bump(p,
                    [total_macs |-> macs, total_flops |-> 2 * macs, total_tiles |-> tiles,
                     edge_tiles |-> edge, full_tiles |-> tiles - edge,
                     compute_active_cycles |-> active, compute_stall_cycles |-> stall,
                     compute_total_cycles |-> active + stall]),
                    Once(IF dataflow = 0 THEN "df_ws_cycles" ELSE "df_os_cycles", active)),
                    Once(PrecisionOp(precision), 1)),
                     active + stall),
                [energy_mac |-> Pj.mac * macs])

OpOf(code) ==
    CASE code = 1 -> "op_mma_fp16" [] code = 2 -> "op_conv2d" [] code = 3 -> "op_attention"
      [] code = 4 -> "op_elementwise" [] code = 6 -> "op_softmax" [] code = 7 -> "op_layernorm"
      [] code = 8 -> "op_rmsnorm" [] code = 9 -> "op_pool_max" [] code = 10 -> "op_pool_avg"
      [] OTHER -> "op_other"

RecordOp(p, code, active, stall, flops) ==
    IF ~p.enabled THEN p
    ELSE Tick(Bump(Bump(p, [total_flops |-> flops, compute_active_cycles |-> active,
                            compute_stall_cycles |-> stall,
                            compute_total_cycles |-> active + stall]),
                   Once(OpOf(code), 1)), active + stall)

RecordIdle(p, cycles) ==
    IF ~p.enabled THEN p
    ELSE Tick(Bump(p, [compute_idle_cycles |-> cycles, compute_total_cycles |-> cycles]), cycles)

RecordBubble(p, count) ==
    IF ~p.enabled THEN p ELSE Bump(p, [compute_pipeline_bubbles |-> count])

RecordSpad(p, isWrite, words, conflicts, stall) ==
    IF ~p.enabled THEN p
    ELSE Energy(Tick(Bump(Bump(p, [mem_spad_bank_conflicts |-> conflicts,
                                   mem_spad_stall_cycles |-> stall]),
                          Once(IF isWrite THEN "mem_spad_writes" ELSE "mem_spad_reads", words)),
                     stall),
                IF isWrite THEN [energy_sram_write |-> Pj.sramWrite * words]
                ELSE [energy_sram_read |-> Pj.sramRead * words])

RecordGbuf(p, isWrite, words, conflicts) ==
    IF ~p.enabled THEN p
    ELSE Bump(Bump(p, [mem_gbuf_bank_conflicts |-> conflicts]),
              Once(IF isWrite THEN "mem_gbuf_writes" ELSE "mem_gbuf_reads", words))

RecordDram(p, isWrite, bytes, hit, stall) ==
    IF ~p.enabled THEN p
    ELSE Energy(Tick(Bump(Bump(Bump(p,
                    IF isWrite THEN [mem_dram_writes |-> 1, mem_dram_bytes_written |-> bytes]
                    ELSE [mem_dram_reads |-> 1, mem_dram_bytes_read |-> bytes]),
                    [mem_dram_stall_cycles |-> stall]),
                    Once(IF hit THEN "mem_dram_row_hits" ELSE "mem_dram_row_misses", 1)),
                     stall),
                [energy_dram |-> Pj.dram])

RecordRegFile(p, isWrite, words) ==
    IF ~p.enabled THEN p
    ELSE Bump(p, Once(IF isWrite THEN "mem_reqfile_writes" ELSE "mem_reqfile_reads", words))

\* tu_perf_from_dma_descriptor: words of 4 bytes when the region stalled.
RecordDescriptor(p, bytes, ch, type, isRead, active, stall, sramStall) ==
    LET moved == IF isRead THEN RecordRead(p, bytes, active, stall, ch, type)
                 ELSE RecordWrite(p, bytes, active, stall, ch)
    IN  IF sramStall > 0
        THEN RecordSpad(moved, ~isRead, (bytes + 3) \div 4, 0, sramStall) ELSE moved

Record(p, r) ==
    CASE r.call = "read" -> RecordRead(p, r.bytes, r.active, r.stall, r.ch, r.type)
      [] r.call = "write" -> RecordWrite(p, r.bytes, r.active, r.stall, r.ch)
      [] r.call = "internal" -> RecordInternal(p, r.bytes, r.active, r.ch)
      [] r.call = "mma" -> RecordMma(p, r.macs, r.tiles, r.edge, r.active, r.stall, r.type, r.flow)
      [] r.call = "op" -> RecordOp(p, r.code, r.active, r.stall, r.flops)
      [] r.call = "idle" -> RecordIdle(p, r.cycles)
      [] r.call = "bubble" -> RecordBubble(p, r.count)
      [] r.call = "spad" -> RecordSpad(p, r.isWrite, r.words, r.conflicts, r.stall)
      [] r.call = "gbuf" -> RecordGbuf(p, r.isWrite, r.words, r.conflicts)
      [] r.call = "dram" -> RecordDram(p, r.isWrite, r.bytes, r.hit, r.stall)
      [] r.call = "regfile" -> RecordRegFile(p, r.isWrite, r.words)
      [] r.call = "descriptor" ->
            RecordDescriptor(p, r.bytes, r.ch, r.type, r.isRead, r.active, r.stall, r.sramStall)
      [] r.call = "tick" -> Tick(p, r.cycles)

-------------------------------------------------------------------------------
(* Snapshots.                                                                 *)

AtLeast0(n) == IF n < 0 THEN 0 ELSE n

\* tu_perf_diff: each counter clamped at 0, the energies signed.
Diff(before, after) ==
    [PerfZero EXCEPT
        !.n = [c \in DOMAIN @ |->
                 IF c \in EnergyCounters THEN after.n[c] - before.n[c]
                 ELSE IF c \in CarriedCounters THEN AtLeast0(after.n[c] - before.n[c]) ELSE 0],
        !.bytes = [ch \in Channels8 |-> AtLeast0(after.bytes[ch] - before.bytes[ch])],
        !.stalls = [ch \in Channels8 |-> AtLeast0(after.stalls[ch] - before.stalls[ch])]]

\* tu_perf_merge.
Merge(into, from) ==
    [into EXCEPT
        !.n = [c \in DOMAIN @ |-> @[c] + (IF c \in CarriedCounters THEN from.n[c] ELSE 0)],
        !.bytes = [ch \in Channels8 |-> @[ch] + from.bytes[ch]],
        !.stalls = [ch \in Channels8 |-> @[ch] + from.stalls[ch]]]

PerfInit ==
    perf = PerfZero /\ snapshot = NoSnapshot /\ current_since = TRUE /\ records = 0

RecordCall ==
    /\ records < MaxRecords
    /\ \E r \in PerfCalls : perf' = Record(perf, r)
    /\ records' = records + 1
    /\ UNCHANGED <<snapshot, current_since>>

PerfSnapshot ==
    /\ snapshot' = perf /\ current_since' = TRUE
    /\ UNCHANGED <<perf, records>>

\* tu_perf_reset keeps the whole of power, the energies spent included.
PerfReset ==
    /\ perf' = [PerfZero EXCEPT
                  !.n = [c \in DOMAIN @ |-> IF c \in EnergyCounters THEN perf.n[c] ELSE 0],
                  !.power = perf.power]
    /\ current_since' = FALSE
    /\ UNCHANGED <<snapshot, records>>

\* tu_perf_set_enabled, tu_perf_power_set_enabled.
PerfSwitch ==
    /\ \/ perf' = [perf EXCEPT !.enabled = ~@]
       \/ perf' = [perf EXCEPT !.power = ~@]
    /\ UNCHANGED <<snapshot, current_since, records>>

PerfNext == RecordCall \/ PerfSnapshot \/ PerfReset \/ PerfSwitch
PerfSpec == PerfInit /\ [][PerfNext]_perfVars

-------------------------------------------------------------------------------
(* Properties.                                                                *)

TotalOver(f) == MapThenSumSet(LAMBDA ch : f[ch], DOMAIN f)

\* The counters of one subject add up: the engine's cycles are active, stalled
\* or idle, within the global count; its tiles are full or at an edge; and the
\* bytes of the channels are those that moved, whatever their direction.
CountersAddUp ==
    /\ perf.n["compute_total_cycles"] =
         perf.n["compute_active_cycles"] + perf.n["compute_stall_cycles"] + perf.n["compute_idle_cycles"]
    /\ perf.n["compute_total_cycles"] <= perf.n["total_cycles"]
    /\ perf.n["total_tiles"] = perf.n["edge_tiles"] + perf.n["full_tiles"]
    /\ TotalOver(perf.bytes) =
         perf.n["dma_read_bytes"] + perf.n["dma_write_bytes"] + perf.n["dma_internal_bytes"]

\* A difference merged back into the earlier counters gives the later ones, so
\* that the work between two snapshots can be summed over cores.  Row hits,
\* row misses, the conflicts of the global buffer and the split by dataflow
\* are in neither tu_perf_diff nor tu_perf_merge.
DiffMergesBack ==
    snapshot # NoSnapshot /\ current_since =>
        LET back == Merge(snapshot, Diff(snapshot, perf))
        IN  /\ \A c \in CarriedCounters : back.n[c] = perf.n[c]
            /\ back.bytes = perf.bytes /\ back.stalls = perf.stalls

===============================================================================
