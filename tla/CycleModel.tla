------------------------------- MODULE CycleModel -------------------------------
(* The cycle model (perf/cycle_model.c): the ring of tiles in flight with its  *)
(* register hazards, the word budget of each SRAM bank, the DRAM's open rows,  *)
(* and the clock that tiles and transfers advance together with the counters.  *)
(*                                                                             *)
(* A register is a number, 0 meaning none.  "tracker" is the ring used on its  *)
(* own through tu_cycle_pipeline_issue and _complete; the other modes are      *)
(* those of tu_cycle_model_create.                                             *)
EXTENDS PerfCounters, SequencesExt

CONSTANTS
    CmModes,        \* modes the model is created in
    RingSlots,      \* TU_PE_PIPELINE_DEPTH * 4
    WorstStall,     \* TU_PE_PIPELINE_DEPTH * 16 + 64
    PeDepth, PeRows,\* TU_PE_PIPELINE_DEPTH, TU_PE_ROWS
    BankCount, BankBytes, BankWindow, BankPenalty, BankWords,
    BusBytes,       \* TU_DMA_BUS_WIDTH_BYTES
    DramReadLatency,\* TU_LATENCY_DRAM_READ
    Timing,         \* [rcd, rp, cl, cwl, ccd, burst, banks, row]: of the created channel
    Issues,         \* <<sources, destinations>>: sequences of at most 4 registers
    CmTiles,        \* [m, n, k, w, a, o]
    CmTransfers,    \* [ch, bytes, isRead, addr, bank]
    MaxCmCalls      \* bound on the calls

ASSUME CycleAssumption ==
    /\ RingSlots \in Nat \ {0} /\ BankCount \in Nat \ {0} /\ BankBytes \in Nat \ {0}
    /\ BusBytes \in Nat \ {0}
    /\ {WorstStall, PeDepth, BankWindow, BankPenalty, BankWords, DramReadLatency} \subseteq Nat
    /\ Timing \in [rcd : Nat, rp : Nat, cl : Nat, cwl : Nat, ccd : Nat, burst : Nat \ {0},
                   banks : Nat \ {0}, row : Nat \ {0}]
    /\ \A io \in Issues, side \in 1..2 : \E n \in 0..4 : io[side] \in [1..n -> Nat]
    /\ CmTiles \subseteq [m : Nat, n : Nat, k : Nat, w : Nat, a : Nat, o : Nat]
    /\ CmTransfers \subseteq [ch : Channels8, bytes : Nat, isRead : BOOLEAN, addr : Nat, bank : Nat]

VARIABLES
    cmMode,
    clock,      \* current_cycle
    ring,       \* [slots, head, tail, stalls, issues, completions], and whether
                \* a tile was issued over one still in flight
    sramBanks,  \* [words, refill] per bank
    openRows,   \* open row per DRAM bank, or NoOpenRow
    busCycles,  \* dma_bus_cycles
    counted,    \* the counters' total when the clock was last 0
    cmCalls     \* a bound

cmVars == <<cmMode, clock, ring, sramBanks, openRows, busCycles, counted, cmCalls>>
cycleVars == <<perfVars, cmVars>>

NoOpenRow == -1     \* UINT32_MAX in the code
Larger(a, b) == IF a > b THEN a ELSE b
RoundUp(n, k) == (n + k - 1) \div k

-------------------------------------------------------------------------------
(* The ring.  An entry keeps four output registers; an issue overwrites as     *)
(* many as it writes and leaves the others as an earlier tile left them.       *)

NoEntry == [active |-> FALSE, issued |-> 0, outputs |-> <<0, 0, 0, 0>>, writes |-> {}, order |-> 0]
EmptyRing ==
    [slots |-> [i \in 0..(RingSlots - 1) |-> NoEntry], head |-> 0, tail |-> 0,
     stalls |-> 0, issues |-> 0, completions |-> 0, overrun |-> FALSE]

InFlight(r) == {i \in 0..(RingSlots - 1) : r.slots[i].active}

\* A source meets only as many outputs of an entry as the new tile writes.
RawMeets(entry, srcs, dsts) ==
    \E s \in DOMAIN srcs, d \in DOMAIN dsts : srcs[s] # 0 /\ srcs[s] = entry.outputs[d]

\* A destination meets the first output of an entry only.
WawMeetsFirst(entry, dsts) == \E d \in DOMAIN dsts : dsts[d] # 0 /\ dsts[d] = entry.outputs[1]

WawMeets(entry, dsts) ==
    \E d \in DOMAIN dsts, e \in 1..4 : dsts[d] # 0 /\ dsts[d] = entry.outputs[e]

\* Every entry in flight has complete_cycle 0: the wait is always the worst.
HazardStall(r, srcs, dsts) ==
    IF \E i \in InFlight(r) : RawMeets(r.slots[i], srcs, dsts) \/ WawMeets(r.slots[i], dsts)
    THEN WorstStall ELSE 0

\* The slot at head is taken whether or not its tile has completed.
Issued(r, srcs, dsts, now) ==
    LET stall == HazardStall(r, srcs, dsts)
    IN  [r EXCEPT
          !.slots[r.head] =
              [active |-> TRUE, issued |-> now + stall,
               outputs |-> [e \in 1..4 |-> IF e \in DOMAIN dsts THEN dsts[e] ELSE @.outputs[e]],
               writes |-> {dsts[d] : d \in DOMAIN dsts} \ {0}, order |-> r.issues],
          !.head = (@ + 1) % RingSlots, !.issues = @ + 1, !.stalls = @ + stall,
          !.overrun = @ \/ r.slots[r.head].active]

Completed(r) ==
    IF ~r.slots[r.tail].active THEN r
    ELSE [r EXCEPT !.slots[r.tail].active = FALSE, !.tail = (@ + 1) % RingSlots,
                   !.completions = @ + 1]

-------------------------------------------------------------------------------
(* Banks and rows.                                                             *)

FullBank(now) == [words |-> BankWords, refill |-> now + BankWindow]
Refilled(bank, now) == IF now >= bank.refill THEN FullBank(now) ELSE bank

\* tu_bank_model_access: what the budget lacks is a stall, not a debt.
BankServed(bank, words, now) ==
    LET b == Refilled(bank, now)
    IN  [bank |-> [b EXCEPT !.words = AtLeast0(@ - words)],
         stall |-> AtLeast0(words - b.words) * BankPenalty]

DramBankOf(addr) == (addr \div Timing.row) % Timing.banks
DramRowOf(addr) == addr \div (Timing.row * Timing.banks)

\* tu_dram_access: precharge and activate as the open row requires, the CAS
\* latency, then the bursts.
DramLatency(row, addr, isWrite, bytes) ==
    (IF row = DramRowOf(addr) THEN 0
     ELSE IF row = NoOpenRow THEN Timing.rcd ELSE Timing.rp + Timing.rcd)
    + (IF isWrite THEN Timing.cwl ELSE Timing.cl) + RoundUp(bytes, Timing.burst) * Timing.ccd

-------------------------------------------------------------------------------
(* One tile of the accurate model: decode, hazards, the two operand reads, the *)
(* multiplications, the writeback.  A bank is a byte address modulo the banks. *)

BankOf(address) == address % BankCount
TileWords(t) ==
    <<RoundUp(2 * t.m * t.k, BankBytes), RoundUp(2 * t.k * t.n, BankBytes),
      RoundUp(4 * t.m * t.n, BankBytes)>>

\* One access after another: banks, clock and stall.
Served(s, address, words) ==
    LET served == BankServed(s.banks[BankOf(address)], words, s.now)
    IN  [banks |-> [s.banks EXCEPT ![BankOf(address)] = served.bank],
         now |-> s.now + served.stall, stall |-> s.stall + served.stall]

TileRun(t) ==
    LET hazard == HazardStall(ring, <<t.w, t.a>>, <<t.o>>)
        decoded == [banks |-> sramBanks, now |-> clock + 1 + hazard, stall |-> hazard]
        read == Served(Served(decoded, t.w, TileWords(t)[1]), t.a, TileWords(t)[2])
        computed == [read EXCEPT !.now = @ + t.k]
    IN  Served(computed, t.o, TileWords(t)[3])

\* Counts the whole of the elapsed cycles as active, the stalled ones again.
TileRecordWhole(p, t, elapsed, stall) ==
    RecordMma(p, t.m * t.n * t.k, 1, IF t.m < PeRows THEN 1 ELSE 0, elapsed, stall, 0, 0)

TileRecord(p, t, elapsed, stall) ==
    RecordMma(p, t.m * t.n * t.k, 1, IF t.m < PeRows THEN 1 ELSE 0, elapsed - stall, stall, 0, 0)

TileEstimate(t) == PeDepth * t.n + t.k + PeDepth * t.m

\* tu_cycle_model_dma_arbitrate: channels whose used cycles exceed the clock.
Arbitration(used, now) ==
    LET active == Cardinality({c \in DOMAIN used : used[c] > now}) IN IF active > 1 THEN active ELSE 0

BusCharge(used, ch, from, to) ==
    IF ch \in DOMAIN used THEN [used EXCEPT ![ch] = @ + to - from] ELSE used

-------------------------------------------------------------------------------
(* The operations.                                                             *)

FreshModel ==
    /\ clock = 0 /\ ring = EmptyRing
    /\ sramBanks = [b \in 0..(BankCount - 1) |-> FullBank(0)]
    /\ openRows = [b \in 0..(Timing.banks - 1) |-> NoOpenRow]
    /\ busCycles = [ch \in Channels8 |-> 0]

\* tu_cycle_model_create, with counters of its own.
CmInit == cmMode \in CmModes /\ FreshModel /\ counted = 0 /\ cmCalls = 0
CycleInit == CmInit /\ PerfInit

CmCall == cmCalls < MaxCmCalls /\ cmCalls' = cmCalls + 1
PerfStep(p) == perf' = p /\ UNCHANGED <<snapshot, current_since, records>>

\* The tracker used on its own.
PipelineIssue(srcs, dsts) ==
    /\ cmMode = "tracker" /\ CmCall
    /\ ring' = Issued(ring, srcs, dsts, clock)
    /\ clock' = clock + HazardStall(ring, srcs, dsts)
    /\ UNCHANGED <<perfVars, cmMode, sramBanks, openRows, busCycles, counted>>

PipelineComplete ==
    /\ cmMode = "tracker" /\ CmCall
    /\ ring' = Completed(ring)
    /\ UNCHANGED <<perfVars, cmMode, clock, sramBanks, openRows, busCycles, counted>>

\* tu_cycle_model_execute_tile; each model but the accurate one is a formula.
ExecuteTile(t) ==
    /\ cmMode \in {"functional", "estimated"} /\ CmCall
    /\ clock' = clock + (IF cmMode = "estimated" THEN TileEstimate(t) ELSE 0)
    /\ UNCHANGED <<perfVars, cmMode, ring, sramBanks, openRows, busCycles, counted>>

\* The entry issued is completed before the call returns, then every bank
\* whose window is over is refilled.
ExecuteTileAccurate(t) ==
    /\ cmMode = "accurate" /\ CmCall
    /\ LET run == TileRun(t)
       IN  /\ clock' = run.now
           /\ ring' = Completed(Issued(ring, <<t.w, t.a>>, <<t.o>>, clock + 1))
           /\ sramBanks' = [b \in DOMAIN sramBanks |-> Refilled(run.banks[b], run.now)]
           /\ PerfStep(TileRecord(perf, t, run.now - clock, run.stall))
    /\ UNCHANGED <<cmMode, openRows, busCycles, counted>>

DmaTransfer(x) ==
    /\ cmMode \in {"functional", "estimated"} /\ CmCall /\ x.bytes > 0
    /\ clock' = clock + (IF cmMode = "estimated"
                         THEN RoundUp(x.bytes, BusBytes) + DramReadLatency ELSE 0)
    /\ UNCHANGED <<perfVars, cmMode, ring, sramBanks, openRows, busCycles, counted>>

\* Address 0 goes over the bus alone.  The direction reaches the DRAM the wrong
\* way round (is_read where is_write is expected), and the counters always
\* record a read.
DmaTransferAccurate(x) ==
    /\ cmMode = "accurate" /\ CmCall /\ x.bytes > 0
    /\ LET wait == Arbitration(busCycles, clock)
           bank == DramBankOf(x.addr)
           latency == IF x.addr = 0 THEN RoundUp(x.bytes, BusBytes)
                      ELSE DramLatency(openRows[bank], x.addr, x.isRead, x.bytes)
           before == [banks |-> sramBanks, now |-> clock + wait + latency, stall |-> 0]
           after == IF x.bank < BankCount
                    THEN Served(before, x.bank, RoundUp(x.bytes, BankBytes)) ELSE before
       IN  /\ clock' = after.now
           /\ sramBanks' = after.banks
           /\ openRows' = IF x.addr = 0 THEN openRows
                          ELSE [openRows EXCEPT ![bank] = DramRowOf(x.addr)]
           /\ busCycles' = BusCharge(busCycles, x.ch, clock, after.now)
           /\ PerfStep(RecordRead(perf, x.bytes, after.now - clock, wait, x.ch, 0))
    /\ UNCHANGED <<cmMode, ring, counted>>

\* tu_cycle_model_advance.
CmAdvance ==
    /\ CmCall /\ clock' = clock + 1
    /\ PerfStep(Tick(perf, 1))
    /\ UNCHANGED <<cmMode, ring, sramBanks, openRows, busCycles, counted>>

\* tu_cycle_model_reset leaves the counters as they are.
CmReset ==
    /\ CmCall
    /\ clock' = 0 /\ ring' = EmptyRing
    /\ sramBanks' = [b \in DOMAIN sramBanks |-> FullBank(0)]
    /\ openRows' = [b \in DOMAIN openRows |-> NoOpenRow]
    /\ busCycles' = [ch \in DOMAIN busCycles |-> 0]
    /\ counted' = perf.n["total_cycles"]
    /\ UNCHANGED <<perfVars, cmMode>>

CycleNext ==
    \/ \E io \in Issues : PipelineIssue(io[1], io[2])
    \/ PipelineComplete
    \/ \E t \in CmTiles : ExecuteTile(t) \/ ExecuteTileAccurate(t)
    \/ \E x \in CmTransfers : DmaTransfer(x) \/ DmaTransferAccurate(x)
    \/ CmAdvance
    \/ CmReset

\* The counters belong to the accurate model; without one the program records
\* in them itself.
AccountsNext == CycleNext \/ (cmMode # "accurate" /\ PerfNext /\ UNCHANGED cmVars)
AccountsSpec == CycleInit /\ [][AccountsNext]_cycleVars

-------------------------------------------------------------------------------
(* Properties.                                                                 *)

\* Clock, ring, word budgets and bus cycles keep their types.
CycleTypeOK ==
    /\ clock \in Nat /\ ring.head \in 0..(RingSlots - 1) /\ ring.tail \in 0..(RingSlots - 1)
    /\ \A b \in DOMAIN sramBanks : sramBanks[b].words \in 0..BankWords
    /\ busCycles \in [Channels8 -> Nat]

\* The clock and the counters tell the same time: every cycle of a tile, a
\* transfer or an advance is counted once, stalls included.
ClocksAgree ==
    cmMode = "accurate" => perf.n["total_cycles"] - counted = clock

\* Transfers follow one another, so the bus cycles of all channels fit in the
\* clock; tu_cycle_model_dma_arbitrate therefore never finds two channels busy
\* and never charges a wait.
BusWithinClock ==
    /\ TotalOver(busCycles) <= clock
    /\ Arbitration(busCycles, clock) = 0
    /\ cmMode = "accurate" => perf.n["dma_stall_cycles"] = 0

\* Tiles executed through the model never wait for each other: each has
\* completed before the next is issued.
TilesNeverWait == cmMode = "accurate" => ring.stalls = 0 /\ InFlight(ring) = {}

\* No tile is issued to a register that a tile in flight has yet to write
\* without the worst-case wait ("stall to preserve program order").
WawStalls ==
    \A io \in Issues :
      PipelineIssue(io[1], io[2]) /\
      (\E i \in InFlight(ring), d \in DOMAIN io[2] : io[2][d] \in ring.slots[i].writes)
         => clock' = clock + WorstStall

\* As long as no tile was issued over one in flight, which nothing prevents,
\* tiles complete in order of issue.
CompletesOldest ==
    PipelineComplete /\ ~ring.overrun =>
      \A i \in InFlight(ring) \ InFlight(ring)' :
         \A j \in InFlight(ring)' : ring.slots[i].order < ring.slots[j].order

\* All accounts of time and work agree: totals with their parts, differences with
\* their merges, the clock with the counters and with the bus.
AccountsAgree ==
    /\ CountersAddUp /\ DiffMergesBack
    /\ CycleTypeOK
    /\ ClocksAgree /\ BusWithinClock /\ TilesNeverWait

\* The scoreboard of tiles in flight keeps program order at both its ends.
ScoreboardHolds == [][WawStalls /\ CompletesOldest]_cycleVars

===============================================================================
