-------------------------------- MODULE Dram --------------------------------
(***************************************************************************)
(* The DRAM timing model (memory/dram_model.c): clocks and converted       *)
(* timings, the bandwidth window, channels and bus turnaround, row buffers *)
(* and JEDEC refresh, with the setters that reconfigure it while it runs.  *)
(*                                                                         *)
(* Clocks are counted in half GHz and times in ns, so that conversions     *)
(* round up as in the code; sizes are tiny.  Statistics are left out but   *)
(* for what the last call reported.                                        *)
(***************************************************************************)
EXTENDS Integers, FiniteSets

CONSTANTS
    Channels,       \* number of channels; a power of two
    DramBanks,      \* banks_per_channel
    BurstBytes,     \* burst_length
    RowBytes,       \* row_buffer_size
    BusWidth,       \* bus_width_bytes
    Bandwidth,      \* bytes per ns
    DramWindow,     \* cycles of a bandwidth window (1000 in the code)
    Clocks,         \* core clocks a client sets, in half GHz
    Latencies,      \* <<domain, read, write>> it sets
    RowSettings,    \* <<policy, timeout domain, timeout>>
    Mappings,       \* address mappings
    Turnarounds,    \* <<mode, domain, read to write, write to read>>
    Refreshes,      \* <<mode, scheduling, rate, tREFI, tRFC, tRFCpb, deferral>> in ns
    RowPenalties,   \* <<activate, conflict>> penalties in cycles
    Boards,         \* configurations it is created from: one of each of these
    Transfers,      \* <<address, bytes>> of its accesses
    MaxNow,         \* bounds: the clock,
    MaxDramCalls,   \* the accesses
    MaxDramSets     \* and the reconfigurations

ASSUME DramAssumption ==
    /\ Channels \in Nat \ {0} /\ DramBanks \in Nat \ {0} /\ BurstBytes \in Nat \ {0}
    /\ BusWidth \in Nat \ {0} /\ DramWindow \in Nat \ {0} /\ Clocks \subseteq Nat \ {0}
    /\ RowBytes \in Nat /\ Bandwidth \in Nat /\ MaxNow \in Nat
    /\ Transfers \subseteq Nat \X (Nat \ {0})

\* What the setters accept; a zero of a refresh stands for its default there.
Domains == {"core", "ns"}
RowPolicies == {"legacy", "open", "closed", "adaptive"}
TurnModes == {"none", "fixed", "idle", "credit", "round", "span"}
LatencyValues == Domains \X Nat \X Nat
RowValues == RowPolicies \X Domains \X Nat
TurnValues == TurnModes \X Domains \X Nat \X Nat
RefreshValues ==
    {"none", "all", "per"} \X {"fixed", "deferred"} \X {1, 2, 4}
        \X (Nat \ {0}) \X (Nat \ {0}) \X (Nat \ {0}) \X Nat

ASSUME SettersAssumption ==
    /\ Latencies \subseteq LatencyValues /\ RowSettings \subseteq RowValues
    /\ Mappings \subseteq {"burst", "row", "xor"} /\ Turnarounds \subseteq TurnValues
    /\ Refreshes \subseteq RefreshValues /\ RowPenalties \subseteq Nat \X Nat
    /\ Boards \subseteq (Nat \ {0}) \X LatencyValues \X RowValues \X (Nat \X Nat)
                      \X {"burst", "row", "xor"} \X TurnValues \X RefreshValues

VARIABLES
    setting,     \* what the setters configured, sources and converted cycles
    now,         \* current_cycle
    window,      \* the bandwidth window
    channels,    \* channel_available_cycle and channel_last_direction
    rows,        \* open_rows and row_last_access_cycle of channel and bank
    refresh,     \* refresh_next and refresh_until of each slot
    last,        \* what the last call was and reported
    calls, sets  \* accesses and reconfigurations made

dramVars == <<setting, now, window, channels, rows, refresh, last, calls, sets>>

Channel == 0 .. Channels - 1
DramBank == 0 .. DramBanks - 1
Never == MaxNow + 1000          \* UINT64_MAX

CeilDiv(a, b) == (a + b - 1) \div b
Least(a, b) == IF a < b THEN a ELSE b

\* latency_cycles_for, row_timeout_cycles_for, turnaround_cycles_for
Converted(domain, source, clock) ==
    IF domain = "ns" THEN CeilDiv(source * clock, 2) ELSE source

NoRow == -1
Closed == [c \in Channel |-> [b \in DramBank |-> [open |-> NoRow, used |-> Never]]]
Undirected == [c \in Channel |-> [free |-> 0, dir |-> "none"]]
FreshWindow == [size |-> 0, start |-> 0, budget |-> 0, pending |-> 0, unstalled |-> 0]
Report(op) == [op |-> op, outcome |-> "none", bank |-> 0, channel |-> 0,
               cost |-> 0, wait |-> 0, turned |-> 0]

-----------------------------------------------------------------------------
(* Refresh.  Beside next and until, a slot records when it last fired and   *)
(* the longest gap between the refreshes the last catch-up fired.           *)

Interval(s) == CeilDiv(s.trefi, s.rate)
\* The slots that are caught up: none of an ideal DRAM.
Slots(s) ==
    IF s.type = "ideal" THEN {}
    ELSE CASE s.mode = "all" -> {0} [] s.mode = "per" -> DramBank [] OTHER -> {}
SlotOf(s, bank) == IF s.mode = "all" THEN 0 ELSE bank

\* refresh_init_state: the schedule starts at cycle 0, whatever the clock.
Schedule(s) ==
    [b \in DramBank |->
        [next |-> CASE s.mode = "all" /\ b = 0 -> Interval(s)
                    [] s.mode = "per" -> ((b + 1) * Interval(s)) \div DramBanks
                    [] OTHER -> Never,
         until |-> 0, at |-> 0, gap |-> 0]]

\* The cycle up to which a slot's schedule fires when caught up to cycle t.
Horizon(t, onAccess) ==
    IF setting.sched = "fixed" \/ onAccess THEN t ELSE t - setting.maxdef

Fires(slot, t, onAccess) ==
    LET limit == Horizon(t, onAccess)
    IN  IF refresh[slot].next > limit THEN 0
        ELSE (limit - refresh[slot].next) \div Interval(setting) + 1

\* Variant: the deadline is deferred twice.
FireAtLate(slot, k, t, onAccess) ==
    LET due == refresh[slot].next + (k - 1) * Interval(setting)
    IN  IF setting.sched = "fixed" THEN due ELSE due + 2 * setting.maxdef

\* When the k-th of them fires.
FireAt(slot, k, t, onAccess) ==
    LET due == refresh[slot].next + (k - 1) * Interval(setting)
    IN  IF setting.sched = "fixed" THEN due
        ELSE IF onAccess THEN Least(t, due + setting.maxdef) ELSE due + setting.maxdef

Lockout == IF setting.mode = "all" THEN setting.trfc ELSE setting.trfcPb

\* refresh_catchup
CaughtUp(t, onAccess) ==
    [b \in DramBank |->
        LET n == IF b \in Slots(setting) THEN Fires(b, t, onAccess) ELSE 0
            fired(k) == IF k = 0 THEN refresh[b].at ELSE FireAt(b, k, t, onAccess)
            gaps == {fired(k) - fired(k - 1) : k \in 1 .. n}
        IN  IF n = 0 THEN [refresh[b] EXCEPT !.gap = 0]
            ELSE [next |-> refresh[b].next + n * Interval(setting),
                  until |-> fired(n) + Lockout, at |-> fired(n),
                  gap |-> CHOOSE g \in gaps : \A h \in gaps : h <= g]]

\* Variant: a refresh leaves the rows open.
PrechargedLate(after) == rows

\* A refresh precharges its bank on every channel, unless rows are LEGACY.
Precharged(after) ==
    [c \in Channel |-> [b \in DramBank |->
        IF /\ setting.policy # "legacy" /\ setting.mode # "none"
           /\ after[SlotOf(setting, b)].next # refresh[SlotOf(setting, b)].next
        THEN [rows[c][b] EXCEPT !.open = NoRow] ELSE rows[c][b]]]

RefreshWait(after, bank) ==
    LET until == after[SlotOf(setting, bank)].until
    IN  IF setting.mode # "none" /\ until > now THEN until - now ELSE 0

-----------------------------------------------------------------------------
(* The bandwidth window. *)

\* bandwidth_gbps over the core clock, for one window.
WindowBudget == (Bandwidth * 2 * DramWindow) \div setting.clock

RefilledAt(t) ==
    LET w == IF window.size = 0 THEN [window EXCEPT !.size = DramWindow, !.start = t]
             ELSE window
    IN  IF t < w.start \/ t - w.start >= w.size     \* unsigned difference
        THEN [w EXCEPT !.budget = WindowBudget, !.start = t, !.pending = 0,
                       !.unstalled = 0]
        ELSE w

\* An access takes its bytes from the budget and is added to the pending
\* ones, which are compared with what is left of the budget.
Contended(w, bytes) == w.pending + bytes > w.budget

Consumed(w, bytes) ==
    [w EXCEPT !.pending = @ + bytes,
              !.budget = IF @ > bytes THEN @ - bytes ELSE 0,
              !.unstalled = IF Contended(w, bytes) THEN @ ELSE @ + bytes]

\* occupied_bytes_for
Occupied(dir, addr, bytes) ==
    LET burst == IF dir = "read" THEN setting.readBurst ELSE setting.writeBurst
        span == IF setting.turnMode = "span" THEN bytes + (addr % burst) ELSE bytes
    IN  IF setting.turnMode \in {"round", "span"} THEN CeilDiv(span, burst) * burst
        ELSE bytes

-----------------------------------------------------------------------------
(* Addresses, rows and the bus. *)

BurstsPerRow == IF RowBytes \div BurstBytes = 0 THEN 1 ELSE RowBytes \div BurstBytes

\* The bits of i and j that differ, for channels that are a power of two.
Xor[i \in Nat] ==
    [j \in Nat |-> IF i = 0 THEN j ELSE IF j = 0 THEN i
                   ELSE 2 * Xor[i \div 2][j \div 2] + ((i + j) % 2)]

PowerOfTwo(n) == \A d \in 2 .. n : n % d = 0 => d % 2 = 0

\* tu_dram_decode_address: channel, bank and row of an address.
Located(channel, group) ==
    [channel |-> channel, bank |-> group % DramBanks, row |-> group \div DramBanks]

Decode(mapping, addr) ==
    LET burst == addr \div BurstBytes
        group == (burst \div Channels) \div BurstsPerRow
    IN  CASE mapping = "row" ->
                Located((burst \div BurstsPerRow) % Channels,
                        (burst \div BurstsPerRow) \div Channels)
          [] mapping = "burst" -> Located(burst % Channels, group)
          [] mapping = "xor" -> Located(Xor[burst % Channels][group % Channels], group)

\* explicit_row_penalty: what the row buffer makes of an access.
Expired(r) ==
    /\ setting.policy = "adaptive" /\ r.open # NoRow /\ r.used # Never
    /\ now - r.used > setting.timeout

RowOutcome(r, row) ==
    IF setting.policy = "legacy" THEN "none"
    ELSE IF setting.policy = "closed" \/ r.open = NoRow \/ Expired(r) THEN "empty"
    ELSE IF r.open = row THEN "hit" ELSE "replaced"

RowAfter(r, row) ==
    IF setting.policy \in {"open", "adaptive"} THEN [open |-> row, used |-> now] ELSE r

RowPenalty(outcome, dir) ==
    CASE outcome = "empty" -> setting.miss
      [] outcome = "replaced" -> setting.conflict
      [] outcome = "none" /\ setting.rowModel /\ dir = "read" -> setting.miss
      [] OTHER -> 0

\* turnaround_for: the cost of turning the bus, less the cycles it was idle.
FullCost(old, dir) ==
    CASE old = "read" /\ dir = "write" -> setting.rtw
      [] old = "write" /\ dir = "read" -> setting.wtr
      [] OTHER -> 0

Crediting == {"idle", "credit", "round", "span"}

TurnCost(bus, dir) ==
    LET cost == FullCost(bus.dir, dir)
        idle == now - bus.free
    IN  IF setting.turnMode = "none" THEN 0
        ELSE IF setting.turnMode \in Crediting /\ idle > 0
             THEN IF idle < cost THEN cost - idle ELSE 0
             ELSE cost

BurstCycles(bytes) ==
    IF setting.turnMode \in {"credit", "round", "span"} THEN CeilDiv(bytes, BusWidth) ELSE 0

-----------------------------------------------------------------------------
\* tu_dram_tick
DramTick ==
    /\ now < MaxNow
    /\ now' = now + 1
    /\ window' = RefilledAt(now + 1)
    /\ refresh' = CaughtUp(now + 1, FALSE)
    /\ rows' = Precharged(refresh')
    /\ last' = Report("tick")
    /\ UNCHANGED <<setting, channels, calls, sets>>

\* tu_dram_read, tu_dram_write of a DRAM that is not ideal.  The channel is
\* free again after the service, whatever the access stalled before it.
DramAccess(dir, addr, bytes) ==
    LET at == Decode(setting.mapping, addr)
        after == CaughtUp(now, TRUE)
        row == Precharged(after)[at.channel][at.bank]
        outcome == RowOutcome(row, at.row)
        bus == channels[at.channel]
        turn == TurnCost(bus, dir)
        service == (IF dir = "read" THEN setting.readLat ELSE setting.writeLat)
                   + RefreshWait(after, at.bank) + turn + RowPenalty(outcome, dir)
        occupied == Occupied(dir, addr, bytes)
    IN  /\ setting.type # "ideal" /\ calls < MaxDramCalls /\ calls' = calls + 1
        /\ window' = Consumed(RefilledAt(now), occupied)
        /\ refresh' = after
        /\ rows' = [Precharged(after) EXCEPT ![at.channel][at.bank] = RowAfter(row, at.row)]
        /\ channels' = [channels EXCEPT ![at.channel] =
                            [free |-> now + service + BurstCycles(occupied),
                             dir |-> IF setting.turnMode = "none" THEN bus.dir ELSE dir]]
        /\ last' = [op |-> "access", outcome |-> outcome, bank |-> at.bank,
                    channel |-> at.channel, cost |-> FullCost(bus.dir, dir),
                    wait |-> IF bus.free > now THEN bus.free - now ELSE 0,
                    turned |-> turn]
        /\ UNCHANGED <<setting, now, sets>>

\* An ideal DRAM only counts, and estimate_transfer changes nothing.
DramIdeal ==
    /\ setting.type = "ideal" /\ last' = Report("ideal")
    /\ UNCHANGED <<setting, now, window, channels, rows, refresh, calls, sets>>

\* tu_dram_reset keeps the bandwidth window's start.
DramReset ==
    /\ sets < MaxDramSets /\ sets' = sets + 1
    /\ now' = 0 /\ channels' = Undirected /\ rows' = Closed
    /\ window' = [window EXCEPT !.budget = 0, !.pending = 0, !.unstalled = 0]
    /\ refresh' = Schedule(setting)
    /\ last' = Report("set")
    /\ UNCHANGED <<setting, calls>>

-----------------------------------------------------------------------------
(* The setters: a value that is refused changes nothing. *)

Reconfigure(accepted, new) ==
    /\ sets < MaxDramSets /\ sets' = sets + 1
    /\ accepted
    /\ setting' = new
    /\ last' = Report("set")
    /\ UNCHANGED <<now, calls>>

WithLatency(s, l) ==
    [s EXCEPT !.latDomain = l[1], !.readNs = l[2], !.writeNs = l[3],
              !.readLat = Converted(l[1], l[2], s.clock),
              !.writeLat = Converted(l[1], l[3], s.clock)]

WithRow(s, r, penalty) ==
    [s EXCEPT !.policy = r[1], !.toDomain = r[2], !.timeoutNs = r[3],
              !.timeout = Converted(r[2], r[3], s.clock),
              !.miss = penalty[1], !.conflict = penalty[2]]

WithTurnaround(s, t) ==
    [s EXCEPT !.turnMode = t[1], !.turnDomain = t[2], !.rtwNs = t[3], !.wtrNs = t[4],
              !.rtw = Converted(t[2], t[3], s.clock),
              !.wtr = Converted(t[2], t[4], s.clock)]

Retimed(s) ==
    [s EXCEPT !.trefi = Converted("ns", s.trefiNs, s.clock),
              !.trfc = Converted("ns", s.trfcNs, s.clock),
              !.trfcPb = Converted("ns", s.trfcPbNs, s.clock),
              !.maxdef = Converted("ns", s.maxdefNs, s.clock)]

WithRefresh(s, r) ==
    Retimed([s EXCEPT !.mode = r[1], !.sched = r[2], !.rate = r[3], !.trefiNs = r[4],
                      !.trfcNs = r[5], !.trfcPbNs = r[6],
                      !.maxdefNs = IF r[7] = 0 THEN r[4] ELSE r[7]])

AdaptiveNeedsTimeout(s) == s.policy = "adaptive" => s.timeout > 0
FixedNeedsCost(s) == s.turnMode = "fixed" => s.rtw + s.wtr > 0
XorNeedsPowerOfTwo(s) == s.mapping = "xor" => PowerOfTwo(Channels)

\* Every converted timing again, at clock c.
WithClock(s, c) ==
    LET at == [s EXCEPT !.clock = c]
        timed == WithTurnaround(
                    WithRow(WithLatency(at, <<s.latDomain, s.readNs, s.writeNs>>),
                            <<s.policy, s.toDomain, s.timeoutNs>>, <<s.miss, s.conflict>>),
                    <<s.turnMode, s.turnDomain, s.rtwNs, s.wtrNs>>)
    IN  IF s.trefiNs # 0 THEN Retimed(timed) ELSE timed

\* tu_dram_configure_core_clock
SetCoreClock(c) ==
    LET new == WithClock(setting, c)
    IN  /\ Reconfigure(AdaptiveNeedsTimeout(new), new)
        /\ window' = [FreshWindow EXCEPT !.start = now]
        /\ refresh' = IF setting.trefiNs # 0 THEN Schedule(new) ELSE refresh
        /\ UNCHANGED <<channels, rows>>

SetLatency(l) ==
    Reconfigure(TRUE, WithLatency(setting, l)) /\ UNCHANGED <<window, channels, rows, refresh>>

SetRowModeling(on) ==
    /\ Reconfigure(TRUE, [setting EXCEPT !.rowModel = on])
    /\ UNCHANGED <<window, channels, rows, refresh>>

\* tu_dram_set_row_policy_timeout_domain and its older forms
SetRowPolicy(r, penalty) ==
    LET new == WithRow(setting, r, penalty)
    IN  /\ Reconfigure(AdaptiveNeedsTimeout(new), new)
        /\ rows' = Closed /\ UNCHANGED <<window, channels, refresh>>

SetMapping(m) ==
    LET new == [setting EXCEPT !.mapping = m]
    IN  /\ Reconfigure(XorNeedsPowerOfTwo(new), new)
        /\ rows' = Closed /\ UNCHANGED <<window, channels, refresh>>

SetTurnaround(t) ==
    LET new == WithTurnaround(setting, t)
    IN  /\ Reconfigure(FixedNeedsCost(new), new)
        /\ channels' = [c \in Channel |-> [channels[c] EXCEPT !.dir = "none"]]
        /\ UNCHANGED <<window, rows, refresh>>

SetGranules(read, write) ==
    /\ Reconfigure(TRUE, [setting EXCEPT !.readBurst = read, !.writeBurst = write])
    /\ UNCHANGED <<window, channels, rows, refresh>>

\* tu_dram_set_refresh starts the schedule anew.
SetRefresh(r) ==
    LET new == WithRefresh(setting, r)
    IN  /\ Reconfigure(new.maxdefNs <= new.trefiNs, new)
        /\ refresh' = Schedule(new)
        /\ UNCHANGED <<window, channels, rows>>

-----------------------------------------------------------------------------
\* tu_dram_create: presets of one clock, and nothing modelled yet.
Created(type) ==
    [type |-> type, clock |-> 2, latDomain |-> "core", readNs |-> 1, writeNs |-> 1,
     readLat |-> 1, writeLat |-> 1, rowModel |-> FALSE, policy |-> "legacy",
     toDomain |-> "core", timeoutNs |-> 0, timeout |-> 0, miss |-> 1, conflict |-> 1,
     mapping |-> "burst", turnMode |-> "none", turnDomain |-> "core", rtwNs |-> 0,
     wtrNs |-> 0, rtw |-> 0, wtr |-> 0, readBurst |-> BurstBytes,
     writeBurst |-> BurstBytes, mode |-> "none", sched |-> "fixed", rate |-> 1,
     trefiNs |-> 0, trfcNs |-> 0, trfcPbNs |-> 0, maxdefNs |-> 0,
     trefi |-> 0, trfc |-> 0, trfcPb |-> 0, maxdef |-> 0]

\* tu_dram_create_from_config: the setters in turn; any that refuses fails it.
Configured(c, l, r, penalty, m, t, f) ==
    WithRefresh(WithTurnaround(
        [WithRow(WithLatency([Created("dram") EXCEPT !.clock = c], l), r, penalty)
            EXCEPT !.mapping = m], t), f)

DramInit ==
    /\ \/ setting \in {Created("dram"), Created("ideal")}
       \/ \E b \in Boards :
             /\ setting = Configured(b[1], b[2], b[3], b[4], b[5], b[6], b[7])
             /\ AdaptiveNeedsTimeout(setting) /\ FixedNeedsCost(setting)
             /\ XorNeedsPowerOfTwo(setting)
             /\ setting.maxdefNs <= setting.trefiNs
    /\ now = 0 /\ window = FreshWindow /\ channels = Undirected /\ rows = Closed
    /\ refresh = Schedule(setting)
    /\ last = Report("set") /\ calls = 0 /\ sets = 0

DramNext ==
    \/ DramTick \/ DramIdeal \/ DramReset
    \/ \E t \in Transfers, dir \in {"read", "write"} : DramAccess(dir, t[1], t[2])
    \/ \E c \in Clocks : SetCoreClock(c)
    \/ \E l \in Latencies : SetLatency(l)
    \/ \E on \in BOOLEAN : SetRowModeling(on)
    \/ \E r \in RowSettings, p \in RowPenalties : SetRowPolicy(r, p)
    \/ \E m \in Mappings : SetMapping(m)
    \/ \E t \in Turnarounds : SetTurnaround(t)
    \/ \E read, write \in {BurstBytes, 2 * BurstBytes} : SetGranules(read, write)
    \/ \E r \in Refreshes : SetRefresh(r)

DramSpec == DramInit /\ [][DramNext]_dramVars

-----------------------------------------------------------------------------
\* The model's clocks, budget, rows and refreshes keep their types.
DramTypeOK ==
    /\ now \in 0 .. MaxNow /\ window.budget \in 0 .. WindowBudget
    /\ window.start \in 0 .. MaxNow /\ window.pending \in Nat
    /\ \A c \in Channel : /\ channels[c].free \in Nat
                          /\ channels[c].dir \in {"none", "read", "write"}
    /\ \A c \in Channel, b \in DramBank : /\ rows[c][b].open \in {NoRow} \cup Nat
                                          /\ rows[c][b].used \in 0 .. MaxNow \cup {Never}
    /\ \A b \in DramBank : refresh[b].next \in Nat /\ refresh[b].until \in Nat

\* No tick and no access leaves a refresh behind: with FIXED scheduling none
\* is due, with DEFERRED none is past its deadline (refresh_catchup).
RefreshOnTime ==
    last.op \in {"tick", "access"} =>
        \A b \in Slots(setting) :
            refresh[b].next + (IF setting.sched = "fixed" \/ last.op = "access" THEN 0
                               ELSE setting.maxdef) > now

\* Two refreshes of a bank are never further apart than the interval and the
\* deferral, whatever the traffic.
RefreshGapBounded ==
    \A b \in Slots(setting) :
        refresh[b].gap <= Interval(setting)
                          + (IF setting.sched = "fixed" THEN 0 ELSE setting.maxdef)

\* A row hit is reported only for a row used since the last refresh of its
\* bank, and with the adaptive policy not too long ago.
RowHitsHonest ==
    last'.op = "access" /\ last'.outcome = "hit" =>
       LET used == rows[last'.channel][last'.bank].used
       IN  /\ setting.mode # "none" =>
                  refresh'[SlotOf(setting, last'.bank)].at <= used
           /\ setting.policy = "adaptive" => now - used <= setting.timeout

\* Every timing in cycles is the conversion of its source at the present
\* clock, in whatever order the setters were called.
TimingsAgree ==
    /\ setting.readLat = Converted(setting.latDomain, setting.readNs, setting.clock)
    /\ setting.writeLat = Converted(setting.latDomain, setting.writeNs, setting.clock)
    /\ setting.timeout = Converted(setting.toDomain, setting.timeoutNs, setting.clock)
    /\ setting.rtw = Converted(setting.turnDomain, setting.rtwNs, setting.clock)
    /\ setting.wtr = Converted(setting.turnDomain, setting.wtrNs, setting.clock)
    /\ setting.trefi = Converted("ns", setting.trefiNs, setting.clock)

\* The accesses of a window that were not stalled for bandwidth fit its
\* budget.
UnstalledWithinBudget == window.unstalled <= WindowBudget

\* When the bus changes direction, the new service starts no earlier than the
\* turnaround after the end of the one before, idle credit included.
BusTurnsAround ==
    last'.op = "access" /\ setting.turnMode # "none" /\ last'.cost > 0 =>
       now + last'.wait + last'.turned
           >= channels[last'.channel].free + last'.cost

\* Every mapping spreads any whole set of rows evenly: no row of a bank of a
\* channel gets more bursts than it holds.
MappingSpreads ==
    \A c \in Channel, b \in DramBank :
        Cardinality({k \in 0 .. Channels * DramBanks * BurstsPerRow - 1 :
            Decode(setting.mapping, k * BurstBytes) = [channel |-> c, bank |-> b, row |-> 0]})
        = BurstsPerRow

\* Refresh, conversion, budget and mapping hold together whatever the traffic
\* and whichever setter came when.
DramSound ==
    /\ DramTypeOK
    /\ RefreshOnTime /\ RefreshGapBounded
    /\ TimingsAgree
    /\ UnstalledWithinBudget
    /\ MappingSpreads

\* What an access is told of its row and of its bus is what the model's own
\* history of refreshes and services says (tu_dram_access).
DramStep == [RowHitsHonest /\ BusTurnsAround]_dramVars

=============================================================================
