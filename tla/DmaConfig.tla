------------------------------- MODULE DmaConfig -------------------------------
(* How the DMA engine is configured (dma_descriptor.c): the family of          *)
(* initializers, each handing its parameters and a default to the next, what   *)
(* the last of them accepts, and the setters of deficit round robin with the   *)
(* credits they drop.                                                          *)
(*                                                                             *)
(* The queues, the arbitration and the credits' use are DmaEngine's; here      *)
(* credits come from its ticks.  Errors printed to stderr are left out.        *)
EXTENDS Integers, Sequences

CONSTANTS
    Limits,     \* [channels, bus, burst, boost, quantum, cycles, issue]: the
                \* accepted ranges <<least, most>>, bus and burst in bytes
    Defaults,   \* [channels, depth, bus, burst, issue, read, write]
    ShortRequests, \* parameters of tu_dma_init_config_timing
    FullRequests,  \* parameters of the full initializer
    DrrSettings,   \* values handed to the setters
    WeightVectors, \* channel weights handed to tu_dma_set_drr_service
    MaxCredit,     \* bound: credits a tick leaves behind
    MaxConfigCalls \* bound on the calls after the first

\* The arguments of the first initializer that takes latencies.
ShortFields ==
    {"async", "num_channels", "max_queue_depth", "bus_mode", "arb_policy", "binding_policy", "bus_width",
     "read_latency", "write_latency"}

\* The parameters that are counts, present or not.
CountFields == {"num_channels", "max_queue_depth", "drr_quantum_bytes", "drr_quantum_cycles"}
Counting(p) == \A name \in CountFields \cap DOMAIN p : p[name] \in Nat

Unset == -1     \* an issue cost that is not configured

\* Those that are widths, bursts and cycles.
Measures ==
    {"bus_width", "max_burst", "read_burst", "write_burst", "burst_issue", "read_latency", "write_latency"}
Measured(p) ==
    /\ \A name \in Measures \cap DOMAIN p : p[name] \in Nat
    /\ \A name \in {"read_issue", "write_issue"} \cap DOMAIN p : p[name] \in Nat \cup {Unset}

ASSUME ConfigAssumption ==
    /\ Limits \in [{"channels", "bus", "burst", "boost", "quantum", "cycles", "issue"} -> Nat \X Nat]
    /\ Limits.channels[1] <= 1 /\ Limits.bus[1] > 0 /\ Limits.burst[1] > 0 /\ Limits.quantum[1] > 0
    /\ Defaults.channels \in Nat \ {0} /\ Defaults.depth \in Nat \ {0}
    /\ \A name \in {"bus", "burst", "issue", "read", "write"} : Defaults[name] \in Nat
    /\ \A p \in ShortRequests : DOMAIN p = ShortFields /\ Counting(p) /\ Measured(p)
    /\ \A p \in FullRequests :
          /\ Counting(p) /\ CountFields \subseteq DOMAIN p
          /\ Measured(p) /\ Measures \cup {"read_issue", "write_issue"} \subseteq DOMAIN p
    /\ DrrSettings \subseteq Nat /\ WeightVectors \subseteq Seq(Nat) /\ MaxCredit \in Nat

VARIABLES
    engine,     \* the configuration in g_tu_dma
    short,      \* it came from a historical initializer, with these parameters
    drr,        \* what the setters set
    drrCredits, \* drr_deficit_credits of each channel
    visiting,   \* drr_continue_visit
    earnedAs,   \* the drr settings under which the credits were earned
    configCalls \* a bound

configVars == <<engine, short, drr, drrCredits, visiting, earnedAs, configCalls>>

-------------------------------------------------------------------------------
(* What is accepted.                                                           *)

Within(n, range) == range[1] <= n /\ n <= range[2]
PowerOf2(n) == \E k \in 0..16 : n = 2^k
OrElse(n, default) == IF n = 0 THEN default ELSE n

Zeroed ==
    [async |-> FALSE, channels |-> 0, depth |-> 0, bus |-> 0, readBurst |-> 0, writeBurst |-> 0,
     readIssue |-> 0, writeIssue |-> 0, readLatency |-> 0, writeLatency |-> 0,
     segmentation |-> "aggregate", base |-> "descriptor", payload |-> "packed",
     overlap |-> "serialized", boundary |-> "size", cost |-> "useful",
     quantumBytes |-> 0, quantumCycles |-> 0]

PoliciesKnown(p) ==
    p.bus_mode \in {"independent", "shared"} /\ p.arb_policy \in {"rr", "strict", "aging", "drr"}

AgingValid(p) ==
    /\ p.aging_scope \in {"submission", "head"} /\ p.aging_metric \in {"grants", "cycles"}
    /\ OrElse(p.aging_increment, 1) <= Limits.boost[2] /\ p.aging_max_boost <= Limits.boost[2]
    /\ OrElse(p.aging_cycle_quantum, 1) <= Limits.cycles[2]

DrrValid(p) ==
    LET quantum == OrElse(p.drr_quantum_bytes, 256)
    IN  /\ Within(quantum, Limits.quantum) /\ PowerOf2(quantum)
        /\ p.drr_cost_mode \in {"useful", "occupied", "service"}
        /\ OrElse(p.drr_quantum_cycles, 64) <= Limits.cycles[2]

ScopesValid(p) ==
    /\ p.segmentation \in {"aggregate", "logical"} /\ p.base_scope \in {"descriptor", "segment"}
    /\ p.payload_scope \in {"packed", "segment", "burst"}
    /\ p.issue_payload_mode \in {"serialized", "overlapped"}
    /\ p.boundary_mode \in {"size", "sram", "sram4k", "ext4k", "both4k", "ext", "both"}

BusValid(p) == LET bus == OrElse(p.bus_width, Defaults.bus) IN Within(bus, Limits.bus) /\ PowerOf2(bus)

CommonBurst(p) == OrElse(p.max_burst, Defaults.burst)
IssueOf(p, cycles) == IF cycles = Unset THEN p.burst_issue ELSE cycles
BurstAllowed(n) == Within(n, Limits.burst) /\ PowerOf2(n)

\* Looks at the common burst only.
BurstsCommonValid(p) ==
    /\ BurstAllowed(CommonBurst(p))
    /\ \A n \in {p.burst_issue, IssueOf(p, p.read_issue), IssueOf(p, p.write_issue)} : n <= Limits.issue[2]

BurstsValid(p) ==
    /\ \A n \in {CommonBurst(p), OrElse(p.read_burst, CommonBurst(p)),
                 OrElse(p.write_burst, CommonBurst(p))} : BurstAllowed(n)
    /\ \A n \in {p.burst_issue, IssueOf(p, p.read_issue), IssueOf(p, p.write_issue)} : n <= Limits.issue[2]

\* The full initializer.  A refusal leaves no channel; some leave what was set
\* before them, the others clear the engine.
Configured(p) ==
    LET begun == [Zeroed EXCEPT !.async = p.async]
        scoped == [begun EXCEPT !.segmentation = p.segmentation, !.base = p.base_scope,
                                !.payload = p.payload_scope, !.overlap = p.issue_payload_mode,
                                !.boundary = p.boundary_mode, !.cost = p.drr_cost_mode,
                                !.quantumBytes = OrElse(p.drr_quantum_bytes, 256),
                                !.quantumCycles = OrElse(p.drr_quantum_cycles, 64)]
        timed == [scoped EXCEPT !.bus = OrElse(p.bus_width, Defaults.bus),
                                !.readBurst = OrElse(p.read_burst, CommonBurst(p)),
                                !.writeBurst = OrElse(p.write_burst, CommonBurst(p)),
                                !.readIssue = IssueOf(p, p.read_issue),
                                !.writeIssue = IssueOf(p, p.write_issue),
                                !.readLatency = p.read_latency, !.writeLatency = p.write_latency]
        channels == OrElse(p.num_channels, Defaults.channels)
    IN  IF ~PoliciesKnown(p) THEN begun
        ELSE IF ~AgingValid(p) \/ ~DrrValid(p) THEN Zeroed
        ELSE IF p.binding_policy \notin {"explicit", "rr", "outstanding", "bytes", "cycles"} THEN begun
        ELSE IF ~ScopesValid(p) THEN Zeroed
        ELSE IF ~BusValid(p) THEN scoped
        ELSE IF ~BurstsValid(p) THEN Zeroed
        ELSE IF channels > Limits.channels[2] THEN timed
        ELSE [timed EXCEPT !.channels = channels, !.depth = OrElse(p.max_queue_depth, Defaults.depth)]

-------------------------------------------------------------------------------
(* The initializers, from the latest to the first: each adds a default.        *)

\* p and the defaults it leaves out (TLC's @@, which the provers do not know).
With(p, defaults) ==
    [name \in DOMAIN p \cup DOMAIN defaults |-> IF name \in DOMAIN p THEN p[name] ELSE defaults[name]]

InitDrrCost(p) == Configured(With(p, [drr_quantum_cycles |-> 64]))
InitDrr(p) == InitDrrCost(With(p, [drr_cost_mode |-> "useful"]))
InitPolicyCap(p) == InitDrr(With(p, [drr_quantum_bytes |-> 256]))
InitAgingPolicy(p) == InitPolicyCap(With(p, [aging_max_boost |-> 0]))
InitAgingRate(p) == InitAgingPolicy(With(p, [aging_metric |-> "grants", aging_cycle_quantum |-> 1]))
InitAging(p) == InitAgingRate(With(p, [aging_increment |-> 1]))
InitBoundary(p) == InitAging(With(p, [aging_scope |-> "submission"]))
InitOverlap(p) == InitBoundary(With(p, [boundary_mode |-> "size"]))
InitPayloadScope(p) == InitOverlap(With(p, [issue_payload_mode |-> "serialized"]))
InitBaseScope(p) == InitPayloadScope(With(p, [payload_scope |-> "packed"]))
InitSegmentation(p) == InitBaseScope(With(p, [base_scope |-> "descriptor"]))
InitDirectionalIssue(p) == InitSegmentation(With(p, [segmentation |-> "aggregate"]))

InitDirectionalBurst(p) == InitDirectionalIssue(With(p, [read_issue |-> Unset, write_issue |-> Unset]))

InitBurst(p) == InitDirectionalBurst(With(p, [read_burst |-> 0, write_burst |-> 0]))
InitTiming(p) == InitBurst(With(p, [max_burst |-> Defaults.burst, burst_issue |-> Defaults.issue]))
InitArch(p) == InitTiming(With(p, [read_latency |-> Defaults.read, write_latency |-> Defaults.write]))
InitBindingPolicy(p) == InitArch(With(p, [bus_width |-> Defaults.bus]))
InitPolicy(p) == InitBindingPolicy(With(p, [binding_policy |-> "explicit"]))
InitConfig(p) == InitPolicy(With(p, [arb_policy |-> "rr"]))
InitChannels(p) == InitConfig(With(p, [bus_mode |-> "independent"]))
InitDefault(async) ==
    InitChannels([async |-> async, num_channels |-> Defaults.channels, max_queue_depth |-> Defaults.depth])

-------------------------------------------------------------------------------
(* The setters, and the credits.                                               *)

InUse == 0..(engine.channels - 1)
NoCredits == [c \in 0..(Limits.channels[2] - 1) |-> 0]
DrrFresh ==
    [service |-> 0, idle |-> 0, granularity |-> 0, round |-> 0, roundMode |-> 0, select |-> 0,
     width |-> 1, roundWidth |-> 0, selectWidth |-> 0, weights |-> <<>>]

\* Every initializer clears the whole engine.
Reinitialized(e, s) ==
    /\ engine' = e /\ short' = s
    /\ drr' = DrrFresh /\ drrCredits' = NoCredits /\ visiting' = FALSE /\ earnedAs' = DrrFresh

ConfigInit ==
    /\ engine = Zeroed /\ short = Zeroed /\ drr = DrrFresh /\ drrCredits = NoCredits
    /\ visiting = FALSE /\ earnedAs = DrrFresh /\ configCalls = 0

ConfigCall == configCalls < MaxConfigCalls /\ configCalls' = configCalls + 1

Initialize ==
    /\ ConfigCall
    /\ \/ \E p \in ShortRequests : Reinitialized(InitTiming(p), InitTiming(p))
       \/ \E async \in BOOLEAN : Reinitialized(InitDefault(async), InitDefault(async))
       \/ \E p \in FullRequests : Reinitialized(Configured(p), Zeroed)

\* tu_dma_destroy.
Destroy == ConfigCall /\ Reinitialized(Zeroed, Zeroed)

Drop == drrCredits' = [c \in DOMAIN drrCredits |-> IF c \in InUse THEN 0 ELSE drrCredits[c]]
        /\ visiting' = FALSE
Keep == UNCHANGED <<drrCredits, visiting>>
SetDrr(next) == drr' = next /\ UNCHANGED <<engine, short, earnedAs>>

\* All weights or none may be zero, and a visit does not go on.
SetService(mode, weights) ==
    /\ ConfigCall
    /\ mode <= 1 /\ Len(weights) = Limits.channels[2]
    /\ (\A i \in DOMAIN weights : weights[i] = 0) \/ (\A i \in DOMAIN weights : weights[i] # 0)
    /\ SetDrr([drr EXCEPT !.service = mode,
                          !.weights = [i \in DOMAIN weights |-> OrElse(weights[i], 1)]])
    /\ visiting' = FALSE /\ UNCHANGED drrCredits

\* Back to resetting, channels without work lose their credits; which have
\* work is the queues' affair.
SetIdlePolicy(policy, working) ==
    /\ ConfigCall /\ policy <= 1
    /\ SetDrr([drr EXCEPT !.idle = policy])
    /\ drrCredits' = [c \in DOMAIN drrCredits |->
                        IF policy = 0 /\ c \in InUse \ working THEN 0 ELSE drrCredits[c]]
    /\ UNCHANGED visiting

SetGranularity(g) ==
    /\ ConfigCall /\ g <= 1
    /\ SetDrr([drr EXCEPT !.granularity = g])
    /\ IF g # drr.granularity THEN Drop ELSE Keep

SetRoundCycles(n) ==
    /\ ConfigCall /\ n <= Limits.issue[2]
    /\ SetDrr([drr EXCEPT !.round = n])
    /\ IF n # drr.round THEN Drop ELSE Keep

SetRoundMode(m) ==
    /\ ConfigCall /\ m <= 2
    /\ SetDrr([drr EXCEPT !.roundMode = m])
    /\ IF m # drr.roundMode THEN Drop ELSE Keep

SetSelectCycles(n) ==
    ConfigCall /\ n <= Limits.issue[2] /\ SetDrr([drr EXCEPT !.select = n]) /\ Keep

SetScanWidth(width) ==
    /\ ConfigCall /\ width <= Limits.channels[2]
    /\ SetDrr([drr EXCEPT !.width = OrElse(width, 1)]) /\ Keep

SetStageScanWidths(round, select) ==
    /\ ConfigCall /\ round <= Limits.channels[2] /\ select <= Limits.channels[2]
    /\ SetDrr([drr EXCEPT !.roundWidth = round, !.selectWidth = select]) /\ Keep

\* A tick grants credits, and may leave a visit to be continued.
Earn(c, credit) ==
    /\ ConfigCall /\ c \in InUse
    /\ drrCredits' = [drrCredits EXCEPT ![c] = credit]
    /\ visiting' \in BOOLEAN
    /\ earnedAs' = drr
    /\ UNCHANGED <<engine, short, drr>>

Settings ==
    \/ \E n \in DrrSettings :
         \/ \E w \in WeightVectors : SetService(n, w)
         \/ \E working \in SUBSET InUse : SetIdlePolicy(n, working)
         \/ SetGranularity(n) \/ SetRoundCycles(n) \/ SetRoundMode(n) \/ SetSelectCycles(n)
         \/ SetScanWidth(n) \/ \E m \in DrrSettings : SetStageScanWidths(n, m)
    \/ \E c \in InUse, credit \in 1..MaxCredit : Earn(c, credit)

ConfigNext == Initialize \/ Destroy \/ Settings

ConfigSpec == ConfigInit /\ [][ConfigNext]_configVars

-------------------------------------------------------------------------------
(* The cycles a scan takes.                                                    *)

CeilDiv(n, k) == (n + k - 1) \div k

ScanGroups(probes, width) == CeilDiv(probes, OrElse(width, drr.width))

RoundDelay == drr.round * (IF drr.roundMode = 0 THEN 1 ELSE ScanGroups(engine.channels, drr.roundWidth))
SelectDelay(probes) ==
    drr.select * (CASE drr.roundMode = 0 -> 1
                    [] drr.roundMode = 1 -> ScanGroups(engine.channels, drr.selectWidth)
                    [] drr.roundMode = 2 -> ScanGroups(probes, drr.selectWidth))

-------------------------------------------------------------------------------
(* Properties.                                                                 *)

\* Whatever the parameters, the engine either has channels and every divisor
\* of its timing is a power of two at least as large as allowed, a burst never
\* below a beat's least width, or it has no channel at all: it fails closed.
WorksOrOff(e) ==
    e.channels > 0 =>
        /\ e.depth > 0 /\ Within(e.channels, Limits.channels)
        /\ PowerOf2(e.bus) /\ Within(e.bus, Limits.bus)
        /\ BurstAllowed(e.readBurst) /\ BurstAllowed(e.writeBurst)
        /\ e.readIssue <= Limits.issue[2] /\ e.writeIssue <= Limits.issue[2]
        /\ e.quantumBytes > 0 /\ e.quantumCycles > 0

ConfiguredOrOff == WorksOrOff(engine)

\* Credits are never spent at other prices than they were earned at: no
\* sequence of setters carries a credit from one cost granularity or round
\* cost to another.
CreditsKeepTheirPrice ==
    \A c \in InUse : drrCredits[c] > 0 =>
        /\ earnedAs.granularity = drr.granularity
        /\ earnedAs.round = drr.round /\ earnedAs.roundMode = drr.roundMode

\* No sequence of initializers and setters leaves an engine that works on a
\* refused configuration or spends credits of another.
ConfigurationSound == ConfiguredOrOff /\ CreditsKeepTheirPrice

\* Scanning in groups costs no more than one by one and no less than a single
\* group, a selection that looked at fewer queues no more than one that looked
\* at all of them, and a non-zero delay never rounds to none.
ScanDelaysOrdered ==
    engine.channels > 0 =>
        /\ drr.round <= RoundDelay /\ RoundDelay <= drr.round * engine.channels
        /\ \A n \in InUse : /\ drr.select <= SelectDelay(n + 1)
                            /\ SelectDelay(n + 1) <= SelectDelay(engine.channels)

===============================================================================
