------------------------------ MODULE ConfigLoader ------------------------------
(* From a configuration file to a running unit (infra/config.c, tu_cmodel.c,    *)
(* memory/dram_model.c): the loader lays the file over the defaults and         *)
(* validates the result; it is converted, and starts the SRAM regions and the   *)
(* DMA engine with its setters, or creates a DRAM.  Each of these checks the    *)
(* values again, or does not.                                                   *)
(*                                                                             *)
(* A file maps keys to values <<type, value>>; an absent section is its absent *)
(* keys.  Every field is a number: a choice is the number of its name, -1 one  *)
(* that is not known.  Reals are whole, the clock is in half GHz, the bus in    *)
(* bytes.  Fields that are neither validated nor started from are left out.    *)
EXTENDS DmaConfig

CONSTANTS
    ConfigWord,     \* 2^32: numbers are cast to its remainders
    Files,          \* the files that are read
    Edits,          \* <<field, value>> a client writes into a configuration
    MaxConfigSteps  \* bound on the calls of a behaviour

ASSUME LoaderAssumption ==
    ConfigWord \in Nat /\ ConfigWord % 1024 = 0 /\ ConfigWord > 100000001

VARIABLES
    config,     \* the client's tu_config_t
    file,       \* the file it was read from, while nothing else was written
    accepted,   \* the loader or the validator accepted it as it is
    unit,       \* g_tu: the configuration it was started from, and the regions
    dram,       \* whether the last creation succeeded, and from what
    configSteps \* a bound

loaderVars == <<config, file, accepted, unit, dram, configSteps>>

-------------------------------------------------------------------------------
(* The fields.                                                                 *)

MaxField == ConfigWord - 1     \* UINT32_MAX, also the mark of a refused number

\* The names of each choice, in the order of their numbers; those of the DMA
\* engine are DmaConfig's.
Names ==
    [dataflow |-> <<"weight", "output", "row">>, metering |-> <<"size", "span">>,
     row_policy |-> <<"legacy", "open", "closed", "adaptive">>,
     mapping |-> <<"burst", "row", "xor">>, timeout_domain |-> <<"cycles", "ns">>,
     latency_domain |-> <<"cycles", "ns">>, turn_domain |-> <<"cycles", "ns">>,
     turn_mode |-> <<"none", "fixed", "idle", "burst", "round", "span">>,
     refresh_mode |-> <<"none", "all", "per">>, refresh_sched |-> <<"fixed", "deferred">>,
     segmentation |-> <<"aggregate", "logical">>, base_scope |-> <<"descriptor", "segment">>,
     payload_scope |-> <<"packed", "segment", "burst">>,
     issue_payload |-> <<"serialized", "overlapped">>,
     boundary |-> <<"size", "sram", "sram4k", "ext4k", "both4k", "ext", "both">>,
     bus_mode |-> <<"independent", "shared">>, arb |-> <<"rr", "strict", "aging", "drr">>,
     cost_mode |-> <<"useful", "occupied", "service">>,
     service_mode |-> <<"interleaved", "conserving">>, idle_policy |-> <<"reset", "retain">>,
     granularity |-> <<"exact", "rounded">>, round_mode |-> <<"fixed", "channel", "visited">>,
     aging_scope |-> <<"submission", "head">>, aging_metric |-> <<"grants", "cycles">>,
     aging_domain |-> <<"cycles", "ns">>,
     binding |-> <<"explicit", "rr", "outstanding", "bytes", "cycles">>,
     compression |-> <<"none", "rle", "adaptive_rle", "bitmap", "adaptive">>,
     interconnect |-> <<"none", "ring", "mesh">>, switching |-> <<"legacy", "cut", "store">>,
     contention |-> <<"ideal", "shared">>, routing |-> <<"xy", "yx">>,
     tech |-> <<"auto", "45", "28", "16", "7", "5", "3">>]

\* Numbers cast to 32 bits as they come.
Cast == {"w_kb", "a_kb", "o_kb", "banks", "bank_width", "bus", "burst", "read_burst", "write_burst",
         "burst_issue", "read_issue", "write_issue", "channels", "quantum_bytes", "quantum_cycles",
         "aging_increment", "max_boost", "aging_quantum", "outstanding", "queue_depth"}

\* Numbers read within a range, and what stands for one outside of it.
Ranged ==
    [pipeline_depth |-> <<1, 16, 0>>, words |-> <<1, 255, 0>>, window |-> <<1, 1000000, 0>>,
     stall |-> <<1, 255, 0>>, dram_channels |-> <<1, 1024, 0>>,
     row_miss |-> <<0, 1000000, MaxField>>, row_conflict |-> <<0, 1000000, MaxField>>,
     timeout |-> <<0, 1000000, MaxField>>, read_granule |-> <<0, 1048576, MaxField>>,
     write_granule |-> <<0, 1048576, MaxField>>, rate |-> <<0, 4, MaxField>>,
     trefi |-> <<0, 100000000, MaxField>>, trfc |-> <<0, 100000000, MaxField>>,
     trfc_pb |-> <<0, 100000000, MaxField>>, deferral |-> <<0, 100000000, MaxField>>,
     round_issue |-> <<0, 1024, 1025>>, select_issue |-> <<0, 1024, 1025>>,
     decoder |-> <<1, 1048576, 0>>, rle_runs |-> <<1, 1048576, 0>>, bitmap |-> <<1, 1048576, 0>>,
     link |-> <<1, 1048576, 0>>, router |-> <<0, 1048576, MaxField>>, groups |-> <<1, 1048576, 0>>]

Reals == {"timeout_ns", "read_latency", "write_latency", "rtw", "wtr", "aging_ns", "epsilon", "mhz"}
Widths == {"scan_width", "round_width", "select_width"}
Switches == {"async", "sparsity", "two_of_four", "unstructured"}

Default ==
    With([k \in DOMAIN Names \cup Switches |-> 0],
    With([rows |-> 16, cols |-> 16, pipeline_depth |-> 2, w_kb |-> 128, a_kb |-> 64, o_kb |-> 64,
          banks |-> 32, bank_width |-> 4, words |-> 1, window |-> 4, stall |-> 2, dram_channels |-> 8,
          row_miss |-> 10, row_conflict |-> 0, timeout |-> 100, timeout_ns |-> 100,
          read_latency |-> 50, write_latency |-> 50, clock |-> 2, rtw |-> 0, wtr |-> 0,
          read_granule |-> 64, write_granule |-> 64, rate |-> 1, trefi |-> 7800, trfc |-> 350,
          trfc_pb |-> 90, deferral |-> 7800, epsilon |-> 0, decoder |-> 1, rle_runs |-> 1,
          bitmap |-> 1, link |-> 16, router |-> 5, groups |-> 1, mhz |-> 0, queue_depth |-> 16],
         [bus |-> 32, burst |-> 64, read_burst |-> 0, write_burst |-> 0, burst_issue |-> 0,
          read_issue |-> Unset, write_issue |-> Unset, channels |-> 3, quantum_bytes |-> 256,
          quantum_cycles |-> 64, round_issue |-> 0, select_issue |-> 0, scan_width |-> 1,
          round_width |-> 0, select_width |-> 0, aging_increment |-> 1, max_boost |-> 0,
          aging_quantum |-> 1, aging_ns |-> 1, outstanding |-> 4,
          weights |-> [i \in 1..Limits.channels[2] |-> 1]]))

-------------------------------------------------------------------------------
(* Reading a file.                                                             *)

Numeric(v) == v[1] \in {"int", "real", "flag"}
Measure(v) == v[1] \in {"int", "real"}

\* What a JSON value is: a number, a flag, a name, or a list of them.
Scalar(v) == (Numeric(v) => v[2] \in Int) /\ (v[1] = "flag" => v[2] \in {0, 1})
WellFormed(v) ==
    Scalar(v) /\ (v[1] = "list" => DOMAIN v[2] = 1..Len(v[2]) /\ \A i \in DOMAIN v[2] : Scalar(v[2][i]))

\* Files and edits are of the fields, and the engine's limits, which its
\* configuration checks, are no narrower than those the validator spells out.
ASSUME InputAssumption ==
    /\ \A f \in Files : DOMAIN f \subseteq DOMAIN Default /\ \A k \in DOMAIN f : WellFormed(f[k])
    /\ \A e \in Edits : e[1] \in DOMAIN Default \ {"weights"} /\ e[2] \in Int
    /\ Limits.channels[1] = 1 /\ Limits.channels[2] > 1
    /\ Limits.bus[1] <= 4 /\ 128 <= Limits.bus[2]
    /\ \A l \in {Limits.burst, Limits.quantum} : l[1] <= 16 /\ 65536 <= l[2]
    /\ 255 <= Limits.boost[2] /\ 1048576 <= Limits.cycles[2] /\ 1024 <= Limits.issue[2]

NumberOf(names, name) ==
    IF \E i \in DOMAIN names : names[i] = name THEN (CHOOSE i \in DOMAIN names : names[i] = name) - 1
    ELSE -1

\* A choice is a string, and is otherwise passed over; but word metering is refused.
ReadChoice(k, v) ==
    IF v[1] = "name" THEN NumberOf(Names[k], v[2])
    ELSE IF k = "metering" THEN -1 ELSE Default[k]

\* A loader that takes the nearer limit instead of refusing.
ReadRangedClamped(k, v) ==
    IF ~Numeric(v) THEN Default[k]
    ELSE IF v[2] < Ranged[k][1] THEN Ranged[k][1] ELSE IF v[2] > Ranged[k][2] THEN Ranged[k][2] ELSE v[2]

ReadRanged(k, v) ==
    IF ~Numeric(v) THEN Default[k]
    ELSE IF Within(v[2], Ranged[k]) THEN v[2] ELSE Ranged[k][3]

\* Rows and columns out of 16 bits are silently the default.
ReadSide(v) == IF Measure(v) /\ Within(v[2], <<1, 65535>>) THEN v[2] ELSE 16

ReadClock(v) ==
    IF ~Measure(v) THEN Default.clock ELSE IF Within(v[2], <<1, 20>>) THEN v[2] ELSE -1

ReadWidth(v) ==
    IF v[1] = "int" /\ Within(v[2], <<0, Limits.channels[2]>>) THEN v[2] ELSE Limits.channels[2] + 1

\* Either every weight, or a first one of zero for the validator to refuse.
ReadWeights(v) ==
    IF /\ v[1] = "list" /\ Len(v[2]) = Limits.channels[2]
       /\ \A i \in DOMAIN v[2] : v[2][i][1] = "int" /\ Within(v[2][i][2], <<1, 255>>)
    THEN [i \in 1..Limits.channels[2] |-> v[2][i][2]]
    ELSE [Default.weights EXCEPT ![1] = 0]

Read(k, v) ==
    CASE k \in DOMAIN Names -> ReadChoice(k, v)
      [] k \in Cast -> IF Numeric(v) THEN v[2] % ConfigWord ELSE Default[k]
      [] k \in DOMAIN Ranged -> ReadRanged(k, v)
      [] k \in {"rows", "cols"} -> ReadSide(v)
      [] k \in Reals -> IF Measure(v) THEN v[2] ELSE Default[k]
      [] k \in Switches -> IF v[1] \in {"int", "flag"} /\ v[2] # 0 THEN 1 ELSE 0
      [] k \in Widths -> ReadWidth(v)
      [] k = "clock" -> ReadClock(v)
      [] k = "weights" -> ReadWeights(v)

\* tu_config_load_string, before it validates.
Loaded(f) == [k \in DOMAIN Default |-> IF k \in DOMAIN f THEN Read(k, f[k]) ELSE Default[k]]

-------------------------------------------------------------------------------
(* Validation.                                                                 *)

\* Fields that must be in a range; a mark of UINT32_MAX is what is refused of some.
Checked ==
    With([k \in {"row_miss", "row_conflict", "timeout", "read_granule", "write_granule", "trefi", "trfc",
                 "trfc_pb", "deferral", "router"} |-> <<0, MaxField - 1>>],
    With([k \in {"w_kb", "a_kb", "o_kb", "queue_depth", "link", "decoder", "rle_runs", "bitmap", "groups"}
             |-> <<1, MaxField>>],
    With([k \in {"timeout_ns", "read_latency", "write_latency", "rtw", "wtr"} |-> <<0, 100000000>>],
         [rows |-> <<1, 1024>>, cols |-> <<1, 1024>>, pipeline_depth |-> <<1, 16>>,
          banks |-> <<1, 1024>>, words |-> <<1, 255>>, window |-> <<1, 1000000>>, stall |-> <<1, 255>>,
          dram_channels |-> <<1, 1024>>, outstanding |-> <<1, 65535>>, mhz |-> <<0, 10000>>,
          burst_issue |-> <<0, 1024>>, round_issue |-> <<0, 1024>>, select_issue |-> <<0, 1024>>,
          quantum_cycles |-> <<0, 1048576>>, aging_quantum |-> <<1, 1048576>>,
          aging_increment |-> <<1, 255>>, max_boost |-> <<0, 255>>, aging_ns |-> <<1, 1048576>>,
          clock |-> <<0, 20>>, bus |-> <<4, 128>>, burst |-> <<16, 65536>>,
          channels |-> Limits.channels, scan_width |-> <<0, Limits.channels[2]>>,
          round_width |-> <<0, Limits.channels[2]>>, select_width |-> <<0, Limits.channels[2]>>])))

\* A validator that takes any small size.
ZeroOrAtMost(n) == n <= 65536

\* A compatibility zero, or a power of two in range.
ZeroOrSize(n) == n # 0 => Within(n, <<16, 65536>>) /\ PowerOf2(n)
PowerOfTwo(n) == \E k \in 0..30 : n = 2^k

InCycles(domain, value, clock) == IF domain = 1 THEN CeilDiv(value * clock, 2) ELSE value

DmaValid(c) ==
    /\ PowerOf2(c.bus) /\ PowerOf2(c.burst)
    /\ \A k \in {"read_burst", "write_burst", "quantum_bytes"} : ZeroOrSize(c[k])
    /\ \A k \in {"read_issue", "write_issue"} : c[k] # Unset => c[k] <= 1024
    /\ (\A i \in DOMAIN c.weights : c.weights[i] = 0) \/ (\A i \in DOMAIN c.weights : c.weights[i] # 0)
    /\ c.aging_domain = 1 => InCycles(1, c.aging_ns, c.clock) <= 1048576

DramValid(c) ==
    /\ c.mapping = 2 => PowerOfTwo(c.dram_channels)
    /\ c.row_policy = 3 => (IF c.timeout_domain = 1 THEN c.timeout_ns ELSE c.timeout) > 0
    /\ c.turn_mode # 0 => c.rtw > 0 \/ c.wtr > 0
    /\ \A k \in {"read_granule", "write_granule"} : c[k] # 0 => PowerOfTwo(c[k])
    /\ c.rate \in {0, 1, 2, 4}
    /\ c.refresh_mode # 0 => c.deferral <= OrElse(c.trefi, 7800)

\* tu_config_validate
Validated(c) ==
    /\ \A k \in DOMAIN Names : c[k] + 1 \in DOMAIN Names[k]
    /\ \A k \in DOMAIN Checked : Within(c[k], Checked[k])
    /\ c.bank_width \in {1, 2, 4, 8}
    /\ DmaValid(c) /\ DramValid(c)
    /\ c.epsilon >= 0
    /\ c.unstructured = 0 /\ c.sparsity = c.two_of_four

-------------------------------------------------------------------------------
(* What a configuration starts.                                                *)

Clock(c) == IF c.clock > 0 THEN c.clock ELSE 2

Name(c, k) == IF c[k] + 1 \in DOMAIN Names[k] THEN Names[k][c[k] + 1] ELSE "?"

\* tu_config_to_runtime, and what tu_init_with_config hands to the initializer.
Request(c) ==
    [async |-> c.async = 1, num_channels |-> c.channels, max_queue_depth |-> c.outstanding,
     bus_mode |-> Name(c, "bus_mode"), arb_policy |-> Name(c, "arb"),
     aging_scope |-> Name(c, "aging_scope"), aging_metric |-> Name(c, "aging_metric"),
     aging_increment |-> c.aging_increment, aging_max_boost |-> c.max_boost,
     aging_cycle_quantum |->
        IF c.aging_domain = 1 THEN InCycles(1, c.aging_ns, Clock(c)) ELSE c.aging_quantum,
     drr_quantum_bytes |-> OrElse(c.quantum_bytes, 256), drr_cost_mode |-> Name(c, "cost_mode"),
     drr_quantum_cycles |-> OrElse(c.quantum_cycles, 64), binding_policy |-> Name(c, "binding"),
     bus_width |-> c.bus,
     read_latency |-> InCycles(c.latency_domain, c.read_latency, Clock(c)),
     write_latency |-> InCycles(c.latency_domain, c.write_latency, Clock(c)),
     max_burst |-> c.burst, read_burst |-> c.read_burst, write_burst |-> c.write_burst,
     burst_issue |-> c.burst_issue, read_issue |-> c.read_issue, write_issue |-> c.write_issue,
     segmentation |-> Name(c, "segmentation"), base_scope |-> Name(c, "base_scope"),
     payload_scope |-> Name(c, "payload_scope"), issue_payload_mode |-> Name(c, "issue_payload"),
     boundary_mode |-> Name(c, "boundary")]

\* The setters in turn, whose refusals go unnoticed.
If(accepts, d, new) == IF accepts THEN new ELSE d
Known(n, most) == n \in 0..most
Serviced(c, d) ==
    LET weights == [i \in DOMAIN c.weights |-> OrElse(c.weights[i], 1)]
    IN  If(Known(c.service_mode, 1), d, [d EXCEPT !.service = c.service_mode, !.weights = weights])
Idled(c, d) == If(Known(c.idle_policy, 1), d, [d EXCEPT !.idle = c.idle_policy])
Grained(c, d) == If(Known(c.granularity, 1), d, [d EXCEPT !.granularity = c.granularity])
Delayed(c, d) ==
    LET priced == If(c.round_issue <= Limits.issue[2], d, [d EXCEPT !.round = c.round_issue])
        moded == If(Known(c.round_mode, 2), priced, [priced EXCEPT !.roundMode = c.round_mode])
    IN  If(c.select_issue <= Limits.issue[2], moded, [moded EXCEPT !.select = c.select_issue])
Scanned(c, d) ==
    LET most == Limits.channels[2]
        wide == If(OrElse(c.scan_width, 1) <= most, d, [d EXCEPT !.width = OrElse(c.scan_width, 1)])
    IN  If(c.round_width <= most /\ c.select_width <= most, wide,
           [wide EXCEPT !.roundWidth = c.round_width, !.selectWidth = c.select_width])
Applied(c) == Scanned(c, Delayed(c, Grained(c, Idled(c, Serviced(c, DrrFresh)))))

\* Kilobytes to bytes, in 32 bits.
Bytes(kb) == (kb % (ConfigWord \div 1024)) * 1024
\* Banks are as wide as when compiled, whatever the configuration.
Regions(c) ==
    [w |-> Bytes(c.w_kb), a |-> Bytes(c.a_kb), o |-> Bytes(c.o_kb), banks |-> c.banks,
     words |-> c.words % 256, stall |-> c.stall, window |-> c.window, metering |-> c.metering]

\* tu_dram_create_from_config: each setter may refuse.
Creatable(c) ==
    LET clock == Clock(c)
        timeout == IF c.timeout_domain = 1 THEN c.timeout_ns ELSE c.timeout
        granule(k) == OrElse(c[k], 64)
        trefi == OrElse(c.trefi, 7800)
    IN  /\ clock <= 20 /\ Known(c.latency_domain, 1)
        /\ \A k \in {"read_latency", "write_latency", "rtw", "wtr"} : Within(c[k], <<0, 100000000>>)
        /\ Known(c.row_policy, 3) /\ Known(c.timeout_domain, 1) /\ Within(timeout, <<0, 100000000>>)
        /\ c.row_policy = 3 => InCycles(c.timeout_domain, timeout, clock) > 0
        /\ Known(c.mapping, 2) /\ (c.mapping = 2 => PowerOfTwo(OrElse(c.dram_channels, 8)))
        /\ Known(c.turn_mode, 5) /\ Known(c.turn_domain, 1)
        /\ c.turn_mode = 1 => c.rtw > 0 \/ c.wtr > 0
        /\ \A k \in {"read_granule", "write_granule"} :
              granule(k) <= 1048576 /\ PowerOfTwo(granule(k))
        /\ Known(c.refresh_mode, 2) /\ Known(c.refresh_sched, 1) /\ c.rate \in {0, 1, 2, 4}
        /\ OrElse(c.deferral, trefi) <= trefi

-------------------------------------------------------------------------------
(* The calls.                                                                  *)

Off == [on |-> FALSE, from |-> <<>>, vouched |-> FALSE, regions |-> <<>>]
NoFile == [k \in {} |-> <<>>]
NoDram == [tried |-> FALSE, made |-> FALSE, vouched |-> FALSE]

\* A client begins with tu_config_default.
LoaderInit ==
    /\ ConfigInit /\ config = Default /\ file = NoFile /\ accepted = FALSE
    /\ unit = Off /\ dram = NoDram /\ configSteps = 0

LoaderCall == configSteps < MaxConfigSteps /\ configSteps' = configSteps + 1

\* tu_config_load and tu_config_load_string: what is refused is left as read.
Load(f) ==
    /\ LoaderCall
    /\ config' = Loaded(f) /\ file' = f /\ accepted' = Validated(Loaded(f))
    /\ UNCHANGED <<configVars, unit, dram>>

Edit(field, value) ==
    /\ LoaderCall
    /\ config' = [config EXCEPT ![field] = value] /\ file' = NoFile /\ accepted' = FALSE
    /\ UNCHANGED <<configVars, unit, dram>>

Validate ==
    LoaderCall /\ accepted' = Validated(config) /\ UNCHANGED <<configVars, config, file, unit, dram>>

\* tu_init_with_config, which first tears down what runs.
Start(c, vouched) ==
    /\ unit' = [on |-> TRUE, from |-> c, vouched |-> vouched, regions |-> Regions(c)]
    /\ engine' = Configured(Request(c)) /\ short' = Zeroed
    /\ drr' = Applied(c) /\ drrCredits' = NoCredits /\ visiting' = FALSE /\ earnedAs' = DrrFresh
    /\ UNCHANGED configCalls

\* It does not validate, but for the metering.
InitFromConfig ==
    LoaderCall /\ Known(config.metering, 1) /\ Start(config, accepted) /\ UNCHANGED <<config, file, accepted, dram>>

\* A refused file leaves what runs alone.
InitFromFile(f) ==
    /\ LoaderCall
    /\ Validated(Loaded(f)) /\ Start(Loaded(f), TRUE) /\ UNCHANGED <<config, file, accepted, dram>>

Shutdown ==
    /\ LoaderCall /\ unit.on /\ UNCHANGED configCalls
    /\ unit' = Off /\ Reinitialized(Zeroed, Zeroed) /\ UNCHANGED <<config, file, accepted, dram>>

CreateDram ==
    /\ LoaderCall
    /\ dram' = [tried |-> TRUE, made |-> Creatable(config), vouched |-> accepted]
    /\ UNCHANGED <<configVars, config, file, accepted, unit>>

Reads(files) == \E f \in files : Load(f) \/ InitFromFile(f)

Calls ==
    \/ \E e \in Edits : Edit(e[1], e[2])
    \/ Validate \/ InitFromConfig \/ Shutdown \/ CreateDram

LoaderNext == Reads(Files) \/ Calls

LoaderSpec == LoaderInit /\ [][LoaderNext]_<<configVars, loaderVars>>

-------------------------------------------------------------------------------
(* Properties.                                                                 *)

\* What an accepted configuration asks of the engine.
Asked(c) ==
    /\ engine.channels = c.channels /\ engine.depth = c.outstanding /\ engine.async = (c.async = 1)
    /\ engine.bus = c.bus
    /\ engine.readBurst = OrElse(c.read_burst, c.burst)
    /\ engine.writeBurst = OrElse(c.write_burst, c.burst)
    /\ engine.readIssue = IssueOf(c, c.read_issue) /\ engine.writeIssue = IssueOf(c, c.write_issue)
    /\ <<engine.segmentation, engine.base, engine.payload, engine.overlap, engine.boundary, engine.cost>> =
       <<Name(c, "segmentation"), Name(c, "base_scope"), Name(c, "payload_scope"),
         Name(c, "issue_payload"), Name(c, "boundary"), Name(c, "cost_mode")>>

AskedDrr(c) ==
    drr = [service |-> c.service_mode, idle |-> c.idle_policy, granularity |-> c.granularity,
           round |-> c.round_issue, roundMode |-> c.round_mode, select |-> c.select_issue,
           width |-> OrElse(c.scan_width, 1), roundWidth |-> c.round_width,
           selectWidth |-> c.select_width,
           weights |-> [i \in 1..Limits.channels[2] |-> OrElse(c.weights[i], 1)]]

\* A unit started from a configuration that was accepted runs with it: neither
\* the initializer, which checks on its own, shuts the engine off, nor does one
\* of the setters, whose results nobody looks at, refuse its part.
AcceptedRuns == unit.vouched => engine.channels > 0 /\ Asked(unit.from) /\ AskedDrr(unit.from)

\* What a file says is not exchanged for something else without a refusal: the
\* number or name it gives is the one in an accepted configuration, up to the
\* cast to 32 bits and but for the sides of the array.
Carries(k, v, n) ==
    IF k \in DOMAIN Names THEN v[1] = "name" => n + 1 \in DOMAIN Names[k] /\ Names[k][n + 1] = v[2]
    ELSE IF k = "weights" THEN v[1] = "list" /\ [i \in DOMAIN v[2] |-> v[2][i][2]] = n
    ELSE IF k \in Switches THEN v[1] = "flag" => n = v[2]
    ELSE v[1] = "int" => n = v[2] \/ n = v[2] % ConfigWord
NothingExchanged ==
    accepted => \A k \in DOMAIN file \ {"rows", "cols"} : Carries(k, file[k], config[k])

\* From the file to the engine, a configuration that is accepted is the one in force.
AcceptedInForce == AcceptedRuns /\ NothingExchanged

\* Every accepted configuration makes a DRAM: "max_deferral_ns ... validated <=
\* tREFI", but the validator looks at it only when refresh is on, the DRAM always.
AcceptedMakesDram == dram.vouched => dram.made

===============================================================================
