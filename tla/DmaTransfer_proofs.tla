--------------------------- MODULE DmaTransfer_proofs ---------------------------
(* Theorems about configurations and transfers.  First the DMA engine's        *)
(* configuration: no sequence of initializers and setters, with any            *)
(* parameters, leaves an engine that works on a configuration the checks       *)
(* refuse, or credits earned at another price.  Then the way from a file to a  *)
(* running unit: whatever is read, edited, validated and started in any order, *)
(* a configuration that was accepted is what its file says and what the DMA    *)
(* engine runs with.  Then the descriptors an engine so configured executes:   *)
(* whatever their shape, they deliver every element and count what they do.    *)
(* Last the cycles they are charged: those of what they move, neither less nor *)
(* more than the configured model's.                                           *)
EXTENDS DmaTransfer, ConfigLoader, DataLemmas

Fields == DOMAIN Zeroed

\* What the chain of initializers starts from and hands on.
Complete(p) == Counting(p) /\ CountFields \subseteq DOMAIN p
Basic(p) == Counting(p) /\ {"num_channels", "max_queue_depth"} \subseteq DOMAIN p

\* An engine that works or is off, with a number of channels either way.
Sound(e) == e.channels \in Nat /\ WorksOrOff(e)

-------------------------------------------------------------------------------
(* The last initializer.                                                       *)

LEMMA OrElseType == ASSUME NEW n \in Nat, NEW d \in Nat \ {0} PROVE OrElse(n, d) \in Nat \ {0}
BY DEF OrElse

\* An engine without channels is off.
LEMMA OffIsSound == ASSUME NEW e, e.channels = 0 PROVE Sound(e)
BY DEF Sound, WorksOrOff

\* The scopes, modes and price asked for.
AsRequested(e, p) ==
    /\ e.segmentation = p.segmentation /\ e.base = p.base_scope /\ e.payload = p.payload_scope
    /\ e.overlap = p.issue_payload_mode /\ e.boundary = p.boundary_mode /\ e.cost = p.drr_cost_mode

\* What the last initializer leaves: an engine that is off and has no bus, or
\* what passed the checks, with channels if there are not too many.
LEMMA ConfiguredForms ==
    ASSUME NEW p
    PROVE  DOMAIN Configured(p) = Fields
        /\ \/ Configured(p).channels = 0 /\ Configured(p).bus = 0
           \/ /\ DrrValid(p) /\ BusValid(p) /\ BurstsValid(p)
              /\ AsRequested(Configured(p), p)
              /\ Configured(p).bus = OrElse(p.bus_width, Defaults.bus)
              /\ Configured(p).readBurst = OrElse(p.read_burst, CommonBurst(p))
              /\ Configured(p).writeBurst = OrElse(p.write_burst, CommonBurst(p))
              /\ Configured(p).readIssue = IssueOf(p, p.read_issue)
              /\ Configured(p).writeIssue = IssueOf(p, p.write_issue)
              /\ Configured(p).readLatency = p.read_latency
              /\ Configured(p).writeLatency = p.write_latency
              /\ Configured(p).quantumBytes = OrElse(p.drr_quantum_bytes, 256)
              /\ Configured(p).quantumCycles = OrElse(p.drr_quantum_cycles, 64)
              /\ \/ Configured(p).channels = 0
                 \/ /\ Configured(p).channels = OrElse(p.num_channels, Defaults.channels)
                    /\ Configured(p).depth = OrElse(p.max_queue_depth, Defaults.depth)
                    /\ ~(Configured(p).channels > Limits.channels[2])
<1>. DEFINE begun == [Zeroed EXCEPT !.async = p.async]
            quantum == OrElse(p.drr_quantum_bytes, 256)
            cycles == OrElse(p.drr_quantum_cycles, 64)
            scoped == [begun EXCEPT !.segmentation = p.segmentation, !.base = p.base_scope,
                                !.payload = p.payload_scope, !.overlap = p.issue_payload_mode,
                                !.boundary = p.boundary_mode, !.cost = p.drr_cost_mode,
                                !.quantumBytes = quantum, !.quantumCycles = cycles]
            bus == OrElse(p.bus_width, Defaults.bus)
            readBurst == OrElse(p.read_burst, CommonBurst(p))
            writeBurst == OrElse(p.write_burst, CommonBurst(p))
            readIssue == IssueOf(p, p.read_issue)
            writeIssue == IssueOf(p, p.write_issue)
            timed == [scoped EXCEPT !.bus = bus, !.readBurst = readBurst, !.writeBurst = writeBurst,
                                !.readIssue = readIssue, !.writeIssue = writeIssue,
                                !.readLatency = p.read_latency, !.writeLatency = p.write_latency]
            channels == OrElse(p.num_channels, Defaults.channels)
            depth == OrElse(p.max_queue_depth, Defaults.depth)
            done == [timed EXCEPT !.channels = channels, !.depth = depth]
<1>1. DOMAIN begun = Fields /\ begun.channels = 0 /\ begun.bus = 0
  BY DEF Fields, Zeroed
<1>. HIDE DEF quantum, cycles
<1>2. /\ DOMAIN scoped = Fields /\ scoped.channels = 0 /\ scoped.bus = 0
      /\ scoped.quantumBytes = quantum /\ scoped.quantumCycles = cycles
      /\ AsRequested(scoped, p)
  <2>. HIDE DEF begun
  <2>. QED
    BY <1>1 DEF Fields, Zeroed, AsRequested
<1>. HIDE DEF begun, bus, readBurst, writeBurst, readIssue, writeIssue
<1>3. /\ DOMAIN timed = Fields /\ timed.channels = 0
      /\ timed.quantumBytes = quantum /\ timed.quantumCycles = cycles
      /\ timed.bus = bus /\ timed.readBurst = readBurst /\ timed.writeBurst = writeBurst
      /\ timed.readIssue = readIssue /\ timed.writeIssue = writeIssue
      /\ timed.readLatency = p.read_latency /\ timed.writeLatency = p.write_latency
      /\ AsRequested(timed, p)
  <2>. HIDE DEF scoped
  <2>. QED
    BY <1>2 DEF Fields, Zeroed, AsRequested
<1>. HIDE DEF scoped, channels, depth
<1>4. /\ DOMAIN done = Fields /\ done.channels = channels /\ done.depth = depth
      /\ done.quantumBytes = quantum /\ done.quantumCycles = cycles
      /\ done.bus = bus /\ done.readBurst = readBurst /\ done.writeBurst = writeBurst
      /\ done.readIssue = readIssue /\ done.writeIssue = writeIssue
      /\ done.readLatency = p.read_latency /\ done.writeLatency = p.write_latency
      /\ AsRequested(done, p)
  <2>. HIDE DEF timed
  <2>. QED
    BY <1>3 DEF Fields, Zeroed, AsRequested
<1>. HIDE DEF timed, done
<1>5. \/ Configured(p) \in {begun, Zeroed, scoped}
      \/ /\ DrrValid(p) /\ BusValid(p) /\ BurstsValid(p)
         /\ \/ Configured(p) = timed
            \/ Configured(p) = done /\ ~(channels > Limits.channels[2])
  BY DEF Configured, begun, quantum, cycles, scoped, bus, readBurst, writeBurst, readIssue, writeIssue,
         timed, channels, depth, done
<1>6. DOMAIN Zeroed = Fields /\ Zeroed.channels = 0 /\ Zeroed.bus = 0
  BY DEF Zeroed, Fields
<1>7. CASE Configured(p) \in {begun, Zeroed, scoped}
  BY <1>1, <1>2, <1>6, <1>7
<1>8. CASE DrrValid(p) /\ BusValid(p) /\ BurstsValid(p) /\ Configured(p) = timed
  BY <1>3, <1>8 DEF quantum, cycles, bus, readBurst, writeBurst, readIssue, writeIssue
<1>9. CASE /\ DrrValid(p) /\ BusValid(p) /\ BurstsValid(p)
           /\ Configured(p) = done /\ ~(channels > Limits.channels[2])
  BY <1>4, <1>9 DEF quantum, cycles, bus, readBurst, writeBurst, readIssue, writeIssue, channels, depth
<1>. QED
  BY <1>5, <1>7, <1>8, <1>9

LEMMA ConfiguredSound ==
    ASSUME NEW p, Complete(p)
    PROVE  Sound(Configured(p))
<1>. DEFINE e == Configured(p)
<1>1. CASE e.channels = 0
  BY <1>1, OffIsSound
<1>2. CASE e.channels # 0
  <2>1. /\ DrrValid(p) /\ BusValid(p) /\ BurstsValid(p)
        /\ e.bus = OrElse(p.bus_width, Defaults.bus)
        /\ e.readBurst = OrElse(p.read_burst, CommonBurst(p))
        /\ e.writeBurst = OrElse(p.write_burst, CommonBurst(p))
        /\ e.readIssue = IssueOf(p, p.read_issue) /\ e.writeIssue = IssueOf(p, p.write_issue)
        /\ e.quantumBytes = OrElse(p.drr_quantum_bytes, 256)
        /\ e.quantumCycles = OrElse(p.drr_quantum_cycles, 64)
        /\ e.channels = OrElse(p.num_channels, Defaults.channels)
        /\ e.depth = OrElse(p.max_queue_depth, Defaults.depth)
        /\ ~(e.channels > Limits.channels[2])
    BY <1>2, ConfiguredForms
  <2>. HIDE DEF e
  <2>2. /\ p.num_channels \in Nat /\ p.max_queue_depth \in Nat
        /\ p.drr_quantum_bytes \in Nat /\ p.drr_quantum_cycles \in Nat
    BY DEF Complete, Counting, CountFields
  <2>3. Defaults.channels \in Nat \ {0} /\ Defaults.depth \in Nat \ {0}
    BY ConfigAssumption
  <2>4. e.channels \in Nat \ {0}
    BY <2>1, <2>2, <2>3, OrElseType
  <2>5. e.depth \in Nat \ {0}
    BY <2>1, <2>2, <2>3, OrElseType
  <2>6. e.quantumCycles \in Nat \ {0}
    BY <2>1, <2>2, OrElseType, 64 \in Nat \ {0}
  <2>7. e.quantumBytes \in Nat \ {0}
    BY <2>1, <2>2, OrElseType, 256 \in Nat \ {0}
  <2>8. PowerOf2(e.bus) /\ Within(e.bus, Limits.bus)
    BY <2>1 DEF BusValid
  <2>9. /\ BurstAllowed(e.readBurst) /\ BurstAllowed(e.writeBurst)
        /\ e.readIssue <= Limits.issue[2] /\ e.writeIssue <= Limits.issue[2]
    BY <2>1 DEF BurstsValid
  <2>10. Within(e.channels, Limits.channels)
    <3>1. Limits.channels \in Nat \X Nat
      BY ConfigAssumption
    <3>2. Limits.channels[1] \in Nat /\ Limits.channels[2] \in Nat /\ Limits.channels[1] <= 1
      BY <3>1, ConfigAssumption
    <3>. QED
      BY <2>1, <2>4, <3>2 DEF Within
  <2>. QED
    BY <2>4, <2>5, <2>6, <2>7, <2>8, <2>9, <2>10 DEF Sound, WorksOrOff, e
<1>. QED
  BY <1>1, <1>2

-------------------------------------------------------------------------------
(* The chain of initializers.                                                  *)

\* Adding defaults keeps the counts numbers, and whatever was there.
LEMMA WithCounts ==
    ASSUME NEW p, NEW d, Counting(p), Counting(d)
    PROVE  /\ Counting(With(p, d))
           /\ DOMAIN With(p, d) = DOMAIN p \cup DOMAIN d
BY DEF Counting, With

\* A default that is no count.
LEMMA WithOther ==
    ASSUME NEW p, Counting(p), NEW d, DOMAIN d \cap CountFields = {}
    PROVE  /\ Counting(With(p, d))
           /\ DOMAIN p \subseteq DOMAIN With(p, d)
<1>1. Counting(d)
  BY DEF Counting
<1>. QED
  BY <1>1, WithCounts
LEMMA WithBasic ==
    ASSUME NEW p, Basic(p), NEW d, DOMAIN d \cap CountFields = {}
    PROVE  Basic(With(p, d))
BY WithOther DEF Basic

\* The later half of the chain adds the quantities of deficit round robin.
LEMMA PolicyCapSound ==
    ASSUME NEW p, Basic(p)
    PROVE  Sound(InitPolicyCap(p))
<1>. DEFINE q == With(p, [drr_quantum_bytes |-> 256])
            r == With(q, [drr_cost_mode |-> "useful"])
            s == With(r, [drr_quantum_cycles |-> 64])
<1>1. Counting(q) /\ DOMAIN q = DOMAIN p \cup {"drr_quantum_bytes"}
  <2>1. Counting([drr_quantum_bytes |-> 256])
    BY DEF Counting, CountFields
  <2>. QED
    BY <2>1, WithCounts DEF Basic
<1>. HIDE DEF q
<1>2. Counting(r) /\ DOMAIN q \subseteq DOMAIN r
  <2>1. DOMAIN [drr_cost_mode |-> "useful"] \cap CountFields = {}
    BY DEF CountFields
  <2>. QED
    BY <1>1, <2>1, WithOther
<1>. HIDE DEF r
<1>3. Counting(s) /\ DOMAIN s = DOMAIN r \cup {"drr_quantum_cycles"}
  <2>1. Counting([drr_quantum_cycles |-> 64])
    BY DEF Counting, CountFields
  <2>. QED
    BY <1>2, <2>1, WithCounts
<1>4. Complete(s)
  BY <1>1, <1>2, <1>3 DEF Basic, Complete, CountFields
<1>5. InitPolicyCap(p) = Configured(s)
  BY DEF InitPolicyCap, InitDrr, InitDrrCost, q, r, s
<1>. QED
  BY <1>4, <1>5, ConfiguredSound

\* The earlier half adds modes, policies and widths, which the checks judge.
LEMMA ChainSound ==
    ASSUME NEW p, Basic(p)
    PROVE  Sound(InitTiming(p)) /\ Sound(InitChannels(p))
<1>1. ASSUME NEW q, Basic(q) PROVE Sound(InitAgingPolicy(q))
  <2>1. DOMAIN [aging_max_boost |-> 0] \cap CountFields = {}
    BY DEF CountFields
  <2>. QED
    BY <1>1, PolicyCapSound, <2>1, WithBasic DEF InitAgingPolicy
<1>2. ASSUME NEW q, Basic(q) PROVE Sound(InitAgingRate(q))
  <2>1. DOMAIN [aging_metric |-> "grants", aging_cycle_quantum |-> 1] \cap CountFields = {}
    BY DEF CountFields
  <2>. QED
    BY <1>2, <1>1, <2>1, WithBasic DEF InitAgingRate
<1>3. ASSUME NEW q, Basic(q) PROVE Sound(InitAging(q))
  <2>1. DOMAIN [aging_increment |-> 1] \cap CountFields = {}
    BY DEF CountFields
  <2>. QED
    BY <1>3, <1>2, <2>1, WithBasic DEF InitAging
<1>4. ASSUME NEW q, Basic(q) PROVE Sound(InitBoundary(q))
  <2>1. DOMAIN [aging_scope |-> "submission"] \cap CountFields = {}
    BY DEF CountFields
  <2>. QED
    BY <1>4, <1>3, <2>1, WithBasic DEF InitBoundary
<1>5. ASSUME NEW q, Basic(q) PROVE Sound(InitOverlap(q))
  <2>1. DOMAIN [boundary_mode |-> "size"] \cap CountFields = {}
    BY DEF CountFields
  <2>. QED
    BY <1>5, <1>4, <2>1, WithBasic DEF InitOverlap
<1>6. ASSUME NEW q, Basic(q) PROVE Sound(InitPayloadScope(q))
  <2>1. DOMAIN [issue_payload_mode |-> "serialized"] \cap CountFields = {}
    BY DEF CountFields
  <2>. QED
    BY <1>6, <1>5, <2>1, WithBasic DEF InitPayloadScope
<1>7. ASSUME NEW q, Basic(q) PROVE Sound(InitBaseScope(q))
  <2>1. DOMAIN [payload_scope |-> "packed"] \cap CountFields = {}
    BY DEF CountFields
  <2>. QED
    BY <1>7, <1>6, <2>1, WithBasic DEF InitBaseScope
<1>8. ASSUME NEW q, Basic(q) PROVE Sound(InitSegmentation(q))
  <2>1. DOMAIN [base_scope |-> "descriptor"] \cap CountFields = {}
    BY DEF CountFields
  <2>. QED
    BY <1>8, <1>7, <2>1, WithBasic DEF InitSegmentation
<1>9. ASSUME NEW q, Basic(q) PROVE Sound(InitDirectionalIssue(q))
  <2>1. DOMAIN [segmentation |-> "aggregate"] \cap CountFields = {}
    BY DEF CountFields
  <2>. QED
    BY <1>9, <1>8, <2>1, WithBasic DEF InitDirectionalIssue
<1>10. ASSUME NEW q, Basic(q) PROVE Sound(InitDirectionalBurst(q))
  <2>1. DOMAIN [read_issue |-> Unset, write_issue |-> Unset] \cap CountFields = {}
    BY DEF CountFields
  <2>. QED
    BY <1>10, <1>9, <2>1, WithBasic DEF InitDirectionalBurst
<1>11. ASSUME NEW q, Basic(q) PROVE Sound(InitBurst(q))
  <2>1. DOMAIN [read_burst |-> 0, write_burst |-> 0] \cap CountFields = {}
    BY DEF CountFields
  <2>. QED
    BY <1>11, <1>10, <2>1, WithBasic DEF InitBurst
<1>12. ASSUME NEW q, Basic(q) PROVE Sound(InitTiming(q))
  <2>1. DOMAIN [max_burst |-> Defaults.burst, burst_issue |-> Defaults.issue] \cap CountFields = {}
    BY DEF CountFields
  <2>. QED
    BY <1>12, <1>11, <2>1, WithBasic DEF InitTiming
<1>13. ASSUME NEW q, Basic(q) PROVE Sound(InitArch(q))
  <2>1. DOMAIN [read_latency |-> Defaults.read, write_latency |-> Defaults.write] \cap CountFields = {}
    BY DEF CountFields
  <2>. QED
    BY <1>13, <1>12, <2>1, WithBasic DEF InitArch
<1>14. ASSUME NEW q, Basic(q) PROVE Sound(InitBindingPolicy(q))
  <2>1. DOMAIN [bus_width |-> Defaults.bus] \cap CountFields = {}
    BY DEF CountFields
  <2>. QED
    BY <1>14, <1>13, <2>1, WithBasic DEF InitBindingPolicy
<1>15. ASSUME NEW q, Basic(q) PROVE Sound(InitPolicy(q))
  <2>1. DOMAIN [binding_policy |-> "explicit"] \cap CountFields = {}
    BY DEF CountFields
  <2>. QED
    BY <1>15, <1>14, <2>1, WithBasic DEF InitPolicy
<1>16. ASSUME NEW q, Basic(q) PROVE Sound(InitConfig(q))
  <2>1. DOMAIN [arb_policy |-> "rr"] \cap CountFields = {}
    BY DEF CountFields
  <2>. QED
    BY <1>16, <1>15, <2>1, WithBasic DEF InitConfig
<1>17. ASSUME NEW q, Basic(q) PROVE Sound(InitChannels(q))
  <2>1. DOMAIN [bus_mode |-> "independent"] \cap CountFields = {}
    BY DEF CountFields
  <2>. QED
    BY <1>17, <1>16, <2>1, WithBasic DEF InitChannels
<1>. QED
  BY <1>12, <1>17

LEMMA DefaultSound == ASSUME NEW async PROVE Sound(InitDefault(async))
<1>. DEFINE p == [async |-> async, num_channels |-> Defaults.channels, max_queue_depth |-> Defaults.depth]
<1>1. Basic(p)
  <2>1. Defaults.channels \in Nat /\ Defaults.depth \in Nat
    BY ConfigAssumption
  <2>. QED
    BY <2>1 DEF Basic, Counting, CountFields
<1>2. InitDefault(async) = InitChannels(p)
  BY DEF InitDefault
<1>. QED
  BY <1>1, <1>2, ChainSound

-------------------------------------------------------------------------------
(* The credits.                                                                *)

Channels == 0..(Limits.channels[2] - 1)

\* Beside the property: every channel in use has a credit, and what the
\* setters set has all its parts.
ConfigInv ==
    /\ Sound(engine)
    /\ drrCredits \in [Channels -> Nat]
    /\ DOMAIN drr = DOMAIN DrrFresh
    /\ CreditsKeepTheirPrice

LEMMA InUseIsKnown ==
    ASSUME NEW e, Sound(e)
    PROVE  0..(e.channels - 1) \subseteq Channels
<1>1. Limits.channels \in Nat \X Nat
  BY ConfigAssumption
<1>2. Limits.channels[2] \in Nat
  BY <1>1
<1>3. e.channels > 0 => e.channels <= Limits.channels[2]
  BY DEF Sound, WorksOrOff, Within
<1>. QED
  BY <1>2, <1>3 DEF Sound, Channels

LEMMA ReinitializedKeeps ==
    ASSUME NEW e, NEW s, Sound(e), Reinitialized(e, s)
    PROVE  ConfigInv'
<1>1. drrCredits' \in [Channels -> Nat]
  BY DEF Reinitialized, NoCredits, Channels
<1>2. CreditsKeepTheirPrice'
  <2>1. \A c \in Channels : drrCredits'[c] = 0
    BY DEF Reinitialized, NoCredits, Channels
  <2>2. InUse' \subseteq Channels
    BY InUseIsKnown DEF InUse, Reinitialized
  <2>. QED
    BY <2>1, <2>2 DEF CreditsKeepTheirPrice
<1>. QED
  BY <1>1, <1>2 DEF ConfigInv, Reinitialized

\* A setter keeps the price, or leaves the channels in use no credit.
LEMMA SetterKeeps ==
    ASSUME ConfigInv, UNCHANGED <<engine, earnedAs>>,
           DOMAIN drr' = DOMAIN DrrFresh, drrCredits' \in [Channels -> Nat],
           \A c \in InUse : drrCredits'[c] > 0 =>
              /\ drrCredits[c] > 0
              /\ drr'.granularity = drr.granularity
              /\ drr'.round = drr.round /\ drr'.roundMode = drr.roundMode
    PROVE  ConfigInv'
<1>1. InUse' = InUse
  BY DEF InUse
<1>2. CreditsKeepTheirPrice'
  BY <1>1 DEF ConfigInv, CreditsKeepTheirPrice
<1>. QED
  BY <1>2 DEF ConfigInv

LEMMA DropDrops ==
    ASSUME ConfigInv, Drop
    PROVE  drrCredits' \in [Channels -> Nat] /\ \A c \in InUse : drrCredits'[c] = 0
<1>1. InUse \subseteq Channels
  BY InUseIsKnown DEF ConfigInv, InUse
<1>. QED
  BY <1>1 DEF ConfigInv, Drop

LEMMA KeepKeeps == ASSUME ConfigInv, Keep PROVE drrCredits' \in [Channels -> Nat] /\ drrCredits' = drrCredits
BY DEF ConfigInv, Keep

LEMMA ConfigStep == ConfigInv /\ [ConfigNext]_configVars => ConfigInv'
<1>. SUFFICES ASSUME ConfigInv, [ConfigNext]_configVars PROVE ConfigInv'
  OBVIOUS
<1>1. CASE Initialize
  <2>1. ASSUME NEW p \in ShortRequests, Reinitialized(InitTiming(p), InitTiming(p)) PROVE ConfigInv'
    <3>1. Basic(p)
      BY ConfigAssumption DEF Basic, ShortFields
    <3>. QED
      BY <2>1, <3>1, ChainSound, ReinitializedKeeps
  <2>2. ASSUME NEW async \in BOOLEAN, Reinitialized(InitDefault(async), InitDefault(async)) PROVE ConfigInv'
    BY <2>2, DefaultSound, ReinitializedKeeps
  <2>3. ASSUME NEW p \in FullRequests, Reinitialized(Configured(p), Zeroed) PROVE ConfigInv'
    <3>1. Complete(p)
      BY ConfigAssumption DEF Complete
    <3>. QED
      BY <2>3, <3>1, ConfiguredSound, ReinitializedKeeps
  <2>. QED
    BY <1>1, <2>1, <2>2, <2>3 DEF Initialize
<1>2. CASE Destroy
  <2>1. Sound(Zeroed)
    BY OffIsSound DEF Zeroed
  <2>. QED
    BY <1>2, <2>1, ReinitializedKeeps DEF Destroy
<1>3. ASSUME NEW n \in DrrSettings, NEW w \in WeightVectors, SetService(n, w) PROVE ConfigInv'
  BY <1>3, SetterKeeps DEF SetService, SetDrr, ConfigInv, DrrFresh
<1>4. ASSUME NEW n \in DrrSettings, NEW working \in SUBSET InUse, SetIdlePolicy(n, working) PROVE ConfigInv'
  <2>1. DOMAIN drrCredits = Channels
    BY DEF ConfigInv
  <2>2. InUse \subseteq Channels
    BY InUseIsKnown DEF ConfigInv, InUse
  <2>3. /\ drrCredits' \in [Channels -> Nat]
        /\ \A c \in InUse : drrCredits'[c] \in {0, drrCredits[c]}
    BY <1>4, <2>1, <2>2 DEF SetIdlePolicy, ConfigInv
  <2>4. /\ DOMAIN drr' = DOMAIN DrrFresh
        /\ drr'.granularity = drr.granularity
        /\ drr'.round = drr.round /\ drr'.roundMode = drr.roundMode
    BY <1>4 DEF SetIdlePolicy, SetDrr, ConfigInv, DrrFresh
  <2>5. UNCHANGED <<engine, earnedAs>>
    BY <1>4 DEF SetIdlePolicy, SetDrr
  <2>. QED
    BY <2>3, <2>4, <2>5, SetterKeeps
<1>5. ASSUME NEW n \in DrrSettings, SetGranularity(n) PROVE ConfigInv'
  <2>1. /\ DOMAIN drr' = DOMAIN DrrFresh
        /\ drr'.granularity = n /\ drr'.round = drr.round /\ drr'.roundMode = drr.roundMode
    BY <1>5 DEF SetGranularity, SetDrr, ConfigInv, DrrFresh
  <2>2. UNCHANGED <<engine, earnedAs>>
    BY <1>5 DEF SetGranularity, SetDrr
  <2>3. CASE n # drr.granularity
    BY <1>5, <2>1, <2>2, <2>3, DropDrops, SetterKeeps DEF SetGranularity
  <2>4. CASE n = drr.granularity
    BY <1>5, <2>1, <2>2, <2>4, KeepKeeps, SetterKeeps DEF SetGranularity
  <2>. QED
    BY <2>3, <2>4
<1>6. ASSUME NEW n \in DrrSettings, SetRoundCycles(n) PROVE ConfigInv'
  <2>1. /\ DOMAIN drr' = DOMAIN DrrFresh
        /\ drr'.granularity = drr.granularity /\ drr'.round = n /\ drr'.roundMode = drr.roundMode
    BY <1>6 DEF SetRoundCycles, SetDrr, ConfigInv, DrrFresh
  <2>2. UNCHANGED <<engine, earnedAs>>
    BY <1>6 DEF SetRoundCycles, SetDrr
  <2>3. CASE n # drr.round
    BY <1>6, <2>1, <2>2, <2>3, DropDrops, SetterKeeps DEF SetRoundCycles
  <2>4. CASE n = drr.round
    BY <1>6, <2>1, <2>2, <2>4, KeepKeeps, SetterKeeps DEF SetRoundCycles
  <2>. QED
    BY <2>3, <2>4
<1>7. ASSUME NEW n \in DrrSettings, SetRoundMode(n) PROVE ConfigInv'
  <2>1. /\ DOMAIN drr' = DOMAIN DrrFresh
        /\ drr'.granularity = drr.granularity /\ drr'.round = drr.round /\ drr'.roundMode = n
    BY <1>7 DEF SetRoundMode, SetDrr, ConfigInv, DrrFresh
  <2>2. UNCHANGED <<engine, earnedAs>>
    BY <1>7 DEF SetRoundMode, SetDrr
  <2>3. CASE n # drr.roundMode
    BY <1>7, <2>1, <2>2, <2>3, DropDrops, SetterKeeps DEF SetRoundMode
  <2>4. CASE n = drr.roundMode
    BY <1>7, <2>1, <2>2, <2>4, KeepKeeps, SetterKeeps DEF SetRoundMode
  <2>. QED
    BY <2>3, <2>4
<1>8. ASSUME NEW n \in DrrSettings, SetSelectCycles(n) PROVE ConfigInv'
  BY <1>8, KeepKeeps, SetterKeeps DEF SetSelectCycles, SetDrr, ConfigInv, DrrFresh
<1>9. ASSUME NEW n \in DrrSettings, SetScanWidth(n) PROVE ConfigInv'
  BY <1>9, KeepKeeps, SetterKeeps DEF SetScanWidth, SetDrr, ConfigInv, DrrFresh
<1>10. ASSUME NEW n \in DrrSettings, NEW m \in DrrSettings, SetStageScanWidths(n, m) PROVE ConfigInv'
  BY <1>10, KeepKeeps, SetterKeeps DEF SetStageScanWidths, SetDrr, ConfigInv, DrrFresh
<1>11. ASSUME NEW c \in InUse, NEW credit \in 1..MaxCredit, Earn(c, credit) PROVE ConfigInv'
  <2>1. c \in Channels /\ credit \in Nat
    <3>1. InUse \subseteq Channels
      BY InUseIsKnown DEF ConfigInv, InUse
    <3>2. 1..MaxCredit \subseteq Nat
      BY ConfigAssumption
    <3>. QED
      BY <3>1, <3>2
  <2>2. drrCredits' \in [Channels -> Nat]
    BY <1>11, <2>1 DEF Earn, ConfigInv
  <2>3. CreditsKeepTheirPrice'
    BY <1>11 DEF Earn, CreditsKeepTheirPrice
  <2>. QED
    BY <1>11, <2>2, <2>3 DEF Earn, ConfigInv
<1>12. CASE UNCHANGED configVars
  BY <1>12 DEF configVars, ConfigInv, CreditsKeepTheirPrice, InUse
<1>. QED
  BY <1>1, <1>2, <1>3, <1>4, <1>5, <1>6, <1>7, <1>8, <1>9, <1>10, <1>11, <1>12 DEF ConfigNext, Settings

\* Any sequence of initializers, setters and destructions, with any parameters,
\* leaves an engine that is off or whose channels, widths, bursts and quanta
\* the checks allow, and no channel in use with credits granted under another
\* cost granularity, round cost or round mode.
THEOREM ConfigurationIsSound == ConfigSpec => []ConfigurationSound
<1>1. ConfigInit => ConfigInv
  <2>. SUFFICES ASSUME ConfigInit PROVE ConfigInv
    OBVIOUS
  <2>1. Sound(Zeroed) /\ Zeroed.channels = 0
    BY OffIsSound DEF Zeroed
  <2>2. InUse = {}
    BY <2>1 DEF ConfigInit, InUse
  <2>3. drrCredits \in [Channels -> Nat]
    BY DEF ConfigInit, NoCredits, Channels
  <2>. QED
    BY <2>1, <2>2, <2>3 DEF ConfigInit, ConfigInv, CreditsKeepTheirPrice
<1>2. ConfigInv => ConfigurationSound
  BY DEF ConfigInv, Sound, ConfigurationSound, ConfiguredOrOff
<1>. QED
  BY <1>1, <1>2, ConfigStep, PTL DEF ConfigSpec

-------------------------------------------------------------------------------
(* The tables of fields.                                                       *)

\* Defaults beside what is given.
LEMMA WithAt ==
    ASSUME NEW p, NEW d
    PROVE  /\ DOMAIN With(p, d) = DOMAIN p \cup DOMAIN d
           /\ \A k \in DOMAIN p : With(p, d)[k] = p[k]
           /\ \A k \in DOMAIN d \ DOMAIN p : With(p, d)[k] = d[k]
BY DEF With

\* The groups of fields, each read in a way of its own.
Sides == {"rows", "cols"}
Numbers == Cast \cup DOMAIN Ranged \cup Sides \cup Reals \cup Switches \cup Widths \cup {"clock"}

LEMMA DefaultKeys ==
    /\ DOMAIN Default = DOMAIN Names \cup Numbers \cup {"weights"}
    /\ \A k \in DOMAIN Default \ {"weights"} : Default[k] \in Int
    /\ Default.weights = [i \in 1..Limits.channels[2] |-> 1]
<1>. DEFINE chosen == [k \in DOMAIN Names \cup Switches |-> 0]
            counted == [rows |-> 16, cols |-> 16, pipeline_depth |-> 2, w_kb |-> 128, a_kb |-> 64, o_kb |-> 64,
          banks |-> 32, bank_width |-> 4, words |-> 1, window |-> 4, stall |-> 2, dram_channels |-> 8,
          row_miss |-> 10, row_conflict |-> 0, timeout |-> 100, timeout_ns |-> 100,
          read_latency |-> 50, write_latency |-> 50, clock |-> 2, rtw |-> 0, wtr |-> 0,
          read_granule |-> 64, write_granule |-> 64, rate |-> 1, trefi |-> 7800, trfc |-> 350,
          trfc_pb |-> 90, deferral |-> 7800, epsilon |-> 0, decoder |-> 1, rle_runs |-> 1,
          bitmap |-> 1, link |-> 16, router |-> 5, groups |-> 1, mhz |-> 0, queue_depth |-> 16]
            moved == [bus |-> 32, burst |-> 64, read_burst |-> 0, write_burst |-> 0, burst_issue |-> 0,
          read_issue |-> Unset, write_issue |-> Unset, channels |-> 3, quantum_bytes |-> 256,
          quantum_cycles |-> 64, round_issue |-> 0, select_issue |-> 0, scan_width |-> 1,
          round_width |-> 0, select_width |-> 0, aging_increment |-> 1, max_boost |-> 0,
          aging_quantum |-> 1, aging_ns |-> 1, outstanding |-> 4,
          weights |-> [i \in 1..Limits.channels[2] |-> 1]]
<1>1. Default = With(chosen, With(counted, moved))
  BY DEF Default
<1>2. DOMAIN Default = DOMAIN Names \cup Switches \cup DOMAIN counted \cup DOMAIN moved
  <2>1. DOMAIN chosen = DOMAIN Names \cup Switches
    OBVIOUS
  <2>. HIDE DEF chosen, counted, moved
  <2>2. DOMAIN With(counted, moved) = DOMAIN counted \cup DOMAIN moved
    BY WithAt
  <2>3. DOMAIN With(chosen, With(counted, moved)) = DOMAIN chosen \cup DOMAIN With(counted, moved)
    BY WithAt
  <2>. QED
    BY <1>1, <2>1, <2>2, <2>3
<1>3. /\ DOMAIN counted = {"rows", "cols", "pipeline_depth", "w_kb", "a_kb", "o_kb", "banks", "bank_width",
           "words", "window", "stall", "dram_channels", "row_miss", "row_conflict", "timeout", "timeout_ns",
           "read_latency", "write_latency", "clock", "rtw", "wtr", "read_granule", "write_granule", "rate",
           "trefi", "trfc", "trfc_pb", "deferral", "epsilon", "decoder", "rle_runs", "bitmap", "link",
           "router", "groups", "mhz", "queue_depth"}
      /\ DOMAIN moved = {"bus", "burst", "read_burst", "write_burst", "burst_issue", "read_issue", "write_issue",
           "channels", "quantum_bytes", "quantum_cycles", "round_issue", "select_issue", "scan_width",
           "round_width", "select_width", "aging_increment", "max_boost", "aging_quantum", "aging_ns",
           "outstanding", "weights"}
  OBVIOUS
<1>4. DOMAIN Ranged = {"pipeline_depth", "words", "window", "stall", "dram_channels", "row_miss", "row_conflict",
           "timeout", "read_granule", "write_granule", "rate", "trefi", "trfc", "trfc_pb", "deferral",
           "round_issue", "select_issue", "decoder", "rle_runs", "bitmap", "link", "router", "groups"}
  BY DEF Ranged
<1>4a. /\ \A k \in DOMAIN counted : counted[k] \in Int
       /\ \A k \in DOMAIN moved \ {"weights"} : moved[k] \in Int
       /\ moved.weights = [i \in 1..Limits.channels[2] |-> 1]
  BY DEF Unset
<1>4b. "weights" \notin DOMAIN chosen
  BY DEF Names, Switches
<1>4c. \A k \in DOMAIN chosen : chosen[k] \in Int
  OBVIOUS
<1>. HIDE DEF chosen, counted, moved
<1>5. DOMAIN counted \cup DOMAIN moved \cup Switches = Numbers \cup {"weights"}
  BY <1>3, <1>4 DEF Numbers, Sides, Cast, Reals, Switches, Widths
<1>6. /\ \A k \in DOMAIN Default \ {"weights"} : Default[k] \in Int
      /\ Default.weights = [i \in 1..Limits.channels[2] |-> 1]
  <2>. DEFINE rest == With(counted, moved)
  <2>1. /\ DOMAIN rest = DOMAIN counted \cup DOMAIN moved
        /\ \A k \in DOMAIN counted : rest[k] = counted[k]
        /\ \A k \in DOMAIN moved \ DOMAIN counted : rest[k] = moved[k]
    BY WithAt
  <2>. HIDE DEF rest
  <2>2. \A k \in DOMAIN rest \ {"weights"} : rest[k] \in Int
    <3>. SUFFICES ASSUME NEW k \in DOMAIN rest \ {"weights"} PROVE rest[k] \in Int
      OBVIOUS
    <3>1. CASE k \in DOMAIN counted
      BY <3>1, <1>4a, <2>1
    <3>2. CASE k \in DOMAIN moved \ DOMAIN counted
      BY <3>2, <1>4a, <2>1
    <3>. QED
      BY <2>1, <3>1, <3>2
  <2>3. "weights" \in DOMAIN moved \ DOMAIN counted
    BY <1>3
  <2>4. rest["weights"] = moved.weights /\ "weights" \in DOMAIN rest
    BY <2>1, <2>3
  <2>5. /\ DOMAIN Default = DOMAIN chosen \cup DOMAIN rest
        /\ \A k \in DOMAIN chosen : Default[k] = chosen[k]
        /\ \A k \in DOMAIN rest \ DOMAIN chosen : Default[k] = rest[k]
    <3>1. Default = With(chosen, rest)
      BY <1>1 DEF rest
    <3>2. /\ DOMAIN With(chosen, rest) = DOMAIN chosen \cup DOMAIN rest
          /\ \A k \in DOMAIN chosen : With(chosen, rest)[k] = chosen[k]
          /\ \A k \in DOMAIN rest \ DOMAIN chosen : With(chosen, rest)[k] = rest[k]
      BY WithAt
    <3>. QED
      BY <3>1, <3>2
  <2>6. \A k \in DOMAIN Default \ {"weights"} : Default[k] \in Int
    <3>. SUFFICES ASSUME NEW k \in DOMAIN Default \ {"weights"} PROVE Default[k] \in Int
      OBVIOUS
    <3>1. CASE k \in DOMAIN chosen
      BY <2>5, <3>1, <1>4c
    <3>2. CASE k \in DOMAIN rest \ DOMAIN chosen
      BY <2>2, <2>5, <3>2
    <3>. QED
      BY <2>5, <3>1, <3>2
  <2>7. Default["weights"] = rest["weights"]
    BY <2>4, <2>5, <1>4b
  <2>. QED
    BY <2>4, <2>6, <2>7, <1>4a
<1>. QED
  BY <1>2, <1>5, <1>6 DEF Numbers

\* What stands for a number that was refused, and the fields that must be positive.
Marks == {"row_miss", "row_conflict", "timeout", "read_granule", "write_granule", "trefi", "trfc",
          "trfc_pb", "deferral", "router"}
Positive == {"w_kb", "a_kb", "o_kb", "queue_depth", "link", "decoder", "rle_runs", "bitmap", "groups"}

LEMMA CheckedRanges ==
    /\ \A k \in Marks : k \in DOMAIN Checked /\ Checked[k] = <<0, MaxField - 1>>
    /\ \A k \in Positive : k \in DOMAIN Checked /\ Checked[k] = <<1, MaxField>>
    /\ {"pipeline_depth", "words", "window", "stall", "dram_channels", "outstanding", "burst_issue",
        "round_issue", "select_issue", "quantum_cycles", "aging_quantum", "aging_increment", "max_boost",
        "aging_ns", "clock", "bus", "burst", "channels", "scan_width", "round_width", "select_width"}
       \subseteq DOMAIN Checked
    /\ Checked["pipeline_depth"] = <<1, 16>> /\ Checked["words"] = <<1, 255>> /\ Checked["window"] = <<1, 1000000>>
    /\ Checked["stall"] = <<1, 255>> /\ Checked["dram_channels"] = <<1, 1024>>
    /\ Checked["outstanding"] = <<1, 65535>> /\ Checked["burst_issue"] = <<0, 1024>>
    /\ Checked["round_issue"] = <<0, 1024>> /\ Checked["select_issue"] = <<0, 1024>>
    /\ Checked["quantum_cycles"] = <<0, 1048576>> /\ Checked["aging_quantum"] = <<1, 1048576>>
    /\ Checked["aging_increment"] = <<1, 255>> /\ Checked["max_boost"] = <<0, 255>>
    /\ Checked["aging_ns"] = <<1, 1048576>> /\ Checked["clock"] = <<0, 20>>
    /\ Checked["bus"] = <<4, 128>> /\ Checked["burst"] = <<16, 65536>>
    /\ Checked["channels"] = Limits.channels
    /\ \A k \in Widths : Checked[k] = <<0, Limits.channels[2]>>
<1>. DEFINE marked == [k \in Marks |-> <<0, MaxField - 1>>]
            positive == [k \in Positive |-> <<1, MaxField>>]
            measured == [k \in {"timeout_ns", "read_latency", "write_latency", "rtw", "wtr"} |-> <<0, 100000000>>]
            own == [rows |-> <<1, 1024>>, cols |-> <<1, 1024>>, pipeline_depth |-> <<1, 16>>,
          banks |-> <<1, 1024>>, words |-> <<1, 255>>, window |-> <<1, 1000000>>, stall |-> <<1, 255>>,
          dram_channels |-> <<1, 1024>>, outstanding |-> <<1, 65535>>, mhz |-> <<0, 10000>>,
          burst_issue |-> <<0, 1024>>, round_issue |-> <<0, 1024>>, select_issue |-> <<0, 1024>>,
          quantum_cycles |-> <<0, 1048576>>, aging_quantum |-> <<1, 1048576>>,
          aging_increment |-> <<1, 255>>, max_boost |-> <<0, 255>>, aging_ns |-> <<1, 1048576>>,
          clock |-> <<0, 20>>, bus |-> <<4, 128>>, burst |-> <<16, 65536>>,
          channels |-> Limits.channels, scan_width |-> <<0, Limits.channels[2]>>,
          round_width |-> <<0, Limits.channels[2]>>, select_width |-> <<0, Limits.channels[2]>>]
            owned == With(measured, own)
            later == With(positive, owned)
<1>1. Checked = With(marked, later)
  BY SMT DEF Checked, Marks, Positive
<1>2. DOMAIN marked = Marks /\ DOMAIN positive = Positive
      /\ DOMAIN measured = {"timeout_ns", "read_latency", "write_latency", "rtw", "wtr"}
  OBVIOUS
<1>3. DOMAIN own = {"rows", "cols", "pipeline_depth", "banks", "words", "window", "stall", "dram_channels",
        "outstanding", "mhz", "burst_issue", "round_issue", "select_issue", "quantum_cycles", "aging_quantum",
        "aging_increment", "max_boost", "aging_ns", "clock", "bus", "burst", "channels", "scan_width",
        "round_width", "select_width"}
  BY SMT
<1>4. /\ \A k \in Marks : marked[k] = <<0, MaxField - 1>>
      /\ \A k \in Positive : positive[k] = <<1, MaxField>>
  OBVIOUS
<1>5. /\ own["pipeline_depth"] = <<1, 16>> /\ own["words"] = <<1, 255>> /\ own["window"] = <<1, 1000000>>
      /\ own["stall"] = <<1, 255>> /\ own["dram_channels"] = <<1, 1024>>
      /\ own["outstanding"] = <<1, 65535>> /\ own["burst_issue"] = <<0, 1024>>
      /\ own["round_issue"] = <<0, 1024>> /\ own["select_issue"] = <<0, 1024>>
      /\ own["quantum_cycles"] = <<0, 1048576>> /\ own["aging_quantum"] = <<1, 1048576>>
      /\ own["aging_increment"] = <<1, 255>> /\ own["max_boost"] = <<0, 255>>
      /\ own["aging_ns"] = <<1, 1048576>> /\ own["clock"] = <<0, 20>>
      /\ own["bus"] = <<4, 128>> /\ own["burst"] = <<16, 65536>>
      /\ own["channels"] = Limits.channels
      /\ \A k \in Widths : own[k] = <<0, Limits.channels[2]>>
  BY SMT DEF Widths
<1>. HIDE DEF marked, positive, measured, own
<1>6. /\ DOMAIN owned = DOMAIN measured \cup DOMAIN own
      /\ \A k \in DOMAIN own \ DOMAIN measured : owned[k] = own[k]
  BY WithAt
<1>. HIDE DEF owned
<1>7. /\ DOMAIN later = DOMAIN positive \cup DOMAIN owned
      /\ \A k \in DOMAIN positive : later[k] = positive[k]
      /\ \A k \in DOMAIN owned \ DOMAIN positive : later[k] = owned[k]
  BY WithAt
<1>. HIDE DEF later
<1>8. /\ DOMAIN Checked = DOMAIN marked \cup DOMAIN later
      /\ \A k \in DOMAIN marked : Checked[k] = marked[k]
      /\ \A k \in DOMAIN later \ DOMAIN marked : Checked[k] = later[k]
  <2>1. /\ DOMAIN With(marked, later) = DOMAIN marked \cup DOMAIN later
        /\ \A k \in DOMAIN marked : With(marked, later)[k] = marked[k]
        /\ \A k \in DOMAIN later \ DOMAIN marked : With(marked, later)[k] = later[k]
    BY WithAt
  <2>. QED
    BY <1>1, <2>1
<1>9. \A k \in DOMAIN own : k \in DOMAIN Checked /\ Checked[k] = own[k]
  <2>1. DOMAIN own \cap (Marks \cup Positive \cup DOMAIN measured) = {}
    BY <1>2, <1>3 DEF Marks, Positive
  <2>. QED
    BY <1>2, <1>6, <1>7, <1>8, <2>1
<1>10. \A k \in Positive : k \in DOMAIN Checked /\ Checked[k] = <<1, MaxField>>
  <2>1. Positive \cap Marks = {}
    BY DEF Marks, Positive
  <2>. QED
    BY <1>2, <1>4, <1>7, <1>8, <2>1
<1>11. \A k \in Marks : k \in DOMAIN Checked /\ Checked[k] = <<0, MaxField - 1>>
  BY <1>2, <1>4, <1>8
<1>12. Widths \subseteq DOMAIN own
  BY <1>3 DEF Widths
<1>13. {"pipeline_depth", "words", "window", "stall", "dram_channels", "outstanding", "burst_issue",
        "round_issue", "select_issue", "quantum_cycles", "aging_quantum", "aging_increment", "max_boost",
        "aging_ns", "clock", "bus", "burst", "channels", "scan_width", "round_width", "select_width"}
       \subseteq DOMAIN own
  BY <1>3
<1>14. /\ Checked["pipeline_depth"] = own["pipeline_depth"] /\ Checked["words"] = own["words"] /\ Checked["window"] = own["window"]
       /\ Checked["stall"] = own["stall"] /\ Checked["dram_channels"] = own["dram_channels"] /\ Checked["outstanding"] = own["outstanding"]
       /\ Checked["burst_issue"] = own["burst_issue"] /\ Checked["round_issue"] = own["round_issue"] /\ Checked["select_issue"] = own["select_issue"]
       /\ Checked["quantum_cycles"] = own["quantum_cycles"] /\ Checked["aging_quantum"] = own["aging_quantum"] /\ Checked["aging_increment"] = own["aging_increment"]
       /\ Checked["max_boost"] = own["max_boost"] /\ Checked["aging_ns"] = own["aging_ns"] /\ Checked["clock"] = own["clock"]
       /\ Checked["bus"] = own["bus"] /\ Checked["burst"] = own["burst"] /\ Checked["channels"] = own["channels"]
  BY <1>9, <1>13
<1>15. \A k \in Widths : Checked[k] = <<0, Limits.channels[2]>>
  BY <1>5, <1>9, <1>12
<1>16. DOMAIN own \subseteq DOMAIN Checked
  BY <1>9
<1>. QED
  BY <1>5, <1>10, <1>11, <1>13, <1>14, <1>15, <1>16

-------------------------------------------------------------------------------
(* Reading.                                                                    *)

\* The kinds of fields have none in common, so each field is read in one way.
LEMMA KindsApart ==
    /\ DOMAIN Names \cap Numbers = {} /\ "weights" \notin DOMAIN Names \cup Numbers
    /\ Cast \cap (DOMAIN Ranged \cup Sides \cup Reals \cup Switches \cup Widths \cup {"clock"}) = {}
    /\ DOMAIN Ranged \cap (Sides \cup Reals \cup Switches \cup Widths \cup {"clock"}) = {}
    /\ Sides \cap (Reals \cup Switches \cup Widths \cup {"clock"}) = {}
    /\ Reals \cap (Switches \cup Widths \cup {"clock"}) = {}
    /\ Switches \cap (Widths \cup {"clock"}) = {} /\ "clock" \notin Widths
<1>1. DOMAIN Names = {"dataflow", "metering", "row_policy", "mapping", "timeout_domain", "latency_domain",
        "turn_domain", "turn_mode", "refresh_mode", "refresh_sched", "segmentation", "base_scope",
        "payload_scope", "issue_payload", "boundary", "bus_mode", "arb", "cost_mode", "service_mode",
        "idle_policy", "granularity", "round_mode", "aging_scope", "aging_metric", "aging_domain", "binding",
        "compression", "interconnect", "switching", "contention", "routing", "tech"}
  BY DEF Names
<1>2. DOMAIN Ranged = {"pipeline_depth", "words", "window", "stall", "dram_channels", "row_miss", "row_conflict",
        "timeout", "read_granule", "write_granule", "rate", "trefi", "trfc", "trfc_pb", "deferral",
        "round_issue", "select_issue", "decoder", "rle_runs", "bitmap", "link", "router", "groups"}
  BY DEF Ranged
<1>3. Cast \cap (DOMAIN Ranged \cup Sides \cup Reals \cup Switches \cup Widths \cup {"clock"}) = {}
  BY <1>2 DEF Cast, Sides, Reals, Switches, Widths
<1>4. DOMAIN Ranged \cap (Sides \cup Reals \cup Switches \cup Widths \cup {"clock"}) = {}
  BY <1>2 DEF Sides, Reals, Switches, Widths
<1>5. /\ Sides \cap (Reals \cup Switches \cup Widths \cup {"clock"}) = {}
      /\ Reals \cap (Switches \cup Widths \cup {"clock"}) = {}
      /\ Switches \cap (Widths \cup {"clock"}) = {} /\ "clock" \notin Widths
  BY DEF Sides, Reals, Switches, Widths
<1>6. DOMAIN Names \cap (Cast \cup Sides \cup Reals \cup Switches \cup Widths \cup {"clock"}) = {}
  BY <1>1 DEF Cast, Sides, Reals, Switches, Widths
<1>7. DOMAIN Names \cap DOMAIN Ranged = {}
  BY <1>1, <1>2
<1>8. "weights" \notin DOMAIN Names \cup DOMAIN Ranged
  BY <1>1, <1>2
<1>9. "weights" \notin Cast \cup Sides \cup Reals \cup Switches \cup Widths \cup {"clock"}
  BY DEF Cast, Sides, Reals, Switches, Widths
<1>. QED
  BY <1>3, <1>4, <1>5, <1>6, <1>7, <1>8, <1>9 DEF Numbers

LEMMA ReadAs ==
    ASSUME NEW k, NEW v
    PROVE  /\ k \in DOMAIN Names => Read(k, v) = ReadChoice(k, v)
           /\ k \in Cast => Read(k, v) = IF Numeric(v) THEN v[2] % ConfigWord ELSE Default[k]
           /\ k \in DOMAIN Ranged => Read(k, v) = ReadRanged(k, v)
           /\ k \in Sides => Read(k, v) = ReadSide(v)
           /\ k \in Reals => Read(k, v) = IF Measure(v) THEN v[2] ELSE Default[k]
           /\ k \in Switches => Read(k, v) = IF v[1] \in {"int", "flag"} /\ v[2] # 0 THEN 1 ELSE 0
           /\ k \in Widths => Read(k, v) = ReadWidth(v)
           /\ k = "clock" => Read(k, v) = ReadClock(v)
           /\ k = "weights" => Read(k, v) = ReadWeights(v)
<1>1. CASE k \in DOMAIN Names
  BY <1>1, KindsApart DEF Read, Numbers, Sides
<1>2. CASE k \in Cast
  BY <1>2, KindsApart DEF Read, Numbers, Sides
<1>3. CASE k \in DOMAIN Ranged
  BY <1>3, KindsApart DEF Read, Numbers, Sides
<1>4. CASE k \in Sides
  BY <1>4, KindsApart DEF Read, Numbers, Sides
<1>5. CASE k \in Reals
  BY <1>5, KindsApart DEF Read, Numbers, Sides
<1>6. CASE k \in Switches
  BY <1>6, KindsApart DEF Read, Numbers, Sides
<1>7. CASE k \in Widths
  BY <1>7, KindsApart DEF Read, Numbers, Sides
<1>8. CASE k = "clock"
  BY <1>8, KindsApart DEF Read, Numbers, Sides
<1>9. CASE k = "weights"
  BY <1>9, KindsApart DEF Read, Numbers, Sides
<1>. QED
  BY <1>1, <1>2, <1>3, <1>4, <1>5, <1>6, <1>7, <1>8, <1>9

LEMMA Words == MaxField \in Int /\ MaxField > 100000000 /\ ConfigWord \in Nat \ {0}
BY LoaderAssumption DEF MaxField

LEMMA ChannelLimit == Limits.channels[1] = 1 /\ Limits.channels[2] \in Nat /\ Limits.channels[2] > 1
<1>1. Limits.channels \in Nat \X Nat
  BY ConfigAssumption
<1>. QED
  BY <1>1, InputAssumption

\* What stands for a refused number.
LEMMA RefusalMarks ==
    /\ \A k \in {"pipeline_depth", "words", "window", "stall", "dram_channels", "decoder", "rle_runs", "bitmap",
               "link", "groups"} : Ranged[k][3] = 0
    /\ \A k \in Marks \cup {"rate"} : Ranged[k][3] = MaxField
    /\ \A k \in {"round_issue", "select_issue"} : Ranged[k][3] = 1025
    /\ DOMAIN Ranged = {"pipeline_depth", "words", "window", "stall", "dram_channels", "decoder", "rle_runs",
               "bitmap", "link", "groups"} \cup Marks \cup {"rate", "round_issue", "select_issue"}
<1>1. \A k \in {"pipeline_depth", "words", "window", "stall", "dram_channels", "decoder", "rle_runs", "bitmap",
             "link", "groups"} : Ranged[k][3] = 0
  BY DEF Ranged
<1>2. \A k \in Marks \cup {"rate"} : Ranged[k][3] = MaxField
  BY DEF Ranged, Marks
<1>3. \A k \in {"round_issue", "select_issue"} : Ranged[k][3] = 1025
  BY DEF Ranged
<1>4. DOMAIN Ranged = {"pipeline_depth", "words", "window", "stall", "dram_channels", "decoder", "rle_runs",
               "bitmap", "link", "groups"} \cup Marks \cup {"rate", "round_issue", "select_issue"}
  BY DEF Ranged, Marks
<1>. QED
  BY <1>1, <1>2, <1>3, <1>4

LEMMA MarksAreNumbers == ASSUME NEW k \in DOMAIN Ranged PROVE Ranged[k][3] \in Int
BY RefusalMarks, Words

\* The validator refuses every number that stands for a refused one.
LEMMA MarksRefused ==
    ASSUME NEW c, Validated(c), NEW k \in DOMAIN Ranged
    PROVE  c[k] # Ranged[k][3]
<1>1. \A j \in DOMAIN Checked : Checked[j][1] <= c[j] /\ c[j] <= Checked[j][2]
  BY DEF Validated, Within
<1>2. CASE k \in {"pipeline_depth", "words", "window", "stall", "dram_channels"}
  <2>1. k \in DOMAIN Checked /\ Checked[k][1] = 1 /\ Ranged[k][3] = 0
    BY <1>2, CheckedRanges, RefusalMarks
  <2>. QED
    BY <1>1, <2>1
<1>3. CASE k \in {"decoder", "rle_runs", "bitmap", "link", "groups"}
  <2>1. k \in Positive
    BY <1>3 DEF Positive
  <2>2. k \in DOMAIN Checked /\ Checked[k][1] = 1 /\ Ranged[k][3] = 0
    BY <1>3, <2>1, CheckedRanges, RefusalMarks
  <2>. QED
    BY <1>1, <2>2
<1>4. CASE k \in Marks
  <2>1. k \in DOMAIN Checked /\ Checked[k][2] = MaxField - 1 /\ Ranged[k][3] = MaxField
    BY <1>4, CheckedRanges, RefusalMarks
  <2>. QED
    BY <1>1, <2>1, Words
<1>5. CASE k = "rate"
  <2>1. c.rate \in {0, 1, 2, 4}
    BY DEF Validated, DramValid
  <2>. QED
    BY <1>5, <2>1, RefusalMarks, Words
<1>6. CASE k \in {"round_issue", "select_issue"}
  <2>1. k \in DOMAIN Checked /\ Checked[k][2] = 1024 /\ Ranged[k][3] = 1025
    BY <1>6, CheckedRanges, RefusalMarks
  <2>. QED
    BY <1>1, <2>1
<1>. QED
  BY <1>2, <1>3, <1>4, <1>5, <1>6, RefusalMarks

\* A name's number is that of the name, or of none.
LEMMA NumberOfName ==
    ASSUME NEW names, DOMAIN names \subseteq Nat \ {0}, NEW name
    PROVE  /\ NumberOf(names, name) \in Int
           /\ NumberOf(names, name) + 1 \in DOMAIN names => names[NumberOf(names, name) + 1] = name
<1>1. CASE \E i \in DOMAIN names : names[i] = name
  <2>. DEFINE i == CHOOSE i \in DOMAIN names : names[i] = name
  <2>1. i \in DOMAIN names /\ names[i] = name
    BY <1>1
  <2>2. NumberOf(names, name) = i - 1
    BY <1>1 DEF NumberOf
  <2>. HIDE DEF i
  <2>. QED
    BY <2>1, <2>2
<1>2. CASE ~\E i \in DOMAIN names : names[i] = name
  BY <1>2 DEF NumberOf
<1>. QED
  BY <1>1, <1>2

LEMMA ChoicesAreLists == ASSUME NEW k \in DOMAIN Names PROVE DOMAIN Names[k] \subseteq Nat \ {0}
BY DEF Names

\* A configuration: a number in every field but the weights.
Typed(c) ==
    /\ DOMAIN c = DOMAIN Default
    /\ \A k \in DOMAIN Default \ {"weights"} : c[k] \in Int
    /\ c.weights \in [1..Limits.channels[2] -> Int]

LEMMA DefaultTyped == Typed(Default)
BY DefaultKeys DEF Typed

LEMMA ReadTyped ==
    ASSUME NEW k \in DOMAIN Default \ {"weights"}, NEW v, WellFormed(v)
    PROVE  Read(k, v) \in Int
<1>1. (Numeric(v) => v[2] \in Int) /\ Default[k] \in Int
  BY DefaultKeys DEF WellFormed, Scalar
<1>2. Measure(v) => v[2] \in Int
  BY <1>1 DEF Measure, Numeric
<1>3. CASE k \in DOMAIN Names
  <2>1. NumberOf(Names[k], v[2]) \in Int
    BY <1>3, ChoicesAreLists, NumberOfName
  <2>2. Read(k, v) \in {NumberOf(Names[k], v[2]), -1, Default[k]}
    BY <1>3, ReadAs DEF ReadChoice
  <2>. QED
    BY <1>1, <2>1, <2>2
<1>4. CASE k \in Cast
  BY <1>1, <1>4, ReadAs, Words
<1>5. CASE k \in DOMAIN Ranged
  BY <1>1, <1>5, ReadAs, MarksAreNumbers DEF ReadRanged
<1>6. CASE k \in Sides
  BY <1>2, <1>6, ReadAs DEF ReadSide
<1>7. CASE k \in Reals
  BY <1>1, <1>2, <1>7, ReadAs
<1>8. CASE k \in Switches
  BY <1>8, ReadAs
<1>9. CASE k \in Widths
  <2>1. v[1] = "int" => v[2] \in Int
    BY <1>1 DEF Numeric
  <2>. QED
    BY <1>9, <2>1, ReadAs, ChannelLimit DEF ReadWidth
<1>10. CASE k = "clock"
  BY <1>1, <1>2, <1>10, ReadAs DEF ReadClock
<1>. QED
  BY <1>3, <1>4, <1>5, <1>6, <1>7, <1>8, <1>9, <1>10, DefaultKeys DEF Numbers

LEMMA WeightsTyped ==
    ASSUME NEW v, WellFormed(v)
    PROVE  ReadWeights(v) \in [1..Limits.channels[2] -> Int]
<1>1. [Default.weights EXCEPT ![1] = 0] \in [1..Limits.channels[2] -> Int]
  BY DefaultKeys, ChannelLimit
<1>2. ASSUME v[1] = "list", Len(v[2]) = Limits.channels[2], \A i \in DOMAIN v[2] : v[2][i][1] = "int"
      PROVE  [i \in 1..Limits.channels[2] |-> v[2][i][2]] \in [1..Limits.channels[2] -> Int]
  <2>1. DOMAIN v[2] = 1..Limits.channels[2] /\ \A i \in DOMAIN v[2] : Scalar(v[2][i])
    BY <1>2 DEF WellFormed
  <2>2. \A i \in 1..Limits.channels[2] : v[2][i][2] \in Int
    BY <1>2, <2>1 DEF Scalar, Numeric
  <2>. QED
    BY <2>2
<1>. QED
  BY <1>1, <1>2 DEF ReadWeights

LEMMA LoadedTyped ==
    ASSUME NEW f \in Files
    PROVE  Typed(Loaded(f))
<1>1. \A k \in DOMAIN f : WellFormed(f[k])
  BY InputAssumption
<1>2. DOMAIN Loaded(f) = DOMAIN Default
  BY DEF Loaded
<1>3. \A k \in DOMAIN Default : Loaded(f)[k] = IF k \in DOMAIN f THEN Read(k, f[k]) ELSE Default[k]
  BY DEF Loaded
<1>4. \A k \in DOMAIN Default \ {"weights"} : Loaded(f)[k] \in Int
  BY <1>1, <1>3, ReadTyped, DefaultTyped DEF Typed
<1>5. Loaded(f).weights \in [1..Limits.channels[2] -> Int]
  <2>1. "weights" \in DOMAIN Default
    BY DefaultKeys
  <2>2. CASE "weights" \in DOMAIN f
    <3>1. Loaded(f).weights = ReadWeights(f["weights"])
      BY <1>3, <2>1, <2>2, ReadAs
    <3>. QED
      BY <1>1, <2>2, <3>1, WeightsTyped
  <2>3. CASE "weights" \notin DOMAIN f
    BY <1>3, <2>1, <2>3, DefaultTyped DEF Typed
  <2>. QED
    BY <2>2, <2>3
<1>. QED
  BY <1>2, <1>4, <1>5 DEF Typed

\* What is accepted of a file is what it says.
LEMMA LoadedCarries ==
    ASSUME NEW f \in Files, Validated(Loaded(f)), NEW k \in DOMAIN f \ {"rows", "cols"}
    PROVE  Carries(k, f[k], Loaded(f)[k])
<1>. DEFINE v == f[k]
            n == Loaded(f)[k]
<1>1. WellFormed(v) /\ k \in DOMAIN Default
  BY InputAssumption
<1>2. n = Read(k, v)
  BY <1>1 DEF Loaded
<1>3. n = Loaded(f)[k] /\ v = f[k]
  OBVIOUS
<1>4. CASE k \in DOMAIN Names
  <2>1. n + 1 \in DOMAIN Names[k]
    BY <1>4 DEF Validated
  <2>2. v[1] = "name" => n = NumberOf(Names[k], v[2])
    BY <1>2, <1>4, ReadAs DEF ReadChoice
  <2>3. v[1] = "name" => Names[k][n + 1] = v[2]
    BY <1>4, <2>1, <2>2, ChoicesAreLists, NumberOfName
  <2>. QED
    BY <1>4, <2>1, <2>3 DEF Carries
<1>5. CASE k = "weights"
  <2>1. n = ReadWeights(v)
    BY <1>2, <1>5, ReadAs
  <2>2. (\A i \in DOMAIN n : n[i] = 0) \/ (\A i \in DOMAIN n : n[i] # 0)
    BY <1>5 DEF Validated, DmaValid
  <2>3. n # [Default.weights EXCEPT ![1] = 0]
    <3>. DEFINE refused == [Default.weights EXCEPT ![1] = 0]
    <3>1. 1 \in DOMAIN refused /\ refused[1] = 0 /\ 2 \in DOMAIN refused /\ refused[2] = 1
      BY DefaultKeys, ChannelLimit
    <3>. HIDE DEF refused
    <3>2. n # refused
      BY <2>2, <3>1
    <3>. QED
      BY <3>2 DEF refused
  <2>4. /\ v[1] = "list" /\ Len(v[2]) = Limits.channels[2]
        /\ n = [i \in 1..Limits.channels[2] |-> v[2][i][2]]
    BY <2>1, <2>3 DEF ReadWeights
  <2>5. DOMAIN v[2] = 1..Limits.channels[2]
    BY <1>1, <2>4 DEF WellFormed
  <2>6. [i \in DOMAIN v[2] |-> v[2][i][2]] = n
    BY <2>4, <2>5
  <2>7. k \notin DOMAIN Names
    BY <1>5, KindsApart
  <2>. QED
    BY <1>5, <2>4, <2>6, <2>7 DEF Carries
<1>6. CASE k \in Switches
  <2>1. v[1] = "flag" => v[2] \in {0, 1}
    BY <1>1 DEF WellFormed, Scalar
  <2>2. n = IF v[1] \in {"int", "flag"} /\ v[2] # 0 THEN 1 ELSE 0
    BY <1>2, <1>6, ReadAs
  <2>3. k \notin DOMAIN Names /\ k # "weights"
    BY <1>6, KindsApart DEF Numbers
  <2>4. v[1] = "flag" => n = v[2]
    BY <2>1, <2>2
  <2>. QED
    BY <1>6, <2>3, <2>4 DEF Carries
<1>7. ASSUME k \in Numbers \ Switches, v[1] = "int" => n = v[2] \/ n = v[2] % ConfigWord
      PROVE  Carries(k, v, n)
  <2>1. k \notin DOMAIN Names /\ k # "weights" /\ k \notin Switches
    BY <1>7, KindsApart
  <2>. QED
    BY <1>7, <2>1 DEF Carries
<1>8. CASE k \in Numbers \ Switches
  <2>. SUFFICES ASSUME v[1] = "int" PROVE n = v[2] \/ n = v[2] % ConfigWord
    BY <1>7, <1>8
  <2>1. Numeric(v) /\ Measure(v) /\ v[2] \in Int
    BY <1>1 DEF WellFormed, Scalar, Numeric, Measure
  <2>2. CASE k \in Cast
    BY <1>2, <2>1, <2>2, ReadAs
  <2>3. CASE k \in DOMAIN Ranged
    <3>1. n \in {v[2], Ranged[k][3]}
      BY <1>2, <2>1, <2>3, ReadAs DEF ReadRanged
    <3>. QED
      BY <2>3, <3>1, MarksRefused
  <2>4. CASE k \in Reals
    BY <1>2, <2>1, <2>4, ReadAs
  <2>5. CASE k \in Widths
    <3>1. k \in DOMAIN Checked /\ Checked[k][2] = Limits.channels[2]
      BY <2>5, CheckedRanges DEF Widths
    <3>2. n <= Limits.channels[2]
      BY <3>1 DEF Validated, Within
    <3>3. n \in {v[2], Limits.channels[2] + 1}
      BY <1>2, <2>5, ReadAs DEF ReadWidth
    <3>. QED
      BY <3>2, <3>3, ChannelLimit
  <2>6. CASE k = "clock"
    <3>1. k \in DOMAIN Checked /\ Checked[k][1] = 0
      BY <2>6, CheckedRanges
    <3>2. 0 <= n
      BY <3>1 DEF Validated, Within
    <3>3. n \in {v[2], -1}
      BY <1>2, <2>1, <2>6, ReadAs DEF ReadClock
    <3>. QED
      BY <3>2, <3>3
  <2>. QED
    BY <1>8, <2>2, <2>3, <2>4, <2>5, <2>6 DEF Numbers, Sides
<1>. QED
  BY <1>1, <1>4, <1>5, <1>6, <1>7, <1>8, DefaultKeys

-------------------------------------------------------------------------------
(* What the engine is asked for, it takes.                                     *)

\* The number of a name within its choice.
LEMMA NameOf2 ==
    ASSUME NEW c, NEW k, c[k] \in Int, c[k] + 1 \in DOMAIN Names[k],
           NEW a, NEW b, Names[k] = <<a, b>>
    PROVE  Name(c, k) \in {a, b} /\ c[k] \in 0..1
<1>1. c[k] + 1 \in 1..2 /\ Name(c, k) = <<a, b>>[c[k] + 1]
  BY DEF Name
<1>. QED
  BY <1>1
LEMMA NameOf3 ==
    ASSUME NEW c, NEW k, c[k] \in Int, c[k] + 1 \in DOMAIN Names[k],
           NEW a, NEW b, NEW d, Names[k] = <<a, b, d>>
    PROVE  Name(c, k) \in {a, b, d} /\ c[k] \in 0..2
<1>1. c[k] + 1 \in 1..3 /\ Name(c, k) = <<a, b, d>>[c[k] + 1]
  BY DEF Name
<1>. QED
  BY <1>1
LEMMA NameOf4 ==
    ASSUME NEW c, NEW k, c[k] \in Int, c[k] + 1 \in DOMAIN Names[k],
           NEW a, NEW b, NEW d, NEW e, Names[k] = <<a, b, d, e>>
    PROVE  Name(c, k) \in {a, b, d, e} /\ c[k] \in 0..3
<1>1. c[k] + 1 \in 1..4 /\ Name(c, k) = <<a, b, d, e>>[c[k] + 1]
  BY DEF Name
<1>. QED
  BY <1>1
LEMMA NameOf5 ==
    ASSUME NEW c, NEW k, c[k] \in Int, c[k] + 1 \in DOMAIN Names[k],
           NEW a, NEW b, NEW d, NEW e, NEW f, Names[k] = <<a, b, d, e, f>>
    PROVE  Name(c, k) \in {a, b, d, e, f} /\ c[k] \in 0..4
<1>1. c[k] + 1 \in 1..5 /\ Name(c, k) = <<a, b, d, e, f>>[c[k] + 1]
  BY DEF Name
<1>. QED
  BY <1>1
LEMMA NameOf7 ==
    ASSUME NEW c, NEW k, c[k] \in Int, c[k] + 1 \in DOMAIN Names[k],
           NEW a, NEW b, NEW d, NEW e, NEW f, NEW g, NEW h, Names[k] = <<a, b, d, e, f, g, h>>
    PROVE  Name(c, k) \in {a, b, d, e, f, g, h} /\ c[k] \in 0..6
<1>1. c[k] + 1 \in 1..7 /\ Name(c, k) = <<a, b, d, e, f, g, h>>[c[k] + 1]
  BY DEF Name
<1>. QED
  BY <1>1

LEMMA NamesKnown ==
    ASSUME NEW c, Typed(c), Validated(c)
    PROVE  /\ Name(c, "bus_mode") \in {"independent", "shared"}
           /\ Name(c, "arb") \in {"rr", "strict", "aging", "drr"}
           /\ Name(c, "aging_scope") \in {"submission", "head"}
           /\ Name(c, "aging_metric") \in {"grants", "cycles"}
           /\ Name(c, "cost_mode") \in {"useful", "occupied", "service"}
           /\ Name(c, "binding") \in {"explicit", "rr", "outstanding", "bytes", "cycles"}
           /\ Name(c, "segmentation") \in {"aggregate", "logical"}
           /\ Name(c, "base_scope") \in {"descriptor", "segment"}
           /\ Name(c, "payload_scope") \in {"packed", "segment", "burst"}
           /\ Name(c, "issue_payload") \in {"serialized", "overlapped"}
           /\ Name(c, "boundary") \in {"size", "sram", "sram4k", "ext4k", "both4k", "ext", "both"}
           /\ c.service_mode \in 0..1 /\ c.idle_policy \in 0..1 /\ c.granularity \in 0..1
           /\ c.round_mode \in 0..2
<1>1. \A k \in DOMAIN Names : c[k] + 1 \in DOMAIN Names[k] /\ Name(c, k) = Names[k][c[k] + 1]
  BY DEF Validated, Name
<1>2. \A k \in DOMAIN Names : c[k] \in Int
  BY DefaultKeys, KindsApart DEF Typed
<1>3. {"bus_mode", "arb", "aging_scope", "aging_metric", "cost_mode", "binding", "segmentation", "base_scope",
       "payload_scope", "issue_payload", "boundary", "service_mode", "idle_policy", "granularity",
       "round_mode"} \subseteq DOMAIN Names
  BY DEF Names
<1>4. /\ Names["bus_mode"] = <<"independent", "shared">>
      /\ Names["arb"] = <<"rr", "strict", "aging", "drr">>
      /\ Names["aging_scope"] = <<"submission", "head">> /\ Names["aging_metric"] = <<"grants", "cycles">>
      /\ Names["cost_mode"] = <<"useful", "occupied", "service">>
      /\ Names["binding"] = <<"explicit", "rr", "outstanding", "bytes", "cycles">>
      /\ Names["segmentation"] = <<"aggregate", "logical">>
      /\ Names["base_scope"] = <<"descriptor", "segment">>
      /\ Names["payload_scope"] = <<"packed", "segment", "burst">>
      /\ Names["issue_payload"] = <<"serialized", "overlapped">>
      /\ Names["boundary"] = <<"size", "sram", "sram4k", "ext4k", "both4k", "ext", "both">>
      /\ Names["service_mode"] = <<"interleaved", "conserving">>
      /\ Names["idle_policy"] = <<"reset", "retain">> /\ Names["granularity"] = <<"exact", "rounded">>
      /\ Names["round_mode"] = <<"fixed", "channel", "visited">>
  BY DEF Names
<1>5. /\ Name(c, "bus_mode") \in {"independent", "shared"}
      /\ Name(c, "aging_scope") \in {"submission", "head"}
      /\ Name(c, "aging_metric") \in {"grants", "cycles"}
      /\ Name(c, "segmentation") \in {"aggregate", "logical"}
      /\ Name(c, "base_scope") \in {"descriptor", "segment"}
      /\ Name(c, "issue_payload") \in {"serialized", "overlapped"}
  <2>. SUFFICES ASSUME NEW k \in DOMAIN Names, NEW a, NEW b, Names[k] = <<a, b>>
                PROVE  Name(c, k) \in {a, b}
    BY <1>3, <1>4
  <2>. QED
    BY <1>1, <1>2, NameOf2
<1>6. Name(c, "payload_scope") \in {"packed", "segment", "burst"}
  BY <1>1, <1>2, <1>3, <1>4, NameOf3
<1>6c. c["round_mode"] \in 0..2
  BY <1>1, <1>2, <1>3, <1>4, NameOf3
<1>6a. Name(c, "cost_mode") \in {"useful", "occupied", "service"}
  BY <1>1, <1>2, <1>3, <1>4, NameOf3
<1>6b. Name(c, "arb") \in {"rr", "strict", "aging", "drr"}
  BY <1>1, <1>2, <1>3, <1>4, NameOf4
<1>7. Name(c, "binding") \in {"explicit", "rr", "outstanding", "bytes", "cycles"}
  BY <1>1, <1>2, <1>3, <1>4, NameOf5
<1>8. Name(c, "boundary") \in {"size", "sram", "sram4k", "ext4k", "both4k", "ext", "both"}
  BY <1>1, <1>2, <1>3, <1>4, NameOf7
<1>9. c["service_mode"] \in 0..1 /\ c["idle_policy"] \in 0..1 /\ c["granularity"] \in 0..1
  BY <1>1, <1>2, <1>3, <1>4, NameOf2
<1>. QED
  BY <1>5, <1>6, <1>6a, <1>6b, <1>6c, <1>7, <1>8, <1>9

\* The numbers an accepted configuration hands to the engine.
LEMMA NumbersInRange ==
    ASSUME NEW c, Typed(c), Validated(c)
    PROVE  /\ c.channels \in Nat \ {0} /\ c.channels <= Limits.channels[2]
           /\ c.outstanding \in Nat \ {0}
           /\ c.bus \in Nat \ {0} /\ Within(c.bus, Limits.bus) /\ PowerOf2(c.bus)
           /\ c.burst \in Nat \ {0} /\ BurstAllowed(c.burst)
           /\ \A k \in {"read_burst", "write_burst"} : c[k] # 0 => BurstAllowed(c[k])
           /\ c.quantum_bytes # 0 => Within(c.quantum_bytes, Limits.quantum) /\ PowerOf2(c.quantum_bytes)
           /\ c.quantum_cycles \in Nat /\ c.quantum_cycles <= Limits.cycles[2]
           /\ c.aging_increment \in Nat \ {0} /\ c.aging_increment <= Limits.boost[2]
           /\ c.max_boost <= Limits.boost[2]
           /\ \A k \in {"burst_issue", "round_issue", "select_issue"} : c[k] <= Limits.issue[2]
           /\ \A k \in {"read_issue", "write_issue"} : c[k] # Unset => c[k] <= Limits.issue[2]
           /\ \A k \in Widths : c[k] \in Nat /\ c[k] <= Limits.channels[2]
           /\ c.clock \in Nat /\ c.aging_quantum \in Nat \ {0} /\ c.aging_quantum <= Limits.cycles[2]
           /\ c.aging_ns \in Nat /\ c.aging_ns <= 1048576
<1>1. \A k \in DOMAIN Checked : Checked[k][1] <= c[k] /\ c[k] <= Checked[k][2]
  BY DEF Validated, Within
<1>2. \A k \in Numbers : c[k] \in Int
  BY DefaultKeys, KindsApart DEF Typed
<1>3. {"outstanding", "burst_issue", "round_issue", "select_issue", "quantum_cycles", "aging_quantum",
       "aging_increment", "max_boost", "aging_ns", "clock", "bus", "burst", "channels", "quantum_bytes",
       "read_burst", "write_burst", "read_issue", "write_issue"} \cup Widths \subseteq Numbers
  BY RefusalMarks DEF Numbers, Cast, Reals
<1>3a. /\ c.outstanding \in Int /\ c.burst_issue \in Int /\ c.round_issue \in Int /\ c.select_issue \in Int
       /\ c.quantum_cycles \in Int /\ c.aging_quantum \in Int /\ c.aging_increment \in Int
       /\ c.max_boost \in Int /\ c.aging_ns \in Int /\ c.clock \in Int /\ c.bus \in Int /\ c.burst \in Int
       /\ c.channels \in Int /\ c.quantum_bytes \in Int
       /\ c["read_burst"] \in Int /\ c["write_burst"] \in Int
       /\ c["read_issue"] \in Int /\ c["write_issue"] \in Int /\ \A k \in Widths : c[k] \in Int
  BY <1>2, <1>3
<1>4. /\ Limits.bus[1] \in Nat /\ Limits.bus[2] \in Nat /\ Limits.burst[1] \in Nat /\ Limits.burst[2] \in Nat
      /\ Limits.quantum[1] \in Nat /\ Limits.quantum[2] \in Nat /\ Limits.boost[2] \in Nat
      /\ Limits.cycles[2] \in Nat /\ Limits.issue[2] \in Nat
  BY ConfigAssumption
<1>5. /\ Limits.bus[1] <= 4 /\ 128 <= Limits.bus[2]
      /\ Limits.burst[1] <= 16 /\ 65536 <= Limits.burst[2]
      /\ Limits.quantum[1] <= 16 /\ 65536 <= Limits.quantum[2]
      /\ 255 <= Limits.boost[2] /\ 1048576 <= Limits.cycles[2] /\ 1024 <= Limits.issue[2]
  BY InputAssumption
<1>6. /\ 1 <= c.channels /\ c.channels <= Limits.channels[2]
      /\ 1 <= c.outstanding /\ 4 <= c.bus /\ c.bus <= 128 /\ 16 <= c.burst /\ c.burst <= 65536
      /\ 0 <= c.quantum_cycles /\ c.quantum_cycles <= 1048576
  BY <1>1, CheckedRanges, ChannelLimit
<1>7. /\ 1 <= c.aging_increment /\ c.aging_increment <= 255 /\ c.max_boost <= 255
      /\ c.burst_issue <= 1024 /\ c.round_issue <= 1024 /\ c.select_issue <= 1024
      /\ 0 <= c.clock /\ 1 <= c.aging_quantum /\ c.aging_quantum <= 1048576
      /\ 1 <= c.aging_ns /\ c.aging_ns <= 1048576
  BY <1>1, CheckedRanges
<1>8. \A k \in Widths : 0 <= c[k] /\ c[k] <= Limits.channels[2]
  BY <1>1, CheckedRanges DEF Widths
<1>9. PowerOf2(c.bus) /\ PowerOf2(c.burst)
  BY DEF Validated, DmaValid
<1>9a. \A k \in {"read_burst", "write_burst", "quantum_bytes"} :
          c[k] # 0 => 16 <= c[k] /\ c[k] <= 65536 /\ PowerOf2(c[k])
  <2>1. \A k \in {"read_burst", "write_burst", "quantum_bytes"} : ZeroOrSize(c[k])
    BY DEF Validated, DmaValid
  <2>. QED
    BY <2>1 DEF ZeroOrSize, Within
<1>9b. \A k \in {"read_issue", "write_issue"} : c[k] # Unset => c[k] <= 1024
  BY DEF Validated, DmaValid
<1>10. /\ c.channels \in Nat \ {0} /\ c.outstanding \in Nat \ {0} /\ c.bus \in Nat \ {0} /\ c.burst \in Nat \ {0}
       /\ c.quantum_cycles \in Nat /\ c.aging_increment \in Nat \ {0} /\ c.clock \in Nat
       /\ c.aging_quantum \in Nat \ {0} /\ c.aging_ns \in Nat /\ \A k \in Widths : c[k] \in Nat
  BY <1>3a, <1>6, <1>7, <1>8
<1>11. /\ Within(c.bus, Limits.bus) /\ BurstAllowed(c.burst)
       /\ \A k \in {"read_burst", "write_burst"} : c[k] # 0 => BurstAllowed(c[k])
       /\ c.quantum_bytes # 0 => Within(c.quantum_bytes, Limits.quantum) /\ PowerOf2(c.quantum_bytes)
  <2>1. Within(c.bus, Limits.bus)
    BY <1>3a, <1>4, <1>5, <1>6 DEF Within
  <2>2. ASSUME NEW n \in Int, 16 <= n, n <= 65536 PROVE Within(n, Limits.burst) /\ Within(n, Limits.quantum)
    BY <2>2, <1>4, <1>5 DEF Within
  <2>3. BurstAllowed(c.burst)
    BY <1>3a, <1>6, <1>9, <2>2 DEF BurstAllowed
  <2>4. \A k \in {"read_burst", "write_burst"} : c[k] # 0 => BurstAllowed(c[k])
    BY <1>3a, <1>9a, <2>2 DEF BurstAllowed
  <2>5. c.quantum_bytes # 0 => Within(c.quantum_bytes, Limits.quantum) /\ PowerOf2(c.quantum_bytes)
    BY <1>3a, <1>9a, <2>2
  <2>. QED
    BY <2>1, <2>3, <2>4, <2>5
<1>12. /\ c.quantum_cycles <= Limits.cycles[2] /\ c.aging_increment <= Limits.boost[2]
       /\ c.max_boost <= Limits.boost[2] /\ c.aging_quantum <= Limits.cycles[2]
  BY <1>3a, <1>4, <1>5, <1>6, <1>7
<1>13. /\ \A k \in {"burst_issue", "round_issue", "select_issue"} : c[k] <= Limits.issue[2]
       /\ \A k \in {"read_issue", "write_issue"} : c[k] # Unset => c[k] <= Limits.issue[2]
  BY <1>3a, <1>4, <1>5, <1>7, <1>9b
<1>. QED
  BY <1>6, <1>7, <1>8, <1>9, <1>10, <1>11, <1>12, <1>13

\* The engine's own checks pass what an accepted configuration hands over.
LEMMA RequestPasses ==
    ASSUME NEW c, Typed(c), Validated(c)
    PROVE  LET p == Request(c)
           IN  /\ PoliciesKnown(p) /\ AgingValid(p) /\ DrrValid(p) /\ ScopesValid(p)
               /\ p.binding_policy \in {"explicit", "rr", "outstanding", "bytes", "cycles"}
               /\ BusValid(p) /\ BurstsValid(p)
               /\ OrElse(p.num_channels, Defaults.channels) = c.channels
               /\ OrElse(p.max_queue_depth, Defaults.depth) = c.outstanding
               /\ ~(c.channels > Limits.channels[2])
<1>. DEFINE p == Request(c)
<1>1. /\ p.bus_mode = Name(c, "bus_mode") /\ p.arb_policy = Name(c, "arb")
      /\ p.aging_scope = Name(c, "aging_scope") /\ p.aging_metric = Name(c, "aging_metric")
      /\ p.drr_cost_mode = Name(c, "cost_mode") /\ p.binding_policy = Name(c, "binding")
      /\ p.segmentation = Name(c, "segmentation") /\ p.base_scope = Name(c, "base_scope")
      /\ p.payload_scope = Name(c, "payload_scope") /\ p.issue_payload_mode = Name(c, "issue_payload")
      /\ p.boundary_mode = Name(c, "boundary")
  BY DEF Request
<1>2. /\ p.num_channels = c.channels /\ p.max_queue_depth = c.outstanding
      /\ p.aging_increment = c.aging_increment /\ p.aging_max_boost = c.max_boost
      /\ p.aging_cycle_quantum =
            (IF c.aging_domain = 1 THEN InCycles(1, c.aging_ns, Clock(c)) ELSE c.aging_quantum)
      /\ p.drr_quantum_bytes = OrElse(c.quantum_bytes, 256)
      /\ p.drr_quantum_cycles = OrElse(c.quantum_cycles, 64)
  BY DEF Request
<1>3. /\ p.bus_width = c.bus /\ p.max_burst = c.burst /\ p.read_burst = c.read_burst
      /\ p.write_burst = c.write_burst /\ p.burst_issue = c.burst_issue
      /\ p.read_issue = c.read_issue /\ p.write_issue = c.write_issue
  BY DEF Request
<1>. HIDE DEF p
<1>4. PoliciesKnown(p) /\ ScopesValid(p) /\ p.binding_policy \in {"explicit", "rr", "outstanding", "bytes", "cycles"}
  BY <1>1, NamesKnown DEF PoliciesKnown, ScopesValid
<1>5. AgingValid(p)
  <2>1. p.aging_scope \in {"submission", "head"} /\ p.aging_metric \in {"grants", "cycles"}
    BY <1>1, NamesKnown
  <2>2. OrElse(p.aging_increment, 1) <= Limits.boost[2] /\ p.aging_max_boost <= Limits.boost[2]
    BY <1>2, NumbersInRange DEF OrElse
  <2>3. OrElse(p.aging_cycle_quantum, 1) <= Limits.cycles[2]
    <3>1. Limits.cycles[2] \in Nat /\ 1048576 <= Limits.cycles[2]
      BY ConfigAssumption, InputAssumption
    <3>2. CASE c.aging_domain # 1
      BY <1>2, <3>2, NumbersInRange DEF OrElse
    <3>3. CASE c.aging_domain = 1 /\ c.clock > 0
      <4>1. p.aging_cycle_quantum = InCycles(1, c.aging_ns, c.clock)
        BY <1>2, <3>3 DEF Clock
      <4>2. InCycles(1, c.aging_ns, c.clock) <= 1048576
        BY <3>3 DEF Validated, DmaValid
      <4>3. InCycles(1, c.aging_ns, c.clock) \in Int
        <5>1. c.aging_ns * c.clock \in Int
          BY NumbersInRange
        <5>. QED
          BY <5>1 DEF InCycles, CeilDiv
      <4>. QED
        BY <3>1, <4>1, <4>2, <4>3 DEF OrElse
    <3>4. CASE c.aging_domain = 1 /\ ~(c.clock > 0)
      <4>1. p.aging_cycle_quantum = InCycles(1, c.aging_ns, 2)
        BY <1>2, <3>4 DEF Clock
      <4>2. InCycles(1, c.aging_ns, 2) = c.aging_ns
        BY NumbersInRange DEF InCycles, CeilDiv
      <4>3. c.aging_ns \in Nat /\ c.aging_ns <= 1048576
        BY NumbersInRange
      <4>. QED
        BY <3>1, <4>1, <4>2, <4>3 DEF OrElse
    <3>. QED
      BY <3>2, <3>3, <3>4
  <2>. QED
    BY <2>1, <2>2, <2>3 DEF AgingValid
<1>6. DrrValid(p)
  <2>1. Limits.quantum[1] \in Nat /\ Limits.quantum[2] \in Nat /\ Limits.quantum[1] <= 16
        /\ 65536 <= Limits.quantum[2]
    <3>1. Limits.quantum[1] \in Nat /\ Limits.quantum[2] \in Nat
      BY ConfigAssumption
    <3>2. Limits.quantum[1] <= 16 /\ 65536 <= Limits.quantum[2]
      BY InputAssumption
    <3>. QED
      BY <3>1, <3>2
  <2>2. PowerOf2(256) /\ Within(256, Limits.quantum)
    BY <2>1 DEF PowerOf2, Within
  <2>3. OrElse(p.drr_quantum_bytes, 256) = IF c.quantum_bytes = 0 THEN 256 ELSE c.quantum_bytes
    BY <1>2 DEF OrElse
  <2>4. c.quantum_bytes # 0 => Within(c.quantum_bytes, Limits.quantum) /\ PowerOf2(c.quantum_bytes)
    BY NumbersInRange
  <2>5. OrElse(p.drr_quantum_cycles, 64) <= Limits.cycles[2]
    <3>1. Limits.cycles[2] \in Nat /\ 1048576 <= Limits.cycles[2]
      BY ConfigAssumption, InputAssumption
    <3>2. c.quantum_cycles \in Nat /\ c.quantum_cycles <= Limits.cycles[2]
      BY NumbersInRange
    <3>. QED
      BY <1>2, <3>1, <3>2 DEF OrElse
  <2>6. p.drr_cost_mode \in {"useful", "occupied", "service"}
    BY <1>1, NamesKnown
  <2>. QED
    BY <2>2, <2>3, <2>4, <2>5, <2>6 DEF DrrValid
<1>7. BusValid(p)
  <2>1. OrElse(p.bus_width, Defaults.bus) = c.bus
    BY <1>3, NumbersInRange DEF OrElse
  <2>. QED
    BY <2>1, NumbersInRange DEF BusValid
<1>8. BurstsValid(p)
  <2>1. CommonBurst(p) = c.burst
    BY <1>3, NumbersInRange DEF CommonBurst, OrElse
  <2>2. OrElse(p.read_burst, CommonBurst(p)) = (IF c.read_burst = 0 THEN c.burst ELSE c.read_burst)
        /\ OrElse(p.write_burst, CommonBurst(p)) = (IF c.write_burst = 0 THEN c.burst ELSE c.write_burst)
    BY <1>3, <2>1 DEF OrElse
  <2>3. BurstAllowed(c.burst) /\ (c.read_burst # 0 => BurstAllowed(c.read_burst))
        /\ (c.write_burst # 0 => BurstAllowed(c.write_burst))
    BY NumbersInRange
  <2>4. c.burst_issue <= Limits.issue[2] /\ (c.read_issue # Unset => c.read_issue <= Limits.issue[2])
        /\ (c.write_issue # Unset => c.write_issue <= Limits.issue[2])
    BY NumbersInRange
  <2>5. \A n \in {p.burst_issue, IssueOf(p, p.read_issue), IssueOf(p, p.write_issue)} : n <= Limits.issue[2]
    BY <1>3, <2>4 DEF IssueOf
  <2>. QED
    BY <2>1, <2>2, <2>3, <2>5 DEF BurstsValid
<1>9. OrElse(p.num_channels, Defaults.channels) = c.channels /\ OrElse(p.max_queue_depth, Defaults.depth) = c.outstanding
  BY <1>2, NumbersInRange DEF OrElse
<1>10. ~(c.channels > Limits.channels[2])
  BY NumbersInRange, ChannelLimit
<1>. QED
  BY <1>4, <1>5, <1>6, <1>7, <1>8, <1>9, <1>10 DEF p

\* So it is the last of the initializer's outcomes, with every field as asked.
LEMMA EngineAsAsked ==
    ASSUME NEW c, Typed(c), Validated(c), engine = Configured(Request(c))
    PROVE  engine.channels > 0 /\ Asked(c)
<1>. DEFINE p == Request(c)
            begun == [Zeroed EXCEPT !.async = p.async]
            quantum == OrElse(p.drr_quantum_bytes, 256)
            cycles == OrElse(p.drr_quantum_cycles, 64)
            scoped == [begun EXCEPT !.segmentation = p.segmentation, !.base = p.base_scope,
                                !.payload = p.payload_scope, !.overlap = p.issue_payload_mode,
                                !.boundary = p.boundary_mode, !.cost = p.drr_cost_mode,
                                !.quantumBytes = quantum, !.quantumCycles = cycles]
            bus == OrElse(p.bus_width, Defaults.bus)
            readBurst == OrElse(p.read_burst, CommonBurst(p))
            writeBurst == OrElse(p.write_burst, CommonBurst(p))
            readIssue == IssueOf(p, p.read_issue)
            writeIssue == IssueOf(p, p.write_issue)
            timed == [scoped EXCEPT !.bus = bus, !.readBurst = readBurst, !.writeBurst = writeBurst,
                                !.readIssue = readIssue, !.writeIssue = writeIssue,
                                !.readLatency = p.read_latency, !.writeLatency = p.write_latency]
            channels == OrElse(p.num_channels, Defaults.channels)
            depth == OrElse(p.max_queue_depth, Defaults.depth)
            done == [timed EXCEPT !.channels = channels, !.depth = depth]
            known == {"async", "channels", "depth", "bus", "readBurst", "writeBurst", "readIssue", "writeIssue",
                      "readLatency", "writeLatency", "segmentation", "base", "payload", "overlap", "boundary",
                      "cost", "quantumBytes", "quantumCycles"}
<1>1. /\ PoliciesKnown(p) /\ AgingValid(p) /\ DrrValid(p) /\ ScopesValid(p)
      /\ p.binding_policy \in {"explicit", "rr", "outstanding", "bytes", "cycles"}
      /\ BusValid(p) /\ BurstsValid(p)
      /\ channels = c.channels /\ depth = c.outstanding /\ ~(c.channels > Limits.channels[2])
  BY RequestPasses
<1>2. /\ p.async = (c.async = 1) /\ p.bus_width = c.bus /\ p.max_burst = c.burst
      /\ p.read_burst = c.read_burst /\ p.write_burst = c.write_burst /\ p.burst_issue = c.burst_issue
      /\ p.read_issue = c.read_issue /\ p.write_issue = c.write_issue
  BY DEF Request
<1>3. /\ p.segmentation = Name(c, "segmentation") /\ p.base_scope = Name(c, "base_scope")
      /\ p.payload_scope = Name(c, "payload_scope") /\ p.issue_payload_mode = Name(c, "issue_payload")
      /\ p.boundary_mode = Name(c, "boundary") /\ p.drr_cost_mode = Name(c, "cost_mode")
  BY DEF Request
<1>4. engine = Configured(p)
  OBVIOUS
<1>. HIDE DEF p
<1>5. /\ DOMAIN begun = known /\ begun.async = p.async
  BY DEF Zeroed
<1>. HIDE DEF begun, quantum, cycles
<1>6. /\ DOMAIN scoped = known /\ scoped.async = p.async
      /\ scoped.segmentation = p.segmentation /\ scoped.base = p.base_scope
      /\ scoped.payload = p.payload_scope /\ scoped.overlap = p.issue_payload_mode
      /\ scoped.boundary = p.boundary_mode /\ scoped.cost = p.drr_cost_mode
  BY <1>5
<1>. HIDE DEF scoped, bus, readBurst, writeBurst, readIssue, writeIssue
<1>7. /\ DOMAIN timed = known /\ timed.async = p.async
      /\ timed.segmentation = p.segmentation /\ timed.base = p.base_scope
      /\ timed.payload = p.payload_scope /\ timed.overlap = p.issue_payload_mode
      /\ timed.boundary = p.boundary_mode /\ timed.cost = p.drr_cost_mode
      /\ timed.bus = bus /\ timed.readBurst = readBurst /\ timed.writeBurst = writeBurst
      /\ timed.readIssue = readIssue /\ timed.writeIssue = writeIssue
  BY <1>6
<1>. HIDE DEF timed, channels, depth
<1>8. /\ done.channels = channels /\ done.depth = depth /\ done.async = p.async
      /\ done.segmentation = p.segmentation /\ done.base = p.base_scope
      /\ done.payload = p.payload_scope /\ done.overlap = p.issue_payload_mode
      /\ done.boundary = p.boundary_mode /\ done.cost = p.drr_cost_mode
      /\ done.bus = bus /\ done.readBurst = readBurst /\ done.writeBurst = writeBurst
      /\ done.readIssue = readIssue /\ done.writeIssue = writeIssue
  BY <1>7
<1>. HIDE DEF done
<1>9. Configured(p) = done
  BY <1>1 DEF Configured, begun, quantum, cycles, scoped, bus, readBurst, writeBurst, readIssue, writeIssue,
         timed, channels, depth, done
<1>10. bus = c.bus /\ CommonBurst(p) = c.burst
  BY <1>2, NumbersInRange DEF bus, CommonBurst, OrElse
<1>11. /\ readBurst = OrElse(c.read_burst, c.burst) /\ writeBurst = OrElse(c.write_burst, c.burst)
       /\ readIssue = IssueOf(c, c.read_issue) /\ writeIssue = IssueOf(c, c.write_issue)
  BY <1>2, <1>10 DEF readBurst, writeBurst, readIssue, writeIssue, IssueOf
<1>12. engine.async = (c.async = 1)
  BY <1>2, <1>4, <1>8, <1>9, Zenon
<1>13. /\ engine.channels = c.channels /\ engine.depth = c.outstanding /\ engine.bus = c.bus
       /\ engine.readBurst = OrElse(c.read_burst, c.burst) /\ engine.writeBurst = OrElse(c.write_burst, c.burst)
       /\ engine.readIssue = IssueOf(c, c.read_issue) /\ engine.writeIssue = IssueOf(c, c.write_issue)
       /\ <<engine.segmentation, engine.base, engine.payload, engine.overlap, engine.boundary, engine.cost>> =
          <<Name(c, "segmentation"), Name(c, "base_scope"), Name(c, "payload_scope"),
            Name(c, "issue_payload"), Name(c, "boundary"), Name(c, "cost_mode")>>
  BY <1>1, <1>3, <1>4, <1>8, <1>9, <1>10, <1>11
<1>14. engine.channels > 0
  BY <1>13, NumbersInRange
<1>. QED
  BY <1>12, <1>13, <1>14, Zenon DEF Asked

\* No setter refuses its part of an accepted configuration.
LEMMA SettersTake ==
    ASSUME NEW c, Typed(c), Validated(c), drr = Applied(c)
    PROVE  AskedDrr(c)
<1>. DEFINE weights == [i \in 1..Limits.channels[2] |-> OrElse(c.weights[i], 1)]
            width == OrElse(c.scan_width, 1)
            d1 == [service |-> c.service_mode, idle |-> 0, granularity |-> 0, round |-> 0, roundMode |-> 0,
                   select |-> 0, width |-> 1, roundWidth |-> 0, selectWidth |-> 0, weights |-> weights]
            d2 == [service |-> c.service_mode, idle |-> c.idle_policy, granularity |-> 0, round |-> 0, roundMode |-> 0,
                   select |-> 0, width |-> 1, roundWidth |-> 0, selectWidth |-> 0, weights |-> weights]
            d3 == [service |-> c.service_mode, idle |-> c.idle_policy, granularity |-> c.granularity,
                   round |-> 0, roundMode |-> 0,
                   select |-> 0, width |-> 1, roundWidth |-> 0, selectWidth |-> 0, weights |-> weights]
            d4 == [service |-> c.service_mode, idle |-> c.idle_policy, granularity |-> c.granularity,
                   round |-> c.round_issue, roundMode |-> c.round_mode,
                   select |-> c.select_issue, width |-> 1, roundWidth |-> 0, selectWidth |-> 0, weights |-> weights]
            d5 == [service |-> c.service_mode, idle |-> c.idle_policy, granularity |-> c.granularity,
                   round |-> c.round_issue, roundMode |-> c.round_mode,
                   select |-> c.select_issue, width |-> width, roundWidth |-> c.round_width,
                   selectWidth |-> c.select_width, weights |-> weights]
<1>1. /\ Known(c.service_mode, 1) /\ Known(c.idle_policy, 1) /\ Known(c.granularity, 1) /\ Known(c.round_mode, 2)
  BY NamesKnown DEF Known
<1>2. /\ c.round_issue <= Limits.issue[2] /\ c.select_issue <= Limits.issue[2]
      /\ width <= Limits.channels[2] /\ c.round_width <= Limits.channels[2] /\ c.select_width <= Limits.channels[2]
  <2>1. /\ c.round_issue <= Limits.issue[2] /\ c.select_issue <= Limits.issue[2]
    BY NumbersInRange
  <2>2. c.scan_width <= Limits.channels[2] /\ c.round_width <= Limits.channels[2] /\ c.select_width <= Limits.channels[2]
    BY NumbersInRange DEF Widths
  <2>. QED
    BY <2>1, <2>2, ChannelLimit DEF OrElse
<1>3. [i \in DOMAIN c.weights |-> OrElse(c.weights[i], 1)] = weights
  BY DEF Typed
<1>. HIDE DEF weights, width
<1>4. Serviced(c, DrrFresh) = d1
  <2>1. Serviced(c, DrrFresh) = [DrrFresh EXCEPT !.service = c.service_mode, !.weights = weights]
    BY <1>1, <1>3 DEF Serviced, If
  <2>. QED
    BY <2>1 DEF DrrFresh
<1>5. Idled(c, d1) = d2
  BY <1>1 DEF Idled, If
<1>6. Grained(c, d2) = d3
  BY <1>1 DEF Grained, If
<1>7. Delayed(c, d3) = d4
  BY <1>1, <1>2 DEF Delayed, If
<1>8. Scanned(c, d4) = d5
  BY <1>2 DEF Scanned, If, width
<1>9. Applied(c) = d5
  <2>. HIDE DEF d1, d2, d3, d4, d5
  <2>. QED
    BY <1>4, <1>5, <1>6, <1>7, <1>8 DEF Applied
<1>. QED
  BY <1>9 DEF AskedDrr, weights, width

-------------------------------------------------------------------------------
(* The calls.                                                                  *)

\* A unit runs with a configuration that was accepted.
Vouched(c) == Typed(c) /\ Validated(c) /\ engine = Configured(Request(c)) /\ drr = Applied(c)

\* What the client holds is typed, and from its file as long as it names one;
\* what is marked as accepted is what the validator accepts.
LoaderInv ==
    /\ Typed(config) /\ accepted \in BOOLEAN /\ unit.vouched \in BOOLEAN
    /\ file = NoFile \/ (file \in Files /\ config = Loaded(file))
    /\ accepted => Validated(config)
    /\ unit.vouched => Vouched(unit.from)

LEMMA LoaderStep == LoaderInv /\ [LoaderNext]_<<configVars, loaderVars>> => LoaderInv'
<1>. SUFFICES ASSUME LoaderInv, [LoaderNext]_<<configVars, loaderVars>> PROVE LoaderInv'
  OBVIOUS
<1>1. ASSUME UNCHANGED <<engine, drr, unit>>
      PROVE  unit'.vouched \in BOOLEAN /\ (unit'.vouched => Vouched(unit.from)')
  BY <1>1 DEF LoaderInv, Vouched
<1>2. ASSUME NEW f \in Files, Load(f) PROVE LoaderInv'
  <2>1. Typed(Loaded(f))
    BY LoadedTyped
  <2>2. config' = Loaded(f) /\ file' = f /\ accepted' = Validated(Loaded(f)) /\ UNCHANGED <<engine, drr, unit>>
    BY <1>2 DEF Load, configVars
  <2>3. accepted' \in BOOLEAN /\ (accepted' => Validated(config)')
    <3>1. Validated(config)' <=> Validated(Loaded(f))
      BY <2>2
    <3>2. Validated(Loaded(f)) \in BOOLEAN
      BY DEF Validated
    <3>. QED
      BY <2>2, <3>1, <3>2
  <2>4. Typed(config)'
    BY <2>1, <2>2
  <2>. QED
    BY <1>1, <2>2, <2>3, <2>4 DEF LoaderInv
<1>3. ASSUME NEW e \in Edits, Edit(e[1], e[2]) PROVE LoaderInv'
  <2>1. /\ config' = [config EXCEPT ![e[1]] = e[2]] /\ file' = NoFile /\ accepted' = FALSE
        /\ UNCHANGED <<engine, drr, unit>>
    BY <1>3 DEF Edit, configVars
  <2>2. e[1] \in DOMAIN Default \ {"weights"} /\ e[2] \in Int
    BY InputAssumption
  <2>3. Typed(config)'
    <3>. DEFINE changed == [config EXCEPT ![e[1]] = e[2]]
    <3>1. DOMAIN changed = DOMAIN config /\ \A k \in DOMAIN config : changed[k] = IF k = e[1] THEN e[2] ELSE config[k]
      OBVIOUS
    <3>. HIDE DEF changed
    <3>2. DOMAIN config = DOMAIN Default /\ "weights" \in DOMAIN Default
      BY DefaultKeys DEF LoaderInv, Typed
    <3>3. \A k \in DOMAIN Default \ {"weights"} : changed[k] \in Int
      BY <2>2, <3>1, <3>2 DEF LoaderInv, Typed
    <3>4. changed["weights"] = config["weights"]
      BY <2>2, <3>1, <3>2
    <3>5. changed.weights \in [1..Limits.channels[2] -> Int]
      BY <3>4 DEF LoaderInv, Typed
    <3>6. Typed(changed)
      BY <3>1, <3>2, <3>3, <3>5 DEF Typed
    <3>. QED
      BY <2>1, <3>6 DEF changed
  <2>4. accepted' \in BOOLEAN /\ (accepted' => Validated(config)')
    BY <2>1, Zenon
  <2>. QED
    BY <1>1, <2>1, <2>3, <2>4 DEF LoaderInv
<1>4. CASE Validate
  <2>1. /\ accepted' = Validated(config) /\ config' = config /\ file' = file
        /\ UNCHANGED <<engine, drr, unit>>
    BY <1>4 DEF Validate, configVars
  <2>2. accepted' \in BOOLEAN /\ (accepted' => Validated(config)')
    <3>1. Validated(config)' <=> Validated(config)
      BY <2>1
    <3>2. Validated(config) \in BOOLEAN
      BY DEF Validated
    <3>. QED
      BY <2>1, <3>1, <3>2
  <2>3. Typed(config)'
    BY <2>1 DEF LoaderInv
  <2>4. (file = NoFile \/ (file \in Files /\ config = Loaded(file)))'
    BY <2>1 DEF LoaderInv
  <2>. QED
    BY <1>1, <2>1, <2>2, <2>3, <2>4 DEF LoaderInv
<1>5. ASSUME NEW c, NEW vouched \in BOOLEAN, Typed(c), vouched => Validated(c), Start(c, vouched),
             UNCHANGED <<config, file, accepted>>
      PROVE  LoaderInv'
  <2>1. unit'.vouched = vouched /\ unit'.from = c /\ engine' = Configured(Request(c)) /\ drr' = Applied(c)
    BY <1>5 DEF Start
  <2>2. unit'.vouched => Vouched(unit.from)'
    BY <1>5, <2>1 DEF Vouched
  <2>3. Typed(config)' /\ (accepted => Validated(config))' /\ (accepted \in BOOLEAN)'
        /\ (file = NoFile \/ (file \in Files /\ config = Loaded(file)))'
    BY <1>5 DEF LoaderInv
  <2>. QED
    BY <1>5, <2>1, <2>2, <2>3 DEF LoaderInv
<1>6. CASE InitFromConfig
  BY <1>5, <1>6 DEF InitFromConfig, LoaderInv
<1>7. ASSUME NEW f \in Files, InitFromFile(f) PROVE LoaderInv'
  BY <1>5, <1>7, LoadedTyped DEF InitFromFile
<1>8. ASSUME UNCHANGED <<config, file, accepted>>,
             (unit.vouched \in BOOLEAN /\ (unit.vouched => Vouched(unit.from)))'
      PROVE  LoaderInv'
  BY <1>8 DEF LoaderInv
<1>9. CASE Shutdown
  <2>1. unit' = Off /\ UNCHANGED <<config, file, accepted>>
    BY <1>9 DEF Shutdown
  <2>2. unit'.vouched = FALSE
    BY <2>1 DEF Off
  <2>. QED
    BY <1>8, <2>1, <2>2
<1>10. CASE CreateDram
  <2>1. UNCHANGED <<config, file, accepted, unit, engine, drr>>
    BY <1>10 DEF CreateDram, configVars
  <2>. QED
    BY <1>1, <1>8, <2>1
<1>11. CASE UNCHANGED <<configVars, loaderVars>>
  <2>1. UNCHANGED <<config, file, accepted, unit, engine, drr>>
    BY <1>11 DEF configVars, loaderVars
  <2>. QED
    BY <1>1, <1>8, <2>1
<1>. QED
  BY <1>2, <1>3, <1>4, <1>6, <1>7, <1>9, <1>10, <1>11 DEF LoaderNext, Reads, Calls

\* Whatever is loaded, edited, validated, started and shut down, in any order:
\* a configuration the loader or the validator accepted is, field by field, what
\* its file says, and a unit started from it has its engine on, with every
\* width, burst, cost and mode it asks for, and every setter's part in force.
THEOREM AcceptedIsInForce == LoaderSpec => []AcceptedInForce
<1>1. LoaderInit => LoaderInv
  <2>. SUFFICES ASSUME LoaderInit PROVE LoaderInv
    OBVIOUS
  <2>1. config = Default /\ file = NoFile /\ accepted = FALSE /\ unit.vouched = FALSE
    BY DEF LoaderInit, Off
  <2>2. /\ accepted \in BOOLEAN /\ (accepted => Validated(config))
        /\ unit.vouched \in BOOLEAN /\ (unit.vouched => Vouched(unit.from))
    BY <2>1, Zenon
  <2>. QED
    BY <2>1, <2>2, DefaultTyped DEF LoaderInv
<1>2. LoaderInv => AcceptedInForce
  <2>. SUFFICES ASSUME LoaderInv PROVE AcceptedInForce
    OBVIOUS
  <2>1. AcceptedRuns
    <3>. SUFFICES ASSUME unit.vouched
                  PROVE  engine.channels > 0 /\ Asked(unit.from) /\ AskedDrr(unit.from)
      BY DEF AcceptedRuns
    <3>1. /\ Typed(unit.from) /\ Validated(unit.from)
          /\ engine = Configured(Request(unit.from)) /\ drr = Applied(unit.from)
      BY DEF LoaderInv, Vouched
    <3>2. engine.channels > 0 /\ Asked(unit.from)
      BY <3>1, EngineAsAsked
    <3>3. AskedDrr(unit.from)
      BY <3>1, SettersTake
    <3>. QED
      BY <3>2, <3>3
  <2>2. NothingExchanged
    <3>. SUFFICES ASSUME accepted, NEW k \in DOMAIN file \ {"rows", "cols"}
                  PROVE  Carries(k, file[k], config[k])
      BY DEF NothingExchanged
    <3>1. file # NoFile
      BY DEF NoFile
    <3>2. file \in Files /\ config = Loaded(file) /\ Validated(config)
      BY <3>1 DEF LoaderInv
    <3>. QED
      BY <3>2, LoadedCarries
  <2>. QED
    BY <2>1, <2>2 DEF AcceptedInForce
<1>. QED
  BY <1>1, <1>2, LoaderStep, PTL DEF LoaderSpec

-------------------------------------------------------------------------------
(* What a transfer needs of its engine: with a bus, every burst has bytes and  *)
(* every cost is a number.                                                     *)

Timed(e) ==
    /\ e.bus \in Nat
    /\ e.bus > 0 =>
          /\ e.readBurst \in Nat \ {0} /\ e.writeBurst \in Nat \ {0}
          /\ e.readIssue \in Nat /\ e.writeIssue \in Nat
          /\ e.readLatency \in Nat /\ e.writeLatency \in Nat

\* All measures but these are given.
Lacking(p, names) == Measured(p) /\ (Measures \cup {"read_issue", "write_issue"}) \ names \subseteq DOMAIN p

\* What the last initializer leaves is timed, whatever it refuses.
LEMMA ConfiguredTimed ==
    ASSUME NEW p, Lacking(p, {})
    PROVE  Timed(Configured(p))
<1>. DEFINE e == Configured(p)
<1>1. CASE e.bus = 0
  BY <1>1 DEF Timed
<1>2. CASE e.bus # 0
  <2>1. /\ BusValid(p) /\ BurstsValid(p)
        /\ e.bus = OrElse(p.bus_width, Defaults.bus)
        /\ e.readBurst = OrElse(p.read_burst, CommonBurst(p))
        /\ e.writeBurst = OrElse(p.write_burst, CommonBurst(p))
        /\ e.readIssue = IssueOf(p, p.read_issue) /\ e.writeIssue = IssueOf(p, p.write_issue)
        /\ e.readLatency = p.read_latency /\ e.writeLatency = p.write_latency
    BY <1>2, ConfiguredForms
  <2>. HIDE DEF e
  <2>2. /\ p.bus_width \in Nat /\ p.max_burst \in Nat /\ p.read_burst \in Nat /\ p.write_burst \in Nat
        /\ p.burst_issue \in Nat /\ p.read_latency \in Nat /\ p.write_latency \in Nat
        /\ p.read_issue \in Nat \cup {Unset} /\ p.write_issue \in Nat \cup {Unset}
    BY DEF Lacking, Measured, Measures
  <2>3. Defaults.bus \in Nat /\ Defaults.burst \in Nat /\ Limits.burst \in Nat \X Nat /\ Limits.burst[1] > 0
    BY ConfigAssumption
  <2>4. e.bus \in Nat
    BY <2>1, <2>2, <2>3 DEF OrElse
  <2>5. CommonBurst(p) \in Nat
    BY <2>2, <2>3 DEF OrElse, CommonBurst
  <2>6. e.readBurst \in Nat /\ e.writeBurst \in Nat
    BY <2>1, <2>2, <2>5 DEF OrElse
  <2>7. Limits.burst[1] <= e.readBurst /\ Limits.burst[1] <= e.writeBurst
    BY <2>1 DEF BurstsValid, BurstAllowed, Within
  <2>8. e.readBurst \in Nat \ {0} /\ e.writeBurst \in Nat \ {0}
    BY <2>3, <2>6, <2>7
  <2>9. e.readIssue \in Nat /\ e.writeIssue \in Nat
    BY <2>1, <2>2 DEF IssueOf
  <2>. QED
    BY <2>1, <2>2, <2>4, <2>8, <2>9 DEF Timed, e
<1>. QED
  BY <1>1, <1>2

\* Defaults that are measures are no longer lacking.
LEMMA WithMeasured ==
    ASSUME NEW p, NEW names, Lacking(p, names), NEW d, Measured(d)
    PROVE  Lacking(With(p, d), names \ DOMAIN d)
<1>1. DOMAIN With(p, d) = DOMAIN p \cup DOMAIN d
  BY DEF With
<1>2. \A n \in DOMAIN With(p, d) : With(p, d)[n] = IF n \in DOMAIN p THEN p[n] ELSE d[n]
  BY DEF With
<1>. QED
  BY <1>1, <1>2 DEF Lacking, Measured

\* Other defaults leave the measures as they are.
LEMMA WithNoMeasure ==
    ASSUME NEW p, NEW names, Lacking(p, names),
           NEW d, DOMAIN d \cap (Measures \cup {"read_issue", "write_issue"}) = {}
    PROVE  Lacking(With(p, d), names)
<1>1. DOMAIN With(p, d) = DOMAIN p \cup DOMAIN d
  BY DEF With
<1>2. \A n \in DOMAIN With(p, d) : With(p, d)[n] = IF n \in DOMAIN p THEN p[n] ELSE d[n]
  BY DEF With
<1>. QED
  BY <1>1, <1>2 DEF Lacking, Measured

\* What each of the first initializers leaves out.
Timing == {"read_issue", "write_issue", "read_burst", "write_burst", "max_burst", "burst_issue"}
Simple == Timing \cup {"read_latency", "write_latency", "bus_width"}

\* The chain adds measures, and whatever else.
LEMMA ChainTimed ==
    /\ \A p : Lacking(p, Timing) => Timed(InitTiming(p))
    /\ \A p : Lacking(p, Simple) => Timed(InitChannels(p))
<1>0. Defaults.bus \in Nat /\ Defaults.burst \in Nat /\ Defaults.issue \in Nat
      /\ Defaults.read \in Nat /\ Defaults.write \in Nat
  BY ConfigAssumption
<1>1. ASSUME NEW q, Lacking(q, {}) PROVE Timed(InitDrrCost(q))
  <2>1. DOMAIN [drr_quantum_cycles |-> 64] \cap (Measures \cup {"read_issue", "write_issue"}) = {}
    BY DEF Measures
  <2>. QED
    BY <1>1, ConfiguredTimed, <2>1, WithNoMeasure DEF InitDrrCost
<1>2. ASSUME NEW q, Lacking(q, {}) PROVE Timed(InitDrr(q))
  <2>1. DOMAIN [drr_cost_mode |-> "useful"] \cap (Measures \cup {"read_issue", "write_issue"}) = {}
    BY DEF Measures
  <2>. QED
    BY <1>2, <1>1, <2>1, WithNoMeasure DEF InitDrr
<1>3. ASSUME NEW q, Lacking(q, {}) PROVE Timed(InitPolicyCap(q))
  <2>1. DOMAIN [drr_quantum_bytes |-> 256] \cap (Measures \cup {"read_issue", "write_issue"}) = {}
    BY DEF Measures
  <2>. QED
    BY <1>3, <1>2, <2>1, WithNoMeasure DEF InitPolicyCap
<1>4. ASSUME NEW q, Lacking(q, {}) PROVE Timed(InitAgingPolicy(q))
  <2>1. DOMAIN [aging_max_boost |-> 0] \cap (Measures \cup {"read_issue", "write_issue"}) = {}
    BY DEF Measures
  <2>. QED
    BY <1>4, <1>3, <2>1, WithNoMeasure DEF InitAgingPolicy
<1>5. ASSUME NEW q, Lacking(q, {}) PROVE Timed(InitAgingRate(q))
  <2>1. DOMAIN [aging_metric |-> "grants", aging_cycle_quantum |-> 1] \cap (Measures \cup {"read_issue", "write_issue"}) = {}
    BY DEF Measures
  <2>. QED
    BY <1>5, <1>4, <2>1, WithNoMeasure DEF InitAgingRate
<1>6. ASSUME NEW q, Lacking(q, {}) PROVE Timed(InitAging(q))
  <2>1. DOMAIN [aging_increment |-> 1] \cap (Measures \cup {"read_issue", "write_issue"}) = {}
    BY DEF Measures
  <2>. QED
    BY <1>6, <1>5, <2>1, WithNoMeasure DEF InitAging
<1>7. ASSUME NEW q, Lacking(q, {}) PROVE Timed(InitBoundary(q))
  <2>1. DOMAIN [aging_scope |-> "submission"] \cap (Measures \cup {"read_issue", "write_issue"}) = {}
    BY DEF Measures
  <2>. QED
    BY <1>7, <1>6, <2>1, WithNoMeasure DEF InitBoundary
<1>8. ASSUME NEW q, Lacking(q, {}) PROVE Timed(InitOverlap(q))
  <2>1. DOMAIN [boundary_mode |-> "size"] \cap (Measures \cup {"read_issue", "write_issue"}) = {}
    BY DEF Measures
  <2>. QED
    BY <1>8, <1>7, <2>1, WithNoMeasure DEF InitOverlap
<1>9. ASSUME NEW q, Lacking(q, {}) PROVE Timed(InitPayloadScope(q))
  <2>1. DOMAIN [issue_payload_mode |-> "serialized"] \cap (Measures \cup {"read_issue", "write_issue"}) = {}
    BY DEF Measures
  <2>. QED
    BY <1>9, <1>8, <2>1, WithNoMeasure DEF InitPayloadScope
<1>10. ASSUME NEW q, Lacking(q, {}) PROVE Timed(InitBaseScope(q))
  <2>1. DOMAIN [payload_scope |-> "packed"] \cap (Measures \cup {"read_issue", "write_issue"}) = {}
    BY DEF Measures
  <2>. QED
    BY <1>10, <1>9, <2>1, WithNoMeasure DEF InitBaseScope
<1>11. ASSUME NEW q, Lacking(q, {}) PROVE Timed(InitSegmentation(q))
  <2>1. DOMAIN [base_scope |-> "descriptor"] \cap (Measures \cup {"read_issue", "write_issue"}) = {}
    BY DEF Measures
  <2>. QED
    BY <1>11, <1>10, <2>1, WithNoMeasure DEF InitSegmentation
<1>12. ASSUME NEW q, Lacking(q, {}) PROVE Timed(InitDirectionalIssue(q))
  <2>1. DOMAIN [segmentation |-> "aggregate"] \cap (Measures \cup {"read_issue", "write_issue"}) = {}
    BY DEF Measures
  <2>. QED
    BY <1>12, <1>11, <2>1, WithNoMeasure DEF InitDirectionalIssue
<1>13. ASSUME NEW q, Lacking(q, {"read_issue", "write_issue"}) PROVE Timed(InitDirectionalBurst(q))
  <2>1. Measured([read_issue |-> Unset, write_issue |-> Unset])
    BY <1>0 DEF Measured, Measures
  <2>2. {"read_issue", "write_issue"} \ DOMAIN [read_issue |-> Unset, write_issue |-> Unset] = {}
    OBVIOUS
  <2>3. Lacking(With(q, [read_issue |-> Unset, write_issue |-> Unset]), {})
    BY <1>13, <2>1, <2>2, WithMeasured
  <2>. QED
    BY <1>12, <2>3 DEF InitDirectionalBurst
<1>14. ASSUME NEW q, Lacking(q, {"read_issue", "write_issue", "read_burst", "write_burst"}) PROVE Timed(InitBurst(q))
  <2>1. Measured([read_burst |-> 0, write_burst |-> 0])
    BY <1>0 DEF Measured, Measures
  <2>2. {"read_issue", "write_issue", "read_burst", "write_burst"} \ DOMAIN [read_burst |-> 0, write_burst |-> 0] = {"read_issue", "write_issue"}
    OBVIOUS
  <2>3. Lacking(With(q, [read_burst |-> 0, write_burst |-> 0]), {"read_issue", "write_issue"})
    BY <1>14, <2>1, <2>2, WithMeasured
  <2>. QED
    BY <1>13, <2>3 DEF InitBurst
<1>15. ASSUME NEW q, Lacking(q, {"read_issue", "write_issue", "read_burst", "write_burst", "max_burst", "burst_issue"}) PROVE Timed(InitTiming(q))
  <2>1. Measured([max_burst |-> Defaults.burst, burst_issue |-> Defaults.issue])
    BY <1>0 DEF Measured, Measures
  <2>2. {"read_issue", "write_issue", "read_burst", "write_burst", "max_burst", "burst_issue"} \ DOMAIN [max_burst |-> Defaults.burst, burst_issue |-> Defaults.issue] = {"read_issue", "write_issue", "read_burst", "write_burst"}
    OBVIOUS
  <2>3. Lacking(With(q, [max_burst |-> Defaults.burst, burst_issue |-> Defaults.issue]), {"read_issue", "write_issue", "read_burst", "write_burst"})
    BY <1>15, <2>1, <2>2, WithMeasured
  <2>. QED
    BY <1>14, <2>3 DEF InitTiming
<1>16. ASSUME NEW q, Lacking(q, {"read_issue", "write_issue", "read_burst", "write_burst", "max_burst", "burst_issue", "read_latency", "write_latency"}) PROVE Timed(InitArch(q))
  <2>1. Measured([read_latency |-> Defaults.read, write_latency |-> Defaults.write])
    BY <1>0 DEF Measured, Measures
  <2>2. {"read_issue", "write_issue", "read_burst", "write_burst", "max_burst", "burst_issue", "read_latency", "write_latency"} \ DOMAIN [read_latency |-> Defaults.read, write_latency |-> Defaults.write] = {"read_issue", "write_issue", "read_burst", "write_burst", "max_burst", "burst_issue"}
    OBVIOUS
  <2>3. Lacking(With(q, [read_latency |-> Defaults.read, write_latency |-> Defaults.write]), {"read_issue", "write_issue", "read_burst", "write_burst", "max_burst", "burst_issue"})
    BY <1>16, <2>1, <2>2, WithMeasured
  <2>. QED
    BY <1>15, <2>3 DEF InitArch
<1>17. ASSUME NEW q, Lacking(q, {"read_issue", "write_issue", "read_burst", "write_burst", "max_burst", "burst_issue", "read_latency", "write_latency", "bus_width"}) PROVE Timed(InitBindingPolicy(q))
  <2>1. Measured([bus_width |-> Defaults.bus])
    BY <1>0 DEF Measured, Measures
  <2>2. {"read_issue", "write_issue", "read_burst", "write_burst", "max_burst", "burst_issue", "read_latency", "write_latency", "bus_width"} \ DOMAIN [bus_width |-> Defaults.bus] = {"read_issue", "write_issue", "read_burst", "write_burst", "max_burst", "burst_issue", "read_latency", "write_latency"}
    OBVIOUS
  <2>3. Lacking(With(q, [bus_width |-> Defaults.bus]), {"read_issue", "write_issue", "read_burst", "write_burst", "max_burst", "burst_issue", "read_latency", "write_latency"})
    BY <1>17, <2>1, <2>2, WithMeasured
  <2>. QED
    BY <1>16, <2>3 DEF InitBindingPolicy
<1>18. ASSUME NEW q, Lacking(q, {"read_issue", "write_issue", "read_burst", "write_burst", "max_burst", "burst_issue", "read_latency", "write_latency", "bus_width"}) PROVE Timed(InitPolicy(q))
  <2>1. DOMAIN [binding_policy |-> "explicit"] \cap (Measures \cup {"read_issue", "write_issue"}) = {}
    BY DEF Measures
  <2>. QED
    BY <1>18, <1>17, <2>1, WithNoMeasure DEF InitPolicy
<1>19. ASSUME NEW q, Lacking(q, {"read_issue", "write_issue", "read_burst", "write_burst", "max_burst", "burst_issue", "read_latency", "write_latency", "bus_width"}) PROVE Timed(InitConfig(q))
  <2>1. DOMAIN [arb_policy |-> "rr"] \cap (Measures \cup {"read_issue", "write_issue"}) = {}
    BY DEF Measures
  <2>. QED
    BY <1>19, <1>18, <2>1, WithNoMeasure DEF InitConfig
<1>20. ASSUME NEW q, Lacking(q, {"read_issue", "write_issue", "read_burst", "write_burst", "max_burst", "burst_issue", "read_latency", "write_latency", "bus_width"}) PROVE Timed(InitChannels(q))
  <2>1. DOMAIN [bus_mode |-> "independent"] \cap (Measures \cup {"read_issue", "write_issue"}) = {}
    BY DEF Measures
  <2>. QED
    BY <1>20, <1>19, <2>1, WithNoMeasure DEF InitChannels
<1>. QED
  BY <1>15, <1>20 DEF Timing, Simple

LEMMA ZeroedTimed == Timed(Zeroed) /\ Sound(Zeroed)
<1>1. Zeroed.channels = 0 /\ Zeroed.bus = 0
  BY DEF Zeroed
<1>. QED
  BY <1>1, OffIsSound DEF Timed

\* Every initializer leaves an engine that is timed, and off or sound.
LEMMA InitializersTimed ==
    /\ \A p \in ShortRequests : Timed(InitTiming(p)) /\ Sound(InitTiming(p))
    /\ \A async \in BOOLEAN : Timed(InitDefault(async)) /\ Sound(InitDefault(async))
    /\ \A p \in FullRequests : Timed(Configured(p)) /\ Sound(Configured(p))
<1>1. ASSUME NEW p \in ShortRequests PROVE Timed(InitTiming(p)) /\ Sound(InitTiming(p))
  <2>1. Lacking(p, Timing)
    BY ConfigAssumption DEF Lacking, Timing, Measures, ShortFields
  <2>2. Basic(p)
    BY ConfigAssumption DEF Basic, ShortFields
  <2>. QED
    BY <2>1, <2>2, ChainTimed, ChainSound
<1>2. ASSUME NEW async \in BOOLEAN PROVE Timed(InitDefault(async)) /\ Sound(InitDefault(async))
  <2>. DEFINE p == [async |-> async, num_channels |-> Defaults.channels, max_queue_depth |-> Defaults.depth]
  <2>1. Lacking(p, Simple)
    BY DEF Lacking, Simple, Timing, Measures, Measured
  <2>2. InitDefault(async) = InitChannels(p)
    BY DEF InitDefault
  <2>. HIDE DEF p
  <2>. QED
    BY <2>1, <2>2, ChainTimed, DefaultSound
<1>3. ASSUME NEW p \in FullRequests PROVE Timed(Configured(p)) /\ Sound(Configured(p))
  <2>1. Lacking(p, {})
    BY ConfigAssumption DEF Lacking
  <2>2. Complete(p)
    BY ConfigAssumption DEF Complete
  <2>. QED
    BY <2>1, <2>2, ConfiguredTimed, ConfiguredSound
<1>. QED
  BY <1>1, <1>2, <1>3

-------------------------------------------------------------------------------
(* Descriptors.                                                                *)

DescriptorTyped(d) ==
    /\ d.type \in {"linear", "2d", "3d", "scatter", "gather", "multicast"}
    /\ d.dir \in {"in", "out", "internal"}
    /\ d.region \in {"r", "s", "none"} /\ d.from \in {"r", "s", "none"}
    /\ d.ch \in Nat /\ d.base \in Nat /\ d.elem \in Nat /\ d.bytes \in Nat /\ d.ext \in Nat \cup {Unset}
    /\ d.dims \in Nat \X Nat \X Nat /\ d.sramStride \in Nat \X Nat /\ d.hostStride \in Nat \X Nat
    /\ d.index \in Seq(Nat) /\ d.targets \in Seq({"r", "s", "none"} \X Nat)
    /\ d.type \in {"scatter", "gather"} => d.base = 0
    /\ d.type = "scatter" => d.dir = "in"
    /\ d.type = "gather" => d.dir = "out"

LEMMA WordPositive == Word \in Nat \ {0}
<1>1. Word \in Nat /\ RegionSize["r"] \in 0..(Word - 1)
  BY TransferAssumption
<1>. QED
  BY <1>1

LEMMA NaturalProduct == \A a, b \in Nat : a * b \in Nat
OBVIOUS

\* Wrapping to a word changes only what does not fit.
LEMMA WrappedType == \A n \in Nat : n % Word \in Nat /\ n % Word < Word /\ (n < Word => n % Word = n)
<1>. TAKE n \in Nat
<1>1. n % Word \in 0 .. Word - 1
  BY WordPositive, Division
<1>2. n < Word => n % Word = n
  BY WordPositive
<1>. QED
  BY <1>1, <1>2, WordPositive

\* The constructors make descriptors of the right shape.
LEMMA MadeTyped ==
    ASSUME NEW o \in Orders
    PROVE  DescriptorTyped(Made(o))
<1>1. OrderTyped(o)
  BY TransferAssumption
<1>2. Len(o.index) \in Nat /\ Len(o.targets) \in Nat
  BY SMTT(60), <1>1 DEF OrderTyped
<1>3. o.dims[1] \in Nat /\ o.dims[2] \in Nat /\ o.dims[3] \in Nat /\ o.elem \in Nat
  BY <1>1 DEF OrderTyped
<1>4. /\ o.elem * Len(o.index) \in Nat
      /\ o.elem * o.dims[1] * Len(o.targets) \in Nat
      /\ o.elem * o.dims[1] * o.dims[2] * o.dims[3] \in Nat
  BY <1>2, <1>3, NaturalProduct
<1>5. Made(o).bytes \in Nat
  BY <1>4, WrappedType DEF Made
<1>6. /\ Made(o).type = o.make /\ Made(o).dir = Direction(o) /\ Made(o).region = Sram(o)
      /\ Made(o).from = "none" /\ Made(o).ch = o.ch /\ Made(o).elem = o.elem /\ Made(o).ext = Unset
      /\ Made(o).base = (IF o.make \in {"scatter", "gather"} THEN 0 ELSE o.base)
      /\ Made(o).dims = o.dims /\ Made(o).sramStride = o.sramStride /\ Made(o).hostStride = o.hostStride
      /\ Made(o).index = o.index /\ Made(o).targets = o.targets
  BY DEF Made
<1>. QED
  BY <1>1, <1>5, <1>6 DEF OrderTyped, DescriptorTyped, Direction, Sram

\* So do an external address and a source region, set later.
LEMMA DescriptorsTyped ==
    ASSUME NEW o \in Orders, NEW d \in Descriptors(o)
    PROVE  DescriptorTyped(d)
<1>1. OrderTyped(o)
  BY TransferAssumption
<1>2. DescriptorTyped(Made(o))
  BY MadeTyped
<1>3. DescriptorTyped(WithAddress(Made(o), o.ext))
  <2>1. CASE Made(o).dir = "internal"
    BY <1>2, <2>1 DEF WithAddress
  <2>2. CASE Made(o).dir # "internal"
    <3>1. WithAddress(Made(o), o.ext) = [Made(o) EXCEPT !.ext = o.ext]
      BY <2>2 DEF WithAddress
    <3>2. o.ext \in Nat
      BY <1>1 DEF OrderTyped
    <3>3. DOMAIN Made(o) = {"type", "dir", "ch", "region", "base", "dims", "elem", "sramStride", "hostStride",
                            "index", "targets", "from", "ext", "host", "bytes"}
      BY DEF Made
    <3>. QED
      BY <1>2, <3>1, <3>2, <3>3 DEF DescriptorTyped
  <2>. QED
    BY <2>1, <2>2
<1>4. o.make \in {"linear", "2d", "3d"} => DescriptorTyped(Internal(Made(o), "s", "r"))
  <2>1. Made(o).type = o.make
    BY DEF Made
  <2>2. DOMAIN Made(o) = {"type", "dir", "ch", "region", "base", "dims", "elem", "sramStride", "hostStride",
                          "index", "targets", "from", "ext", "host", "bytes"}
    BY DEF Made
  <2>. QED
    BY <1>2, <2>1, <2>2 DEF DescriptorTyped, Internal
<1>. QED
  BY <1>2, <1>3, <1>4 DEF Descriptors

-------------------------------------------------------------------------------
(* The copies of each shape.                                                   *)

\* The copies, shape by shape.
LEMMA LinearCopies ==
    ASSUME NEW d, d.type = "linear"
    PROVE  DOMAIN Copies(d) = 1 .. 1 /\ Copies(d)[1] = [n |-> d.bytes, host |-> 0, sram |-> 0]
<1>1. Copies(d) = <<[n |-> d.bytes, host |-> 0, sram |-> 0]>>
  BY DEF Copies
<1>. QED
  BY <1>1

LEMMA PlaneCopies ==
    ASSUME NEW d, d.type = "2d"
    PROVE  /\ DOMAIN Copies(d) = 1 .. d.dims[1]
           /\ \A i \in 1 .. d.dims[1] :
                Copies(d)[i] = [n |-> (d.elem * d.dims[2]) % Word,
                                host |-> (i - 1) * d.hostStride[1], sram |-> (i - 1) * d.sramStride[1]]
BY DEF Copies

LEMMA CubeCopies ==
    ASSUME NEW d, d.type = "3d"
    PROVE  /\ DOMAIN Copies(d) = 1 .. (d.dims[1] * d.dims[2])
           /\ \A i \in 1 .. (d.dims[1] * d.dims[2]) :
                Copies(d)[i] =
                  [n |-> (d.elem * d.dims[3]) % Word,
                   host |-> ((i - 1) \div d.dims[2]) * d.hostStride[2] + ((i - 1) % d.dims[2]) * d.hostStride[1],
                   sram |-> ((i - 1) \div d.dims[2]) * d.sramStride[2] + ((i - 1) % d.dims[2]) * d.sramStride[1]]
BY DEF Copies, Slices

LEMMA IndexedCopies ==
    ASSUME NEW d, d.type \in {"scatter", "gather"}
    PROVE  /\ DOMAIN Copies(d) = DOMAIN d.index
           /\ \A i \in DOMAIN d.index :
                Copies(d)[i] = [n |-> d.elem, host |-> (i - 1) * d.elem, sram |-> d.index[i]]
BY DEF Copies, IndexedHost

\* Row and slice of a copy of a three-dimensional transfer.
LEMMA CubePlace ==
    ASSUME NEW rows \in Nat, NEW depth \in Nat, NEW i \in 1 .. (depth * rows)
    PROVE  /\ (i - 1) \div rows \in 0 .. (depth - 1) /\ (i - 1) % rows \in 0 .. (rows - 1)
           /\ rows \in Nat \ {0} /\ depth \in Nat \ {0}
<1>1. rows # 0 /\ depth # 0
  <2>1. rows = 0 \/ depth = 0 => depth * rows = 0
    OBVIOUS
  <2>. QED
    BY <2>1
<1>. DEFINE z == (i - 1) \div rows
            y == (i - 1) % rows
<1>2. i - 1 \in Nat /\ depth * rows \in Nat
  BY NaturalProduct
<1>3. z \in Nat /\ y \in 0 .. rows - 1 /\ i - 1 = rows * z + y
  BY <1>1, <1>2, Division
<1>. HIDE DEF z, y
<1>4. ASSUME depth <= z PROVE FALSE
  <2>1. rows * depth <= rows * z
    BY <1>3, <1>4
  <2>2. rows * depth = depth * rows
    OBVIOUS
  <2>. QED
    BY <1>2, <1>3, <2>1, <2>2
<1>5. z < depth
  BY <1>3, <1>4
<1>. QED
  BY <1>1, <1>3, <1>5 DEF z, y

\* The numbers of a descriptor.
LEMMA DescriptorParts ==
    ASSUME NEW d, DescriptorTyped(d)
    PROVE  /\ d.base \in Nat /\ d.elem \in Nat /\ d.bytes \in Nat
           /\ d.dims[1] \in Nat /\ d.dims[2] \in Nat /\ d.dims[3] \in Nat
           /\ d.sramStride[1] \in Nat /\ d.sramStride[2] \in Nat
           /\ d.hostStride[1] \in Nat /\ d.hostStride[2] \in Nat
           /\ DOMAIN d.index = 1 .. Len(d.index) /\ Len(d.index) \in Nat
           /\ \A i \in DOMAIN d.index : d.index[i] \in Nat
           /\ DOMAIN d.targets = 1 .. Len(d.targets) /\ Len(d.targets) \in Nat
           /\ \A t \in DOMAIN d.targets : d.targets[t][1] \in {"r", "s", "none"} /\ d.targets[t][2] \in Nat
<1>1. /\ d.base \in Nat /\ d.elem \in Nat /\ d.bytes \in Nat
      /\ d.dims[1] \in Nat /\ d.dims[2] \in Nat /\ d.dims[3] \in Nat
      /\ d.sramStride[1] \in Nat /\ d.sramStride[2] \in Nat
      /\ d.hostStride[1] \in Nat /\ d.hostStride[2] \in Nat
  BY DEF DescriptorTyped
<1>2. d.index \in Seq(Nat) /\ d.targets \in Seq({"r", "s", "none"} \X Nat)
  BY DEF DescriptorTyped
<1>3. DOMAIN d.index = 1 .. Len(d.index) /\ Len(d.index) \in Nat /\ \A i \in DOMAIN d.index : d.index[i] \in Nat
  BY <1>2
<1>4. /\ DOMAIN d.targets = 1 .. Len(d.targets) /\ Len(d.targets) \in Nat
      /\ \A t \in DOMAIN d.targets : d.targets[t] \in {"r", "s", "none"} \X Nat
  BY <1>2
<1>5. \A t \in DOMAIN d.targets : d.targets[t][1] \in {"r", "s", "none"} /\ d.targets[t][2] \in Nat
  BY <1>4
<1>. QED
  BY <1>1, <1>3, <1>4, <1>5

\* Every copy has naturals for its length and offsets.
CopyNumbers(c) == c.n \in Nat /\ c.host \in Nat /\ c.sram \in Nat

LEMMA CopyOfNumbers == \A n, h, s \in Nat : CopyNumbers([n |-> n, host |-> h, sram |-> s])
BY DEF CopyNumbers

\* A copy has numbers for its size and offsets.
LEMMA CopiesTyped ==
    ASSUME NEW d, DescriptorTyped(d), d.type # "multicast"
    PROVE  /\ \E N \in Nat : DOMAIN Copies(d) = 1 .. N
           /\ \A i \in DOMAIN Copies(d) : CopyNumbers(Copies(d)[i])
<1>0. /\ d.base \in Nat /\ d.elem \in Nat /\ d.bytes \in Nat
      /\ d.dims[1] \in Nat /\ d.dims[2] \in Nat /\ d.dims[3] \in Nat
      /\ d.sramStride[1] \in Nat /\ d.sramStride[2] \in Nat
      /\ d.hostStride[1] \in Nat /\ d.hostStride[2] \in Nat
      /\ DOMAIN d.index = 1 .. Len(d.index) /\ Len(d.index) \in Nat
      /\ \A i \in DOMAIN d.index : d.index[i] \in Nat
  BY DescriptorParts
<1>1. CASE d.type = "linear"
  <2>1. CopyNumbers([n |-> d.bytes, host |-> 0, sram |-> 0])
    BY <1>0, CopyOfNumbers
  <2>2. DOMAIN Copies(d) = 1 .. 1 /\ Copies(d)[1] = [n |-> d.bytes, host |-> 0, sram |-> 0]
    BY <1>1, LinearCopies
  <2>3. \A i \in 1 .. 1 : i = 1
    OBVIOUS
  <2>. QED
    BY <2>1, <2>2, <2>3, 1 \in Nat
<1>2. CASE d.type = "2d"
  <2>1. (d.elem * d.dims[2]) % Word \in Nat
    BY <1>0, NaturalProduct, WrappedType
  <2>2. ASSUME NEW i \in 1 .. d.dims[1] PROVE CopyNumbers(Copies(d)[i])
    <3>1. i - 1 \in Nat
      BY <1>0
    <3>2. (i - 1) * d.hostStride[1] \in Nat /\ (i - 1) * d.sramStride[1] \in Nat
      BY <1>0, <3>1, NaturalProduct
    <3>. QED
      BY <1>2, <2>1, <3>2, PlaneCopies, CopyOfNumbers
  <2>. QED
    BY <1>0, <1>2, <2>2, PlaneCopies
<1>3. CASE d.type = "3d"
  <2>1. (d.elem * d.dims[3]) % Word \in Nat
    BY <1>0, NaturalProduct, WrappedType
  <2>2. ASSUME NEW i \in 1 .. (d.dims[1] * d.dims[2]) PROVE CopyNumbers(Copies(d)[i])
    <3>. DEFINE z == (i - 1) \div d.dims[2]
                y == (i - 1) % d.dims[2]
    <3>1. z \in Nat /\ y \in Nat
      <4>1. z \in 0 .. (d.dims[1] - 1) /\ y \in 0 .. (d.dims[2] - 1)
        BY <1>0, CubePlace
      <4>. HIDE DEF z, y
      <4>. QED
        BY <1>0, <4>1
    <3>2. Copies(d)[i] = [n |-> (d.elem * d.dims[3]) % Word,
                   host |-> z * d.hostStride[2] + y * d.hostStride[1],
                   sram |-> z * d.sramStride[2] + y * d.sramStride[1]]
      BY <1>3, CubeCopies
    <3>. HIDE DEF z, y
    <3>3. z * d.hostStride[2] \in Nat /\ y * d.hostStride[1] \in Nat
          /\ z * d.sramStride[2] \in Nat /\ y * d.sramStride[1] \in Nat
      BY <1>0, <3>1, NaturalProduct
    <3>. QED
      BY <2>1, <3>2, <3>3, CopyOfNumbers
  <2>3. d.dims[1] * d.dims[2] \in Nat
    BY <1>0, NaturalProduct
  <2>. QED
    BY <1>3, <2>2, <2>3, CubeCopies
<1>4. CASE d.type \in {"scatter", "gather"}
  <2>1. ASSUME NEW i \in DOMAIN d.index PROVE CopyNumbers(Copies(d)[i])
    <3>1. i - 1 \in Nat
      BY <1>0
    <3>2. (i - 1) * d.elem \in Nat
      BY <1>0, <3>1, NaturalProduct
    <3>3. Copies(d)[i] = [n |-> d.elem, host |-> (i - 1) * d.elem, sram |-> d.index[i]]
      BY <1>4, IndexedCopies
    <3>4. d.elem \in Nat /\ d.index[i] \in Nat
      BY <1>0
    <3>. QED
      BY <3>2, <3>3, <3>4, CopyOfNumbers
  <2>2. DOMAIN Copies(d) = 1 .. Len(d.index) /\ DOMAIN Copies(d) = DOMAIN d.index
    BY <1>0, <1>4, IndexedCopies
  <2>. QED
    BY <1>0, <2>1, <2>2
<1>. QED
  BY <1>1, <1>2, <1>3, <1>4 DEF DescriptorTyped

\* The last of the checked offsets is the largest.
LEMMA StrideGrows == \A a, b, s \in Nat : a <= b => a * s <= b * s
OBVIOUS

LEMMA RegionTyped ==
    ASSUME NEW r \in {"r", "s"}
    PROVE  RegionSize[r] \in Nat /\ RegionSize[r] < Word /\ Word \in Nat
<1>1. RegionSize[r] \in 0 .. (Word - 1) /\ Word \in Nat
  BY TransferAssumption
<1>. QED
  BY <1>1

\* What the check of the spans says of the copies: the rows of a copy that
\* has bytes keep their length in 32 bits and lie in their regions.
CopyLies(d, c) ==
    /\ d.base + c.sram + c.n <= RegionSize[d.region]
    /\ d.dir = "internal" => c.host + c.n <= RegionSize[d.from]

\* A region whose strided span was found to fit holds each of its rows.
LEMMA PlaneRowFits ==
    ASSUME NEW r \in {"r", "s"}, NEW base \in Nat, NEW stride \in Nat, NEW rows \in Nat, NEW width \in Nat,
           base + (rows - 1) * stride + width <= RegionSize[r], NEW i \in 1 .. rows
    PROVE  base + (i - 1) * stride + width <= RegionSize[r]
<1>1. i - 1 \in Nat /\ rows - 1 \in Nat /\ i - 1 <= rows - 1
  OBVIOUS
<1>. DEFINE a == (i - 1) * stride
            b == (rows - 1) * stride
<1>2. a \in Nat /\ b \in Nat /\ a <= b
  BY <1>1, NaturalProduct, StrideGrows
<1>3. RegionSize[r] \in Nat
  BY RegionTyped
<1>. HIDE DEF a, b
<1>4. base + b + width <= RegionSize[r]
  BY DEF b
<1>5. base + a + width <= RegionSize[r]
  BY <1>2, <1>3, <1>4
<1>. QED
  BY <1>5 DEF a

\* The last row of the last slice fits, so every row does.
LEMMA CubeRowFits ==
    ASSUME NEW r \in {"r", "s"}, NEW base \in Nat, NEW slice \in Nat, NEW stride \in Nat,
           NEW depth \in Nat, NEW rows \in Nat, NEW width \in Nat,
           base + (depth - 1) * slice + (rows - 1) * stride + width <= RegionSize[r],
           NEW z \in 0 .. (depth - 1), NEW y \in 0 .. (rows - 1)
    PROVE  base + (z * slice + y * stride) + width <= RegionSize[r]
<1>1. z \in Nat /\ y \in Nat /\ depth - 1 \in Nat /\ rows - 1 \in Nat /\ z <= depth - 1 /\ y <= rows - 1
  OBVIOUS
<1>. DEFINE a == z * slice
            b == (depth - 1) * slice
            e == y * stride
            f == (rows - 1) * stride
<1>2. a \in Nat /\ b \in Nat /\ a <= b
  BY <1>1, NaturalProduct, StrideGrows
<1>3. e \in Nat /\ f \in Nat /\ e <= f
  BY <1>1, NaturalProduct, StrideGrows
<1>4. RegionSize[r] \in Nat
  BY RegionTyped
<1>. HIDE DEF a, b, e, f
<1>5. base + b + f + width <= RegionSize[r]
  BY DEF b, f
<1>6. base + (a + e) + width <= RegionSize[r]
  BY <1>2, <1>3, <1>4, <1>5
<1>. QED
  BY <1>6 DEF a, e

\* The check of the spans knows the regions.
LEMMA SpansRegions ==
    ASSUME NEW d, DescriptorTyped(d), d.type # "multicast", SpansValid(d)
    PROVE  d.region \in {"r", "s"} /\ (d.dir = "internal" => d.from \in {"r", "s"})
BY DEF SpansValid, DescriptorTyped

\* Each copy of a valid descriptor lies in its region, shape by shape.
LEMMA PlaneFits ==
    ASSUME NEW d, DescriptorTyped(d), d.type = "2d", SpansValid(d),
           NEW i \in DOMAIN Copies(d), d.elem * d.dims[2] > 0
    PROVE  Copies(d)[i].n = d.elem * d.dims[2] /\ CopyLies(d, Copies(d)[i])
<1>0. /\ d.base \in Nat /\ d.elem \in Nat
      /\ d.dims[1] \in Nat /\ d.dims[2] \in Nat
      /\ d.sramStride[1] \in Nat /\ d.hostStride[1] \in Nat
  BY DescriptorParts
<1>1. i \in 1 .. d.dims[1]
  BY PlaneCopies
<1>2. Copies(d)[i] = [n |-> (d.elem * d.dims[2]) % Word,
                      host |-> (i - 1) * d.hostStride[1], sram |-> (i - 1) * d.sramStride[1]]
  BY <1>1, PlaneCopies
<1>. DEFINE w == d.elem * d.dims[2]
<1>3. w \in Nat /\ w > 0
  BY <1>0, NaturalProduct
<1>. HIDE DEF w
<1>4. d.dims[1] > 0
  BY <1>0, <1>1
<1>5. d.region \in {"r", "s"} /\ (d.dir = "internal" => d.from \in {"r", "s"})
  BY SpansRegions
<1>6. /\ Strided2dFits(d.from, 0, d.hostStride, d)
      /\ Strided2dFits(d.region, d.base, d.sramStride, d)
  BY DEF SpansValid
<1>7. d.base + (d.dims[1] - 1) * d.sramStride[1] + w <= RegionSize[d.region]
  BY <1>3, <1>4, <1>5, <1>6 DEF Strided2dFits, w
<1>8. d.base + (i - 1) * d.sramStride[1] + w <= RegionSize[d.region]
  BY <1>0, <1>1, <1>3, <1>5, <1>7, PlaneRowFits
<1>9. d.dir = "internal" => (i - 1) * d.hostStride[1] + w <= RegionSize[d.from]
  <2>. HAVE d.dir = "internal"
  <2>1. 0 + (d.dims[1] - 1) * d.hostStride[1] + w <= RegionSize[d.from]
    BY <1>3, <1>4, <1>5, <1>6 DEF Strided2dFits, w
  <2>2. 0 + (i - 1) * d.hostStride[1] + w <= RegionSize[d.from]
    BY <1>0, <1>1, <1>3, <1>5, <2>1, PlaneRowFits, 0 \in Nat
  <2>3. i - 1 \in Nat
    BY <1>0, <1>1
  <2>4. (i - 1) * d.hostStride[1] \in Nat
    BY <1>0, <2>3, NaturalProduct
  <2>. QED
    BY <2>2, <2>4
<1>10. w < Word
  <2>1. RegionSize[d.region] \in Nat /\ RegionSize[d.region] < Word /\ Word \in Nat
    BY <1>5, RegionTyped
  <2>2. i - 1 \in Nat
    BY <1>0, <1>1
  <2>3. (i - 1) * d.sramStride[1] \in Nat
    BY <1>0, <2>2, NaturalProduct
  <2>. QED
    BY <1>0, <1>3, <1>8, <2>1, <2>3
<1>11. w % Word = w
  BY <1>3, <1>10, WrappedType
<1>12. Copies(d)[i] = [n |-> w, host |-> (i - 1) * d.hostStride[1], sram |-> (i - 1) * d.sramStride[1]]
  BY <1>2, <1>11 DEF w
<1>13. Copies(d)[i].n = w /\ CopyLies(d, Copies(d)[i])
  BY <1>8, <1>9, <1>12 DEF CopyLies
<1>. QED
  BY <1>13 DEF w

LEMMA CubeFits ==
    ASSUME NEW d, DescriptorTyped(d), d.type = "3d", SpansValid(d),
           NEW i \in DOMAIN Copies(d), d.elem * d.dims[3] > 0
    PROVE  Copies(d)[i].n = d.elem * d.dims[3] /\ CopyLies(d, Copies(d)[i])
<1>0. /\ d.base \in Nat /\ d.elem \in Nat
      /\ d.dims[1] \in Nat /\ d.dims[2] \in Nat /\ d.dims[3] \in Nat
      /\ d.sramStride[1] \in Nat /\ d.sramStride[2] \in Nat
      /\ d.hostStride[1] \in Nat /\ d.hostStride[2] \in Nat
  BY DescriptorParts
<1>. DEFINE z == (i - 1) \div d.dims[2]
            y == (i - 1) % d.dims[2]
            w == d.elem * d.dims[3]
<1>1. i \in 1 .. (d.dims[1] * d.dims[2])
  BY CubeCopies
<1>2. Copies(d)[i] = [n |-> w % Word, host |-> z * d.hostStride[2] + y * d.hostStride[1],
                      sram |-> z * d.sramStride[2] + y * d.sramStride[1]]
  BY <1>1, CubeCopies
<1>3. w \in Nat /\ w > 0
  BY <1>0, NaturalProduct
<1>4. z \in 0 .. (d.dims[1] - 1) /\ y \in 0 .. (d.dims[2] - 1) /\ d.dims[1] > 0 /\ d.dims[2] > 0
  <2>1. z \in 0 .. (d.dims[1] - 1) /\ y \in 0 .. (d.dims[2] - 1)
        /\ d.dims[1] \in Nat \ {0} /\ d.dims[2] \in Nat \ {0}
    BY <1>0, <1>1, CubePlace
  <2>. HIDE DEF z, y
  <2>. QED
    BY <2>1
<1>5. d.region \in {"r", "s"} /\ (d.dir = "internal" => d.from \in {"r", "s"})
  BY SpansRegions
<1>6. /\ Strided3dFits(d.from, 0, d.hostStride, d)
      /\ Strided3dFits(d.region, d.base, d.sramStride, d)
  BY DEF SpansValid
<1>. HIDE DEF z, y
<1>7. d.base + (d.dims[1] - 1) * d.sramStride[2] + (d.dims[2] - 1) * d.sramStride[1] + w
        <= RegionSize[d.region]
  BY <1>3, <1>4, <1>5, <1>6 DEF Strided3dFits
<1>. HIDE DEF w
<1>8. d.base + (z * d.sramStride[2] + y * d.sramStride[1]) + w <= RegionSize[d.region]
  BY <1>0, <1>3, <1>4, <1>5, <1>7, CubeRowFits
<1>9. z \in Nat /\ y \in Nat
  BY <1>0, <1>4
<1>10. d.dir = "internal" => (z * d.hostStride[2] + y * d.hostStride[1]) + w <= RegionSize[d.from]
  <2>. HAVE d.dir = "internal"
  <2>1. 0 + (d.dims[1] - 1) * d.hostStride[2] + (d.dims[2] - 1) * d.hostStride[1] + w <= RegionSize[d.from]
    BY <1>3, <1>4, <1>5, <1>6 DEF Strided3dFits, w
  <2>2. 0 + (z * d.hostStride[2] + y * d.hostStride[1]) + w <= RegionSize[d.from]
    BY <1>0, <1>3, <1>4, <1>5, <2>1, CubeRowFits, 0 \in Nat
  <2>3. z * d.hostStride[2] \in Nat /\ y * d.hostStride[1] \in Nat
    BY <1>0, <1>9, NaturalProduct
  <2>. QED
    BY <2>2, <2>3
<1>11. w < Word
  <2>1. RegionSize[d.region] \in Nat /\ RegionSize[d.region] < Word /\ Word \in Nat
    BY <1>5, RegionTyped
  <2>2. z * d.sramStride[2] \in Nat /\ y * d.sramStride[1] \in Nat
    BY <1>0, <1>9, NaturalProduct
  <2>. QED
    BY <1>0, <1>3, <1>8, <2>1, <2>2
<1>12. w % Word = w
  BY <1>3, <1>11, WrappedType
<1>13. Copies(d)[i].n = w /\ CopyLies(d, Copies(d)[i])
  BY <1>2, <1>8, <1>10, <1>12 DEF CopyLies
<1>. QED
  BY <1>13 DEF w

LEMMA LinearFits ==
    ASSUME NEW d, DescriptorTyped(d), d.type = "linear", SpansValid(d), NEW i \in DOMAIN Copies(d)
    PROVE  CopyLies(d, Copies(d)[i])
<1>0. DOMAIN Copies(d) = 1 .. 1 /\ Copies(d)[1] = [n |-> d.bytes, host |-> 0, sram |-> 0]
  BY LinearCopies
<1>1. i = 1 /\ Copies(d)[i] = [n |-> d.bytes, host |-> 0, sram |-> 0]
  BY <1>0
<1>2. d.region \in {"r", "s"} /\ (d.dir = "internal" => d.from \in {"r", "s"})
  BY SpansRegions
<1>3. RangeFits(d.from, 0, d.bytes) /\ RangeFits(d.region, d.base, d.bytes)
  BY DEF SpansValid
<1>4. d.base \in Nat /\ d.bytes \in Nat
  BY DescriptorParts
<1>. QED
  BY <1>1, <1>2, <1>3, <1>4 DEF RangeFits, CopyLies

LEMMA IndexedFits ==
    ASSUME NEW d, DescriptorTyped(d), d.type \in {"scatter", "gather"}, SpansValid(d), NEW i \in DOMAIN Copies(d)
    PROVE  CopyLies(d, Copies(d)[i])
<1>0. /\ DOMAIN Copies(d) = DOMAIN d.index
      /\ \A j \in DOMAIN d.index :
            Copies(d)[j] = [n |-> d.elem, host |-> (j - 1) * d.elem, sram |-> d.index[j]]
  BY IndexedCopies
<1>1. i \in DOMAIN d.index /\ Copies(d)[i] = [n |-> d.elem, host |-> (i - 1) * d.elem, sram |-> d.index[i]]
  BY <1>0
<1>2. d.region \in {"r", "s"}
  BY SpansRegions
<1>3. RangeFits(d.region, d.index[i], d.elem)
  BY <1>1 DEF SpansValid
<1>4. d.base = 0 /\ d.dir # "internal"
  BY DEF DescriptorTyped
<1>5. d.index[i] \in Nat /\ d.elem \in Nat
  BY <1>1, DescriptorParts
<1>. QED
  BY <1>1, <1>2, <1>3, <1>4, <1>5 DEF RangeFits, CopyLies

\* No accepted copy that has bytes leaves its region.
LEMMA CopiesLie ==
    ASSUME NEW d, DescriptorTyped(d), d.type # "multicast", SpansValid(d),
           NEW i \in DOMAIN Copies(d), Copies(d)[i].n > 0
    PROVE  CopyLies(d, Copies(d)[i])
<1>0. d.elem \in Nat /\ d.dims[2] \in Nat /\ d.dims[3] \in Nat
  BY DescriptorParts
<1>1. \A w \in Nat : w % Word > 0 => w > 0
  <2>. TAKE w \in Nat
  <2>1. 0 % Word = 0
    BY WrappedType, WordPositive
  <2>. QED
    BY <2>1
<1>2. CASE d.type = "2d"
  <2>0. i \in 1 .. d.dims[1]
    BY <1>2, PlaneCopies
  <2>1. Copies(d)[i].n = (d.elem * d.dims[2]) % Word
    <3>1. Copies(d)[i] = [n |-> (d.elem * d.dims[2]) % Word,
                          host |-> (i - 1) * d.hostStride[1], sram |-> (i - 1) * d.sramStride[1]]
      BY <1>2, <2>0, PlaneCopies
    <3>. QED
      BY ONLY <3>1
  <2>2. d.elem * d.dims[2] > 0
    BY <1>0, <1>1, <2>1, NaturalProduct
  <2>. QED
    BY <1>2, <2>2, PlaneFits
<1>3. CASE d.type = "3d"
  <2>0. i \in 1 .. (d.dims[1] * d.dims[2])
    BY <1>3, CubeCopies
  <2>1. Copies(d)[i].n = (d.elem * d.dims[3]) % Word
    <3>. DEFINE z == (i - 1) \div d.dims[2]
                y == (i - 1) % d.dims[2]
    <3>1. Copies(d)[i] = [n |-> (d.elem * d.dims[3]) % Word,
                          host |-> z * d.hostStride[2] + y * d.hostStride[1],
                          sram |-> z * d.sramStride[2] + y * d.sramStride[1]]
      BY <1>3, <2>0, CubeCopies
    <3>. HIDE DEF z, y
    <3>. QED
      BY ONLY <3>1
  <2>2. d.elem * d.dims[3] > 0
    BY <1>0, <1>1, <2>1, NaturalProduct
  <2>. QED
    BY <1>3, <2>2, CubeFits
<1>4. CASE d.type = "linear"
  BY <1>4, LinearFits
<1>5. CASE d.type \in {"scatter", "gather"}
  BY <1>5, IndexedFits
<1>. QED
  BY <1>2, <1>3, <1>4, <1>5 DEF DescriptorTyped

\* No copy of a valid descriptor leaves its region.
LEMMA NoneStrays ==
    ASSUME NEW d, DescriptorTyped(d), SpansValid(d)
    PROVE  ~Strays(d)
<1>1. SUFFICES ASSUME d.type # "multicast", NEW i \in DOMAIN Copies(d), Copies(d)[i].n > 0
               PROVE  /\ ~(d.base + Copies(d)[i].sram + Copies(d)[i].n > RegionSize[d.region])
                      /\ d.dir = "internal" => ~(Copies(d)[i].host + Copies(d)[i].n > RegionSize[d.from])
  BY DEF Strays
<1>2. CopyLies(d, Copies(d)[i])
  BY <1>1, CopiesLie
<1>3. CopyNumbers(Copies(d)[i]) /\ d.base \in Nat
  BY <1>1, CopiesTyped, DescriptorParts
<1>4. RegionSize[d.region] \in Nat /\ (d.dir = "internal" => RegionSize[d.from] \in Nat)
  BY <1>1, SpansRegions, RegionTyped
<1>. QED
  BY <1>2, <1>3, <1>4 DEF CopyLies, CopyNumbers

-------------------------------------------------------------------------------
(* Copies and elements.                                                        *)

\* A byte of a copy is a byte of an element, on both sides.
SameByte(d, i, b, e, k) ==
    /\ Copies(d)[i].host + b = HostAt(d, e) + k
    /\ d.base + Copies(d)[i].sram + b = SramAt(d, e) + k

Plain == {"linear", "2d", "3d"}

\* A byte of a row is a byte of one element of it.
LEMMA RowBytes ==
    ASSUME NEW elem \in Nat, NEW width \in Nat, NEW b \in 0 .. (elem * width - 1)
    PROVE  /\ elem \in Nat \ {0}
           /\ b \div elem \in 0 .. (width - 1) /\ b % elem \in 0 .. (elem - 1)
           /\ b = (b \div elem) * elem + (b % elem)
<1>1. elem # 0
  <2>1. elem = 0 => elem * width = 0
    OBVIOUS
  <2>. QED
    BY <2>1
<1>. DEFINE x == b \div elem
            k == b % elem
<1>2. elem * width \in Nat /\ b \in Nat
  BY NaturalProduct
<1>3. x \in Nat /\ k \in 0 .. elem - 1 /\ b = elem * x + k
  BY <1>1, <1>2, Division
<1>. HIDE DEF x, k
<1>4. elem * x \in Nat /\ elem * x = x * elem
  BY <1>3, NaturalProduct
<1>5. ASSUME width <= x PROVE FALSE
  <2>1. width * elem <= x * elem /\ width * elem = elem * width
    BY <1>3, <1>5, StrideGrows
  <2>. QED
    BY <1>2, <1>3, <1>4, <2>1
<1>6. x <= width - 1
  BY <1>3, <1>5
<1>. QED
  BY <1>1, <1>3, <1>4, <1>6 DEF x, k

\* And every byte of an element of a row is one of its bytes.
LEMMA BytesOfRow ==
    ASSUME NEW elem \in Nat, NEW width \in Nat, NEW x \in 0 .. (width - 1), NEW k \in 0 .. (elem - 1)
    PROVE  x * elem + k \in 0 .. (elem * width - 1)
<1>1. (x + 1) * elem <= width * elem /\ (x + 1) * elem = x * elem + elem /\ width * elem = elem * width
  <2>1. x + 1 \in Nat /\ x + 1 <= width
    OBVIOUS
  <2>. QED
    BY <2>1, StrideGrows
<1>2. x * elem \in Nat /\ elem * width \in Nat /\ x \in Nat
  BY NaturalProduct
<1>. QED
  BY <1>1, <1>2

\* Each row of each slice has its copy.
LEMMA CubeIndex ==
    ASSUME NEW depth \in Nat, NEW rows \in Nat, NEW z \in 0 .. (depth - 1), NEW y \in 0 .. (rows - 1)
    PROVE  \E i \in 1 .. (depth * rows) : (i - 1) \div rows = z /\ (i - 1) % rows = y
<1>. DEFINE j == z * rows + y
<1>1. j \in 0 .. (rows * depth - 1)
  BY BytesOfRow
<1>2. rows \in Nat \ {0} /\ z \in Nat /\ y \in 0 .. rows - 1
  OBVIOUS
<1>3. rows * depth = depth * rows /\ rows * depth \in Nat /\ rows * z = z * rows
  BY <1>2, NaturalProduct
<1>4. j = rows * z + y
  BY <1>3
<1>. HIDE DEF j
<1>5. j \in Nat
  BY <1>1, <1>3
<1>. DEFINE q == j \div rows
            s == j % rows
<1>6. q \in Nat /\ s \in 0 .. rows - 1 /\ j = rows * q + s
  BY <1>2, <1>5, Division
<1>. HIDE DEF q, s
<1>7. q = z /\ s = y
  <2>1. rows * q + s = rows * z + y
    BY <1>4, <1>6
  <2>. QED
    BY <1>2, <1>6, <2>1, DivisionUnique
<1>8. j + 1 \in 1 .. (depth * rows) /\ (j + 1) - 1 = j
  BY <1>1, <1>3, <1>5
<1>. QED
  BY <1>7, <1>8 DEF q, s

\* The bytes of the copies are those of the elements, shape by shape.
LEMMA LinearElements ==
    ASSUME NEW d, DescriptorTyped(d), d.type = "linear"
    PROVE  /\ \A i \in DOMAIN Copies(d) : \A b \in 0 .. (Copies(d)[i].n - 1) :
                \E e \in Elements(d) : \E k \in 0 .. (Width(d) - 1) : SameByte(d, i, b, e, k)
           /\ \A e \in Elements(d) : \A k \in 0 .. (Width(d) - 1) :
                \E i \in DOMAIN Copies(d) : \E b \in 0 .. (Copies(d)[i].n - 1) : SameByte(d, i, b, e, k)
<1>1. DOMAIN Copies(d) = 1 .. 1 /\ Copies(d)[1] = [n |-> d.bytes, host |-> 0, sram |-> 0]
  BY LinearCopies
<1>2. Elements(d) = {<<0, 0, x>> : x \in 0 .. (d.bytes - 1)} /\ Width(d) = 1
  BY DEF Elements, Width
<1>3. /\ d.base \in Nat /\ d.bytes \in Nat
      /\ d.sramStride[1] \in Nat /\ d.sramStride[2] \in Nat
      /\ d.hostStride[1] \in Nat /\ d.hostStride[2] \in Nat
  BY DescriptorParts
<1>4. ASSUME NEW x \in 0 .. (d.bytes - 1)
      PROVE  SameByte(d, 1, x, <<0, 0, x>>, 0)
  <2>1. HostAt(d, <<0, 0, x>>) = x
    BY <1>2, <1>3 DEF HostAt
  <2>2. SramAt(d, <<0, 0, x>>) = d.base + x
    BY <1>2, <1>3 DEF SramAt
  <2>. QED
    BY <1>1, <1>3, <2>1, <2>2 DEF SameByte
<1>5. 0 \in 0 .. (Width(d) - 1) /\ \A k \in 0 .. (Width(d) - 1) : k = 0
  BY <1>2
<1>6. ASSUME NEW i \in DOMAIN Copies(d), NEW b \in 0 .. (Copies(d)[i].n - 1)
      PROVE  \E e \in Elements(d) : \E k \in 0 .. (Width(d) - 1) : SameByte(d, i, b, e, k)
  <2>1. i = 1 /\ b \in 0 .. (d.bytes - 1)
    BY <1>1
  <2>2. SameByte(d, i, b, <<0, 0, b>>, 0) /\ <<0, 0, b>> \in Elements(d)
    BY <1>2, <1>4, <2>1
  <2>. QED
    BY <1>5, <2>2
<1>7. ASSUME NEW e \in Elements(d), NEW k \in 0 .. (Width(d) - 1)
      PROVE  \E i \in DOMAIN Copies(d) : \E b \in 0 .. (Copies(d)[i].n - 1) : SameByte(d, i, b, e, k)
  <2>1. PICK x \in 0 .. (d.bytes - 1) : e = <<0, 0, x>>
    BY <1>2
  <2>2. k = 0
    BY <1>5
  <2>3. SameByte(d, 1, x, e, k)
    BY <1>4, <2>1, <2>2
  <2>4. 1 \in DOMAIN Copies(d) /\ x \in 0 .. (Copies(d)[1].n - 1)
    BY <1>1
  <2>. QED
    BY <2>3, <2>4
<1>. QED
  BY <1>6, <1>7

LEMMA PlaneElements ==
    ASSUME NEW d, DescriptorTyped(d), d.type = "2d", SpansValid(d)
    PROVE  /\ \A i \in DOMAIN Copies(d) : \A b \in 0 .. (Copies(d)[i].n - 1) :
                \E e \in Elements(d) : \E k \in 0 .. (Width(d) - 1) : SameByte(d, i, b, e, k)
           /\ \A e \in Elements(d) : \A k \in 0 .. (Width(d) - 1) :
                \E i \in DOMAIN Copies(d) : \E b \in 0 .. (Copies(d)[i].n - 1) : SameByte(d, i, b, e, k)
<1>0. /\ d.base \in Nat /\ d.elem \in Nat
      /\ d.dims[1] \in Nat /\ d.dims[2] \in Nat
      /\ d.sramStride[1] \in Nat /\ d.sramStride[2] \in Nat
      /\ d.hostStride[1] \in Nat /\ d.hostStride[2] \in Nat
  BY DescriptorParts
<1>1. DOMAIN Copies(d) = 1 .. d.dims[1]
  BY PlaneCopies
<1>2. Elements(d) = {<<0, y, x>> : y \in 0 .. (d.dims[1] - 1), x \in 0 .. (d.dims[2] - 1)} /\ Width(d) = d.elem
  BY DEF Elements, Width
<1>3. ASSUME NEW i \in DOMAIN Copies(d), NEW x \in Nat, NEW k \in Nat
      PROVE  SameByte(d, i, x * d.elem + k, <<0, i - 1, x>>, k)
  <2>1. Copies(d)[i].host = (i - 1) * d.hostStride[1] /\ Copies(d)[i].sram = (i - 1) * d.sramStride[1]
    <3>. DEFINE h == (i - 1) * d.hostStride[1]
                s == (i - 1) * d.sramStride[1]
                n == (d.elem * d.dims[2]) % Word
    <3>1. Copies(d)[i] = [n |-> n, host |-> h, sram |-> s]
      BY <1>1, PlaneCopies
    <3>. HIDE DEF n, h, s
    <3>2. Copies(d)[i].host = h /\ Copies(d)[i].sram = s
      BY ONLY <3>1
    <3>. QED
      BY <3>2 DEF h, s
  <2>2. i - 1 \in Nat
    BY <1>0, <1>1
  <2>3. (i - 1) * d.hostStride[1] \in Nat /\ (i - 1) * d.sramStride[1] \in Nat /\ x * d.elem \in Nat
    BY <1>0, <2>2, NaturalProduct
  <2>4. HostAt(d, <<0, i - 1, x>>) = (i - 1) * d.hostStride[1] + x * d.elem
    <3>1. HostAt(d, <<0, i - 1, x>>) = 0 * d.hostStride[2] + (i - 1) * d.hostStride[1] + x * d.elem
      BY <1>2 DEF HostAt
    <3>2. 0 * d.hostStride[2] = 0
      BY <1>0
    <3>. QED
      BY <2>3, <3>1, <3>2
  <2>5. SramAt(d, <<0, i - 1, x>>) = d.base + (i - 1) * d.sramStride[1] + x * d.elem
    <3>1. SramAt(d, <<0, i - 1, x>>) = d.base + 0 * d.sramStride[2] + (i - 1) * d.sramStride[1] + x * d.elem
      BY <1>2 DEF SramAt
    <3>2. 0 * d.sramStride[2] = 0
      BY <1>0
    <3>. QED
      BY <1>0, <2>3, <3>1, <3>2
  <2>. DEFINE h == (i - 1) * d.hostStride[1]
              s == (i - 1) * d.sramStride[1]
              w == x * d.elem
  <2>6. h \in Nat /\ s \in Nat /\ w \in Nat /\ Copies(d)[i].host = h /\ Copies(d)[i].sram = s
        /\ HostAt(d, <<0, i - 1, x>>) = h + w /\ SramAt(d, <<0, i - 1, x>>) = d.base + s + w
    BY <2>1, <2>3, <2>4, <2>5
  <2>. HIDE DEF h, s, w
  <2>7. SameByte(d, i, w + k, <<0, i - 1, x>>, k)
    BY <1>0, <2>6 DEF SameByte
  <2>. QED
    BY <2>7 DEF w
<1>4. ASSUME NEW i \in DOMAIN Copies(d), d.elem * d.dims[2] > 0
      PROVE  Copies(d)[i].n = d.elem * d.dims[2]
  BY <1>4, PlaneFits
<1>5. ASSUME NEW i \in DOMAIN Copies(d), NEW b \in 0 .. (Copies(d)[i].n - 1)
      PROVE  \E e \in Elements(d) : \E k \in 0 .. (Width(d) - 1) : SameByte(d, i, b, e, k)
  <2>1. CASE d.elem * d.dims[2] > 0
    <3>1. b \in 0 .. (d.elem * d.dims[2] - 1)
      BY <1>4, <2>1
    <3>. DEFINE x == b \div d.elem
                k == b % d.elem
    <3>2. x \in 0 .. (d.dims[2] - 1) /\ k \in 0 .. (d.elem - 1) /\ b = x * d.elem + k
      <4>1. d.elem \in Nat /\ d.dims[2] \in Nat
        BY <1>0
      <4>. QED
        BY ONLY <3>1, <4>1, RowBytes
    <3>. HIDE DEF x, k
    <3>3. x \in Nat /\ k \in Nat
      BY <1>0, <3>2
    <3>4. SameByte(d, i, b, <<0, i - 1, x>>, k)
      BY <1>3, <3>2, <3>3
    <3>5. i - 1 \in 0 .. (d.dims[1] - 1)
      BY <1>0, <1>1
    <3>6. <<0, i - 1, x>> \in Elements(d) /\ k \in 0 .. (Width(d) - 1)
      BY <1>2, <3>2, <3>5
    <3>. QED
      BY <3>4, <3>6
  <2>2. CASE ~(d.elem * d.dims[2] > 0)
    <3>1. d.elem * d.dims[2] = 0
      BY <1>0, <2>2, NaturalProduct
    <3>2. Copies(d)[i].n = 0 % Word
      <4>1. Copies(d)[i] = [n |-> (d.elem * d.dims[2]) % Word,
                            host |-> (i - 1) * d.hostStride[1], sram |-> (i - 1) * d.sramStride[1]]
        BY <1>1, PlaneCopies
      <4>2. Copies(d)[i].n = (d.elem * d.dims[2]) % Word
        BY ONLY <4>1
      <4>. QED
        BY <3>1, <4>2
    <3>3. Copies(d)[i].n = 0
      BY <3>2, WrappedType, WordPositive
    <3>. QED
      BY <3>3
  <2>. QED
    BY <2>1, <2>2
<1>6. ASSUME NEW e \in Elements(d), NEW k \in 0 .. (Width(d) - 1)
      PROVE  \E i \in DOMAIN Copies(d) : \E b \in 0 .. (Copies(d)[i].n - 1) : SameByte(d, i, b, e, k)
  <2>1. PICK y \in 0 .. (d.dims[1] - 1), x \in 0 .. (d.dims[2] - 1) : e = <<0, y, x>>
    BY <1>2
  <2>2. k \in 0 .. (d.elem - 1)
    BY <1>2
  <2>3. x * d.elem + k \in 0 .. (d.elem * d.dims[2] - 1)
    BY <1>0, <2>2, BytesOfRow
  <2>4. d.elem * d.dims[2] > 0
    <3>1. d.elem * d.dims[2] \in Nat
      BY <1>0, NaturalProduct
    <3>. QED
      BY <2>3, <3>1
  <2>5. y + 1 \in DOMAIN Copies(d) /\ (y + 1) - 1 = y /\ x \in Nat /\ k \in Nat
    BY <1>0, <1>1, <2>2
  <2>6. SameByte(d, y + 1, x * d.elem + k, e, k)
    <3>1. SameByte(d, y + 1, x * d.elem + k, <<0, (y + 1) - 1, x>>, k)
      BY <1>3, <2>5
    <3>. QED
      BY <2>1, <2>5, <3>1
  <2>7. Copies(d)[y + 1].n = d.elem * d.dims[2]
    BY <1>4, <2>4, <2>5
  <2>. QED
    BY <2>3, <2>5, <2>6, <2>7
<1>. QED
  BY <1>5, <1>6

LEMMA CubeElements ==
    ASSUME NEW d, DescriptorTyped(d), d.type = "3d", SpansValid(d)
    PROVE  /\ \A i \in DOMAIN Copies(d) : \A b \in 0 .. (Copies(d)[i].n - 1) :
                \E e \in Elements(d) : \E k \in 0 .. (Width(d) - 1) : SameByte(d, i, b, e, k)
           /\ \A e \in Elements(d) : \A k \in 0 .. (Width(d) - 1) :
                \E i \in DOMAIN Copies(d) : \E b \in 0 .. (Copies(d)[i].n - 1) : SameByte(d, i, b, e, k)
<1>0. /\ d.base \in Nat /\ d.elem \in Nat
      /\ d.dims[1] \in Nat /\ d.dims[2] \in Nat /\ d.dims[3] \in Nat
      /\ d.sramStride[1] \in Nat /\ d.sramStride[2] \in Nat
      /\ d.hostStride[1] \in Nat /\ d.hostStride[2] \in Nat
  BY DescriptorParts
<1>1. DOMAIN Copies(d) = 1 .. (d.dims[1] * d.dims[2])
  BY CubeCopies
<1>2. /\ Elements(d) = {<<z, y, x>> : z \in 0 .. (d.dims[1] - 1), y \in 0 .. (d.dims[2] - 1),
                                       x \in 0 .. (d.dims[3] - 1)}
      /\ Width(d) = d.elem
  BY DEF Elements, Width
<1>. DEFINE Z(i) == (i - 1) \div d.dims[2]
            Y(i) == (i - 1) % d.dims[2]
<1>3. ASSUME NEW i \in DOMAIN Copies(d)
      PROVE  Z(i) \in 0 .. (d.dims[1] - 1) /\ Y(i) \in 0 .. (d.dims[2] - 1)
  BY <1>0, <1>1, CubePlace
<1>4. ASSUME NEW i \in DOMAIN Copies(d)
      PROVE  Copies(d)[i] = [n |-> (d.elem * d.dims[3]) % Word,
                             host |-> Z(i) * d.hostStride[2] + Y(i) * d.hostStride[1],
                             sram |-> Z(i) * d.sramStride[2] + Y(i) * d.sramStride[1]]
  BY <1>1, CubeCopies
<1>5. ASSUME NEW z \in 0 .. (d.dims[1] - 1), NEW y \in 0 .. (d.dims[2] - 1)
      PROVE  \E i \in DOMAIN Copies(d) : Z(i) = z /\ Y(i) = y
  <2>1. \E i \in 1 .. (d.dims[1] * d.dims[2]) : (i - 1) \div d.dims[2] = z /\ (i - 1) % d.dims[2] = y
    BY ZenonT(60), <1>0, CubeIndex
  <2>. QED
    BY <1>1, <2>1
<1>. HIDE DEF Z, Y
<1>6. ASSUME NEW i \in DOMAIN Copies(d), NEW x \in Nat, NEW k \in Nat
      PROVE  SameByte(d, i, x * d.elem + k, <<Z(i), Y(i), x>>, k)
  <2>0. Z(i) \in Nat /\ Y(i) \in Nat
    BY <1>0, <1>3
  <2>. DEFINE h == Z(i) * d.hostStride[2]
              g == Y(i) * d.hostStride[1]
              s == Z(i) * d.sramStride[2]
              t == Y(i) * d.sramStride[1]
              w == x * d.elem
              n == (d.elem * d.dims[3]) % Word
  <2>1. h \in Nat /\ g \in Nat /\ s \in Nat /\ t \in Nat /\ w \in Nat
    BY <1>0, <2>0, NaturalProduct
  <2>2. Copies(d)[i] = [n |-> n, host |-> h + g, sram |-> s + t]
    BY <1>4
  <2>3. HostAt(d, <<Z(i), Y(i), x>>) = h + g + w
    BY <1>2 DEF HostAt
  <2>4. SramAt(d, <<Z(i), Y(i), x>>) = d.base + s + t + w
    BY <1>2 DEF SramAt
  <2>. HIDE DEF h, g, s, t, w, n
  <2>5. Copies(d)[i].host = h + g /\ Copies(d)[i].sram = s + t
    BY ONLY <2>2
  <2>6. SameByte(d, i, w + k, <<Z(i), Y(i), x>>, k)
    BY <1>0, <2>1, <2>3, <2>4, <2>5 DEF SameByte
  <2>. QED
    BY <2>6 DEF w
<1>7. ASSUME NEW i \in DOMAIN Copies(d), d.elem * d.dims[3] > 0
      PROVE  Copies(d)[i].n = d.elem * d.dims[3]
  BY <1>7, CubeFits
<1>8. ASSUME NEW i \in DOMAIN Copies(d), NEW b \in 0 .. (Copies(d)[i].n - 1)
      PROVE  \E e \in Elements(d) : \E k \in 0 .. (Width(d) - 1) : SameByte(d, i, b, e, k)
  <2>1. CASE d.elem * d.dims[3] > 0
    <3>1. b \in 0 .. (d.elem * d.dims[3] - 1)
      BY <1>7, <2>1
    <3>. DEFINE x == b \div d.elem
                k == b % d.elem
    <3>2. x \in 0 .. (d.dims[3] - 1) /\ k \in 0 .. (d.elem - 1) /\ b = x * d.elem + k
      <4>1. d.elem \in Nat /\ d.dims[3] \in Nat
        BY <1>0
      <4>. QED
        BY ONLY <3>1, <4>1, RowBytes
    <3>. HIDE DEF x, k
    <3>3. x \in Nat /\ k \in Nat
      BY <1>0, <3>2
    <3>4. SameByte(d, i, b, <<Z(i), Y(i), x>>, k)
      BY <1>6, <3>2, <3>3
    <3>5. <<Z(i), Y(i), x>> \in Elements(d) /\ k \in 0 .. (Width(d) - 1)
      BY <1>2, <1>3, <3>2
    <3>. QED
      BY <3>4, <3>5
  <2>2. CASE ~(d.elem * d.dims[3] > 0)
    <3>1. d.elem * d.dims[3] = 0
      BY <1>0, <2>2, NaturalProduct
    <3>2. Copies(d)[i].n = (d.elem * d.dims[3]) % Word
      <4>1. Copies(d)[i] = [n |-> (d.elem * d.dims[3]) % Word,
                            host |-> Z(i) * d.hostStride[2] + Y(i) * d.hostStride[1],
                            sram |-> Z(i) * d.sramStride[2] + Y(i) * d.sramStride[1]]
        BY <1>4
      <4>. QED
        BY ONLY <4>1
    <3>3. Copies(d)[i].n = 0
      BY <3>1, <3>2, WrappedType, WordPositive
    <3>. QED
      BY <3>3
  <2>. QED
    BY <2>1, <2>2
<1>9. ASSUME NEW e \in Elements(d), NEW k \in 0 .. (Width(d) - 1)
      PROVE  \E i \in DOMAIN Copies(d) : \E b \in 0 .. (Copies(d)[i].n - 1) : SameByte(d, i, b, e, k)
  <2>1. PICK z \in 0 .. (d.dims[1] - 1), y \in 0 .. (d.dims[2] - 1), x \in 0 .. (d.dims[3] - 1) : e = <<z, y, x>>
    BY <1>2
  <2>2. k \in 0 .. (d.elem - 1)
    BY <1>2
  <2>3. x * d.elem + k \in 0 .. (d.elem * d.dims[3] - 1)
    BY <1>0, <2>2, BytesOfRow
  <2>4. d.elem * d.dims[3] > 0
    <3>1. d.elem * d.dims[3] \in Nat
      BY <1>0, NaturalProduct
    <3>. QED
      BY <2>3, <3>1
  <2>5. PICK i \in DOMAIN Copies(d) : Z(i) = z /\ Y(i) = y
    BY <1>5
  <2>6. x \in Nat /\ k \in Nat
    BY <1>0, <2>2
  <2>7. SameByte(d, i, x * d.elem + k, e, k)
    BY <1>6, <2>1, <2>5, <2>6
  <2>8. Copies(d)[i].n = d.elem * d.dims[3]
    BY <1>7, <2>4
  <2>. QED
    BY <2>3, <2>7, <2>8
<1>. QED
  BY <1>8, <1>9

\* Byte by byte, the copies of a transfer are its elements.
LEMMA CopiesAreElements ==
    ASSUME NEW d, DescriptorTyped(d), d.type \in Plain, SpansValid(d)
    PROVE  /\ \A i \in DOMAIN Copies(d) : \A b \in 0 .. (Copies(d)[i].n - 1) :
                \E e \in Elements(d) : \E k \in 0 .. (Width(d) - 1) : SameByte(d, i, b, e, k)
           /\ \A e \in Elements(d) : \A k \in 0 .. (Width(d) - 1) :
                \E i \in DOMAIN Copies(d) : \E b \in 0 .. (Copies(d)[i].n - 1) : SameByte(d, i, b, e, k)
BY LinearElements, PlaneElements, CubeElements DEF Plain

\* Where copies are pasted a byte is that of one of the copies over it, and as
\* it was where none is.
LEMMA PastedAt ==
    ASSUME NEW mem, NEW copies, NEW N \in Nat, DOMAIN copies = 1 .. N, NEW to, NEW values, NEW a \in DOMAIN mem
    PROVE  \/ /\ \A i \in DOMAIN copies : ~(to[i] <= a /\ a < to[i] + copies[i].n)
              /\ Pasted(mem, copies, to, values)[a] = mem[a]
           \/ \E i \in DOMAIN copies :
                /\ to[i] <= a /\ a < to[i] + copies[i].n
                /\ Pasted(mem, copies, to, values)[a] = values[i][a - to[i]]
<1>. DEFINE hits == {i \in DOMAIN copies : to[i] <= a /\ a < to[i] + copies[i].n}
<1>1. Pasted(mem, copies, to, values)[a] =
        IF hits = {} THEN mem[a] ELSE values[Max(hits)][a - to[Max(hits)]]
  BY DEF Pasted
<1>2. hits # {} => Max(hits) \in hits
  <2>. SUFFICES ASSUME hits # {} PROVE Max(hits) \in hits
    OBVIOUS
  <2>1. hits \in SUBSET Int /\ \A x \in hits : 1 <= x /\ x <= N
    OBVIOUS
  <2>2. 1 \in Int /\ N \in Int
    OBVIOUS
  <2>. HIDE DEF hits
  <2>. QED
    BY <2>1, <2>2, GreatestMember
<1>. QED
  BY <1>1, <1>2

-------------------------------------------------------------------------------
(* Arrival.                                                                    *)

MemoryTyped(m) ==
    /\ DOMAIN m = {"r", "s", "host"}
    /\ \A r \in {"r", "s"} : m[r] \in [0 .. (RegionSize[r] - 1) -> Nat]
    /\ m["host"] \in [0 .. (HostSize - 1) -> Nat]

\* The tables of the copies, from a byte to its target and its value, agree with
\* those of the elements.
TablesAgree(d, to, values, goal, value) ==
    /\ \A i \in DOMAIN Copies(d) : to[i] \in Nat
    /\ \A i \in DOMAIN Copies(d) : \A b \in 0 .. (Copies(d)[i].n - 1) :
          \A e \in Elements(d) : \A k \in 0 .. (Width(d) - 1) :
             SameByte(d, i, b, e, k) => to[i] + b = goal[e] + k /\ values[i][b] = value[<<e, k>>]

\* The bytes of elements that have an address as their goal.
AimedAt(d, goal, written, addresses) ==
    \A a \in addresses : \A ek : ek \in written[a] <=>
        ek \in Elements(d) \X (0 .. (Width(d) - 1)) /\ goal[ek[1]] + ek[2] = a

\* What is written once has its value, what is not is as before.
Brings(before, after, written, value) ==
    \A a \in DOMAIN before :
        /\ written[a] = {} => after[a] = before[a]
        /\ \A ek \in written[a] : written[a] = {ek} => after[a] = value[ek]

\* Pasting the copies of a transfer brings each element to its goal, and leaves
\* alone what is no element's goal.
LEMMA PastedElements ==
    ASSUME NEW d, DescriptorTyped(d), d.type \in Plain, SpansValid(d),
           NEW mem, DOMAIN mem \subseteq Nat, NEW to, NEW values, NEW goal, NEW value, NEW written,
           TablesAgree(d, to, values, goal, value), AimedAt(d, goal, written, DOMAIN mem)
    PROVE  Brings(mem, Pasted(mem, Copies(d), to, values), written, value)
<1>. SUFFICES ASSUME NEW a \in DOMAIN mem,
                     NEW w, \A ek : ek \in w <=>
                               ek \in Elements(d) \X (0 .. (Width(d) - 1)) /\ goal[ek[1]] + ek[2] = a
              PROVE  /\ w = {} => Pasted(mem, Copies(d), to, values)[a] = mem[a]
                     /\ \A ek \in w : w = {ek} => Pasted(mem, Copies(d), to, values)[a] = value[ek]
  BY DEF Brings, AimedAt
<1>0. /\ \A i \in DOMAIN Copies(d) : to[i] \in Nat
      /\ \A i \in DOMAIN Copies(d) : \A b \in 0 .. (Copies(d)[i].n - 1) :
            \A e \in Elements(d) : \A k \in 0 .. (Width(d) - 1) :
               SameByte(d, i, b, e, k) => to[i] + b = goal[e] + k /\ values[i][b] = value[<<e, k>>]
  BY DEF TablesAgree
<1>1. PICK N \in Nat : DOMAIN Copies(d) = 1 .. N
  BY CopiesTyped DEF Plain
<1>2. \A i \in DOMAIN Copies(d) : Copies(d)[i].n \in Nat
  BY CopiesTyped DEF Plain, CopyNumbers
<1>3. \A i \in DOMAIN Copies(d) : \A b \in 0 .. (Copies(d)[i].n - 1) :
         \E e \in Elements(d) : \E k \in 0 .. (Width(d) - 1) : SameByte(d, i, b, e, k)
  BY CopiesAreElements
<1>4. \A e \in Elements(d) : \A k \in 0 .. (Width(d) - 1) :
         \E i \in DOMAIN Copies(d) : \E b \in 0 .. (Copies(d)[i].n - 1) : SameByte(d, i, b, e, k)
  BY CopiesAreElements
<1>. DEFINE P == Pasted(mem, Copies(d), to, values)
<1>5. ASSUME \A i \in DOMAIN Copies(d) : ~(to[i] <= a /\ a < to[i] + Copies(d)[i].n)
      PROVE  /\ w = {} => P[a] = mem[a]
             /\ \A ek \in w : w = {ek} => P[a] = value[ek]
  <2>1. P[a] = mem[a]
    BY <1>1, <1>5, PastedAt
  <2>2. ASSUME NEW ek \in w PROVE FALSE
    <3>1. ek[1] \in Elements(d) /\ ek[2] \in 0 .. (Width(d) - 1) /\ goal[ek[1]] + ek[2] = a
      OBVIOUS
    <3>5. \E i \in DOMAIN Copies(d) : \E b \in 0 .. (Copies(d)[i].n - 1) : SameByte(d, i, b, ek[1], ek[2])
      BY <1>4, <3>1
    <3>6. PICK i \in DOMAIN Copies(d) : \E b \in 0 .. (Copies(d)[i].n - 1) : SameByte(d, i, b, ek[1], ek[2])
      BY <3>5
    <3>2. PICK b \in 0 .. (Copies(d)[i].n - 1) : SameByte(d, i, b, ek[1], ek[2])
      BY <3>6
    <3>3. to[i] + b = a
      BY <1>0, <3>1, <3>2
    <3>4. to[i] \in Nat /\ Copies(d)[i].n \in Nat
      BY <1>0, <1>2
    <3>7. to[i] <= a /\ a < to[i] + Copies(d)[i].n
      BY <3>3, <3>4
    <3>. QED
      BY <1>5, <3>7
  <2>. QED
    BY <2>1, <2>2
<1>6. ASSUME NEW i \in DOMAIN Copies(d),
             to[i] <= a /\ a < to[i] + Copies(d)[i].n /\ P[a] = values[i][a - to[i]]
      PROVE  /\ w = {} => P[a] = mem[a]
             /\ \A ek \in w : w = {ek} => P[a] = value[ek]
  <2>. DEFINE b == a - to[i]
  <2>1. b \in 0 .. (Copies(d)[i].n - 1) /\ to[i] + b = a
    BY <1>0, <1>2, <1>6
  <2>. HIDE DEF b
  <2>2. PICK e \in Elements(d), k \in 0 .. (Width(d) - 1) : SameByte(d, i, b, e, k)
    BY <1>3, <2>1
  <2>3. a = goal[e] + k /\ values[i][b] = value[<<e, k>>]
    BY <1>0, <2>1, <2>2
  <2>4. <<e, k>> \in w
    BY <2>3
  <2>5. P[a] = value[<<e, k>>]
    BY <1>6, <2>3 DEF b
  <2>. HIDE DEF P
  <2>. QED
    BY <2>4, <2>5
<1>7. \/ \A i \in DOMAIN Copies(d) : ~(to[i] <= a /\ a < to[i] + Copies(d)[i].n)
      \/ \E i \in DOMAIN Copies(d) :
            to[i] <= a /\ a < to[i] + Copies(d)[i].n /\ P[a] = values[i][a - to[i]]
  <2>1. a \in DOMAIN mem
    OBVIOUS
  <2>2. DOMAIN Copies(d) = 1 .. N /\ N \in Nat
    BY <1>1
  <2>. QED
    BY ONLY <2>1, <2>2, PastedAt
<1>. HIDE DEF P
<1>9. ASSUME \E i \in DOMAIN Copies(d) :
                to[i] <= a /\ a < to[i] + Copies(d)[i].n /\ P[a] = values[i][a - to[i]]
      PROVE  /\ w = {} => P[a] = mem[a]
             /\ \A ek \in w : w = {ek} => P[a] = value[ek]
  <2>1. PICK i \in DOMAIN Copies(d) :
                to[i] <= a /\ a < to[i] + Copies(d)[i].n /\ P[a] = values[i][a - to[i]]
    BY <1>9
  <2>. QED
    BY <1>6, <2>1
<1>8. /\ w = {} => P[a] = mem[a]
      /\ \A ek \in w : w = {ek} => P[a] = value[ek]
  BY <1>5, <1>9, <1>7
<1>. QED
  BY <1>8 DEF P

\* What Stored is for each direction.
AtSram(d) == [i \in DOMAIN Copies(d) |-> d.base + Copies(d)[i].sram]
AtHost(d) == [i \in DOMAIN Copies(d) |-> Copies(d)[i].host]
OfHost(d) == [i \in DOMAIN Copies(d) |-> [k \in 0 .. Copies(d)[i].n - 1 |-> Copies(d)[i].host + k + 1]]
OfRegion(d, mem, from) == [i \in DOMAIN Copies(d) |-> [k \in 0 .. Copies(d)[i].n - 1 |-> ByteAt(mem, from[i] + k)]]

LEMMA StoredIn ==
    ASSUME NEW m, NEW d, d.type # "multicast", d.dir = "in"
    PROVE  Stored(m, d) = [m EXCEPT ![d.region] = Pasted(m[d.region], Copies(d), AtSram(d), OfHost(d))]
BY DEF Stored, AtSram, OfHost

LEMMA StoredOut ==
    ASSUME NEW m, NEW d, d.type # "multicast", d.dir = "out"
    PROVE  Stored(m, d) =
             [m EXCEPT !["host"] = Pasted(m["host"], Copies(d), AtHost(d), OfRegion(d, m[d.region], AtSram(d)))]
BY DEF Stored, AtSram, AtHost, OfRegion

LEMMA StoredInternal ==
    ASSUME NEW m, NEW d, d.type # "multicast", d.dir = "internal"
    PROVE  Stored(m, d) =
             [m EXCEPT ![d.region] = Pasted(m[d.region], Copies(d), AtSram(d), OfRegion(d, m[d.from], AtHost(d)))]
BY DEF Stored, AtSram, AtHost, OfRegion

LEMMA StoredMulticast ==
    ASSUME NEW m, NEW d, d.type = "multicast"
    PROVE  Stored(m, d) = [m EXCEPT !["r"] = Received(m["r"], d, "r"), !["s"] = Received(m["s"], d, "s")]
BY DEF Stored

\* A byte read from a region is a number.
LEMMA ByteTyped ==
    ASSUME NEW N \in Nat, NEW mem \in [0 .. (N - 1) -> Nat], NEW a
    PROVE  ByteAt(mem, a) \in Nat
BY DEF ByteAt

\* Pasted numbers are numbers.
LEMMA PastedTyped ==
    ASSUME NEW d, DescriptorTyped(d), d.type # "multicast",
           NEW N \in Nat, NEW mem \in [0 .. (N - 1) -> Nat], NEW to, NEW values,
           \A i \in DOMAIN Copies(d) : to[i] \in Nat,
           \A i \in DOMAIN Copies(d) : \A b \in 0 .. (Copies(d)[i].n - 1) : values[i][b] \in Nat
    PROVE  Pasted(mem, Copies(d), to, values) \in [0 .. (N - 1) -> Nat]
<1>. DEFINE P == Pasted(mem, Copies(d), to, values)
<1>1. PICK C \in Nat : DOMAIN Copies(d) = 1 .. C
  BY CopiesTyped
<1>2. \A i \in DOMAIN Copies(d) : Copies(d)[i].n \in Nat
  BY CopiesTyped DEF CopyNumbers
<1>3. DOMAIN P = 0 .. (N - 1) /\ P = [a \in DOMAIN P |-> P[a]]
  BY DEF Pasted
<1>4. ASSUME NEW a \in 0 .. (N - 1) PROVE P[a] \in Nat
  <2>1. \/ P[a] = mem[a]
        \/ \E i \in DOMAIN Copies(d) :
              to[i] <= a /\ a < to[i] + Copies(d)[i].n /\ P[a] = values[i][a - to[i]]
    BY <1>1, PastedAt
  <2>. HIDE DEF P
  <2>2. ASSUME NEW i \in DOMAIN Copies(d),
               to[i] <= a /\ a < to[i] + Copies(d)[i].n /\ P[a] = values[i][a - to[i]]
        PROVE  P[a] \in Nat
    <3>1. a - to[i] \in 0 .. (Copies(d)[i].n - 1)
      BY <1>2, <2>2
    <3>. QED
      BY <2>2, <3>1
  <2>3. mem[a] \in Nat
    OBVIOUS
  <2>. QED
    BY <2>1, <2>2, <2>3
<1>. HIDE DEF P
<1>5. P \in [0 .. (N - 1) -> Nat]
  BY <1>3, <1>4
<1>. QED
  BY <1>5 DEF P

\* What a multicast leaves are numbers.
LEMMA ReceivedTyped ==
    ASSUME NEW d, DescriptorTyped(d), NEW N \in Nat, NEW mem \in [0 .. (N - 1) -> Nat], NEW r
    PROVE  Received(mem, d, r) \in [0 .. (N - 1) -> Nat]
<1>. DEFINE hits(a) == {t \in DOMAIN d.targets :
                          /\ d.targets[t][1] = r
                          /\ d.targets[t][2] <= a /\ a < d.targets[t][2] + d.dims[1] * d.elem}
            R == Received(mem, d, r)
<1>1. DOMAIN R = 0 .. (N - 1) /\ R = [a \in DOMAIN R |-> R[a]]
  BY DEF Received
<1>2. ASSUME NEW a \in 0 .. (N - 1) PROVE R[a] \in Nat
  <2>1. R[a] = IF hits(a) = {} THEN mem[a] ELSE a - d.targets[Max(hits(a))][2] + 1
    BY DEF Received
  <2>2. hits(a) # {} => Max(hits(a)) \in hits(a)
    <3>1. DOMAIN d.targets = 1 .. Len(d.targets) /\ Len(d.targets) \in Nat
      BY DescriptorParts
    <3>2. hits(a) \in SUBSET Int /\ \A x \in hits(a) : 1 <= x /\ x <= Len(d.targets)
      BY <3>1
    <3>3. 1 \in Int /\ Len(d.targets) \in Int
      BY <3>1
    <3>. HIDE DEF hits
    <3>. QED
      BY <3>2, <3>3, GreatestMember
  <2>. HIDE DEF R
  <2>3. ASSUME NEW t \in hits(a) PROVE a - d.targets[t][2] + 1 \in Nat
    <3>1. t \in DOMAIN d.targets /\ d.targets[t][2] <= a
      OBVIOUS
    <3>2. d.targets[t][2] \in Nat
      BY <3>1, DescriptorParts
    <3>. HIDE DEF hits
    <3>. QED
      BY <3>1, <3>2
  <2>. HIDE DEF hits
  <2>. QED
    BY <2>1, <2>2, <2>3
<1>. HIDE DEF R
<1>3. R \in [0 .. (N - 1) -> Nat]
  BY <1>1, <1>2
<1>. QED
  BY <1>3 DEF R

\* The tables of the three directions are numbers.
LEMMA TablesTyped ==
    ASSUME NEW d, DescriptorTyped(d), d.type # "multicast",
           NEW N \in Nat, NEW mem \in [0 .. (N - 1) -> Nat], NEW from
    PROVE  /\ \A i \in DOMAIN Copies(d) : AtSram(d)[i] = d.base + Copies(d)[i].sram /\ AtSram(d)[i] \in Nat
           /\ \A i \in DOMAIN Copies(d) : AtHost(d)[i] = Copies(d)[i].host /\ AtHost(d)[i] \in Nat
           /\ \A i \in DOMAIN Copies(d) : \A b \in 0 .. (Copies(d)[i].n - 1) :
                /\ OfHost(d)[i][b] = Copies(d)[i].host + b + 1 /\ OfHost(d)[i][b] \in Nat
                /\ OfRegion(d, mem, from)[i][b] = ByteAt(mem, from[i] + b) /\ OfRegion(d, mem, from)[i][b] \in Nat
<1>1. d.base \in Nat
  BY DescriptorParts
<1>2. \A i \in DOMAIN Copies(d) : Copies(d)[i].n \in Nat /\ Copies(d)[i].host \in Nat /\ Copies(d)[i].sram \in Nat
  BY CopiesTyped DEF CopyNumbers
<1>3. \A i \in DOMAIN Copies(d) : AtSram(d)[i] = d.base + Copies(d)[i].sram /\ AtSram(d)[i] \in Nat
  BY <1>1, <1>2 DEF AtSram
<1>4. \A i \in DOMAIN Copies(d) : AtHost(d)[i] = Copies(d)[i].host /\ AtHost(d)[i] \in Nat
  BY <1>2 DEF AtHost
<1>5. ASSUME NEW i \in DOMAIN Copies(d), NEW b \in 0 .. (Copies(d)[i].n - 1)
      PROVE  /\ OfHost(d)[i][b] = Copies(d)[i].host + b + 1 /\ OfHost(d)[i][b] \in Nat
             /\ OfRegion(d, mem, from)[i][b] = ByteAt(mem, from[i] + b) /\ OfRegion(d, mem, from)[i][b] \in Nat
  <2>1. OfHost(d)[i][b] = Copies(d)[i].host + b + 1
    BY DEF OfHost
  <2>2. OfRegion(d, mem, from)[i][b] = ByteAt(mem, from[i] + b)
    BY DEF OfRegion
  <2>3. Copies(d)[i].host + b + 1 \in Nat
    BY <1>2
  <2>4. ByteAt(mem, from[i] + b) \in Nat
    BY ByteTyped
  <2>. QED
    BY <2>1, <2>2, <2>3, <2>4
<1>. QED
  BY <1>3, <1>4, <1>5

\* The contents of memory.
LEMMA MemoryParts ==
    ASSUME NEW m, MemoryTyped(m)
    PROVE  /\ \A r \in {"r", "s"} : m[r] \in [0 .. (RegionSize[r] - 1) -> Nat] /\ RegionSize[r] \in Nat
           /\ m["host"] \in [0 .. (HostSize - 1) -> Nat] /\ HostSize \in Nat
           /\ DOMAIN m = {"r", "s", "host"}
BY RegionTyped, TransferAssumption DEF MemoryTyped

\* A transfer leaves numbers.
LEMMA StoredTyped ==
    ASSUME NEW m, MemoryTyped(m), NEW d, DescriptorTyped(d), SpansValid(d)
    PROVE  MemoryTyped(Stored(m, d))
<1>1. /\ \A r \in {"r", "s"} : m[r] \in [0 .. (RegionSize[r] - 1) -> Nat] /\ RegionSize[r] \in Nat
      /\ m["host"] \in [0 .. (HostSize - 1) -> Nat] /\ HostSize \in Nat
      /\ DOMAIN m = {"r", "s", "host"}
  BY MemoryParts
<1>2. CASE d.type = "multicast"
  <2>1. \A r \in {"r", "s"} : Received(m[r], d, r) \in [0 .. (RegionSize[r] - 1) -> Nat]
    BY <1>1, ReceivedTyped
  <2>2. Stored(m, d) = [m EXCEPT !["r"] = Received(m["r"], d, "r"), !["s"] = Received(m["s"], d, "s")]
    BY <1>2, StoredMulticast
  <2>. QED
    BY <1>1, <2>1, <2>2 DEF MemoryTyped
<1>3. ASSUME d.type # "multicast" PROVE MemoryTyped(Stored(m, d))
  <2>1. d.region \in {"r", "s"} /\ (d.dir = "internal" => d.from \in {"r", "s"})
    BY <1>3, SpansRegions
  <2>2. CASE d.dir = "in"
    <3>1. Pasted(m[d.region], Copies(d), AtSram(d), OfHost(d)) \in [0 .. (RegionSize[d.region] - 1) -> Nat]
      BY <1>1, <1>3, <2>1, TablesTyped, PastedTyped
    <3>2. Stored(m, d) = [m EXCEPT ![d.region] = Pasted(m[d.region], Copies(d), AtSram(d), OfHost(d))]
      BY <1>3, <2>2, StoredIn
    <3>. QED
      BY <1>1, <2>1, <3>1, <3>2 DEF MemoryTyped
  <2>3. CASE d.dir = "out"
    <3>1. Pasted(m["host"], Copies(d), AtHost(d), OfRegion(d, m[d.region], AtSram(d))) \in [0 .. (HostSize - 1) -> Nat]
      <4>1. /\ \A i \in DOMAIN Copies(d) : AtHost(d)[i] \in Nat
            /\ \A i \in DOMAIN Copies(d) : \A b \in 0 .. (Copies(d)[i].n - 1) :
                  OfRegion(d, m[d.region], AtSram(d))[i][b] \in Nat
        BY <1>1, <1>3, <2>1, TablesTyped
      <4>. QED
        BY <1>1, <1>3, <4>1, PastedTyped
    <3>2. Stored(m, d) =
             [m EXCEPT !["host"] = Pasted(m["host"], Copies(d), AtHost(d), OfRegion(d, m[d.region], AtSram(d)))]
      BY <1>3, <2>3, StoredOut
    <3>. QED
      BY <1>1, <3>1, <3>2 DEF MemoryTyped
  <2>4. CASE d.dir = "internal"
    <3>1. Pasted(m[d.region], Copies(d), AtSram(d), OfRegion(d, m[d.from], AtHost(d)))
            \in [0 .. (RegionSize[d.region] - 1) -> Nat]
      BY ZenonT(60), <1>1, <1>3, <2>1, <2>4, TablesTyped, PastedTyped
    <3>2. Stored(m, d) =
             [m EXCEPT ![d.region] = Pasted(m[d.region], Copies(d), AtSram(d), OfRegion(d, m[d.from], AtHost(d)))]
      BY <1>3, <2>4, StoredInternal
    <3>. QED
      BY <1>1, <2>1, <3>1, <3>2 DEF MemoryTyped
  <2>. QED
    BY <2>2, <2>3, <2>4 DEF DescriptorTyped
<1>. QED
  BY <1>2, <1>3

\* The goals and the values of Delivered as tables.
GoalsAre(d, goal) ==
    \A e \in Elements(d) : goal[e] = IF d.dir = "out" THEN HostAt(d, e) ELSE SramAt(d, e)
ValuesAre(d, before, value) ==
    \A e \in Elements(d) : \A k \in 0 .. (Width(d) - 1) :
        value[<<e, k>>] = CASE d.dir = "in" -> HostAt(d, e) + k + 1
                            [] d.dir = "out" -> ByteAt(before[d.region], SramAt(d, e) + k)
                            [] d.dir = "internal" -> ByteAt(before[d.from], HostAt(d, e) + k)

\* A transfer that brings the values of the tables to their goals delivers.
LEMMA DeliveredByTables ==
    ASSUME NEW d, NEW before, NEW after, NEW place, NEW goal, NEW value, NEW written,
           place = IF d.dir = "out" THEN "host" ELSE d.region,
           GoalsAre(d, goal), ValuesAre(d, before, value),
           DOMAIN after[place] = DOMAIN before[place],
           AimedAt(d, goal, written, DOMAIN before[place]), Brings(before[place], after[place], written, value)
    PROVE  Delivered(d, before, after)
<1>. DEFINE G(e) == IF d.dir = "out" THEN HostAt(d, e) ELSE SramAt(d, e)
            V(e, k) == CASE d.dir = "in" -> HostAt(d, e) + k + 1
                         [] d.dir = "out" -> ByteAt(before[d.region], SramAt(d, e) + k)
                         [] d.dir = "internal" -> ByteAt(before[d.from], HostAt(d, e) + k)
            W(a) == {ek \in Elements(d) \X (0 .. (Width(d) - 1)) : G(ek[1]) + ek[2] = a}
<1>1. /\ \A e \in Elements(d) : goal[e] = G(e)
      /\ \A e \in Elements(d) : \A k \in 0 .. (Width(d) - 1) : value[<<e, k>>] = V(e, k)
  BY DEF GoalsAre, ValuesAre
<1>2. ASSUME NEW a \in DOMAIN after[place]
      PROVE  /\ W(a) = {} => after[place][a] = before[place][a]
             /\ \A ek \in W(a) : W(a) = {ek} => after[place][a] = V(ek[1], ek[2])
  <2>. HIDE DEF G, V
  <2>0. \A ek : ek \in written[a] <=> ek \in Elements(d) \X (0 .. (Width(d) - 1)) /\ goal[ek[1]] + ek[2] = a
    BY DEF AimedAt
  <2>1. W(a) = written[a]
    BY <1>1, <2>0
  <2>2. /\ W(a) = {} => after[place][a] = before[place][a]
        /\ \A ek \in W(a) : W(a) = {ek} => after[place][a] = value[ek]
    BY <2>1 DEF Brings
  <2>3. ASSUME NEW ek \in W(a) PROVE value[ek] = V(ek[1], ek[2])
    <3>1. ek[1] \in Elements(d) /\ ek[2] \in 0 .. (Width(d) - 1) /\ ek = <<ek[1], ek[2]>>
      OBVIOUS
    <3>. QED
      BY <1>1, <3>1
  <2>. HIDE DEF W
  <2>. QED
    BY <2>2, <2>3
<1>. QED
  BY ZenonT(60), <1>2 DEF Delivered

\* A transfer whose copies agree with the tables delivers its elements.
LEMMA DeliveredByCopies ==
    ASSUME NEW d, DescriptorTyped(d), d.type \in Plain, SpansValid(d),
           NEW before, NEW after, NEW place, NEW to, NEW values, NEW goal, NEW value,
           place = IF d.dir = "out" THEN "host" ELSE d.region,
           DOMAIN before[place] \subseteq Nat,
           after[place] = Pasted(before[place], Copies(d), to, values),
           GoalsAre(d, goal), ValuesAre(d, before, value), TablesAgree(d, to, values, goal, value)
    PROVE  Delivered(d, before, after)
<1>. DEFINE mem == before[place]
            written == [a \in DOMAIN mem |->
                          {ek \in Elements(d) \X (0 .. (Width(d) - 1)) : goal[ek[1]] + ek[2] = a}]
<1>1. AimedAt(d, goal, written, DOMAIN mem)
  BY DEF AimedAt
<1>2. DOMAIN after[place] = DOMAIN mem
  BY DEF Pasted
<1>. HIDE DEF written
<1>3. Brings(mem, Pasted(mem, Copies(d), to, values), written, value)
  BY <1>1, PastedElements
<1>. QED
  BY <1>1, <1>2, <1>3, DeliveredByTables

\* The copies of each direction agree with the elements.
LEMMA DeliveredIn ==
    ASSUME NEW m, MemoryTyped(m), NEW d, DescriptorTyped(d), SpansValid(d), d.type \in Plain, d.dir = "in"
    PROVE  Delivered(d, m, Stored(m, d))
<1>. DEFINE goal == [e \in Elements(d) |-> SramAt(d, e)]
            value == [ek \in Elements(d) \X (0 .. (Width(d) - 1)) |-> HostAt(d, ek[1]) + ek[2] + 1]
            to == AtSram(d)
            values == OfHost(d)
<1>0. d.type # "multicast"
  BY DEF Plain
<1>1. d.region \in {"r", "s"} /\ (d.dir = "internal" => d.from \in {"r", "s"})
  BY <1>0, SpansRegions
<1>2. /\ \A r \in {"r", "s"} : m[r] \in [0 .. (RegionSize[r] - 1) -> Nat] /\ RegionSize[r] \in Nat
      /\ m["host"] \in [0 .. (HostSize - 1) -> Nat] /\ HostSize \in Nat
      /\ DOMAIN m = {"r", "s", "host"}
  BY MemoryParts
<1>3. Stored(m, d)[d.region] = Pasted(m[d.region], Copies(d), to, values) /\ DOMAIN m[d.region] \subseteq Nat
  BY <1>0, <1>1, <1>2, StoredIn
<1>4. TablesAgree(d, to, values, goal, value)
  <2>1. \A i \in DOMAIN Copies(d) : to[i] \in Nat
    BY <1>0, <1>1, <1>2, TablesTyped
  <2>2. ASSUME NEW i \in DOMAIN Copies(d), NEW b \in 0 .. (Copies(d)[i].n - 1),
               NEW e \in Elements(d), NEW k \in 0 .. (Width(d) - 1), SameByte(d, i, b, e, k)
        PROVE  to[i] + b = goal[e] + k /\ values[i][b] = value[<<e, k>>]
    <3>1. /\ Copies(d)[i].host + b = HostAt(d, e) + k
          /\ d.base + Copies(d)[i].sram + b = SramAt(d, e) + k
      BY <2>2 DEF SameByte
    <3>2. /\ AtSram(d)[i] = d.base + Copies(d)[i].sram /\ AtHost(d)[i] = Copies(d)[i].host
          /\ OfHost(d)[i][b] = Copies(d)[i].host + b + 1
          /\ OfRegion(d, m[d.region], AtSram(d))[i][b] = ByteAt(m[d.region], AtSram(d)[i] + b)
      BY DEF AtSram, AtHost, OfHost, OfRegion
    <3>3. goal[e] = SramAt(d, e) /\ value[<<e, k>>] = HostAt(d, e) + k + 1
      OBVIOUS
    <3>. QED
      BY <3>1, <3>2, <3>3
  <2>. HIDE DEF to, values, goal, value
  <2>. QED
    BY <2>1, <2>2 DEF TablesAgree
<1>5. GoalsAre(d, goal)
  BY DEF GoalsAre
<1>6. ValuesAre(d, m, value)
  BY DEF ValuesAre
<1>. HIDE DEF goal, value, to, values
<1>. QED
  BY <1>3, <1>4, <1>5, <1>6, DeliveredByCopies

LEMMA DeliveredOut ==
    ASSUME NEW m, MemoryTyped(m), NEW d, DescriptorTyped(d), SpansValid(d), d.type \in Plain, d.dir = "out"
    PROVE  Delivered(d, m, Stored(m, d))
<1>. DEFINE goal == [e \in Elements(d) |-> HostAt(d, e)]
            value == [ek \in Elements(d) \X (0 .. (Width(d) - 1)) |-> ByteAt(m[d.region], SramAt(d, ek[1]) + ek[2])]
            to == AtHost(d)
            values == OfRegion(d, m[d.region], AtSram(d))
<1>0. d.type # "multicast"
  BY DEF Plain
<1>1. d.region \in {"r", "s"} /\ (d.dir = "internal" => d.from \in {"r", "s"})
  BY <1>0, SpansRegions
<1>2. /\ \A r \in {"r", "s"} : m[r] \in [0 .. (RegionSize[r] - 1) -> Nat] /\ RegionSize[r] \in Nat
      /\ m["host"] \in [0 .. (HostSize - 1) -> Nat] /\ HostSize \in Nat
      /\ DOMAIN m = {"r", "s", "host"}
  BY MemoryParts
<1>3. Stored(m, d)["host"] = Pasted(m["host"], Copies(d), to, values) /\ DOMAIN m["host"] \subseteq Nat
  BY <1>0, <1>1, <1>2, StoredOut
<1>4. TablesAgree(d, to, values, goal, value)
  <2>1. \A i \in DOMAIN Copies(d) : to[i] \in Nat
    BY <1>0, <1>1, <1>2, TablesTyped
  <2>2. ASSUME NEW i \in DOMAIN Copies(d), NEW b \in 0 .. (Copies(d)[i].n - 1),
               NEW e \in Elements(d), NEW k \in 0 .. (Width(d) - 1), SameByte(d, i, b, e, k)
        PROVE  to[i] + b = goal[e] + k /\ values[i][b] = value[<<e, k>>]
    <3>1. /\ Copies(d)[i].host + b = HostAt(d, e) + k
          /\ d.base + Copies(d)[i].sram + b = SramAt(d, e) + k
      BY <2>2 DEF SameByte
    <3>2. /\ AtSram(d)[i] = d.base + Copies(d)[i].sram /\ AtHost(d)[i] = Copies(d)[i].host
          /\ OfHost(d)[i][b] = Copies(d)[i].host + b + 1
          /\ OfRegion(d, m[d.region], AtSram(d))[i][b] = ByteAt(m[d.region], AtSram(d)[i] + b)
      BY DEF AtSram, AtHost, OfHost, OfRegion
    <3>3. goal[e] = HostAt(d, e) /\ value[<<e, k>>] = ByteAt(m[d.region], SramAt(d, e) + k)
      OBVIOUS
    <3>. QED
      BY <3>1, <3>2, <3>3
  <2>. HIDE DEF to, values, goal, value
  <2>. QED
    BY <2>1, <2>2 DEF TablesAgree
<1>5. GoalsAre(d, goal)
  BY DEF GoalsAre
<1>6. ValuesAre(d, m, value)
  BY DEF ValuesAre
<1>. HIDE DEF goal, value, to, values
<1>. QED
  BY <1>3, <1>4, <1>5, <1>6, DeliveredByCopies

LEMMA DeliveredInternal ==
    ASSUME NEW m, MemoryTyped(m), NEW d, DescriptorTyped(d), SpansValid(d), d.type \in Plain, d.dir = "internal"
    PROVE  Delivered(d, m, Stored(m, d))
<1>. DEFINE goal == [e \in Elements(d) |-> SramAt(d, e)]
            value == [ek \in Elements(d) \X (0 .. (Width(d) - 1)) |-> ByteAt(m[d.from], HostAt(d, ek[1]) + ek[2])]
            to == AtSram(d)
            values == OfRegion(d, m[d.from], AtHost(d))
<1>0. d.type # "multicast"
  BY DEF Plain
<1>1. d.region \in {"r", "s"} /\ (d.dir = "internal" => d.from \in {"r", "s"})
  BY <1>0, SpansRegions
<1>2. /\ \A r \in {"r", "s"} : m[r] \in [0 .. (RegionSize[r] - 1) -> Nat] /\ RegionSize[r] \in Nat
      /\ m["host"] \in [0 .. (HostSize - 1) -> Nat] /\ HostSize \in Nat
      /\ DOMAIN m = {"r", "s", "host"}
  BY MemoryParts
<1>3. Stored(m, d)[d.region] = Pasted(m[d.region], Copies(d), to, values) /\ DOMAIN m[d.region] \subseteq Nat
  BY <1>0, <1>1, <1>2, StoredInternal
<1>4. TablesAgree(d, to, values, goal, value)
  <2>1. \A i \in DOMAIN Copies(d) : to[i] \in Nat
    BY <1>0, <1>1, <1>2, TablesTyped
  <2>2. ASSUME NEW i \in DOMAIN Copies(d), NEW b \in 0 .. (Copies(d)[i].n - 1),
               NEW e \in Elements(d), NEW k \in 0 .. (Width(d) - 1), SameByte(d, i, b, e, k)
        PROVE  to[i] + b = goal[e] + k /\ values[i][b] = value[<<e, k>>]
    <3>1. /\ Copies(d)[i].host + b = HostAt(d, e) + k
          /\ d.base + Copies(d)[i].sram + b = SramAt(d, e) + k
      BY <2>2 DEF SameByte
    <3>2. /\ AtSram(d)[i] = d.base + Copies(d)[i].sram /\ AtHost(d)[i] = Copies(d)[i].host
          /\ OfHost(d)[i][b] = Copies(d)[i].host + b + 1
          /\ OfRegion(d, m[d.from], AtHost(d))[i][b] = ByteAt(m[d.from], AtHost(d)[i] + b)
      BY DEF AtSram, AtHost, OfHost, OfRegion
    <3>3. goal[e] = SramAt(d, e) /\ value[<<e, k>>] = ByteAt(m[d.from], HostAt(d, e) + k)
      OBVIOUS
    <3>. QED
      BY <3>1, <3>2, <3>3
  <2>. HIDE DEF to, values, goal, value
  <2>. QED
    BY <2>1, <2>2 DEF TablesAgree
<1>5. GoalsAre(d, goal)
  BY DEF GoalsAre
<1>6. ValuesAre(d, m, value)
  BY DEF ValuesAre
<1>. HIDE DEF goal, value, to, values
<1>. QED
  BY <1>3, <1>4, <1>5, <1>6, DeliveredByCopies

\* A transfer of any direction delivers its elements.
LEMMA TransferDelivers ==
    ASSUME NEW m, MemoryTyped(m), NEW d, DescriptorTyped(d), SpansValid(d), d.type \in Plain
    PROVE  Delivered(d, m, Stored(m, d))
BY DeliveredIn, DeliveredOut, DeliveredInternal DEF DescriptorTyped

\* Items of one size, one after the other, do not overlap.
LEMMA RowsApart ==
    ASSUME NEW n \in Nat \ {0}, NEW i \in Nat, NEW j \in Nat, NEW k \in 0 .. (n - 1),
           j * n <= i * n + k, i * n + k < j * n + n
    PROVE  i = j
<1>. DEFINE r == i * n + k - j * n
<1>1. i * n \in Nat /\ j * n \in Nat
  BY NaturalProduct
<1>2. r \in 0 .. (n - 1) /\ n * j + r = n * i + k
  <2>1. n * j = j * n /\ n * i = i * n
    OBVIOUS
  <2>. QED
    BY <1>1, <2>1
<1>. HIDE DEF r
<1>. QED
  BY <1>2, DivisionUnique

\* The spans of an indexed transfer, and its copies.
LEMMA IndexedLies ==
    ASSUME NEW d, DescriptorTyped(d), d.type \in {"scatter", "gather"}, SpansValid(d), NEW i \in DOMAIN d.index
    PROVE  /\ d.region \in {"r", "s"} /\ RegionSize[d.region] \in Nat
           /\ i \in Nat \ {0} /\ d.index[i] \in Nat /\ d.elem \in Nat
           /\ d.index[i] + d.elem <= RegionSize[d.region]
           /\ Copies(d)[i].n = d.elem /\ Copies(d)[i].host = (i - 1) * d.elem /\ Copies(d)[i].sram = d.index[i]
           /\ AtSram(d)[i] = d.index[i] /\ AtHost(d)[i] = (i - 1) * d.elem /\ (i - 1) * d.elem \in Nat
<1>1. d.region \in {"r", "s"} /\ RegionSize[d.region] \in Nat
  BY SpansRegions, RegionTyped
<1>2. i \in Nat \ {0} /\ d.index[i] \in Nat /\ d.elem \in Nat
  BY DescriptorParts
<1>3. d.index[i] + d.elem <= RegionSize[d.region]
  BY <1>1 DEF SpansValid, RangeFits
<1>. DEFINE h == (i - 1) * d.elem
<1>4. h \in Nat
  <2>1. i - 1 \in Nat
    BY <1>2
  <2>. QED
    BY <1>2, <2>1, NaturalProduct
<1>5. Copies(d)[i] = [n |-> d.elem, host |-> h, sram |-> d.index[i]] /\ i \in DOMAIN Copies(d)
  BY IndexedCopies
<1>. HIDE DEF h
<1>6. Copies(d)[i].n = d.elem /\ Copies(d)[i].host = h /\ Copies(d)[i].sram = d.index[i]
  BY ONLY <1>5
<1>7. AtSram(d)[i] = d.base + d.index[i] /\ AtHost(d)[i] = h
  BY <1>5, <1>6 DEF AtSram, AtHost
<1>8. d.base = 0
  BY DEF DescriptorTyped
<1>. QED
  BY <1>1, <1>2, <1>3, <1>4, <1>6, <1>7, <1>8 DEF h

\* What is scattered to places apart arrives.
LEMMA ScatterDelivers ==
    ASSUME NEW m, MemoryTyped(m), NEW d, DescriptorTyped(d), SpansValid(d), d.type = "scatter", Apart(d)
    PROVE  Scattered(d, Stored(m, d))
<1>1. DOMAIN Copies(d) = DOMAIN d.index /\ DOMAIN d.index = 1 .. Len(d.index) /\ Len(d.index) \in Nat
  BY IndexedCopies, DescriptorParts
<1>. SUFFICES ASSUME NEW i \in DOMAIN d.index, NEW k \in 0 .. (d.elem - 1)
              PROVE  Stored(m, d)[d.region][d.index[i] + k] = IndexedHost(d, i) + k + 1
  BY DEF Scattered
<1>. DEFINE a == d.index[i] + k
<1>2. /\ d.region \in {"r", "s"} /\ RegionSize[d.region] \in Nat
      /\ d.index[i] \in Nat /\ d.elem \in Nat /\ d.index[i] + d.elem <= RegionSize[d.region]
  BY IndexedLies
<1>3. a \in DOMAIN m[d.region]
  <2>1. DOMAIN m[d.region] = 0 .. (RegionSize[d.region] - 1)
    BY <1>2, MemoryParts
  <2>. QED
    BY <1>2, <2>1
<1>4. Stored(m, d)[d.region] = Pasted(m[d.region], Copies(d), AtSram(d), OfHost(d))
  <2>1. d.dir = "in"
    BY DEF DescriptorTyped
  <2>. QED
    BY <1>2, <2>1, MemoryParts, StoredIn
<1>5. \A j \in DOMAIN d.index : Copies(d)[j].n = d.elem /\ AtSram(d)[j] = d.index[j] /\ d.index[j] \in Nat
  BY IndexedLies
<1>6. AtSram(d)[i] <= a /\ a < AtSram(d)[i] + Copies(d)[i].n
  BY <1>2, <1>5
<1>7. ASSUME NEW j \in DOMAIN d.index, AtSram(d)[j] <= a, a < AtSram(d)[j] + Copies(d)[j].n
      PROVE  j = i
  <2>1. ~(d.index[i] + d.elem <= d.index[j]) /\ ~(d.index[j] + d.elem <= d.index[i])
    BY <1>2, <1>5, <1>7
  <2>. QED
    BY <2>1 DEF Apart
<1>. HIDE DEF a
<1>8. Stored(m, d)[d.region][a] = OfHost(d)[i][a - AtSram(d)[i]]
  <2>0. DOMAIN Copies(d) = 1 .. Len(d.index) /\ Len(d.index) \in Nat
    BY <1>1
  <2>1. \/ \A j \in DOMAIN Copies(d) : ~(AtSram(d)[j] <= a /\ a < AtSram(d)[j] + Copies(d)[j].n)
        \/ \E j \in DOMAIN Copies(d) :
             /\ AtSram(d)[j] <= a /\ a < AtSram(d)[j] + Copies(d)[j].n
             /\ Pasted(m[d.region], Copies(d), AtSram(d), OfHost(d))[a] = OfHost(d)[j][a - AtSram(d)[j]]
    BY ONLY <1>3, <2>0, PastedAt
  <2>. QED
    BY <1>1, <1>4, <1>6, <1>7, <2>1
<1>9. a - AtSram(d)[i] = k
  BY <1>2, <1>5 DEF a
<1>10. OfHost(d)[i][k] = Copies(d)[i].host + k + 1
  BY <1>1, <1>5 DEF OfHost
<1>11. Copies(d)[i].host = IndexedHost(d, i)
  BY IndexedLies DEF IndexedHost
<1>. QED
  BY <1>8, <1>9, <1>10, <1>11 DEF a

\* What is gathered arrives in order.
LEMMA GatherDelivers ==
    ASSUME NEW m, MemoryTyped(m), NEW d, DescriptorTyped(d), SpansValid(d), d.type = "gather"
    PROVE  Gathered(d, m, Stored(m, d))
<1>1. DOMAIN Copies(d) = DOMAIN d.index /\ DOMAIN d.index = 1 .. Len(d.index) /\ Len(d.index) \in Nat
  BY IndexedCopies, DescriptorParts
<1>. SUFFICES ASSUME NEW i \in DOMAIN d.index, NEW k \in 0 .. (d.elem - 1), IndexedHost(d, i) + k < HostSize
              PROVE  Stored(m, d)["host"][IndexedHost(d, i) + k] = m[d.region][d.index[i] + k]
  BY DEF Gathered
<1>. DEFINE a == IndexedHost(d, i) + k
<1>2. /\ d.region \in {"r", "s"} /\ RegionSize[d.region] \in Nat
      /\ d.index[i] \in Nat /\ d.elem \in Nat /\ d.index[i] + d.elem <= RegionSize[d.region]
  BY IndexedLies
<1>3. \A j \in DOMAIN d.index :
         Copies(d)[j].n = d.elem /\ AtHost(d)[j] = IndexedHost(d, j) /\ IndexedHost(d, j) \in Nat
  BY IndexedLies DEF IndexedHost
<1>4. a \in DOMAIN m["host"]
  BY <1>3, MemoryParts
<1>5. Stored(m, d)["host"] = Pasted(m["host"], Copies(d), AtHost(d), OfRegion(d, m[d.region], AtSram(d)))
  <2>1. d.dir = "out"
    BY DEF DescriptorTyped
  <2>. QED
    BY <2>1, MemoryParts, StoredOut
<1>6. AtHost(d)[i] <= a /\ a < AtHost(d)[i] + Copies(d)[i].n
  BY <1>2, <1>3
<1>7. ASSUME NEW j \in DOMAIN d.index, AtHost(d)[j] <= a, a < AtHost(d)[j] + Copies(d)[j].n
      PROVE  j = i
  <2>1. IndexedHost(d, j) <= IndexedHost(d, i) + k /\ IndexedHost(d, i) + k < IndexedHost(d, j) + d.elem
    BY <1>3, <1>7
  <2>2. i - 1 \in Nat /\ j - 1 \in Nat /\ d.elem \in Nat \ {0}
    BY <1>1, <1>2
  <2>3. (j - 1) * d.elem <= (i - 1) * d.elem + k /\ (i - 1) * d.elem + k < (j - 1) * d.elem + d.elem
    BY <2>1 DEF IndexedHost
  <2>4. i - 1 = j - 1
    BY ONLY <2>2, <2>3, k \in 0 .. (d.elem - 1), RowsApart
  <2>. QED
    BY <1>1, <2>4
<1>. HIDE DEF a
<1>8. Stored(m, d)["host"][a] = OfRegion(d, m[d.region], AtSram(d))[i][a - AtHost(d)[i]]
  <2>. DEFINE V == OfRegion(d, m[d.region], AtSram(d))
  <2>. HIDE DEF V
  <2>1. \/ \A j \in DOMAIN Copies(d) : ~(AtHost(d)[j] <= a /\ a < AtHost(d)[j] + Copies(d)[j].n)
        \/ \E j \in DOMAIN Copies(d) :
             /\ AtHost(d)[j] <= a /\ a < AtHost(d)[j] + Copies(d)[j].n
             /\ Pasted(m["host"], Copies(d), AtHost(d), V)[a] = V[j][a - AtHost(d)[j]]
    BY <1>1, <1>4, PastedAt
  <2>2. Stored(m, d)["host"] = Pasted(m["host"], Copies(d), AtHost(d), V)
    BY <1>5 DEF V
  <2>3. Stored(m, d)["host"][a] = V[i][a - AtHost(d)[i]]
    BY <1>1, <1>6, <1>7, <2>1, <2>2
  <2>. QED
    BY <2>3 DEF V
<1>9. a - AtHost(d)[i] = k
  BY <1>3 DEF a
<1>10. OfRegion(d, m[d.region], AtSram(d))[i][k] = ByteAt(m[d.region], AtSram(d)[i] + k)
  BY <1>1, <1>3 DEF OfRegion
<1>11. AtSram(d)[i] = d.index[i]
  BY IndexedLies
<1>12. d.index[i] + k \in DOMAIN m[d.region]
  BY <1>2, MemoryParts
<1>. QED
  BY <1>8, <1>9, <1>10, <1>11, <1>12 DEF a, ByteAt

\* A target alone in its region receives the whole message.
LEMMA MulticastDelivers ==
    ASSUME NEW m, MemoryTyped(m), NEW d, DescriptorTyped(d), SpansValid(d), d.type = "multicast"
    PROVE  MulticastDone(d, Stored(m, d))
<1>1. DOMAIN d.targets = 1 .. Len(d.targets) /\ Len(d.targets) \in Nat
  BY DescriptorParts
<1>. SUFFICES ASSUME NEW t \in DOMAIN d.targets,
                     \A u \in DOMAIN d.targets : u # t => d.targets[u][1] # d.targets[t][1],
                     NEW k \in 0 .. (d.dims[1] * d.elem - 1)
              PROVE  Stored(m, d)[d.targets[t][1]][d.targets[t][2] + k] = k + 1
  BY DEF MulticastDone
<1>. DEFINE r == d.targets[t][1]
            n == d.dims[1] * d.elem
            a == d.targets[t][2] + k
            hits == {u \in DOMAIN d.targets :
                        /\ d.targets[u][1] = r
                        /\ d.targets[u][2] <= a /\ a < d.targets[u][2] + n}
<1>2. r \in {"r", "s"} /\ d.targets[t][2] \in Nat
  BY DescriptorParts DEF SpansValid
<1>3. n \in Nat /\ RegionSize[r] \in Nat
  BY <1>2, DescriptorParts, NaturalProduct, RegionTyped
<1>4. d.targets[t][2] + n <= RegionSize[r]
  BY <1>2 DEF SpansValid, RangeFits
<1>5. k \in 0 .. (n - 1)
  OBVIOUS
<1>6. Stored(m, d)[r] = Received(m[r], d, r)
  BY <1>2, MemoryParts, StoredMulticast
<1>7. Received(m[r], d, r)[a] = IF hits = {} THEN m[r][a] ELSE a - d.targets[Max(hits)][2] + 1
  <2>. HIDE DEF n
  <2>1. a \in DOMAIN m[r]
    <3>1. DOMAIN m[r] = 0 .. (RegionSize[r] - 1)
      BY <1>2, MemoryParts
    <3>. QED
      BY <1>2, <1>3, <1>4, <1>5, <3>1
  <2>. HIDE DEF r, a
  <2>. QED
    BY <2>1 DEF Received, n
<1>. HIDE DEF n
<1>8. hits = {t}
  BY <1>2, <1>3, <1>5
<1>9. Max(hits) = t
  <2>1. hits \in SUBSET Int /\ \A x \in hits : 1 <= x /\ x <= Len(d.targets)
    BY <1>1
  <2>2. 1 \in Int /\ Len(d.targets) \in Int
    BY <1>1
  <2>. HIDE DEF hits
  <2>3. Max(hits) \in hits
    BY <1>8, <2>1, <2>2, GreatestMember
  <2>. QED
    BY <1>8, <2>3
<1>10. a - d.targets[t][2] + 1 = k + 1
  BY <1>2
<1>. HIDE DEF hits, a
<1>11. Stored(m, d)[r][a] = k + 1
  BY <1>6, <1>7, <1>8, <1>9, <1>10
<1>. QED
  BY <1>11 DEF r, a

\* The descriptor of a legacy call.
LegacyDescriptor(o, writes) ==
    [Made(o) EXCEPT !.region = o.region, !.dir = IF writes THEN "out" ELSE "in", !.ext = 0]

\* It has the shape of a plain descriptor, and the check of the call is that of its span.
LEMMA LegacyTyped ==
    ASSUME NEW o \in Orders, NEW writes \in BOOLEAN, o.make = "linear", o.region # "none",
           o.base + LegacyDescriptor(o, writes).bytes <= RegionSize[o.region]
    PROVE  /\ DescriptorTyped(LegacyDescriptor(o, writes)) /\ SpansValid(LegacyDescriptor(o, writes))
           /\ LegacyDescriptor(o, writes).ext \in Nat /\ LegacyDescriptor(o, writes).region \in {"r", "s"}
<1>. DEFINE d == LegacyDescriptor(o, writes)
            m == Made(o)
<1>1. DescriptorTyped(m)
  BY MadeTyped
<1>2. /\ d.type = m.type /\ d.from = m.from /\ d.ch = m.ch /\ d.base = m.base /\ d.elem = m.elem
      /\ d.bytes = m.bytes /\ d.dims = m.dims /\ d.sramStride = m.sramStride /\ d.hostStride = m.hostStride
      /\ d.index = m.index /\ d.targets = m.targets
      /\ d.region = o.region /\ d.dir \in {"in", "out"} /\ d.ext = 0
  BY DEF LegacyDescriptor, Made
<1>3. m.type = "linear" /\ m.from = "none" /\ m.base = o.base
  BY DEF Made
<1>4. o.region \in {"r", "s"}
  BY TransferAssumption DEF OrderTyped
<1>5. o.base + d.bytes <= RegionSize[o.region]
  OBVIOUS
<1>. HIDE DEF d, m
<1>8. /\ d.ch \in Nat /\ d.base \in Nat /\ d.elem \in Nat /\ d.bytes \in Nat
      /\ d.dims \in Nat \X Nat \X Nat /\ d.sramStride \in Nat \X Nat /\ d.hostStride \in Nat \X Nat
      /\ d.index \in Seq(Nat) /\ d.targets \in Seq({"r", "s", "none"} \X Nat)
  BY <1>1, <1>2 DEF DescriptorTyped
<1>9. /\ d.type = "linear" /\ d.dir \in {"in", "out", "internal"} /\ d.from = "none"
      /\ d.region \in {"r", "s", "none"} /\ d.ext \in Nat \cup {Unset}
  BY <1>2, <1>3, <1>4
<1>6. DescriptorTyped(d)
  BY <1>8, <1>9 DEF DescriptorTyped
<1>7. SpansValid(d)
  BY <1>2, <1>3, <1>4, <1>5 DEF SpansValid, RangeFits
<1>. QED
  BY <1>2, <1>4, <1>6, <1>7 DEF d

\* Executing a descriptor leaves numbers in memory, its elements at their
\* places and its copies within their regions.
LEMMA ExecutionDelivers ==
    ASSUME NEW d, DescriptorTyped(d), SpansValid(d), MemoryTyped(memory), memory' = Stored(memory, d),
           last' = [done |-> TRUE, d |-> d, before |-> memory]
    PROVE  MemoryTyped(memory)' /\ ElementsArrive' /\ IndexedArrive'
<1>1. MemoryTyped(memory')
  BY StoredTyped
<1>2. last'.d = d /\ last'.before = memory
  OBVIOUS
<1>3. d.type \in Plain => Delivered(d, memory, memory')
  BY TransferDelivers
<1>4. ElementsArrive'
  BY <1>2, <1>3 DEF ElementsArrive, Plain
<1>5. IndexedArrive'
  BY <1>2, ScatterDelivers, GatherDelivers, MulticastDelivers DEF IndexedArrive
<1>. QED
  BY <1>1, <1>4, <1>5

-------------------------------------------------------------------------------
(* Cycles are numbers.                                                         *)

LEMMA CeilDivType == ASSUME NEW n \in Nat, NEW k \in Nat \ {0} PROVE CeilDiv(n, k) \in Nat
<1>1. n + k - 1 \in Nat
  OBVIOUS
<1>. QED
  BY <1>1, Division DEF CeilDiv

\* A working engine's timing.
EngineTimed(e) == Timed(e) /\ e.bus > 0

LEMMA EngineParts ==
    ASSUME NEW e, EngineTimed(e), NEW d
    PROVE  /\ e.bus \in Nat \ {0} /\ BurstBytes(e, d) \in Nat \ {0} /\ IssueCycles(e, d) \in Nat
           /\ e.readLatency \in Nat /\ e.writeLatency \in Nat
BY DEF EngineTimed, Timed, BurstBytes, IssueCycles

\* Segments have numbers for their count and size.
LEMMA SegmentType ==
    ASSUME NEW d, DescriptorTyped(d)
    PROVE  SegmentCount(d) \in Nat /\ SegmentBytes(d) \in Nat /\ d.bytes \in Nat
<1>1. /\ d.elem \in Nat /\ d.bytes \in Nat /\ d.dims[1] \in Nat /\ d.dims[2] \in Nat /\ d.dims[3] \in Nat
      /\ Len(d.index) \in Nat
  BY DescriptorParts
<1>2. d.dims[1] * d.dims[2] \in Nat /\ d.elem * d.dims[2] \in Nat /\ d.elem * d.dims[3] \in Nat
  BY <1>1, NaturalProduct
<1>3. SegmentCount(d) \in Nat
  BY <1>1, <1>2 DEF SegmentCount
<1>4. SegmentBytes(d) \in Nat
  BY <1>1, <1>2 DEF SegmentBytes
<1>. QED
  BY <1>1, <1>3, <1>4

\* A segment has numbers for its address in SRAM and its size.
SegmentTyped(s) == s[1] \in Nat /\ s[2] \in Int /\ s[3] \in Nat

LEMMA TripleTyped == \A x \in Nat, y \in Int, z \in Nat : SegmentTyped(<<x, y, z>>)
BY DEF SegmentTyped

\* So have the segments themselves.
LEMMA SegmentsTyped ==
    ASSUME NEW d, DescriptorTyped(d)
    PROVE  /\ \E N \in Nat : DOMAIN AllSegments(d) = 1 .. N
           /\ \A i \in DOMAIN AllSegments(d) : SegmentTyped(AllSegments(d)[i])
<1>0. /\ d.base \in Nat /\ d.elem \in Nat /\ d.bytes \in Nat
      /\ d.dims[1] \in Nat /\ d.dims[2] \in Nat /\ d.dims[3] \in Nat
      /\ d.sramStride[1] \in Nat /\ d.sramStride[2] \in Nat
      /\ d.hostStride[1] \in Nat /\ d.hostStride[2] \in Nat
      /\ DOMAIN d.index = 1 .. Len(d.index) /\ Len(d.index) \in Nat
      /\ \A i \in DOMAIN d.index : d.index[i] \in Nat
      /\ DOMAIN d.targets = 1 .. Len(d.targets) /\ Len(d.targets) \in Nat
      /\ \A t \in DOMAIN d.targets : d.targets[t][2] \in Nat
  BY DescriptorParts
<1>1. d.ext \in Int
  BY DEF DescriptorTyped, Unset
<1>2. SegmentBytes(d) \in Nat
  BY SegmentType
<1>3. CASE d.bytes = 0 \/ SegmentBytes(d) = 0
  <2>1. AllSegments(d) = <<>>
    BY <1>3 DEF AllSegments
  <2>2. DOMAIN AllSegments(d) = 1 .. 0
    BY <2>1
  <2>3. \A i \in 1 .. 0 : SegmentTyped(AllSegments(d)[i])
    OBVIOUS
  <2>. QED
    BY <2>2, <2>3
<1>4. CASE ~(d.bytes = 0 \/ SegmentBytes(d) = 0) /\ d.type = "2d"
  <2>. DEFINE S(i) == (i - 1) * d.sramStride[1]
              H(i) == (i - 1) * d.hostStride[1]
  <2>1. AllSegments(d) = [i \in 1 .. d.dims[1] |-> <<d.base + S(i), d.ext + H(i), SegmentBytes(d)>>]
    BY <1>4 DEF AllSegments
  <2>2. \A i \in 1 .. d.dims[1] : S(i) \in Nat /\ H(i) \in Nat
    <3>. TAKE i \in 1 .. d.dims[1]
    <3>1. i - 1 \in Nat
      BY <1>0
    <3>. QED
      BY <1>0, <3>1, NaturalProduct
  <2>. HIDE DEF S, H
  <2>3. ASSUME NEW i \in 1 .. d.dims[1] PROVE SegmentTyped(AllSegments(d)[i])
    <3>1. AllSegments(d)[i] = <<d.base + S(i), d.ext + H(i), SegmentBytes(d)>>
      BY <2>1
    <3>3. d.base \in Nat /\ d.ext \in Int /\ S(i) \in Nat /\ H(i) \in Nat
      BY <1>0, <1>1, <2>2
    <3>2. d.base + S(i) \in Nat /\ d.ext + H(i) \in Int
      BY ONLY <3>3
    <3>. QED
      BY <1>2, <3>1, <3>2, TripleTyped
  <2>4. DOMAIN AllSegments(d) = 1 .. d.dims[1]
    BY <2>1
  <2>. QED
    BY <1>0, <2>3, <2>4
<1>5. CASE ~(d.bytes = 0 \/ SegmentBytes(d) = 0) /\ d.type = "3d"
  <2>. DEFINE Z(i) == (i - 1) \div d.dims[2]
              Y(i) == (i - 1) % d.dims[2]
              N == d.dims[1] * d.dims[2]
  <2>1. AllSegments(d) =
          [i \in 1 .. N |-> <<d.base + Z(i) * d.sramStride[2] + Y(i) * d.sramStride[1],
                              d.ext + (Z(i) * d.hostStride[2] + Y(i) * d.hostStride[1]), SegmentBytes(d)>>]
    BY <1>5 DEF AllSegments
  <2>2. N \in Nat
    BY <1>0, NaturalProduct
  <2>3. \A i \in 1 .. N : Z(i) \in Nat /\ Y(i) \in Nat
    <3>. TAKE i \in 1 .. N
    <3>1. Z(i) \in 0 .. (d.dims[1] - 1) /\ Y(i) \in 0 .. (d.dims[2] - 1)
      BY <1>0, CubePlace
    <3>. QED
      BY <1>0, <3>1
  <2>. HIDE DEF Z, Y, N
  <2>4. ASSUME NEW i \in 1 .. N PROVE SegmentTyped(AllSegments(d)[i])
    <3>. DEFINE a == Z(i) * d.sramStride[2]
                b == Y(i) * d.sramStride[1]
                g == Z(i) * d.hostStride[2]
                h == Y(i) * d.hostStride[1]
    <3>1. a \in Nat /\ b \in Nat /\ g \in Nat /\ h \in Nat
      BY <1>0, <2>3, NaturalProduct
    <3>2. AllSegments(d)[i] = <<d.base + a + b, d.ext + (g + h), SegmentBytes(d)>>
      BY <2>1
    <3>. HIDE DEF a, b, g, h
    <3>4. d.base \in Nat /\ d.ext \in Int
      BY <1>0, <1>1
    <3>3. d.base + a + b \in Nat /\ d.ext + (g + h) \in Int
      BY ONLY <3>1, <3>4
    <3>. QED
      BY <1>2, <3>2, <3>3, TripleTyped
  <2>5. DOMAIN AllSegments(d) = 1 .. N
    BY <2>1
  <2>. QED
    BY <2>2, <2>4, <2>5
<1>6. CASE ~(d.bytes = 0 \/ SegmentBytes(d) = 0) /\ d.type \in {"scatter", "gather"}
  <2>. DEFINE H(i) == (i - 1) * d.elem
  <2>1. AllSegments(d) = [i \in DOMAIN d.index |-> <<d.index[i], d.ext + H(i), d.elem>>]
    BY <1>6 DEF AllSegments
  <2>2. \A i \in DOMAIN d.index : H(i) \in Nat
    <3>. TAKE i \in DOMAIN d.index
    <3>1. i - 1 \in Nat
      BY <1>0
    <3>. QED
      BY <1>0, <3>1, NaturalProduct
  <2>. HIDE DEF H
  <2>. QED
    BY <1>0, <1>1, <2>1, <2>2 DEF SegmentTyped
<1>7. CASE ~(d.bytes = 0 \/ SegmentBytes(d) = 0) /\ d.type = "multicast"
  <2>. DEFINE n == d.dims[1] * d.elem
  <2>1. AllSegments(d) = [t \in DOMAIN d.targets |-> <<d.targets[t][2], d.ext + 0, n>>]
    BY <1>7 DEF AllSegments
  <2>2. n \in Nat
    BY <1>0, NaturalProduct
  <2>. HIDE DEF n
  <2>. QED
    BY <1>0, <1>1, <2>1, <2>2 DEF SegmentTyped
<1>8. CASE ~(d.bytes = 0 \/ SegmentBytes(d) = 0) /\ d.type = "linear"
  <2>1. AllSegments(d) = <<<<d.base, d.ext + 0, d.bytes>>>>
    BY <1>8 DEF AllSegments
  <2>2. DOMAIN AllSegments(d) = 1 .. 1 /\ AllSegments(d)[1] = <<d.base, d.ext + 0, d.bytes>>
    BY <2>1
  <2>3. SegmentTyped(AllSegments(d)[1])
    BY <1>0, <1>1, <2>2 DEF SegmentTyped
  <2>4. \A i \in 1 .. 1 : i = 1
    OBVIOUS
  <2>. QED
    BY <2>2, <2>3, <2>4
<1>. QED
  BY <1>3, <1>4, <1>5, <1>6, <1>7, <1>8 DEF DescriptorTyped

\* There is always room up to the next boundary.
LEMMA RoomPositive ==
    ASSUME NEW bound \in BOOLEAN, NEW address \in Int, NEW boundary \in Nat \ {0}, NEW n \in Nat \ {0}
    PROVE  Room(bound, address, boundary, n) \in Nat \ {0}
<1>1. address % boundary \in 0 .. (boundary - 1)
  OBVIOUS
<1>. QED
  BY <1>1 DEF Room

\* add_address_bounded_segment always makes progress.
LEMMA ChunkAdvances ==
    ASSUME NEW e, EngineTimed(e), NEW d, DescriptorTyped(d), NEW seg, SegmentTyped(seg),
           NEW left \in 1 .. seg[3]
    PROVE  Chunk(e, d, seg, left) \in 1 .. left
<1>. DEFINE done == seg[3] - left
            a == Room(SramBound(e), seg[1] + done, SramBoundary(e, d), left)
            b == Room(ExternalBound(e), seg[2] + done, ExternalBoundary(e, d), left)
            S == {left, BurstBytes(e, d), a, b}
<1>1. seg[1] \in Nat /\ seg[2] \in Int /\ seg[3] \in Nat
  BY DEF SegmentTyped
<1>2. seg[1] + done \in Int /\ seg[2] + done \in Int /\ left \in Nat \ {0}
  BY <1>1
<1>3. BurstBytes(e, d) \in Nat \ {0} /\ Page \in Nat \ {0}
  BY EngineParts, TransferAssumption
<1>4. SramBoundary(e, d) \in Nat \ {0} /\ ExternalBoundary(e, d) \in Nat \ {0}
  BY <1>3 DEF SramBoundary, ExternalBoundary
<1>5. SramBound(e) \in BOOLEAN /\ ExternalBound(e) \in BOOLEAN
  BY DEF SramBound, ExternalBound
<1>6. a \in Nat \ {0}
  BY <1>2, <1>4, <1>5, RoomPositive
<1>7. b \in Nat \ {0}
  BY <1>2, <1>4, <1>5, RoomPositive
<1>8. Chunk(e, d, seg, left) = Min(S)
  BY DEF Chunk
<1>. HIDE DEF a, b
<1>9. S \in SUBSET Int /\ S # {} /\ 1 \in Int /\ \A x \in S : 1 <= x
  BY <1>2, <1>3, <1>6, <1>7
<1>10. left \in S
  OBVIOUS
<1>. HIDE DEF S
<1>11. Min(S) \in S /\ Min(S) \in Int /\ \A y \in S : Min(S) <= y
  BY <1>9, LeastMember
<1>. QED
  BY <1>8, <1>9, <1>10, <1>11

\* One step of BoundedSegment.
SegmentStep(e, d, seg, rest, left) ==
    IF left = 0 THEN <<0, 0>>
    ELSE <<rest[left - Chunk(e, d, seg, left)][1] + 1,
           rest[left - Chunk(e, d, seg, left)][2] + CeilDiv(Chunk(e, d, seg, left), e.bus)>>

LEMMA SegmentUnfolds ==
    ASSUME NEW e, NEW d, NEW seg
    PROVE  BoundedSegment(e, d, seg) =
             (CHOOSE rest : rest = [left \in 0 .. seg[3] |-> SegmentStep(e, d, seg, rest, left)])[seg[3]]
BY DEF BoundedSegment, SegmentStep

\* The bursts and payload cycles of a segment exist, as each burst leaves fewer bytes.
Unrolls(e, d, seg, rest) ==
    /\ rest \in [0 .. seg[3] -> Nat \X Nat]
    /\ \A left \in 0 .. seg[3] : rest[left] = SegmentStep(e, d, seg, rest, left)

LEMMA SegmentUnrolls ==
    ASSUME NEW e, EngineTimed(e), NEW d, DescriptorTyped(d), NEW seg, SegmentTyped(seg)
    PROVE  \E rest : Unrolls(e, d, seg, rest) /\ BoundedSegment(e, d, seg) = rest[seg[3]]
<1>. DEFINE M == seg[3]
            D == 0 .. M
            V == Nat \X Nat
            rank == [i \in D |-> i]
            Step(f, i) == SegmentStep(e, d, seg, f, i)
            next(i) == i - Chunk(e, d, seg, i)
            G == [i \in D |-> [f \in [D -> V] |-> Step(f, i)]]
<1>1. M \in Nat /\ e.bus \in Nat \ {0}
  BY EngineParts DEF SegmentTyped
<1>2. ASSUME NEW i \in D, i # 0
      PROVE  Chunk(e, d, seg, i) \in 1 .. i /\ next(i) \in D /\ next(i) < i /\ CeilDiv(Chunk(e, d, seg, i), e.bus) \in Nat
  <2>1. i \in 1 .. seg[3]
    BY <1>1, <1>2
  <2>2. Chunk(e, d, seg, i) \in 1 .. i
    BY <2>1, ChunkAdvances
  <2>3. CeilDiv(Chunk(e, d, seg, i), e.bus) \in Nat
    <3>1. Chunk(e, d, seg, i) \in Nat
      BY <1>1, <2>1, <2>2
    <3>. QED
      BY <1>1, <3>1, CeilDivType
  <2>. QED
    BY <1>1, <2>1, <2>2, <2>3
<1>3. ASSUME NEW f, NEW i \in D, i # 0 => f[next(i)] \in V
      PROVE  Step(f, i) \in V
  <2>1. CASE i = 0
    BY <2>1 DEF SegmentStep
  <2>2. CASE i # 0
    <3>1. Step(f, i) = <<f[next(i)][1] + 1, f[next(i)][2] + CeilDiv(Chunk(e, d, seg, i), e.bus)>>
      BY <2>2 DEF SegmentStep
    <3>2. f[next(i)] \in V /\ CeilDiv(Chunk(e, d, seg, i), e.bus) \in Nat
      BY <1>2, <1>3, <2>2
    <3>3. f[next(i)][1] \in Nat /\ f[next(i)][2] \in Nat
      BY <3>2
    <3>. HIDE DEF next, Step
    <3>. QED
      BY <3>1, <3>2, <3>3
  <2>. QED
    BY <2>1, <2>2
<1>4. G \in [D -> [[D -> V] -> V]] /\ rank \in [D -> 0 .. M]
  <2>1. \A i \in D : \A f \in [D -> V] : Step(f, i) \in V
    <3>. TAKE i \in D
    <3>. TAKE f \in [D -> V]
    <3>1. i # 0 => f[next(i)] \in V
      <4>1. i # 0 => next(i) \in D
        BY <1>2
      <4>. HIDE DEF next, D, V
      <4>. QED
        BY <4>1
    <3>. HIDE DEF Step, next, V, D
    <3>. QED
      BY <1>3, <3>1
  <2>2. rank \in [D -> 0 .. M]
    OBVIOUS
  <2>. HIDE DEF Step, V, D
  <2>. QED
    BY <2>1, <2>2
<1>5. Causal(D, V, rank, G)
  <2>1. ASSUME NEW i \in D, NEW f \in [D -> V], NEW g \in [D -> V],
               \A j \in D : rank[j] < rank[i] => f[j] = g[j]
        PROVE  G[i][f] = G[i][g]
    <3>1. G[i][f] = Step(f, i) /\ G[i][g] = Step(g, i)
      <4>. HIDE DEF Step, V, D
      <4>. QED
        OBVIOUS
    <3>2. CASE i = 0
      <4>1. Step(f, i) = Step(g, i)
        BY <3>2 DEF SegmentStep
      <4>. HIDE DEF G, Step
      <4>. QED
        BY <3>1, <4>1
    <3>3. CASE i # 0
      <4>1. next(i) \in D /\ next(i) < i
        BY <1>2, <3>3
      <4>. HIDE DEF next
      <4>2. f[next(i)] = g[next(i)]
        BY <2>1, <4>1
      <4>3. Step(f, i) = Step(g, i)
        BY <3>3, <4>2 DEF SegmentStep, next
      <4>. HIDE DEF G, Step
      <4>. QED
        BY <3>1, <4>3
    <3>. QED
      BY <3>2, <3>3
  <2>. HIDE DEF G, rank, D, V
  <2>. QED
    BY <2>1 DEF Causal
<1>6. <<0, 0>> \in V
  OBVIOUS
<1>. HIDE DEF G, rank, V, D, next, Step
<1>. PICK f \in [D -> V] : \A i \in D : f[i] = G[i][f]
  <2>1. Solvable(D, V, G)
    BY ONLY <1>1, <1>4, <1>5, <1>6, BoundedRecursion
  <2>. QED
    BY <2>1 DEF Solvable
<1>7. \A i \in D : f[i] = Step(f, i)
  BY DEF G
<1>8. f = [i \in D |-> Step(f, i)]
  BY <1>7
<1>. DEFINE R == CHOOSE rest : rest = [left \in D |-> Step(rest, left)]
<1>9. R = [i \in D |-> Step(R, i)]
  BY <1>8
<1>10. BoundedSegment(e, d, seg) = R[M]
  BY SegmentUnfolds DEF D, M, Step
<1>. HIDE DEF R
<1>11. \A i \in D : R[i] = Step(R, i)
  BY <1>9
<1>. DEFINE Bad == {i \in D : R[i] \notin V}
<1>12. Bad = {}
  <2>. SUFFICES ASSUME Bad # {} PROVE FALSE
    OBVIOUS
  <2>1. Bad \in SUBSET Nat
    BY DEF D
  <2>2. PICK i \in Bad : \A k \in Bad : i <= k
    BY <2>1, LeastNatural
  <2>3. i # 0 => R[next(i)] \in V
    <3>. SUFFICES ASSUME i # 0 PROVE R[next(i)] \in V
      OBVIOUS
    <3>1. next(i) \in D /\ next(i) < i
      BY <1>2
    <3>2. i \in Nat /\ next(i) \in Nat
      BY <2>1, <3>1 DEF D
    <3>. QED
      BY <2>2, <3>1, <3>2
  <2>4. R[i] \in V
    BY <1>3, <1>11, <2>3
  <2>. QED
    BY <2>4
<1>13. R \in [D -> V]
  <2>1. DOMAIN R = D /\ R = [i \in D |-> R[i]]
    BY <1>9
  <2>. HIDE DEF D, V
  <2>. QED
    BY <1>12, <2>1
<1>. HIDE DEF Bad
<1>. QED
  BY <1>10, <1>11, <1>13 DEF Unrolls, V, D, M, Step

LEMMA BoundedSegmentTyped ==
    ASSUME NEW e, EngineTimed(e), NEW d, DescriptorTyped(d), NEW seg, SegmentTyped(seg)
    PROVE  BoundedSegment(e, d, seg) \in Nat \X Nat
<1>1. PICK rest : Unrolls(e, d, seg, rest) /\ BoundedSegment(e, d, seg) = rest[seg[3]]
  BY SegmentUnrolls
<1>2. seg[3] \in 0 .. seg[3]
  BY DEF SegmentTyped
<1>. QED
  BY <1>1, <1>2 DEF Unrolls

\* The cycles of each scope are numbers.
LEMMA BoundedTotalTyped ==
    ASSUME NEW e, EngineTimed(e), NEW d, DescriptorTyped(d), NEW k \in {1, 2}
    PROVE  BoundedTotal(e, d, k) \in Nat
<1>. DEFINE S == DOMAIN AllSegments(d)
            f == [i \in S |-> BoundedSegment(e, d, AllSegments(d)[i])[k]]
<1>1. PICK N \in Nat : S = 1 .. N
  BY SegmentsTyped
<1>2. IsFiniteSet(S)
  <2>1. 1 \in Int /\ N \in Int
    OBVIOUS
  <2>. HIDE DEF S
  <2>. QED
    BY <1>1, <2>1, FS_Interval
<1>3. \A i \in S : BoundedSegment(e, d, AllSegments(d)[i]) \in Nat \X Nat
  BY SegmentsTyped, BoundedSegmentTyped
<1>4. \A i \in S : BoundedSegment(e, d, AllSegments(d)[i])[k] \in Nat
  BY <1>3
<1>. HIDE DEF S
<1>5. f \in [S -> Nat]
  BY <1>4
<1>6. BoundedTotal(e, d, k) = SumFunction(f)
  BY DEF BoundedTotal, S
<1>. HIDE DEF f
<1>. QED
  BY <1>2, <1>5, <1>6, SumIsBarTotal, BarsFinite

LEMMA BurstAlignedTyped ==
    ASSUME NEW n \in Nat, NEW burst \in Nat \ {0}, NEW bus \in Nat \ {0}
    PROVE  BurstAligned(n, burst, bus) \in Nat
<1>1. n \div burst \in Nat /\ n % burst \in Nat
  BY Division
<1>2. CeilDiv(burst, bus) \in Nat /\ CeilDiv(n % burst, bus) \in Nat
  BY <1>1, CeilDivType
<1>3. (n \div burst) * CeilDiv(burst, bus) \in Nat
  BY <1>1, <1>2, NaturalProduct
<1>. DEFINE x == (n \div burst) * CeilDiv(burst, bus)
            y == CeilDiv(n % burst, bus)
<1>4. BurstAligned(n, burst, bus) = x + y
  BY DEF BurstAligned
<1>. HIDE DEF x, y
<1>. QED
  BY <1>2, <1>3, <1>4 DEF x, y

LEMMA BurstCountTyped ==
    ASSUME NEW e, EngineTimed(e), NEW d, DescriptorTyped(d)
    PROVE  BurstCount(e, d) \in Nat
<1>1. SegmentCount(d) \in Nat /\ SegmentBytes(d) \in Nat /\ d.bytes \in Nat
  BY SegmentType
<1>2. BurstBytes(e, d) \in Nat \ {0}
  BY EngineParts
<1>3. CeilDiv(d.bytes, BurstBytes(e, d)) \in Nat /\ CeilDiv(SegmentBytes(d), BurstBytes(e, d)) \in Nat
  BY <1>1, <1>2, CeilDivType
<1>4. SegmentCount(d) * CeilDiv(SegmentBytes(d), BurstBytes(e, d)) \in Nat
  BY <1>1, <1>3, NaturalProduct
<1>5. BoundedTotal(e, d, 1) \in Nat
  BY BoundedTotalTyped
<1>. QED
  BY <1>3, <1>4, <1>5 DEF BurstCount

LEMMA PayloadTyped ==
    ASSUME NEW e, EngineTimed(e), NEW d, DescriptorTyped(d)
    PROVE  PayloadCycles(e, d) \in Nat
<1>1. SegmentCount(d) \in Nat /\ SegmentBytes(d) \in Nat /\ d.bytes \in Nat
  BY SegmentType
<1>2. BurstBytes(e, d) \in Nat \ {0} /\ e.bus \in Nat \ {0}
  BY EngineParts
<1>3. CeilDiv(d.bytes, e.bus) \in Nat /\ CeilDiv(SegmentBytes(d), e.bus) \in Nat
  BY <1>1, <1>2, CeilDivType
<1>4. /\ BurstAligned(SegmentBytes(d), BurstBytes(e, d), e.bus) \in Nat
      /\ BurstAligned(d.bytes, BurstBytes(e, d), e.bus) \in Nat
  BY <1>1, <1>2, BurstAlignedTyped
<1>5. /\ SegmentCount(d) * CeilDiv(SegmentBytes(d), e.bus) \in Nat
      /\ SegmentCount(d) * BurstAligned(SegmentBytes(d), BurstBytes(e, d), e.bus) \in Nat
  BY <1>1, <1>3, <1>4, NaturalProduct
<1>6. BoundedTotal(e, d, 2) \in Nat
  BY BoundedTotalTyped
<1>. QED
  BY <1>3, <1>4, <1>5, <1>6 DEF PayloadCycles

LEMMA PairFinite == \A x, y : IsFiniteSet({x, y})
<1>. TAKE x, y
<1>1. IsFiniteSet({x})
  BY FS_Singleton
<1>2. IsFiniteSet({x} \cup {y})
  BY <1>1, FS_AddElement
<1>3. {x, y} = {x} \cup {y}
  OBVIOUS
<1>. QED
  BY <1>2, <1>3

LEMMA CombineTyped ==
    ASSUME NEW e, NEW payload \in Nat, NEW bursts \in Nat, NEW issue \in Nat
    PROVE  Combine(e, payload, bursts, issue) \in Nat
<1>1. bursts * issue \in Nat
  BY NaturalProduct
<1>. DEFINE b == bursts * issue
            S == {payload, b - issue}
<1>2. b \in Nat
  BY <1>1
<1>3. Combine(e, payload, bursts, issue) =
        IF e.overlap = "overlapped" /\ bursts > 0 /\ issue > 0 THEN issue + Max(S) ELSE payload + b
  BY DEF Combine
<1>. HIDE DEF b
<1>4. S \in SUBSET Int /\ IsFiniteSet(S) /\ S # {} /\ payload \in S
  <2>1. IsFiniteSet(S)
    BY PairFinite
  <2>. QED
    BY <1>2, <2>1
<1>. HIDE DEF S
<1>5. PICK x \in Int, y \in Int : \A s \in S : x <= s /\ s <= y
  BY <1>4, FiniteBounds
<1>6. Max(S) \in Int /\ payload <= Max(S)
  BY <1>4, <1>5, GreatestMember
<1>. QED
  BY <1>2, <1>3, <1>6

LEMMA TransferTyped ==
    ASSUME NEW e, EngineTimed(e), NEW d, DescriptorTyped(d)
    PROVE  TransferCycles(e, d) \in Nat
<1>1. Combine(e, PayloadCycles(e, d), BurstCount(e, d), IssueCycles(e, d)) \in Nat
  BY PayloadTyped, BurstCountTyped, EngineParts, CombineTyped
<1>2. BaseCycles(e, d) \in Nat
  <2>1. e.readLatency \in Nat /\ e.writeLatency \in Nat /\ SegmentCount(d) \in Nat
    BY EngineParts, SegmentType
  <2>2. (IF Writes(d) THEN e.writeLatency ELSE e.readLatency) \in Nat
        /\ (IF e.base = "segment" THEN SegmentCount(d) ELSE 1) \in Nat
    BY <2>1
  <2>. QED
    BY <2>2, NaturalProduct DEF BaseCycles
<1>. QED
  BY <1>1, <1>2 DEF TransferCycles

-------------------------------------------------------------------------------
(* Meters.                                                                     *)

Banks == 0 .. (Meter.banks - 1)
MeterTyped(m) ==
    /\ DOMAIN m = {"words", "refilled", "now"}
    /\ m.words \in [Banks -> 0 .. Meter.words]

LEMMA MeterParts ==
    /\ Meter.width \in Nat \ {0} /\ Meter.banks \in Nat \ {0} /\ Meter.words \in Nat /\ Meter.penalty \in Nat
    /\ IsFiniteSet(Banks)
<1>1. Meter.width \in Nat \ {0} /\ Meter.banks \in Nat \ {0} /\ Meter.words \in Nat /\ Meter.penalty \in Nat
  BY TransferAssumption
<1>2. 0 \in Int /\ Meter.banks - 1 \in Int
  BY <1>1
<1>3. IsFiniteSet(Banks)
  BY <1>2, FS_Interval DEF Banks
<1>. QED
  BY <1>1, <1>3

\* The words a transfer takes of a bank.
LEMMA WordsOnTyped ==
    ASSUME NEW d, DescriptorTyped(d), NEW b
    PROVE  WordsOn(d, b) \in Nat
<1>. DEFINE top == CeilDiv(d.bytes, Meter.width) - 1
            S == {i \in 0 .. top : ((d.base + i * Meter.width) \div Meter.width) % Meter.banks = b}
<1>1. top \in Int /\ 0 \in Int
  <2>1. d.bytes \in Nat /\ Meter.width \in Nat \ {0}
    BY DescriptorParts, MeterParts
  <2>2. CeilDiv(d.bytes, Meter.width) \in Nat
    BY <2>1, CeilDivType
  <2>. QED
    BY <2>2
<1>2. IsFiniteSet(0 .. top)
  <2>. HIDE DEF top
  <2>. QED
    BY <1>1, FS_Interval
<1>3. S \subseteq 0 .. top
  OBVIOUS
<1>. HIDE DEF S, top
<1>4. IsFiniteSet(S)
  BY <1>2, <1>3, FS_Subset
<1>5. WordsOn(d, b) = Cardinality(S)
  BY DEF WordsOn, S, top
<1>. QED
  BY <1>4, <1>5, FS_CardinalityType

\* The larger of zero and a difference.
LEMMA PositivePart ==
    ASSUME NEW x \in Int
    PROVE  Max({0, x}) \in Nat /\ (x <= 0 => Max({0, x}) = 0) /\ (x >= 0 => Max({0, x}) = x)
<1>. DEFINE S == {0, x}
<1>1. S \in SUBSET Int /\ S # {} /\ 0 \in S /\ x \in S /\ \A s \in S : s = 0 \/ s = x
  OBVIOUS
<1>2. IsFiniteSet(S)
  BY PairFinite
<1>. HIDE DEF S
<1>3. PICK a \in Int, b \in Int : \A s \in S : a <= s /\ s <= b
  BY <1>1, <1>2, FiniteBounds
<1>4. Max(S) \in S /\ Max(S) \in Int /\ \A y \in S : y <= Max(S)
  BY <1>1, <1>3, GreatestMember
<1>5. Max(S) \in Nat /\ (x <= 0 => Max(S) = 0) /\ (x >= 0 => Max(S) = x)
  BY <1>1, <1>4
<1>. QED
  BY <1>5 DEF S

\* Refilling and taking words leaves no bank with more than its words.
LEMMA AdvancedTyped ==
    ASSUME NEW m, MeterTyped(m), NEW cycles
    PROVE  MeterTyped(Advanced(m, cycles))
<1>. DEFINE n == Advanced(m, cycles)
            late(b) == m.now + cycles - m.refilled[b] >= Meter.window
<1>1. DOMAIN n = {"words", "refilled", "now"}
  BY DEF Advanced, MeterTyped
<1>2. n.words = [b \in Banks |-> IF late(b) THEN Meter.words ELSE m.words[b]]
  BY DEF Advanced, MeterTyped
<1>3. Meter.words \in Nat /\ m.words \in [Banks -> 0 .. Meter.words]
  BY MeterParts DEF MeterTyped
<1>. HIDE DEF n, late
<1>4. n.words \in [Banks -> 0 .. Meter.words]
  BY <1>2, <1>3
<1>. QED
  BY <1>1, <1>4 DEF MeterTyped, n

LEMMA ConsumedTyped ==
    ASSUME NEW m, MeterTyped(m), NEW d, DescriptorTyped(d)
    PROVE  MeterTyped(Consumed(m, d))
<1>. DEFINE n == Consumed(m, d)
            left(b) == Max({0, m.words[b] - WordsOn(d, b)})
<1>1. DOMAIN n = {"words", "refilled", "now"}
  BY DEF Consumed, MeterTyped
<1>2. n.words = [b \in Banks |-> left(b)]
  BY DEF Consumed, MeterTyped
<1>3. ASSUME NEW b \in Banks PROVE left(b) \in 0 .. Meter.words
  <2>1. m.words[b] \in 0 .. Meter.words /\ Meter.words \in Nat /\ WordsOn(d, b) \in Nat
    BY MeterParts, WordsOnTyped DEF MeterTyped
  <2>. DEFINE x == m.words[b] - WordsOn(d, b)
  <2>2. x \in Int /\ x <= Meter.words
    BY <2>1
  <2>3. left(b) = Max({0, x})
    OBVIOUS
  <2>. HIDE DEF x, left
  <2>4. Max({0, x}) \in Nat /\ (x <= 0 => Max({0, x}) = 0) /\ (x >= 0 => Max({0, x}) = x)
    BY <2>2, PositivePart
  <2>. QED
    BY <2>1, <2>2, <2>3, <2>4
<1>. HIDE DEF n, left
<1>4. n.words \in [Banks -> 0 .. Meter.words]
  BY <1>2, <1>3
<1>. QED
  BY <1>1, <1>4 DEF MeterTyped, n

\* The cycles a transfer waits for its words.
LEMMA StallTyped ==
    ASSUME NEW m, MeterTyped(m), NEW d, DescriptorTyped(d)
    PROVE  StallOf(m, d) \in Nat
<1>. DEFINE late(b) == Max({0, WordsOn(d, b) - m.words[b]})
            f == [b \in DOMAIN m.words |-> late(b)]
<1>1. DOMAIN m.words = Banks /\ \A b \in Banks : m.words[b] \in Nat
  BY MeterParts DEF MeterTyped
<1>2. ASSUME NEW b \in Banks PROVE late(b) \in Nat
  <2>1. WordsOn(d, b) - m.words[b] \in Int
    BY <1>1, WordsOnTyped
  <2>. QED
    BY <2>1, PositivePart
<1>. HIDE DEF late
<1>3. f \in [Banks -> Nat]
  BY <1>1, <1>2
<1>. HIDE DEF f
<1>4. SumFunction(f) \in Nat
  BY <1>3, MeterParts, SumIsBarTotal, BarsFinite
<1>5. StallOf(m, d) = Meter.penalty * SumFunction(f)
  BY DEF StallOf, f, late
<1>. QED
  BY <1>4, <1>5, MeterParts, NaturalProduct

Keys == {"bytes", "occupied", "cycles"}
SumsTyped(s) == \A k \in Keys : s[k] \in Nat
LedgersTyped ==
    /\ SumsTyped(totals.sums) /\ SumsTyped(legacy) /\ totals.transfers \in Nat
    /\ DOMAIN channelTotals = Channels /\ \A c \in Channels : SumsTyped(channelTotals[c])

\* What the channels have of one kind.
OfChannels(t, k) == [c \in DOMAIN t |-> t[c][k]]

LEMMA ChannelsFinite == IsFiniteSet(Channels)
<1>1. Limits.channels \in Nat \X Nat
  BY ConfigAssumption
<1>2. 0 \in Int /\ Limits.channels[2] - 1 \in Int
  BY <1>1
<1>. QED
  BY <1>2, FS_Interval DEF Channels

\* What one channel adds the sum adds.
LEMMA ChannelAdds ==
    ASSUME NEW f \in [Channels -> Nat], NEW c \in Channels, NEW n \in Nat
    PROVE  SumFunction(f) \in Nat /\ SumFunction([f EXCEPT ![c] = f[c] + n]) = SumFunction(f) + n
<1>. DEFINE g == [f EXCEPT ![c] = f[c] + n]
<1>1. f[c] \in Nat /\ f[c] + n \in Nat
  OBVIOUS
<1>2. g \in [Channels -> Nat]
  BY <1>1
<1>3. SumFunction(f) = BarTotal(f)
  BY ChannelsFinite, SumIsBarTotal
<1>4. SumFunction(g) = BarTotal(g)
  <2>. HIDE DEF g
  <2>. QED
    BY <1>2, ChannelsFinite, SumIsBarTotal
<1>5. BarTotal(g) = BarTotal(f) - f[c] + (f[c] + n) /\ BarTotal(f) \in Nat
  BY <1>1, ChannelsFinite, TotalChanged
<1>6. BarTotal(g) = BarTotal(f) + n
  <2>. HIDE DEF g
  <2>. QED
    BY <1>1, <1>5
<1>. HIDE DEF g
<1>7. SumFunction(f) \in Nat /\ SumFunction(g) = SumFunction(f) + n
  BY <1>3, <1>4, <1>5, <1>6
<1>. QED
  BY <1>7 DEF g

\* A channel counts more.
LEMMA LedgerAdds ==
    ASSUME NEW t, DOMAIN t = Channels, \A c \in Channels : SumsTyped(t[c]),
           NEW u, NEW ch \in Channels, NEW x, SumsTyped(x),
           DOMAIN u = Channels, \A c \in Channels : c # ch => u[c] = t[c],
           \A k \in Keys : u[ch][k] = t[ch][k] + x[k]
    PROVE  /\ \A c \in Channels : SumsTyped(u[c])
           /\ \A k \in Keys : SumFunction(OfChannels(u, k)) = SumFunction(OfChannels(t, k)) + x[k]
           /\ \A k \in Keys : SumFunction(OfChannels(t, k)) \in Nat /\ x[k] \in Nat
<1>1. \A c \in Channels : SumsTyped(u[c])
  BY DEF SumsTyped
<1>2. ASSUME NEW k \in Keys
      PROVE  /\ SumFunction(OfChannels(u, k)) = SumFunction(OfChannels(t, k)) + x[k]
             /\ SumFunction(OfChannels(t, k)) \in Nat /\ x[k] \in Nat
  <2>. DEFINE f == OfChannels(t, k)
  <2>1. f \in [Channels -> Nat]
    BY DEF OfChannels, SumsTyped
  <2>2. x[k] \in Nat
    BY DEF SumsTyped
  <2>3. OfChannels(u, k) = [f EXCEPT ![ch] = f[ch] + x[k]]
    BY DEF OfChannels
  <2>. HIDE DEF f
  <2>4. SumFunction(f) \in Nat /\ SumFunction([f EXCEPT ![ch] = f[ch] + x[k]]) = SumFunction(f) + x[k]
    BY <2>1, <2>2, ChannelAdds
  <2>. QED
    BY <2>2, <2>3, <2>4 DEF f
<1>. QED
  BY <1>1, <1>2

LEMMA LedgersParts ==
    LedgersAgree <=> \A k \in Keys : totals.sums[k] = legacy[k] + SumFunction(OfChannels(channelTotals, k))
BY DEF LedgersAgree, Keys, OfChannels

LEMMA ChannelSumsTyped ==
    ASSUME LedgersTyped, NEW k \in Keys
    PROVE  SumFunction(OfChannels(channelTotals, k)) \in Nat
<1>1. OfChannels(channelTotals, k) \in [Channels -> Nat]
  BY DEF LedgersTyped, OfChannels, SumsTyped
<1>. QED
  BY <1>1, ChannelsFinite, SumIsBarTotal, BarsFinite

\* What a descriptor adds.
Amount(d, cycles) ==
    [bytes |-> d.bytes, occupied |-> PayloadCycles(engine, d) * engine.bus, cycles |-> cycles]

\* What is counted is what is added, three times.
LEMMA AmountTyped ==
    ASSUME EngineTimed(engine), NEW d, DescriptorTyped(d), NEW cycles \in Nat
    PROVE  /\ SumsTyped(Amount(d, cycles))
           /\ \A s : \A k \in Keys : Counted(s, d, engine, cycles)[k] = s[k] + Amount(d, cycles)[k]
<1>. DEFINE p == PayloadCycles(engine, d) * engine.bus
<1>1. p \in Nat /\ d.bytes \in Nat
  BY PayloadTyped, EngineParts, DescriptorParts, NaturalProduct
<1>2. Amount(d, cycles) = [bytes |-> d.bytes, occupied |-> p, cycles |-> cycles]
  BY DEF Amount
<1>3. \A s : Counted(s, d, engine, cycles) =
               [bytes |-> s.bytes + d.bytes, occupied |-> s.occupied + p, cycles |-> s.cycles + cycles]
  BY DEF Counted
<1>. HIDE DEF p
<1>4. SumsTyped(Amount(d, cycles))
  BY <1>1, <1>2 DEF SumsTyped, Keys
<1>5. \A s : \A k \in Keys : Counted(s, d, engine, cycles)[k] = s[k] + Amount(d, cycles)[k]
  BY <1>2, <1>3 DEF Keys
<1>. QED
  BY <1>4, <1>5

\* An execution adds the same to the engine and to one of the others.
LEMMA AddedKeeps ==
    ASSUME EngineTimed(engine), Sound(engine), LedgersTyped, LedgersAgree,
           NEW d, DescriptorTyped(d), NEW cycles \in Nat, Added(d, cycles)
    PROVE  LedgersTyped' /\ LedgersAgree'
<1>. DEFINE x == Amount(d, cycles)
<1>1. /\ SumsTyped(x)
      /\ \A s : \A k \in Keys : Counted(s, d, engine, cycles)[k] = s[k] + x[k]
  BY AmountTyped
<1>2. /\ totals'.sums = Counted(totals.sums, d, engine, cycles) /\ totals'.transfers = totals.transfers + 1
      /\ IF d.ch < engine.channels
         THEN channelTotals' = [channelTotals EXCEPT ![d.ch] = Counted(channelTotals[d.ch], d, engine, cycles)]
              /\ legacy' = legacy
         ELSE legacy' = Counted(legacy, d, engine, cycles) /\ channelTotals' = channelTotals
  BY DEF Added
<1>3. /\ SumsTyped(totals.sums) /\ SumsTyped(legacy) /\ totals.transfers \in Nat
      /\ DOMAIN channelTotals = Channels /\ \A c \in Channels : SumsTyped(channelTotals[c])
  BY DEF LedgersTyped
<1>4. \A k \in Keys : totals.sums[k] = legacy[k] + SumFunction(OfChannels(channelTotals, k))
  BY LedgersParts
<1>5. \A k \in Keys : /\ totals.sums[k] \in Nat /\ legacy[k] \in Nat /\ x[k] \in Nat
                      /\ SumFunction(OfChannels(channelTotals, k)) \in Nat
  BY <1>1, <1>3, ChannelSumsTyped DEF SumsTyped
<1>. HIDE DEF x
<1>6. totals'.transfers \in Nat /\ \A k \in Keys : totals'.sums[k] = totals.sums[k] + x[k]
  BY <1>1, <1>2, <1>3
<1>7. CASE d.ch < engine.channels
  <2>1. d.ch \in Channels
    <3>1. d.ch \in 0 .. (engine.channels - 1)
      <4>1. d.ch \in Nat
        BY DEF DescriptorTyped
      <4>2. engine.channels \in Nat
        BY DEF Sound
      <4>. QED
        BY <1>7, <4>1, <4>2
    <3>. QED
      BY <3>1, InUseIsKnown
  <2>2. /\ DOMAIN channelTotals' = Channels
        /\ \A c \in Channels : c # d.ch => channelTotals'[c] = channelTotals[c]
        /\ \A k \in Keys : channelTotals'[d.ch][k] = channelTotals[d.ch][k] + x[k]
        /\ legacy' = legacy
    BY <1>1, <1>2, <1>3, <1>7, <2>1
  <2>3. /\ \A c \in Channels : SumsTyped(channelTotals'[c])
        /\ \A k \in Keys : SumFunction(OfChannels(channelTotals', k)) =
                             SumFunction(OfChannels(channelTotals, k)) + x[k]
    BY <1>1, <1>3, <2>1, <2>2, LedgerAdds
  <2>4. \A k \in Keys : totals'.sums[k] = legacy'[k] + SumFunction(OfChannels(channelTotals', k))
                        /\ totals'.sums[k] \in Nat
    BY <1>4, <1>5, <1>6, <2>2, <2>3
  <2>5. LedgersAgree'
    BY <2>4 DEF LedgersAgree, Keys, OfChannels
  <2>6. LedgersTyped'
    BY <1>3, <1>6, <2>2, <2>3, <2>4 DEF LedgersTyped, SumsTyped
  <2>. QED
    BY <2>5, <2>6
<1>8. CASE ~(d.ch < engine.channels)
  <2>1. channelTotals' = channelTotals /\ \A k \in Keys : legacy'[k] = legacy[k] + x[k]
    BY <1>1, <1>2, <1>8
  <2>2. \A k \in Keys : totals'.sums[k] = legacy'[k] + SumFunction(OfChannels(channelTotals', k))
                        /\ totals'.sums[k] \in Nat /\ legacy'[k] \in Nat
    BY <1>4, <1>5, <1>6, <2>1
  <2>3. LedgersAgree'
    BY <2>2 DEF LedgersAgree, Keys, OfChannels
  <2>4. LedgersTyped'
    BY <1>3, <1>6, <2>1, <2>2 DEF LedgersTyped, SumsTyped
  <2>. QED
    BY <2>3, <2>4
<1>. QED
  BY <1>7, <1>8

\* A legacy call is counted beside the channels.
LEMMA LegacyKeeps ==
    ASSUME LedgersTyped, LedgersAgree, NEW cost, DOMAIN cost = Keys, SumsTyped(cost),
           totals' = [sums |-> [k \in DOMAIN cost |-> totals.sums[k] + cost[k]], transfers |-> totals.transfers + 1],
           legacy' = [k \in DOMAIN cost |-> legacy[k] + cost[k]], channelTotals' = channelTotals
    PROVE  LedgersTyped' /\ LedgersAgree'
<1>1. /\ SumsTyped(totals.sums) /\ SumsTyped(legacy) /\ totals.transfers \in Nat
      /\ DOMAIN channelTotals = Channels /\ \A c \in Channels : SumsTyped(channelTotals[c])
  BY DEF LedgersTyped
<1>2. \A k \in Keys : totals.sums[k] = legacy[k] + SumFunction(OfChannels(channelTotals, k))
  BY LedgersParts
<1>3. \A k \in Keys : /\ totals.sums[k] \in Nat /\ legacy[k] \in Nat /\ cost[k] \in Nat
                      /\ SumFunction(OfChannels(channelTotals, k)) \in Nat
  BY <1>1, ChannelSumsTyped DEF SumsTyped
<1>4. /\ totals'.transfers \in Nat
      /\ \A k \in Keys : totals'.sums[k] = totals.sums[k] + cost[k] /\ legacy'[k] = legacy[k] + cost[k]
  BY <1>1
<1>5. \A k \in Keys : totals'.sums[k] = legacy'[k] + SumFunction(OfChannels(channelTotals', k))
                      /\ totals'.sums[k] \in Nat /\ legacy'[k] \in Nat
  BY <1>2, <1>3, <1>4
<1>6. LedgersAgree'
  BY <1>5 DEF LedgersAgree, Keys, OfChannels
<1>7. LedgersTyped'
  BY <1>1, <1>4, <1>5 DEF LedgersTyped, SumsTyped
<1>. QED
  BY <1>6, <1>7

\* Cleared ledgers agree.
LEMMA NoSumsTyped == SumsTyped(NoSums) /\ \A k \in Keys : NoSums[k] = 0
BY DEF SumsTyped, NoSums, Keys

LEMMA ClearedAgree ==
    ASSUME NEW t, t = [c \in Channels |-> NoSums], NEW k \in Keys
    PROVE  NoSums[k] = NoSums[k] + SumFunction(OfChannels(t, k))
<1>. DEFINE f == OfChannels(t, k)
<1>1. f \in [Channels -> Nat] /\ \A c \in DOMAIN f : f[c] = 0
  BY NoSumsTyped DEF OfChannels
<1>. HIDE DEF f
<1>2. SumFunction(f) = 0
  BY <1>1, ChannelsFinite, SumIsBarTotal, TotalNone
<1>. QED
  BY <1>2, NoSumsTyped DEF f

-------------------------------------------------------------------------------
(* The invariant.                                                              *)

MetersTyped == DOMAIN meters = {"r", "s"} /\ \A r \in {"r", "s"} : MeterTyped(meters[r])

TransferInv ==
    /\ Timed(engine) /\ Sound(engine)
    /\ MemoryTyped(memory) /\ MetersTyped
    /\ LedgersTyped /\ LedgersAgree
    /\ ElementsArrive /\ IndexedArrive /\ NothingStrays

\* The initial states satisfy it.
LEMMA TransferStarts == TransferInit => TransferInv
<1>. SUFFICES ASSUME TransferInit PROVE TransferInv
  OBVIOUS
<1>1. Timed(engine) /\ Sound(engine)
  <2>1. engine = Zeroed
    BY DEF TransferInit, ConfigInit
  <2>. QED
    BY <2>1, ZeroedTimed
<1>2. MemoryTyped(memory)
  BY DEF TransferInit, MemoryTyped
<1>3. MetersTyped
  <2>1. meters = [r \in {"r", "s"} |-> [words |-> [b \in Banks |-> Meter.words],
                                        refilled |-> [b \in Banks |-> 0], now |-> 0]]
    BY DEF TransferInit, Banks
  <2>2. Meter.words \in Nat
    BY MeterParts
  <2>3. \A r \in {"r", "s"} : MeterTyped(meters[r])
    BY <2>1, <2>2 DEF MeterTyped
  <2>. QED
    BY <2>1, <2>3 DEF MetersTyped
<1>4. /\ totals = [sums |-> NoSums, transfers |-> 0] /\ legacy = NoSums
      /\ channelTotals = [c \in Channels |-> NoSums]
  BY DEF TransferInit, Channels
<1>5. totals.sums = NoSums /\ totals.transfers = 0
  BY <1>4
<1>6. LedgersTyped
  BY <1>4, <1>5, NoSumsTyped DEF LedgersTyped
<1>7. LedgersAgree
  BY <1>4, <1>5, ClearedAgree, LedgersParts
<1>8. last.done = FALSE /\ strayed = FALSE
  BY DEF TransferInit, Nothing
<1>9. ElementsArrive /\ IndexedArrive /\ NothingStrays
  BY <1>8 DEF ElementsArrive, IndexedArrive, NothingStrays
<1>. QED
  BY <1>1, <1>2, <1>3, <1>6, <1>7, <1>9 DEF TransferInv

\* Every step keeps it, one action at a time.
LEMMA ReinitializeKeeps ==
    ASSUME TransferInv, Reinitialize
    PROVE  TransferInv'
<1>1. Timed(engine)' /\ Sound(engine)'
  <2>1. \/ \E p \in ShortRequests : engine' = InitTiming(p)
        \/ \E async \in BOOLEAN : engine' = InitDefault(async)
        \/ \E p \in FullRequests : engine' = Configured(p)
        \/ engine' = Zeroed
    BY DEF Reinitialize, Initialize, Destroy, Reinitialized
  <2>2. Timed(engine') /\ Sound(engine')
    BY <2>1, InitializersTimed, ZeroedTimed
  <2>. QED
    BY <2>2
<1>2. /\ totals' = [sums |-> NoSums, transfers |-> 0] /\ legacy' = NoSums /\ last' = Nothing
      /\ channelTotals' = [c \in DOMAIN channelTotals |-> NoSums]
      /\ memory' = memory /\ meters' = meters /\ strayed' = strayed
  BY DEF Reinitialize
<1>3. MemoryTyped(memory)' /\ MetersTyped' /\ NothingStrays'
  BY <1>2 DEF TransferInv, MetersTyped, NothingStrays
<1>4. channelTotals' = [c \in Channels |-> NoSums]
  BY <1>2 DEF TransferInv, LedgersTyped
<1>5. totals'.sums = NoSums /\ totals'.transfers = 0 /\ last'.done = FALSE
  BY <1>2 DEF Nothing
<1>6. LedgersTyped'
  BY <1>2, <1>4, <1>5, NoSumsTyped DEF LedgersTyped
<1>7. LedgersAgree'
  <2>1. \A k \in Keys : totals'.sums[k] = legacy'[k] + SumFunction(OfChannels(channelTotals', k))
    BY <1>2, <1>4, <1>5, ClearedAgree
  <2>. QED
    BY <2>1 DEF LedgersAgree, Keys, OfChannels
<1>8. ElementsArrive' /\ IndexedArrive'
  BY <1>5 DEF ElementsArrive, IndexedArrive
<1>. QED
  BY <1>1, <1>3, <1>6, <1>7, <1>8 DEF TransferInv

LEMMA ExecuteKeeps ==
    ASSUME TransferInv, NEW d, DescriptorTyped(d), Execute(d)
    PROVE  TransferInv'
<1>. DEFINE cycles == TransferCycles(engine, d)
            meter == Advanced(meters[d.region], cycles)
            stall == IF Metering(d) THEN StallOf(meter, d) ELSE 0
<1>1. /\ engine' = engine /\ memory' = Stored(memory, d) /\ strayed' = (strayed \/ Strays(d))
      /\ meters' = IF Metering(d) THEN [meters EXCEPT ![d.region] = Consumed(meter, d)] ELSE meters
      /\ Added(d, cycles + stall)
      /\ last' = [done |-> TRUE, d |-> d, before |-> memory]
      /\ engine.bus > 0 /\ SpansValid(d)
  BY DEF Execute, Executable, configVars
<1>2. Timed(engine) /\ Sound(engine) /\ EngineTimed(engine)
  BY <1>1 DEF TransferInv, EngineTimed
<1>3. MemoryTyped(memory)' /\ ElementsArrive' /\ IndexedArrive'
  BY <1>1, ExecutionDelivers DEF TransferInv
<1>4. NothingStrays'
  BY <1>1, NoneStrays DEF TransferInv, NothingStrays
<1>5. cycles \in Nat
  BY <1>2, TransferTyped
<1>6. Metering(d) => d.region \in {"r", "s"} /\ MeterTyped(meter)
  <2>. SUFFICES ASSUME Metering(d) PROVE d.region \in {"r", "s"} /\ MeterTyped(meter)
    OBVIOUS
  <2>1. d.type # "multicast"
    BY DEF Metering
  <2>2. d.region \in {"r", "s"}
    BY <1>1, <2>1, SpansRegions
  <2>3. MeterTyped(meters[d.region])
    BY <2>2 DEF TransferInv, MetersTyped
  <2>. QED
    BY <2>2, <2>3, AdvancedTyped
<1>7. stall \in Nat
  BY <1>6, StallTyped
<1>. HIDE DEF cycles, meter, stall
<1>8. LedgersTyped' /\ LedgersAgree'
  <2>1. cycles + stall \in Nat
    BY <1>5, <1>7
  <2>. QED
    BY <1>1, <1>2, <2>1, AddedKeeps DEF TransferInv
<1>9. MetersTyped'
  <2>1. CASE Metering(d)
    <3>1. MeterTyped(Consumed(meter, d))
      BY <1>6, <2>1, ConsumedTyped
    <3>. QED
      BY <1>1, <1>6, <2>1, <3>1 DEF TransferInv, MetersTyped
  <2>2. CASE ~Metering(d)
    BY <1>1, <2>2 DEF TransferInv, MetersTyped
  <2>. QED
    BY <2>1, <2>2
<1>. QED
  BY <1>1, <1>2, <1>3, <1>4, <1>8, <1>9 DEF TransferInv

LEMMA LegacyCallKeeps ==
    ASSUME TransferInv, NEW o \in Orders, NEW writes \in BOOLEAN, Legacy(o, writes)
    PROVE  TransferInv'
<1>. DEFINE d == LegacyDescriptor(o, writes)
            latency == IF writes THEN engine.writeLatency ELSE engine.readLatency
            work == Combine(engine, PayloadCycles(engine, d), BurstCount(engine, d), IssueCycles(engine, d))
            cost == [bytes |-> d.bytes, occupied |-> 0, cycles |-> latency + work]
<1>1. /\ engine' = engine /\ memory' = Stored(memory, d) /\ strayed' = strayed /\ meters' = meters
      /\ channelTotals' = channelTotals /\ last' = [done |-> TRUE, d |-> d, before |-> memory]
      /\ totals' = [sums |-> [k \in DOMAIN cost |-> totals.sums[k] + cost[k]], transfers |-> totals.transfers + 1]
      /\ legacy' = [k \in DOMAIN cost |-> legacy[k] + cost[k]]
      /\ engine.bus > 0 /\ o.make = "linear" /\ o.region # "none" /\ o.base + d.bytes <= RegionSize[o.region]
  BY DEF Legacy, LegacyDescriptor, configVars
<1>2. DescriptorTyped(d) /\ SpansValid(d)
  BY <1>1, LegacyTyped
<1>3. Timed(engine) /\ Sound(engine) /\ EngineTimed(engine)
  BY <1>1 DEF TransferInv, EngineTimed
<1>. HIDE DEF d
<1>4. MemoryTyped(memory)' /\ ElementsArrive' /\ IndexedArrive'
  BY <1>1, <1>2, ExecutionDelivers DEF TransferInv
<1>5. d.bytes \in Nat /\ latency \in Nat /\ work \in Nat
  <2>1. d.bytes \in Nat /\ latency \in Nat
    BY <1>2, <1>3, DescriptorParts, EngineParts
  <2>2. PayloadCycles(engine, d) \in Nat /\ BurstCount(engine, d) \in Nat /\ IssueCycles(engine, d) \in Nat
    BY <1>2, <1>3, PayloadTyped, BurstCountTyped, EngineParts
  <2>3. work \in Nat
    BY <2>2, CombineTyped
  <2>. QED
    BY <2>1, <2>3
<1>. HIDE DEF latency, work
<1>6. DOMAIN cost = Keys /\ SumsTyped(cost)
  BY <1>5 DEF Keys, SumsTyped
<1>. HIDE DEF cost
<1>7. LedgersTyped' /\ LedgersAgree'
  BY <1>1, <1>6, LegacyKeeps DEF TransferInv
<1>8. MetersTyped' /\ NothingStrays'
  BY <1>1 DEF TransferInv, MetersTyped, NothingStrays
<1>. QED
  BY <1>1, <1>3, <1>4, <1>7, <1>8 DEF TransferInv

LEMMA EngineKeeps ==
    ASSUME TransferInv, engine' = engine, UNCHANGED transferVars
    PROVE  TransferInv'
BY DEF TransferInv, transferVars, MetersTyped, LedgersTyped, LedgersAgree,
       ElementsArrive, IndexedArrive, NothingStrays

\* The setters and the credits leave the engine's configuration alone.
LEMMA SettingsKeepEngine == Settings => engine' = engine /\ short' = short
BY DEF Settings, SetService, SetIdlePolicy, SetGranularity, SetRoundCycles, SetRoundMode, SetSelectCycles,
       SetScanWidth, SetStageScanWidths, Earn, SetDrr

\* So does any step.
LEMMA TransferStep == TransferInv /\ [TransferNext]_<<configVars, transferVars>> => TransferInv'
<1>. SUFFICES ASSUME TransferInv, [TransferNext]_<<configVars, transferVars>> PROVE TransferInv'
  OBVIOUS
<1>1. CASE Reinitialize
  BY <1>1, ReinitializeKeeps
<1>2. ASSUME NEW o \in Orders, NEW d \in Descriptors(o), Execute(d) PROVE TransferInv'
  BY <1>2, DescriptorsTyped, ExecuteKeeps
<1>3. ASSUME NEW o \in Orders, NEW d \in Descriptors(o), Refuse(d) PROVE TransferInv'
  BY <1>3, EngineKeeps DEF Refuse, configVars
<1>4. ASSUME NEW o \in Orders, NEW writes \in BOOLEAN, Legacy(o, writes) PROVE TransferInv'
  BY <1>4, LegacyCallKeeps
<1>5. CASE UNCHANGED <<configVars, transferVars>>
  BY <1>5, EngineKeeps DEF configVars
<1>6. CASE Settings /\ UNCHANGED transferVars
  <2>1. engine' = engine
    BY <1>6, SettingsKeepEngine
  <2>. QED
    BY <1>6, <2>1, EngineKeeps
<1>. QED
  BY <1>1, <1>2, <1>3, <1>4, <1>5, <1>6 DEF TransferNext, Transfers

\* It implies what is to be shown.
LEMMA TransferInvDelivers == TransferInv => TransfersDeliver
<1>. SUFFICES ASSUME TransferInv PROVE TransfersDeliver
  OBVIOUS
<1>1. \A m \in {"r", "s", "host"} : \A a \in DOMAIN memory[m] : memory[m][a] \in Nat
  BY MemoryParts DEF TransferInv
<1>2. \A r \in {"r", "s"} : \A b \in DOMAIN meters[r].words : meters[r].words[b] \in 0 .. Meter.words
  BY DEF TransferInv, MetersTyped, MeterTyped
<1>3. totals.transfers \in Nat
  BY DEF TransferInv, LedgersTyped
<1>4. TransferTypeOK
  BY <1>1, <1>2, <1>3 DEF TransferTypeOK
<1>. QED
  BY <1>4 DEF TransferInv, TransfersDeliver

\* Whatever the constructor calls, the initializers between them, the sizes of
\* the regions and of the word: no copy of an accepted descriptor leaves its
\* region, every element of it arrives at its coordinates, what is scattered,
\* gathered and multicast is what was sent, and the engine's totals are those of
\* its channels and the legacy calls (tu_dma_execute_desc).
THEOREM DescriptorsDeliver == TransferSpec => []TransfersDeliver
<1>1. TransferInit => TransferInv
  BY TransferStarts
<1>2. TransferInv /\ [TransferNext]_<<configVars, transferVars>> => TransferInv'
  BY TransferStep
<1>3. TransferInv => TransfersDeliver
  BY TransferInvDelivers
<1>. QED
  BY <1>1, <1>2, <1>3, PTL DEF TransferSpec

-------------------------------------------------------------------------------
(* The payload a transfer is charged for covers its bytes.                     *)

LEMMA ProductMonotone == \A a, b, c \in Nat : a <= b => c * a <= c * b
OBVIOUS

LEMMA ProductAssociates == \A a, b, c \in Nat : (a * b) * c = a * (b * c) /\ a * b = b * a
OBVIOUS

\* Rounding up adds less than one unit.
LEMMA CeilDivCovers ==
    ASSUME NEW n \in Nat, NEW k \in Nat \ {0}
    PROVE  /\ CeilDiv(n, k) \in Nat
           /\ n <= CeilDiv(n, k) * k /\ CeilDiv(n, k) * k < n + k
<1>. DEFINE x == n + k - 1
            q == x \div k
            r == x % k
<1>1. x \in Nat
  OBVIOUS
<1>2. q \in Nat /\ r \in 0 .. k - 1 /\ x = k * q + r
  BY <1>1, Division
<1>3. CeilDiv(n, k) = q
  BY DEF CeilDiv
<1>. HIDE DEF q, r
<1>4. q * k = k * q /\ k * q \in Nat
  BY <1>2
<1>. DEFINE p == k * q
<1>. HIDE DEF p
<1>5. p = x - r /\ p \in Nat
  BY <1>2, <1>4 DEF p
<1>6. n <= p /\ p < n + k
  BY <1>2, <1>5
<1>. QED
  BY <1>2, <1>3, <1>4, <1>6 DEF p

LEMMA CeilDivNone == ASSUME NEW k \in Nat \ {0} PROVE CeilDiv(0, k) = 0
<1>1. 0 <= CeilDiv(0, k) * k /\ CeilDiv(0, k) * k < 0 + k /\ CeilDiv(0, k) \in Nat
  BY CeilDivCovers
<1>2. ASSUME NEW q \in Nat, q * k < k PROVE q = 0
  <2>1. q # 0 => k * 1 <= k * q
    BY ProductMonotone
  <2>2. k * q = q * k
    OBVIOUS
  <2>. QED
    BY <1>2, <2>1, <2>2
<1>. QED
  BY <1>1, <1>2

\* Whole bursts and the rest, each rounded up, cover all.
LEMMA BurstAlignedCovers ==
    ASSUME NEW n \in Nat, NEW burst \in Nat \ {0}, NEW bus \in Nat \ {0}
    PROVE  n <= BurstAligned(n, burst, bus) * bus
<1>. DEFINE q == n \div burst
            r == n % burst
            c == CeilDiv(burst, bus)
            s == CeilDiv(r, bus)
<1>1. q \in Nat /\ r \in 0 .. burst - 1 /\ n = burst * q + r
  BY Division
<1>2. c \in Nat /\ burst <= c * bus
  BY CeilDivCovers
<1>3. r \in Nat
  BY <1>1
<1>4. s \in Nat /\ r <= s * bus
  BY <1>3, CeilDivCovers
<1>5. BurstAligned(n, burst, bus) = q * c + s
  BY DEF BurstAligned
<1>. HIDE DEF q, r, c, s
<1>6. q * burst <= q * (c * bus)
  BY <1>1, <1>2, ProductMonotone
<1>7. (q * c + s) * bus = q * (c * bus) + s * bus
  BY <1>1, <1>2, <1>4
<1>. DEFINE a == q * burst
            b == q * (c * bus)
            t == s * bus
<1>8. a \in Nat /\ b \in Nat /\ t \in Nat /\ burst * q = a
  BY <1>1, <1>2, <1>4, NaturalProduct
<1>. HIDE DEF a, b, t
<1>9. n <= b + t
  BY <1>1, <1>3, <1>4, <1>6, <1>8 DEF a, b, t
<1>. QED
  BY <1>5, <1>7, <1>9 DEF b, t

\* The cycles of a bounded segment cover its bytes, burst by burst.
LEMMA BoundedSegmentCovers ==
    ASSUME NEW e, EngineTimed(e), NEW d, DescriptorTyped(d), NEW seg, SegmentTyped(seg)
    PROVE  seg[3] <= BoundedSegment(e, d, seg)[2] * e.bus
<1>1. PICK rest : Unrolls(e, d, seg, rest) /\ BoundedSegment(e, d, seg) = rest[seg[3]]
  BY SegmentUnrolls
<1>2. e.bus \in Nat \ {0} /\ seg[3] \in Nat
  BY EngineParts DEF SegmentTyped
<1>. DEFINE D == 0 .. seg[3]
            Bad == {i \in D : ~(i <= rest[i][2] * e.bus)}
<1>3. Bad = {}
  <2>. SUFFICES ASSUME Bad # {} PROVE FALSE
    OBVIOUS
  <2>1. Bad \in SUBSET Nat
    BY <1>2
  <2>2. PICK i \in Bad : \A k \in Bad : i <= k
    BY <2>1, LeastNatural
  <2>3. i \in D /\ i \in Nat
    BY <2>1
  <2>4. rest[i] = SegmentStep(e, d, seg, rest, i)
    BY <1>1, <2>3 DEF Unrolls
  <2>5. CASE i = 0
    <3>1. rest[i] = <<0, 0>>
      BY <2>4, <2>5 DEF SegmentStep
    <3>. QED
      BY <1>2, <2>5, <3>1
  <2>6. CASE i # 0
    <3>. DEFINE n == Chunk(e, d, seg, i)
                j == i - n
                c == CeilDiv(n, e.bus)
                before == rest[j][2]
    <3>1. n \in 1 .. i
      <4>1. i \in 1 .. seg[3]
        BY <1>2, <2>3, <2>6
      <4>. QED
        BY <4>1, ChunkAdvances
    <3>2. rest[i][2] = before + c
      BY <2>4, <2>6 DEF SegmentStep
    <3>3. n \in Nat /\ j \in D /\ j < i
      <4>. HIDE DEF n
      <4>. QED
        BY <1>2, <2>3, <3>1
    <3>4. c \in Nat /\ n <= c * e.bus
      <4>. HIDE DEF n
      <4>. QED
        BY <1>2, <3>3, CeilDivCovers
    <3>5. before \in Nat
      <4>. HIDE DEF j
      <4>1. rest[j] \in Nat \X Nat
        BY <1>1, <3>3 DEF Unrolls
      <4>. QED
        BY <4>1
    <3>6. j <= before * e.bus
      <4>. HIDE DEF n
      <4>1. j \notin Bad
        BY <2>2, <2>3, <3>3, <1>2
      <4>. QED
        BY <3>3, <4>1
    <3>7. i = j + n
      <4>. HIDE DEF n
      <4>. QED
        BY <2>3, <3>3
    <3>. HIDE DEF n, c, before, j
    <3>8. (before + c) * e.bus = before * e.bus + c * e.bus
      BY <1>2, <3>4, <3>5
    <3>. DEFINE u == before * e.bus
                v == c * e.bus
    <3>9. u \in Nat /\ v \in Nat
      BY <1>2, <3>4, <3>5, NaturalProduct
    <3>10. i <= u + v
      <4>1. j <= u /\ n <= v
        BY <3>4, <3>6
      <4>2. j \in Int /\ n \in Int
        BY <3>3
      <4>. HIDE DEF u, v
      <4>. QED
        BY <3>7, <3>9, <4>1, <4>2
    <3>. QED
      BY <2>2, <3>2, <3>8, <3>10
  <2>. QED
    BY <2>5, <2>6
<1>4. seg[3] \in D
  BY <1>2
<1>. HIDE DEF D
<1>. QED
  BY <1>1, <1>3, <1>4

\* What covers each part covers the sum.
LEMMA TotalScaled ==
    ASSUME NEW S, IsFiniteSet(S), NEW f \in [S -> Nat], NEW g \in [S -> Nat], NEW c \in Nat,
           \A i \in S : g[i] <= f[i] * c
    PROVE  BarTotal(g) <= BarTotal(f) * c
<1>. DEFINE part(h, s) == [i \in s |-> h[i]]
            T == {n \in Nat : \A s \in SUBSET S : Cardinality(s) = n =>
                                  BarTotal(part(g, s)) <= BarTotal(part(f, s)) * c}
<1>1. \A s \in SUBSET S : IsFiniteSet(s) /\ Cardinality(s) \in Nat
  BY FS_Subset, FS_CardinalityType
<1>2. ASSUME NEW s \in SUBSET S, NEW x \in s
      PROVE  /\ BarTotal(part(f, s)) = f[x] + BarTotal(part(f, s \ {x}))
             /\ BarTotal(part(g, s)) = g[x] + BarTotal(part(g, s \ {x}))
             /\ BarTotal(part(f, s \ {x})) \in Nat /\ BarTotal(part(g, s \ {x})) \in Nat
  <2>1. IsFiniteSet(s) /\ IsFiniteSet(s \ {x})
    BY <1>1
  <2>2. part(f, s) \in [s -> Nat] /\ part(g, s) \in [s -> Nat]
        /\ part(f, s \ {x}) \in [s \ {x} -> Nat] /\ part(g, s \ {x}) \in [s \ {x} -> Nat]
    OBVIOUS
  <2>3. /\ part(f, s)[x] = f[x] /\ part(g, s)[x] = g[x]
        /\ [i \in s \ {x} |-> part(f, s)[i]] = part(f, s \ {x})
        /\ [i \in s \ {x} |-> part(g, s)[i]] = part(g, s \ {x})
    OBVIOUS
  <2>. DEFINE a == part(f, s)
              b == part(g, s)
  <2>4. BarTotal(a) = a[x] + BarTotal([i \in s \ {x} |-> a[i]])
    <3>1. a \in [s -> Nat]
      BY <2>2
    <3>. HIDE DEF a
    <3>. QED
      BY ZenonT(60), <2>1, <3>1, TotalSplit
  <2>5. BarTotal(b) = b[x] + BarTotal([i \in s \ {x} |-> b[i]])
    <3>1. b \in [s -> Nat]
      BY <2>2
    <3>. HIDE DEF b
    <3>. QED
      BY ZenonT(60), <2>1, <3>1, TotalSplit
  <2>6. BarTotal(part(f, s \ {x})) \in Nat /\ BarTotal(part(g, s \ {x})) \in Nat
    <3>. HIDE DEF part
    <3>. QED
      BY <2>1, <2>2, BarsFinite
  <2>7. BarTotal(a) = f[x] + BarTotal(part(f, s \ {x})) /\ BarTotal(b) = g[x] + BarTotal(part(g, s \ {x}))
    BY <2>3, <2>4, <2>5
  <2>. QED
    BY <2>6, <2>7
<1>3. 0 \in T
  <2>1. ASSUME NEW s \in SUBSET S, Cardinality(s) = 0
        PROVE  BarTotal(part(g, s)) <= BarTotal(part(f, s)) * c
    <3>1. s = {}
      BY <1>1, <2>1, FS_EmptySet
    <3>2. \A i \in DOMAIN part(f, s) : part(f, s)[i] = 0
      BY <3>1
    <3>3. \A i \in DOMAIN part(g, s) : part(g, s)[i] = 0
      BY <3>1
    <3>. HIDE DEF part
    <3>4. BarTotal(part(g, s)) = 0 /\ BarTotal(part(f, s)) = 0
      BY <3>2, <3>3, TotalNone
    <3>. QED
      BY <3>4
  <2>. QED
    BY <2>1
<1>4. ASSUME NEW n \in T PROVE n + 1 \in T
  <2>1. ASSUME NEW s \in SUBSET S, Cardinality(s) = n + 1
        PROVE  BarTotal(part(g, s)) <= BarTotal(part(f, s)) * c
    <3>1. n \in Nat
      BY <1>4
    <3>2. s # {}
      <4>1. Cardinality(s) # 0
        <5>. HIDE DEF T
        <5>. QED
          BY <2>1, <3>1
      <4>. QED
        BY <1>1, <4>1, FS_EmptySet
    <3>3. PICK x : x \in s
      BY <3>2
    <3>4. Cardinality(s \ {x}) = n
      <4>1. Cardinality(s \ {x}) = Cardinality(s) - 1
        BY <1>1, <3>3, FS_RemoveElement
      <4>. HIDE DEF T
      <4>. QED
        BY <2>1, <3>1, <4>1
    <3>5. s \ {x} \in SUBSET S
      OBVIOUS
    <3>6. BarTotal(part(g, s \ {x})) <= BarTotal(part(f, s \ {x})) * c
      BY <3>4, <3>5
    <3>7. f[x] \in Nat /\ g[x] \in Nat /\ g[x] <= f[x] * c
      BY <3>3
    <3>8. /\ BarTotal(part(f, s)) = f[x] + BarTotal(part(f, s \ {x}))
          /\ BarTotal(part(g, s)) = g[x] + BarTotal(part(g, s \ {x}))
          /\ BarTotal(part(f, s \ {x})) \in Nat /\ BarTotal(part(g, s \ {x})) \in Nat
      BY <1>2, <3>3
    <3>. DEFINE F == BarTotal(part(f, s \ {x}))
                G == BarTotal(part(g, s \ {x}))
    <3>9. F \in Nat /\ G \in Nat /\ G <= F * c
      BY <3>6, <3>8
    <3>. HIDE DEF F, G
    <3>10. g[x] + G <= (f[x] + F) * c
      <4>1. (f[x] + F) * c = f[x] * c + F * c
        BY <3>7, <3>9
      <4>2. f[x] * c \in Nat /\ F * c \in Nat
        BY <3>7, <3>9, NaturalProduct
      <4>. QED
        BY <3>7, <3>9, <4>1, <4>2
    <3>. HIDE DEF part
    <3>. QED
      BY <3>8, <3>10 DEF F, G
  <2>. QED
    BY <2>1
<1>5. T = Nat
  <2>1. T \in SUBSET Nat
    OBVIOUS
  <2>2. \A n \in T : n + 1 \in T
    BY <1>4
  <2>. HIDE DEF T
  <2>. QED
    BY <1>3, <2>1, <2>2, InductionOnNaturals
<1>6. BarTotal(part(g, S)) <= BarTotal(part(f, S)) * c
  <2>1. Cardinality(S) \in T
    BY <1>1, <1>5
  <2>. QED
    BY <2>1
<1>7. part(f, S) = f /\ part(g, S) = g
  OBVIOUS
<1>. QED
  BY <1>6, <1>7

-------------------------------------------------------------------------------
(* Sizes of descriptors.                                                       *)

\* The size a constructor computes, in 32 bits.
Sized(d) ==
    /\ d.type = "2d" => d.bytes = (d.elem * d.dims[1] * d.dims[2]) % Word
    /\ d.type = "3d" => d.bytes = (d.elem * d.dims[1] * d.dims[2] * d.dims[3]) % Word
    /\ d.type \in {"scatter", "gather"} => d.bytes = (d.elem * Len(d.index)) % Word
    /\ d.type = "multicast" => d.bytes = (d.elem * d.dims[1] * Len(d.targets)) % Word

LEMMA MadeSized == ASSUME NEW o \in Orders PROVE Sized(Made(o))
<1>1. OrderTyped(o)
  BY TransferAssumption
<1>2. o.dims[1] \in Nat /\ o.dims[2] \in Nat /\ o.dims[3] \in Nat /\ o.elem \in Nat
      /\ (o.make = "2d" => o.dims[3] = 1)
  BY <1>1 DEF OrderTyped
<1>3. o.elem * o.dims[1] * o.dims[2] * 1 = o.elem * o.dims[1] * o.dims[2]
  BY <1>2, NaturalProduct
<1>4. /\ Made(o).type = o.make /\ Made(o).elem = o.elem /\ Made(o).dims = o.dims
      /\ Made(o).index = o.index /\ Made(o).targets = o.targets
      /\ Made(o).bytes = IF o.make \in {"scatter", "gather"} THEN (o.elem * Len(o.index)) % Word
                         ELSE IF o.make = "multicast" THEN (o.elem * o.dims[1] * Len(o.targets)) % Word
                         ELSE (o.elem * o.dims[1] * o.dims[2] * o.dims[3]) % Word
  BY DEF Made
<1>5. o.make = "2d" => o.elem * o.dims[1] * o.dims[2] * o.dims[3] = o.elem * o.dims[1] * o.dims[2]
  BY <1>2, <1>3
<1>. QED
  BY <1>1, <1>4, <1>5 DEF Sized, OrderTyped

\* Setting an address or the regions changes no size.
LEMMA SizeKept ==
    ASSUME NEW m, Sized(m), NEW d,
           d.type = m.type, d.elem = m.elem, d.dims = m.dims, d.index = m.index, d.targets = m.targets, d.bytes = m.bytes
    PROVE  Sized(d)
BY DEF Sized

LEMMA DescriptorsSized ==
    ASSUME NEW o \in Orders, NEW d \in Descriptors(o)
    PROVE  Sized(d)
<1>1. Sized(Made(o))
  BY MadeSized
<1>2. DOMAIN Made(o) = {"type", "dir", "ch", "region", "base", "dims", "elem", "sramStride", "hostStride",
                        "index", "targets", "from", "ext", "host", "bytes"}
  BY DEF Made
<1>3. Sized(WithAddress(Made(o), o.ext))
  <2>1. CASE Made(o).dir = "internal"
    BY <1>1, <2>1 DEF WithAddress
  <2>2. CASE Made(o).dir # "internal"
    <3>1. WithAddress(Made(o), o.ext) = [Made(o) EXCEPT !.ext = o.ext]
      BY <2>2 DEF WithAddress
    <3>. QED
      BY <1>1, <1>2, <3>1, SizeKept
  <2>. QED
    BY <2>1, <2>2
<1>4. Sized(Internal(Made(o), "s", "r"))
  BY <1>1, <1>2, SizeKept DEF Internal
<1>. QED
  BY <1>1, <1>3, <1>4 DEF Descriptors

LEMMA LegacySized ==
    ASSUME NEW o \in Orders, NEW writes \in BOOLEAN
    PROVE  Sized(LegacyDescriptor(o, writes))
<1>1. Sized(Made(o))
  BY MadeSized
<1>2. DOMAIN Made(o) = {"type", "dir", "ch", "region", "base", "dims", "elem", "sramStride", "hostStride",
                        "index", "targets", "from", "ext", "host", "bytes"}
  BY DEF Made
<1>. QED
  BY <1>1, <1>2, SizeKept DEF LegacyDescriptor

\* Wrapping never makes a size larger.
LEMMA WrappedSmaller == \A n \in Nat : n % Word \in Nat /\ n % Word <= n
<1>. TAKE n \in Nat
<1>1. n % Word \in Nat /\ n % Word < Word /\ (n < Word => n % Word = n)
  BY WrappedType
<1>. QED
  BY <1>1, WordPositive

LEMMA ProductRotate3 == \A a, b, c \in Nat : a * b * c = c * (b * a)
OBVIOUS

LEMMA ProductReorder3 == \A a, b, c \in Nat : a * b * c = b * (a * c)
OBVIOUS

LEMMA ProductReorder4 == \A a, b, c, d \in Nat : a * b * c * d = (b * c) * (a * d)
OBVIOUS

LEMMA ProductNonzero == \A a, b \in Nat : a * b # 0 => a # 0 /\ b # 0
OBVIOUS

\* As many segments as are counted, of the size counted, hold all of the bytes;
\* so do those of a multicast, which is counted as one.
SegmentsHold(d, N, n) ==
    /\ DOMAIN AllSegments(d) = 1 .. N
    /\ \A i \in 1 .. N : AllSegments(d)[i][3] = n
    /\ d.bytes <= N * n

LEMMA SegmentSizes ==
    ASSUME NEW d, DescriptorTyped(d), Sized(d), Unwrapped(d), d.bytes # 0
    PROVE  /\ SegmentBytes(d) # 0
           /\ d.bytes <= SegmentCount(d) * SegmentBytes(d)
           /\ \E N, n \in Nat : SegmentsHold(d, N, n)
<1>0. /\ d.elem \in Nat /\ d.bytes \in Nat
      /\ d.dims[1] \in Nat /\ d.dims[2] \in Nat /\ d.dims[3] \in Nat
      /\ DOMAIN d.index = 1 .. Len(d.index) /\ Len(d.index) \in Nat
      /\ DOMAIN d.targets = 1 .. Len(d.targets) /\ Len(d.targets) \in Nat
  BY DescriptorParts
<1>1. CASE d.type = "2d"
  <2>. DEFINE n == d.elem * d.dims[2]
              N == d.dims[1]
              p == d.elem * d.dims[1] * d.dims[2]
  <2>1. n \in Nat /\ N \in Nat /\ p \in Nat /\ p = N * n
    <3>1. n \in Nat /\ N \in Nat /\ p = N * n
      <4>. DEFINE a == d.elem
                  b == d.dims[1]
                  c == d.dims[2]
      <4>1. a \in Nat /\ b \in Nat /\ c \in Nat
        BY <1>0
      <4>. HIDE DEF a, b, c
      <4>2. a * c \in Nat /\ a * b * c = b * (a * c)
        BY ONLY <4>1, NaturalProduct, ProductReorder3
      <4>. QED
        BY ONLY <4>1, <4>2 DEF a, b, c
    <3>. HIDE DEF n, N, p
    <3>. QED
      BY <3>1, NaturalProduct
  <2>2. d.bytes = p % Word
    BY <1>1 DEF Sized
  <2>3. SegmentBytes(d) = n /\ SegmentCount(d) = N
    BY <1>1 DEF SegmentBytes, SegmentCount
  <2>4. n # 0 => DOMAIN AllSegments(d) = 1 .. N /\ \A i \in 1 .. N : AllSegments(d)[i][3] = n
    <3>1. CASE n # 0
      <4>1. AllSegments(d) = [i \in 1 .. N |-> <<d.base + (i - 1) * d.sramStride[1],
                                                 d.ext + (i - 1) * d.hostStride[1], SegmentBytes(d)>>]
        BY <1>1, <2>3, <3>1 DEF AllSegments
      <4>. QED
        BY <2>3, <4>1
    <3>. QED
      BY <3>1
  <2>. HIDE DEF n, N, p
  <2>5. d.bytes <= N * n
    BY <2>1, <2>2, WrappedSmaller
  <2>6. n # 0
    BY <1>0, <2>1, <2>5
  <2>. QED
    BY <2>1, <2>3, <2>4, <2>5, <2>6 DEF SegmentsHold
<1>2. CASE d.type = "3d"
  <2>. DEFINE n == d.elem * d.dims[3]
              N == d.dims[1] * d.dims[2]
              p == d.elem * d.dims[1] * d.dims[2] * d.dims[3]
  <2>1. n \in Nat /\ N \in Nat /\ p \in Nat /\ p = N * n
    <3>1. n \in Nat /\ N \in Nat /\ p = N * n
      <4>. DEFINE a == d.elem
                  b == d.dims[1]
                  c == d.dims[2]
                  x == d.dims[3]
      <4>1. a \in Nat /\ b \in Nat /\ c \in Nat /\ x \in Nat
        BY <1>0
      <4>. HIDE DEF a, b, c, x
      <4>2. a * x \in Nat /\ b * c \in Nat /\ a * b * c * x = (b * c) * (a * x)
        BY ONLY <4>1, NaturalProduct, ProductReorder4
      <4>. QED
        BY ONLY <4>2 DEF a, b, c, x
    <3>. HIDE DEF n, N, p
    <3>. QED
      BY <3>1, NaturalProduct
  <2>2. d.bytes = p % Word
    BY <1>2 DEF Sized
  <2>3. SegmentBytes(d) = n /\ SegmentCount(d) = N
    BY <1>2 DEF SegmentBytes, SegmentCount
  <2>4. n # 0 => DOMAIN AllSegments(d) = 1 .. N /\ \A i \in 1 .. N : AllSegments(d)[i][3] = n
    <3>1. CASE n # 0
      <4>1. AllSegments(d) =
              [i \in 1 .. N |->
                <<d.base + ((i - 1) \div d.dims[2]) * d.sramStride[2] + ((i - 1) % d.dims[2]) * d.sramStride[1],
                  d.ext + (((i - 1) \div d.dims[2]) * d.hostStride[2] + ((i - 1) % d.dims[2]) * d.hostStride[1]),
                  SegmentBytes(d)>>]
        BY <1>2, <2>3, <3>1 DEF AllSegments
      <4>. QED
        BY <2>3, <4>1
    <3>. QED
      BY <3>1
  <2>. HIDE DEF n, N, p
  <2>5. d.bytes <= N * n
    BY <2>1, <2>2, WrappedSmaller
  <2>6. n # 0
    BY <1>0, <2>1, <2>5
  <2>. QED
    BY <2>1, <2>3, <2>4, <2>5, <2>6 DEF SegmentsHold
<1>3. CASE d.type \in {"scatter", "gather"}
  <2>. DEFINE n == d.elem
              N == Len(d.index)
              p == d.elem * Len(d.index)
  <2>1. n \in Nat /\ N \in Nat /\ p \in Nat /\ p = N * n
    <3>1. n \in Nat /\ N \in Nat
      BY <1>0
    <3>. HIDE DEF n, N
    <3>2. n * N \in Nat /\ n * N = N * n
      BY ONLY <3>1, NaturalProduct
    <3>. QED
      BY ONLY <3>1, <3>2 DEF n, N
  <2>2. d.bytes = p % Word
    BY <1>3 DEF Sized
  <2>3. SegmentBytes(d) = n /\ SegmentCount(d) = N
    BY <1>3 DEF SegmentBytes, SegmentCount
  <2>4. n # 0 => DOMAIN AllSegments(d) = 1 .. N /\ \A i \in 1 .. N : AllSegments(d)[i][3] = n
    <3>1. CASE n # 0
      <4>1. AllSegments(d) = [i \in DOMAIN d.index |-> <<d.index[i], d.ext + (i - 1) * d.elem, d.elem>>]
        BY <1>3, <2>3, <3>1 DEF AllSegments
      <4>. QED
        BY <1>0, <4>1
    <3>. QED
      BY <3>1
  <2>. HIDE DEF n, N, p
  <2>5. d.bytes <= N * n
    BY <2>1, <2>2, WrappedSmaller
  <2>6. n # 0
    BY <1>0, <2>1, <2>5
  <2>. QED
    BY <2>1, <2>3, <2>4, <2>5, <2>6 DEF SegmentsHold
<1>4. CASE d.type = "multicast"
  <2>. DEFINE n == d.dims[1] * d.elem
              N == Len(d.targets)
              p == d.elem * d.dims[1] * Len(d.targets)
  <2>1. n \in Nat /\ N \in Nat /\ p \in Nat /\ p = N * n
    <3>1. n \in Nat /\ N \in Nat /\ p = N * n
      <4>. DEFINE a == d.elem
                  b == d.dims[1]
                  c == Len(d.targets)
      <4>1. a \in Nat /\ b \in Nat /\ c \in Nat
        BY <1>0
      <4>. HIDE DEF a, b, c
      <4>2. b * a \in Nat /\ a * b * c = c * (b * a)
        BY ONLY <4>1, NaturalProduct, ProductRotate3
      <4>. QED
        BY ONLY <4>1, <4>2 DEF a, b, c
    <3>. HIDE DEF n, N, p
    <3>. QED
      BY <3>1, NaturalProduct
  <2>2. d.bytes = p % Word
    BY <1>4 DEF Sized
  <2>3. SegmentBytes(d) = d.bytes /\ SegmentCount(d) = 1
    BY <1>4 DEF SegmentBytes, SegmentCount
  <2>4. DOMAIN AllSegments(d) = 1 .. N /\ \A i \in 1 .. N : AllSegments(d)[i][3] = n
    <3>1. AllSegments(d) = [t \in DOMAIN d.targets |-> <<d.targets[t][2], d.ext + 0, d.dims[1] * d.elem>>]
      BY <1>4, <2>3 DEF AllSegments
    <3>. QED
      BY <1>0, <3>1
  <2>. HIDE DEF n, N, p
  <2>5. d.bytes <= N * n
    BY <2>1, <2>2, WrappedSmaller
  <2>6. SegmentsHold(d, N, n)
    BY <2>4, <2>5 DEF SegmentsHold
  <2>7. d.bytes <= 1 * d.bytes
    BY <1>0
  <2>. QED
    BY <1>0, <2>1, <2>3, <2>6, <2>7
<1>5. CASE d.type = "linear"
  <2>1. SegmentBytes(d) = d.bytes /\ SegmentCount(d) = 1
    BY <1>5 DEF SegmentBytes, SegmentCount
  <2>2. AllSegments(d) = <<<<d.base, d.ext + 0, d.bytes>>>>
    BY <1>5, <2>1 DEF AllSegments
  <2>3. DOMAIN AllSegments(d) = 1 .. 1 /\ \A i \in 1 .. 1 : AllSegments(d)[i][3] = d.bytes
    BY <2>2
  <2>4. SegmentsHold(d, 1, d.bytes)
    BY <1>0, <2>3 DEF SegmentsHold
  <2>. QED
    BY <1>0, <2>1, <2>4
<1>. QED
  BY <1>1, <1>2, <1>3, <1>4, <1>5 DEF DescriptorTyped

\* The sum of the bounded segments' cycles covers the sum of their bytes.
LEMMA BoundedTotalCovers ==
    ASSUME NEW e, EngineTimed(e), NEW d, DescriptorTyped(d),
           NEW N \in Nat, NEW n \in Nat, SegmentsHold(d, N, n)
    PROVE  d.bytes <= BoundedTotal(e, d, 2) * e.bus
<1>. DEFINE S == 1 .. N
            f == [i \in S |-> BoundedSegment(e, d, AllSegments(d)[i])[2]]
            g == [i \in S |-> n]
<1>1. DOMAIN AllSegments(d) = S
  BY DEF SegmentsHold
<1>2. IsFiniteSet(S) /\ Cardinality(S) = N
  <2>1. IsFiniteSet(1 .. N) /\ Cardinality(1 .. N) = IF 1 > N THEN 0 ELSE N - 1 + 1
    BY FS_Interval
  <2>. QED
    BY <2>1
<1>3. e.bus \in Nat
  BY EngineParts
<1>4. ASSUME NEW i \in S
      PROVE  f[i] \in Nat /\ g[i] <= f[i] * e.bus
  <2>1. SegmentTyped(AllSegments(d)[i]) /\ AllSegments(d)[i][3] = n
    BY <1>1, SegmentsTyped DEF SegmentsHold
  <2>2. BoundedSegment(e, d, AllSegments(d)[i]) \in Nat \X Nat
    BY <2>1, BoundedSegmentTyped
  <2>3. n <= BoundedSegment(e, d, AllSegments(d)[i])[2] * e.bus
    BY <2>1, BoundedSegmentCovers
  <2>. QED
    BY <2>2, <2>3
<1>5. BoundedTotal(e, d, 2) = SumFunction(f)
  BY <1>1 DEF BoundedTotal
<1>6. f \in [S -> Nat] /\ g \in [S -> Nat]
  BY <1>4
<1>7. BarTotal(g) = N * n
  BY <1>2, TotalConstant
<1>. HIDE DEF f, g, S
<1>8. BarTotal(g) <= BarTotal(f) * e.bus
  BY <1>2, <1>3, <1>4, <1>6, TotalScaled
<1>9. BoundedTotal(e, d, 2) = BarTotal(f)
  BY <1>2, <1>5, <1>6, SumIsBarTotal
<1>10. BarTotal(f) \in Nat
  BY <1>2, <1>6, BarsFinite
<1>11. BarTotal(f) * e.bus \in Nat /\ N * n \in Nat /\ d.bytes \in Nat
  BY <1>3, <1>10, NaturalProduct, DescriptorParts
<1>. QED
  BY <1>7, <1>8, <1>9, <1>11 DEF SegmentsHold

\* Under every scope, boundary and segmentation.
LEMMA PayloadCovers ==
    ASSUME NEW e, EngineTimed(e), NEW d, DescriptorTyped(d), Sized(d), Unwrapped(d)
    PROVE  PayloadCycles(e, d) * e.bus >= d.bytes
<1>1. /\ SegmentCount(d) \in Nat /\ SegmentBytes(d) \in Nat /\ d.bytes \in Nat
      /\ BurstBytes(e, d) \in Nat \ {0} /\ e.bus \in Nat \ {0}
  BY SegmentType, EngineParts
<1>. DEFINE P == PayloadCycles(e, d)
<1>2. P \in Nat
  BY PayloadTyped
<1>3. CASE d.bytes = 0
  <2>1. P * e.bus \in Nat
    BY <1>1, <1>2, NaturalProduct
  <2>. QED
    BY <1>3, <2>1
<1>4. CASE d.bytes # 0
  <2>1. d.bytes <= SegmentCount(d) * SegmentBytes(d) /\ \E N, n \in Nat : SegmentsHold(d, N, n)
    BY <1>4, SegmentSizes
  <2>2. ASSUME NEW c \in Nat, SegmentBytes(d) <= c * e.bus
        PROVE  d.bytes <= (SegmentCount(d) * c) * e.bus
    <3>1. SegmentCount(d) * SegmentBytes(d) <= SegmentCount(d) * (c * e.bus)
      BY <1>1, <2>2, NaturalProduct, ProductMonotone
    <3>2. (SegmentCount(d) * c) * e.bus = SegmentCount(d) * (c * e.bus)
      BY <1>1, <2>2, ProductAssociates
    <3>3. SegmentCount(d) * SegmentBytes(d) \in Nat /\ (SegmentCount(d) * c) * e.bus \in Nat
      BY <1>1, <2>2, NaturalProduct
    <3>. QED
      BY <1>1, <2>1, <3>1, <3>2, <3>3
  <2>3. CASE e.payload = "packed"
    BY <1>1, <1>4, <2>3, CeilDivCovers DEF PayloadCycles
  <2>4. CASE e.payload = "segment"
    <3>1. PayloadCycles(e, d) = SegmentCount(d) * CeilDiv(SegmentBytes(d), e.bus)
      BY <1>4, <2>4 DEF PayloadCycles
    <3>2. CeilDiv(SegmentBytes(d), e.bus) \in Nat /\ SegmentBytes(d) <= CeilDiv(SegmentBytes(d), e.bus) * e.bus
      BY <1>1, CeilDivCovers
    <3>3. d.bytes <= (SegmentCount(d) * CeilDiv(SegmentBytes(d), e.bus)) * e.bus
      BY <2>2, <3>2
    <3>. QED
      BY <1>1, <1>2, <3>1, <3>3
  <2>5. CASE e.payload \notin {"packed", "segment"} /\ e.boundary # "size"
    <3>1. PayloadCycles(e, d) = BoundedTotal(e, d, 2)
      BY <1>4, <2>5 DEF PayloadCycles
    <3>. QED
      BY <1>1, <2>1, <3>1, BoundedTotalCovers
  <2>6. CASE e.payload \notin {"packed", "segment"} /\ e.boundary = "size" /\ e.segmentation = "logical"
    <3>. DEFINE c == BurstAligned(SegmentBytes(d), BurstBytes(e, d), e.bus)
    <3>1. PayloadCycles(e, d) = SegmentCount(d) * c
      BY <1>4, <2>6 DEF PayloadCycles
    <3>2. c \in Nat /\ SegmentBytes(d) <= c * e.bus
      BY <1>1, BurstAlignedTyped, BurstAlignedCovers
    <3>3. d.bytes <= (SegmentCount(d) * c) * e.bus
      BY <2>2, <3>2
    <3>. QED
      BY <3>1, <3>3
  <2>7. CASE e.payload \notin {"packed", "segment"} /\ e.boundary = "size" /\ e.segmentation # "logical"
    <3>1. PayloadCycles(e, d) = BurstAligned(d.bytes, BurstBytes(e, d), e.bus)
      BY <1>4, <2>7 DEF PayloadCycles
    <3>. QED
      BY <1>1, <3>1, BurstAlignedCovers
  <2>. QED
    BY <2>3, <2>4, <2>5, <2>6, <2>7
<1>. QED
  BY <1>3, <1>4

-------------------------------------------------------------------------------
(* Where bursts start.                                                         *)

\* Quotient and remainder of any integer.
LEMMA RemainderIs ==
    ASSUME NEW R \in Nat \ {0}, NEW y \in Int, NEW p \in Int, NEW r \in 0 .. R - 1, y = R * p + r
    PROVE  y % R = r
<1>. DEFINE q == y \div R
            s == y % R
<1>1. s \in 0 .. R - 1 /\ q \in Int /\ y = R * q + s
  OBVIOUS
<1>. HIDE DEF q, s
<1>2. ASSUME q < p PROVE FALSE
  <2>1. R * (p - q) >= R
    <3>1. p - q >= 1 /\ p - q \in Int
      BY <1>1, <1>2
    <3>. QED
      BY <3>1
  <2>2. R * (p - q) = R * p - R * q
    BY <1>1
  <2>. QED
    BY <1>1, <2>1, <2>2
<1>3. ASSUME p < q PROVE FALSE
  <2>1. R * (q - p) >= R
    <3>1. q - p >= 1 /\ q - p \in Int
      BY <1>1, <1>3
    <3>. QED
      BY <3>1
  <2>2. R * (q - p) = R * q - R * p
    BY <1>1
  <2>. QED
    BY <1>1, <2>1, <2>2
<1>4. p = q
  BY <1>1, <1>2, <1>3
<1>5. s = r
  BY <1>1, <1>4
<1>. QED
  BY <1>5 DEF s

\* What is left to the next multiple is the way to it.
LEMMA NextMultiple ==
    ASSUME NEW R \in Nat \ {0}, NEW x \in Int
    PROVE  /\ (x + (R - (x % R))) % R = 0
           /\ \A t \in 1 .. (R - (x % R)) - 1 : (x + t) % R # 0
<1>. DEFINE q == x \div R
            s == x % R
<1>1. s \in 0 .. R - 1 /\ q \in Int /\ x = R * q + s
  OBVIOUS
<1>. HIDE DEF q, s
<1>2. (x + (R - s)) % R = 0
  <2>1. x + (R - s) = R * (q + 1) + 0 /\ x + (R - s) \in Int /\ q + 1 \in Int /\ 0 \in 0 .. R - 1
    BY <1>1
  <2>. QED
    BY <2>1, RemainderIs
<1>3. ASSUME NEW t \in 1 .. (R - s) - 1 PROVE (x + t) % R # 0
  <2>1. x + t = R * q + (s + t) /\ x + t \in Int /\ s + t \in 0 .. R - 1 /\ s + t # 0
    BY <1>1
  <2>2. (x + t) % R = s + t
    BY <1>1, <2>1, RemainderIs
  <2>. QED
    BY <2>1, <2>2
<1>. QED
  BY <1>2, <1>3 DEF s

\* The starts of bursts of at most B bytes between the cuts C of L bytes.
Starts(C, B, L) ==
    {k \in 0 .. (L - 1) :
        \E c \in C : c <= k /\ (k - c) % B = 0 /\ \A x \in C : x <= c \/ k < x}

\* A burst from a start to the next cut, or of all its bytes, ends at the end
\* or where the next one starts.
LEMMA NextStart ==
    ASSUME NEW L \in Nat, NEW B \in Nat \ {0}, NEW C \in SUBSET Nat, NEW m \in Starts(C, B, L),
           NEW n \in 1 .. L - m, n <= B, \A t \in 1 .. n - 1 : m + t \notin C,
           n = L - m \/ n = B \/ m + n \in C
    PROVE  /\ m + n = L \/ m + n \in Starts(C, B, L)
           /\ \A k \in Starts(C, B, L) : k <= m \/ m + n <= k
<1>1. m \in 0 .. (L - 1) /\ m \in Nat /\ n \in Nat /\ m + n <= L /\ m < m + n
  BY DEF Starts
<1>2. PICK c \in C : c <= m /\ (m - c) % B = 0 /\ \A x \in C : x <= c \/ m < x
  BY DEF Starts
<1>3. ASSUME NEW x \in C, m < x, x < m + n PROVE FALSE
  <2>1. x - m \in 1 .. n - 1 /\ m + (x - m) = x
    BY <1>1, <1>3
  <2>. QED
    BY <1>3, <2>1
<1>4. ASSUME m + n # L PROVE m + n \in Starts(C, B, L)
  <2>1. m + n \in 0 .. (L - 1)
    BY <1>1, <1>4
  <2>2. CASE m + n \in C
    <3>1. ((m + n) - (m + n)) % B = 0
      <4>1. 0 % B = 0
        <5>1. 0 = B * 0 + 0 /\ 0 \in 0 .. B - 1
          OBVIOUS
        <5>. QED
          BY <5>1, RemainderIs
      <4>. QED
        BY <1>1, <4>1
    <3>2. \A x \in C : x <= m + n \/ m + n < x
      BY <1>1
    <3>. QED
      BY <1>1, <2>1, <2>2, <3>1, <3>2 DEF Starts
  <2>3. CASE m + n \notin C
    <3>1. n = B
      BY <1>1, <1>4, <2>3
    <3>2. ((m + n) - c) % B = 0
      <4>. DEFINE y == m - c
                  q == y \div B
      <4>1. q \in Int /\ m - c = B * q + 0
        <5>1. y \in Nat /\ y % B = 0
          BY <1>1, <1>2
        <5>. HIDE DEF y
        <5>2. q \in Int /\ y = B * q + (y % B)
          BY <5>1, Division
        <5>. HIDE DEF q
        <5>3. y = B * q + 0
          BY <5>1, <5>2
        <5>. QED
          BY <5>2, <5>3 DEF y
      <4>. HIDE DEF q, y
      <4>2. (m + n) - c = B * (q + 1) + 0
        BY <1>1, <3>1, <4>1
      <4>3. (m + n) - c \in Int /\ q + 1 \in Int /\ 0 \in 0 .. B - 1
        BY <1>1, <4>1
      <4>. QED
        BY <4>2, <4>3, RemainderIs
    <3>3. \A x \in C : x <= c \/ m + n < x
      <4>1. ASSUME NEW x \in C PROVE x <= c \/ m + n < x
        <5>1. CASE x <= c
          BY <5>1
        <5>2. CASE m < x
          BY <1>1, <1>3, <2>3, <5>2
        <5>. QED
          BY <1>2, <5>1, <5>2
      <4>. QED
        BY <4>1
    <3>4. c <= m + n
      BY <1>1, <1>2
    <3>. QED
      BY <2>1, <3>2, <3>3, <3>4 DEF Starts
  <2>. QED
    BY <2>2, <2>3
<1>5. ASSUME NEW k \in Starts(C, B, L), m < k, k < m + n PROVE FALSE
  <2>1. k \in Nat
    BY DEF Starts
  <2>2. PICK b \in C : b <= k /\ (k - b) % B = 0 /\ \A x \in C : x <= b \/ k < x
    BY DEF Starts
  <2>3. b <= m
    BY <1>1, <1>3, <1>5, <2>1, <2>2
  <2>4. b = c
    <3>1. c <= b \/ k < c
      BY <2>2
    <3>2. b <= c \/ m < b
      BY <1>2
    <3>. QED
      BY <1>1, <1>2, <1>5, <2>1, <2>2, <2>3, <3>1, <3>2
  <2>. DEFINE x == m - c
              t == k - m
  <2>5. x \in Int /\ x % B = 0 /\ t \in 1 .. (B - 0) - 1 /\ k - b = x + t
    BY <1>1, <1>2, <1>5, <2>1, <2>4
  <2>. HIDE DEF x, t
  <2>6. (x + t) % B # 0
    <3>1. \A i \in 1 .. (B - (x % B)) - 1 : (x + i) % B # 0
      BY <2>5, NextMultiple
    <3>. QED
      BY <2>5, <3>1
  <2>. QED
    BY <2>2, <2>5, <2>6
<1>6. \A k \in Starts(C, B, L) : k \in Nat
  BY DEF Starts
<1>. QED
  BY <1>1, <1>4, <1>5, <1>6

\* add_address_bounded_segment ends a burst at the first of these.
LEMMA ChunkMeetsCuts ==
    ASSUME NEW e, EngineTimed(e), NEW d, DescriptorTyped(d), NEW seg, SegmentTyped(seg),
           NEW m \in 0 .. seg[3] - 1, NEW n, n = Chunk(e, d, seg, seg[3] - m)
    PROVE  /\ n \in 1 .. seg[3] - m /\ n <= BurstBytes(e, d)
           /\ \A t \in 1 .. n - 1 : m + t \notin Cuts(e, d, seg)
           /\ n = seg[3] - m \/ n = BurstBytes(e, d) \/ m + n \in Cuts(e, d, seg)
<1>. DEFINE L == seg[3]
            left == L - m
            u == SramBoundary(e, d)
            v == ExternalBoundary(e, d)
            x == seg[1] + m
            y == seg[2] + m
            a == Room(SramBound(e), x, u, left)
            b == Room(ExternalBound(e), y, v, left)
            S == {left, BurstBytes(e, d), a, b}
            C == Cuts(e, d, seg)
<1>1. seg[1] \in Nat /\ seg[2] \in Int /\ L \in Nat /\ m \in Nat /\ left \in 1 .. L /\ L - left = m
  BY DEF SegmentTyped
<1>2. n \in 1 .. left
  BY <1>1, ChunkAdvances
<1>3. BurstBytes(e, d) \in Nat \ {0} /\ Page \in Nat \ {0}
  BY EngineParts, TransferAssumption
<1>4. u \in Nat \ {0} /\ v \in Nat \ {0}
  BY <1>3 DEF SramBoundary, ExternalBoundary
<1>5. x \in Int /\ y \in Int
  BY <1>1
<1>6. SramBound(e) \in BOOLEAN /\ ExternalBound(e) \in BOOLEAN
  BY DEF SramBound, ExternalBound
<1>7. a \in Nat \ {0} /\ b \in Nat \ {0}
  <2>1. left \in Nat \ {0}
    BY <1>1
  <2>. HIDE DEF u, v, x, y, left
  <2>. QED
    BY <1>4, <1>5, <1>6, <2>1, RoomPositive
<1>8. n = Min(S)
  BY <1>1 DEF Chunk
<1>9. n \in S /\ \A z \in S : n <= z
  <2>. HIDE DEF a, b, left
  <2>1. S \in SUBSET Int /\ S # {} /\ 1 \in Int /\ \A z \in S : 1 <= z
    BY <1>1, <1>3, <1>7
  <2>. HIDE DEF S
  <2>. QED
    BY <1>8, <2>1, LeastMember
<1>10. n <= a /\ n <= b /\ n <= BurstBytes(e, d)
  <2>. HIDE DEF a, b, left
  <2>. QED
    BY <1>9
<1>11. n \in {left, BurstBytes(e, d), a, b}
  BY <1>9
<1>12. \A k \in 1 .. (L - 1) :
         (k \in C <=> \/ SramBound(e) /\ (seg[1] + k) % u = 0
                      \/ ExternalBound(e) /\ (seg[2] + k) % v = 0)
  BY <1>1 DEF Cuts
<1>13. ASSUME SramBound(e)
       PROVE  (x + a) % u = 0 /\ \A t \in 1 .. a - 1 : (x + t) % u # 0
  <2>1. a = u - (x % u)
    BY <1>13 DEF Room
  <2>. HIDE DEF x, u, a
  <2>. QED
    BY <1>4, <1>5, <2>1, NextMultiple
<1>14. ASSUME ExternalBound(e)
       PROVE  (y + b) % v = 0 /\ \A t \in 1 .. b - 1 : (y + t) % v # 0
  <2>1. b = v - (y % v)
    BY <1>14 DEF Room
  <2>. HIDE DEF y, v, b
  <2>. QED
    BY <1>4, <1>5, <2>1, NextMultiple
<1>15. /\ ~SramBound(e) => a = left
       /\ ~ExternalBound(e) => b = left
  BY DEF Room
<1>. HIDE DEF a, b, u, v, C
<1>16. ASSUME NEW t \in 1 .. n - 1 PROVE m + t \notin C
  <2>1. m + t \in 1 .. (L - 1) /\ t \in 1 .. a - 1 /\ t \in 1 .. b - 1 /\ t \in Int
    BY <1>1, <1>2, <1>7, <1>10
  <2>2. seg[1] + (m + t) = x + t /\ seg[2] + (m + t) = y + t
    BY <1>1, <2>1
  <2>. HIDE DEF x, y, L
  <2>3. SramBound(e) => (x + t) % u # 0
    BY <1>13, <2>1
  <2>4. ExternalBound(e) => (y + t) % v # 0
    BY <1>14, <2>1
  <2>. QED
    BY <1>12, <2>1, <2>2, <2>3, <2>4
<1>17. ASSUME n # left, n # BurstBytes(e, d) PROVE m + n \in C
  <2>1. m + n \in 1 .. (L - 1) /\ n \in Int
    BY <1>1, <1>2, <1>17
  <2>2. seg[1] + (m + n) = x + n /\ seg[2] + (m + n) = y + n
    BY <1>1, <2>1
  <2>. HIDE DEF x, y, L
  <2>3. CASE n = a
    <3>1. SramBound(e) /\ (x + n) % u = 0
      BY <1>13, <1>15, <1>17, <2>3
    <3>. QED
      BY <1>12, <2>1, <2>2, <3>1
  <2>4. CASE n = b
    <3>1. ExternalBound(e) /\ (y + n) % v = 0
      BY <1>14, <1>15, <1>17, <2>4
    <3>. QED
      BY <1>12, <2>1, <2>2, <3>1
  <2>. QED
    BY <1>11, <1>17, <2>3, <2>4
<1>. QED
  BY <1>2, <1>10, <1>16, <1>17 DEF C

LEMMA CutsTyped ==
    ASSUME NEW e, NEW d, NEW seg
    PROVE  /\ Cuts(e, d, seg) \in SUBSET Nat /\ 0 \in Cuts(e, d, seg)
           /\ BurstStarts(e, d, seg) = Starts(Cuts(e, d, seg), BurstBytes(e, d), seg[3])
BY DEF Cuts, BurstStarts, Starts

\* As many bursts as starts: from any start on, by the bytes left.
LEMMA BurstsAreStarts ==
    ASSUME NEW e, EngineTimed(e), NEW d, DescriptorTyped(d), NEW seg, SegmentTyped(seg)
    PROVE  BoundedSegment(e, d, seg)[1] = Cardinality(BurstStarts(e, d, seg))
<1>. DEFINE L == seg[3]
            B == BurstBytes(e, d)
            C == Cuts(e, d, seg)
            T == Starts(C, B, L)
            From(i) == {k \in T : L - i <= k}
<1>1. PICK rest : Unrolls(e, d, seg, rest) /\ BoundedSegment(e, d, seg) = rest[L]
  BY SegmentUnrolls
<1>2. L \in Nat /\ B \in Nat \ {0} /\ C \in SUBSET Nat /\ 0 \in C
  BY EngineParts, CutsTyped DEF SegmentTyped
<1>3. T \in SUBSET (0 .. (L - 1)) /\ BurstStarts(e, d, seg) = T
  <2>1. BurstStarts(e, d, seg) = T
    BY CutsTyped
  <2>2. T \in SUBSET (0 .. (L - 1))
    BY DEF Starts
  <2>. QED
    BY <2>1, <2>2
<1>4. \A i \in 0 .. L : IsFiniteSet(From(i))
  <2>1. IsFiniteSet(0 .. (L - 1))
    <3>1. 0 \in Int /\ L - 1 \in Int
      BY <1>2
    <3>. HIDE DEF L
    <3>. QED
      BY <3>1, FS_Interval
  <2>. HIDE DEF T
  <2>2. \A i \in 0 .. L : From(i) \in SUBSET (0 .. (L - 1))
    BY <1>3
  <2>. HIDE DEF From
  <2>. QED
    BY <2>1, <2>2, FS_Subset
<1>. DEFINE D == {i \in 0 .. L : i = 0 \/ L - i \in T}
            Bad == {i \in D : rest[i][1] # Cardinality(From(i))}
<1>. HIDE DEF T
<1>5. Bad = {}
  <2>. SUFFICES ASSUME Bad # {} PROVE FALSE
    OBVIOUS
  <2>1. Bad \in SUBSET Nat
    BY <1>2
  <2>2. PICK i \in Bad : \A k \in Bad : i <= k
    BY <2>1, LeastNatural
  <2>3. i \in 0 .. L /\ i \in Nat /\ rest[i][1] # Cardinality(From(i)) /\ (i = 0 \/ L - i \in T)
    BY <2>1, <2>2
  <2>4. rest[i] = SegmentStep(e, d, seg, rest, i)
    BY <1>1, <2>3 DEF Unrolls
  <2>5. CASE i = 0
    <3>1. rest[i] = <<0, 0>>
      BY <2>4, <2>5 DEF SegmentStep
    <3>2. From(i) = {}
      <4>. HIDE DEF L
      <4>1. \A k \in T : k \in Int /\ k < L - 0
        BY <1>2, <1>3
      <4>. QED
        BY <1>2, <2>5, <4>1
    <3>3. Cardinality(From(i)) = 0
      BY <3>2, FS_EmptySet
    <3>. QED
      BY <2>3, <3>1, <3>3
  <2>6. CASE i # 0
    <3>. DEFINE m == L - i
                n == Chunk(e, d, seg, i)
                j == i - n
    <3>1. m \in 0 .. L - 1 /\ m \in T /\ L - m = i /\ m \in Int
      BY <1>2, <2>3, <2>6
    <3>2. /\ n \in 1 .. L - m /\ n <= B
          /\ \A t \in 1 .. n - 1 : m + t \notin C
          /\ n = L - m \/ n = B \/ m + n \in C
      <4>1. n = Chunk(e, d, seg, L - m)
        BY <3>1
      <4>. HIDE DEF n, m
      <4>. QED
        BY <3>1, <4>1, ChunkMeetsCuts
    <3>3. rest[i][1] = rest[j][1] + 1
      BY <2>4, <2>6 DEF SegmentStep
    <3>. HIDE DEF n
    <3>4. /\ m + n = L \/ m + n \in T
          /\ \A k \in T : k <= m \/ m + n <= k
      <4>. HIDE DEF m, C, L, B
      <4>. QED
        BY <1>2, <3>1, <3>2, NextStart DEF T
    <3>5. j \in 0 .. L /\ j < i /\ j \in Nat /\ L - j = m + n
      BY <1>2, <2>3, <3>1, <3>2
    <3>6. j \in D
      BY <1>2, <3>4, <3>5
    <3>7. rest[j][1] = Cardinality(From(j))
      <4>1. j \notin Bad
        BY <2>2, <2>3, <3>5
      <4>. QED
        BY <3>6, <4>1
    <3>8. From(i) = From(j) \cup {m} /\ m \notin From(j)
      <4>1. \A k \in T : k \in Int
        BY <1>3
      <4>2. n \in 1 .. i /\ L - i = m
        BY <3>1, <3>2
      <4>3. m \in T /\ m \in Int /\ n \in Int /\ L - j = m + n /\ m < m + n
        BY <3>1, <3>5, <4>2
      <4>4. From(i) = {k \in T : m <= k} /\ From(j) = {k \in T : m + n <= k}
        BY <4>2, <4>3
      <4>. HIDE DEF m, j, From
      <4>5. \A k \in T : m <= k <=> m + n <= k \/ k = m
        BY <3>4, <4>1, <4>3
      <4>6. From(i) = From(j) \cup {m}
        BY <4>3, <4>4, <4>5
      <4>7. m \notin From(j)
        BY <4>3, <4>4
      <4>. QED
        BY <4>6, <4>7
    <3>9. IsFiniteSet(From(j))
      BY <1>4, <3>5
    <3>. HIDE DEF From, m, j
    <3>10. Cardinality(From(j) \cup {m}) = Cardinality(From(j)) + 1
      BY <3>8, <3>9, FS_AddElement
    <3>. QED
      BY <2>3, <3>3, <3>7, <3>8, <3>10
  <2>. QED
    BY <2>5, <2>6
<1>6. L \in D
  <2>1. L # 0 => 0 \in T
    <3>1. 0 % B = 0
      <4>1. 0 = B * 0 + 0 /\ 0 \in 0 .. B - 1
        BY <1>2
      <4>. QED
        BY <1>2, <4>1, RemainderIs
    <3>. HIDE DEF L, B, C
    <3>2. \A x \in C : x <= 0 \/ 0 < x
      BY <1>2
    <3>. QED
      BY <1>2, <3>1, <3>2 DEF Starts, T
  <2>. QED
    BY <1>2, <2>1
<1>7. From(L) = T
  <2>. HIDE DEF L
  <2>1. \A k \in T : k \in Int /\ L - L <= k
    BY <1>2, <1>3
  <2>. QED
    BY <2>1
<1>8. rest[L][1] = Cardinality(From(L))
  BY <1>5, <1>6
<1>. QED
  BY <1>1, <1>3, <1>7, <1>8

-------------------------------------------------------------------------------
(* Overlap.                                                                    *)

\* Engines that differ in how commands and payload overlap, if at all.
Alike(e, f) ==
    /\ f.bus = e.bus /\ f.readBurst = e.readBurst /\ f.writeBurst = e.writeBurst
    /\ f.readIssue = e.readIssue /\ f.writeIssue = e.writeIssue
    /\ f.readLatency = e.readLatency /\ f.writeLatency = e.writeLatency
    /\ f.segmentation = e.segmentation /\ f.base = e.base /\ f.payload = e.payload
    /\ f.boundary = e.boundary

LEMMA AlikeChunks ==
    ASSUME NEW e, NEW f, Alike(e, f), NEW d, NEW seg, NEW left
    PROVE  Chunk(f, d, seg, left) = Chunk(e, d, seg, left)
<1>1. /\ SramBound(f) = SramBound(e) /\ ExternalBound(f) = ExternalBound(e)
      /\ BurstBytes(f, d) = BurstBytes(e, d)
  BY DEF Alike, SramBound, ExternalBound, BurstBytes
<1>2. SramBoundary(f, d) = SramBoundary(e, d) /\ ExternalBoundary(f, d) = ExternalBoundary(e, d)
  BY <1>1 DEF Alike, SramBoundary, ExternalBoundary
<1>. QED
  BY <1>1, <1>2 DEF Chunk

\* A segment unrolls in one way.
LEMMA AlikeSegments ==
    ASSUME NEW e, EngineTimed(e), NEW f, EngineTimed(f), Alike(e, f), NEW d, DescriptorTyped(d),
           NEW seg, SegmentTyped(seg)
    PROVE  BoundedSegment(f, d, seg) = BoundedSegment(e, d, seg)
<1>1. PICK x : Unrolls(e, d, seg, x) /\ BoundedSegment(e, d, seg) = x[seg[3]]
  BY SegmentUnrolls
<1>2. PICK y : Unrolls(f, d, seg, y) /\ BoundedSegment(f, d, seg) = y[seg[3]]
  BY SegmentUnrolls
<1>3. seg[3] \in Nat
  BY DEF SegmentTyped
<1>. DEFINE Bad == {i \in 0 .. seg[3] : x[i] # y[i]}
<1>4. Bad = {}
  <2>. SUFFICES ASSUME Bad # {} PROVE FALSE
    OBVIOUS
  <2>1. Bad \in SUBSET Nat
    BY <1>3
  <2>2. PICK i \in Bad : \A k \in Bad : i <= k
    BY <2>1, LeastNatural
  <2>3. i \in 0 .. seg[3] /\ i \in Nat /\ x[i] # y[i]
    BY <2>1, <2>2
  <2>4. x[i] = SegmentStep(e, d, seg, x, i) /\ y[i] = SegmentStep(f, d, seg, y, i)
    BY <1>1, <1>2, <2>3 DEF Unrolls
  <2>5. i # 0
    BY <2>3, <2>4 DEF SegmentStep
  <2>. DEFINE n == Chunk(e, d, seg, i)
              j == i - n
  <2>6. n \in 1 .. i /\ Chunk(f, d, seg, i) = n
    <3>1. i \in 1 .. seg[3]
      BY <1>3, <2>3, <2>5
    <3>. QED
      BY <3>1, AlikeChunks, ChunkAdvances
  <2>7. f.bus = e.bus
    BY DEF Alike
  <2>8. x[i] = <<x[j][1] + 1, x[j][2] + CeilDiv(n, e.bus)>> /\ y[i] = <<y[j][1] + 1, y[j][2] + CeilDiv(n, e.bus)>>
    BY <2>4, <2>5, <2>6, <2>7 DEF SegmentStep
  <2>. HIDE DEF n
  <2>9. j \in 0 .. seg[3] /\ j < i
    BY <1>3, <2>3, <2>6
  <2>10. x[j] = y[j]
    <3>1. j \notin Bad
      BY <1>3, <2>2, <2>3, <2>9
    <3>. QED
      BY <2>9, <3>1
  <2>. HIDE DEF j
  <2>. QED
    BY <2>3, <2>8, <2>10
<1>5. seg[3] \in 0 .. seg[3]
  BY <1>3
<1>. QED
  BY <1>1, <1>2, <1>4, <1>5

\* The parts of a transfer's cycles do not depend on the overlap.
LEMMA AlikeParts ==
    ASSUME NEW e, EngineTimed(e), NEW f, EngineTimed(f), Alike(e, f), NEW d, DescriptorTyped(d)
    PROVE  /\ BaseCycles(f, d) = BaseCycles(e, d) /\ IssueCycles(f, d) = IssueCycles(e, d)
           /\ PayloadCycles(f, d) = PayloadCycles(e, d) /\ BurstCount(f, d) = BurstCount(e, d)
<1>1. BurstBytes(f, d) = BurstBytes(e, d)
  BY DEF Alike, BurstBytes
<1>2. ASSUME NEW k \in {1, 2} PROVE BoundedTotal(f, d, k) = BoundedTotal(e, d, k)
  <2>1. \A i \in DOMAIN AllSegments(d) : SegmentTyped(AllSegments(d)[i])
    BY SegmentsTyped
  <2>2. \A i \in DOMAIN AllSegments(d) :
            BoundedSegment(f, d, AllSegments(d)[i]) = BoundedSegment(e, d, AllSegments(d)[i])
    BY <2>1, AlikeSegments
  <2>3. [i \in DOMAIN AllSegments(d) |-> BoundedSegment(f, d, AllSegments(d)[i])[k]]
          = [i \in DOMAIN AllSegments(d) |-> BoundedSegment(e, d, AllSegments(d)[i])[k]]
    BY <2>2
  <2>. QED
    BY <2>3 DEF BoundedTotal
<1>3. BaseCycles(f, d) = BaseCycles(e, d) /\ IssueCycles(f, d) = IssueCycles(e, d)
  BY DEF Alike, BaseCycles, IssueCycles
<1>4. PayloadCycles(f, d) = PayloadCycles(e, d)
  BY <1>1, <1>2 DEF Alike, PayloadCycles
<1>5. BurstCount(f, d) = BurstCount(e, d)
  BY <1>1, <1>2 DEF Alike, BurstCount
<1>. QED
  BY <1>3, <1>4, <1>5

\* The first command precedes the payload; the others hide behind it or it
\* behind them.
LEMMA CombineBounds ==
    ASSUME NEW e, NEW f, e.overlap = "overlapped", f.overlap = "serialized",
           NEW payload \in Nat, NEW bursts \in Nat, NEW issue \in Nat
    PROVE  /\ Combine(e, payload, bursts, issue) <= Combine(f, payload, bursts, issue)
           /\ bursts * issue <= Combine(e, payload, bursts, issue)
           /\ bursts > 0 => payload + issue <= Combine(e, payload, bursts, issue)
<1>. DEFINE b == bursts * issue
            S == {payload, b - issue}
<1>1. b \in Nat
  BY NaturalProduct
<1>2. /\ Combine(e, payload, bursts, issue) = IF bursts > 0 /\ issue > 0 THEN issue + Max(S) ELSE payload + b
      /\ Combine(f, payload, bursts, issue) = payload + b
  BY DEF Combine
<1>3. bursts > 0 => issue <= b
  <2>1. bursts > 0 => issue * 1 <= issue * bursts
    BY ProductMonotone
  <2>2. issue * bursts = bursts * issue
    OBVIOUS
  <2>. QED
    BY <2>1, <2>2
<1>4. issue = 0 => b = 0
  OBVIOUS
<1>. HIDE DEF b
<1>5. S \in SUBSET Int /\ IsFiniteSet(S) /\ S # {}
  <2>1. IsFiniteSet(S)
    BY PairFinite
  <2>. QED
    BY <1>1, <2>1
<1>6. payload \in S /\ b - issue \in S
  OBVIOUS
<1>7. Max(S) \in Int /\ payload <= Max(S) /\ b - issue <= Max(S) /\ Max(S) \in {payload, b - issue}
  <2>. HIDE DEF S
  <2>1. PICK x \in Int, y \in Int : \A s \in S : x <= s /\ s <= y
    BY <1>5, FiniteBounds
  <2>2. Max(S) \in S /\ Max(S) \in Int /\ \A s \in S : s <= Max(S)
    BY <1>5, <2>1, GreatestMember
  <2>. QED
    BY <1>6, <2>2 DEF S
<1>. DEFINE m == Max(S)
<1>. HIDE DEF m, S
<1>8. m \in Int /\ payload <= m /\ b - issue <= m /\ (m = payload \/ m = b - issue)
  BY <1>7 DEF m
<1>9. CASE bursts > 0 /\ issue > 0
  BY <1>1, <1>2, <1>3, <1>8, <1>9 DEF b, m
<1>10. CASE ~(bursts > 0 /\ issue > 0)
  BY <1>1, <1>2, <1>4, <1>10 DEF b
<1>. QED
  BY <1>9, <1>10

LEMMA OverlapBounded ==
    ASSUME NEW e, EngineTimed(e), DOMAIN e = Fields, NEW d, DescriptorTyped(d)
    PROVE  LET cycles(mode) == TransferCycles([e EXCEPT !.overlap = mode], d)
               issue == IssueCycles(e, d)
               n == BurstCount(e, d)
           IN  /\ cycles("overlapped") <= cycles("serialized")
               /\ cycles("overlapped") - BaseCycles(e, d) >= n * issue
               /\ n > 0 => cycles("overlapped") - BaseCycles(e, d) >= PayloadCycles(e, d) + issue
<1>. DEFINE o == [e EXCEPT !.overlap = "overlapped"]
            s == [e EXCEPT !.overlap = "serialized"]
            issue == IssueCycles(e, d)
            n == BurstCount(e, d)
            payload == PayloadCycles(e, d)
            base == BaseCycles(e, d)
<1>1. /\ o.overlap = "overlapped" /\ s.overlap = "serialized" /\ Alike(e, o) /\ Alike(e, s)
  BY DEF Alike, Fields, Zeroed
<1>2. EngineTimed(o) /\ EngineTimed(s)
  BY <1>1 DEF Alike, EngineTimed, Timed
<1>. HIDE DEF o, s
<1>3. /\ TransferCycles(o, d) = base + Combine(o, payload, n, issue)
      /\ TransferCycles(s, d) = base + Combine(s, payload, n, issue)
  BY <1>1, <1>2, AlikeParts DEF TransferCycles
<1>4. base \in Nat
  <2>1. e.readLatency \in Nat /\ e.writeLatency \in Nat /\ SegmentCount(d) \in Nat
    BY EngineParts, SegmentType
  <2>2. (IF Writes(d) THEN e.writeLatency ELSE e.readLatency) \in Nat
        /\ (IF e.base = "segment" THEN SegmentCount(d) ELSE 1) \in Nat
    BY <2>1
  <2>. QED
    BY <2>2, NaturalProduct DEF BaseCycles
<1>5. payload \in Nat /\ n \in Nat /\ issue \in Nat
  BY PayloadTyped, BurstCountTyped, EngineParts
<1>. HIDE DEF base, payload, n, issue
<1>. DEFINE co == Combine(o, payload, n, issue)
            cs == Combine(s, payload, n, issue)
<1>6. co \in Nat /\ cs \in Nat /\ n * issue \in Nat
  BY <1>5, CombineTyped, NaturalProduct
<1>7. co <= cs /\ n * issue <= co /\ (n > 0 => payload + issue <= co)
  BY <1>1, <1>5, CombineBounds
<1>8. TransferCycles(o, d) = base + co /\ TransferCycles(s, d) = base + cs
  BY <1>3
<1>. DEFINE b == n * issue
<1>. HIDE DEF co, cs, b
<1>9. base + co <= base + cs /\ (base + co) - base >= b
      /\ (n > 0 => (base + co) - base >= payload + issue)
  BY <1>4, <1>5, <1>6, <1>7 DEF b
<1>. QED
  BY <1>8, <1>9 DEF o, s, base, payload, n, issue, b

-------------------------------------------------------------------------------
(* The timing of the first initializers.                                       *)

\* What they leave to the later ones.
Historical ==
    [max_burst |-> Defaults.burst, burst_issue |-> Defaults.issue, read_burst |-> 0, write_burst |-> 0,
     read_issue |-> Unset, write_issue |-> Unset, segmentation |-> "aggregate", base_scope |-> "descriptor",
     payload_scope |-> "packed", issue_payload_mode |-> "serialized", boundary_mode |-> "size",
     drr_quantum_cycles |-> 64]

\* Nothing else was asked for, and only these names are yet to be added.
Early(p) == \A name \in DOMAIN Historical \cap DOMAIN p : p[name] = Historical[name]
Leaves(p, names) == Early(p) /\ DOMAIN Historical \ names \subseteq DOMAIN p

\* Whatever has a bus has a price and a quantum of it.
Priced(e) ==
    e.bus > 0 =>
        /\ e.cost \in {"useful", "occupied", "service"}
        /\ e.quantumBytes \in Nat \ {0} /\ e.quantumCycles \in Nat \ {0}

\* The engine that comes of it, if it works.
Historic(e) ==
    e.channels > 0 =>
        /\ e.bus > 0 /\ e.boundary = "size" /\ e.segmentation = "aggregate" /\ e.base = "descriptor"
        /\ e.payload = "packed" /\ e.overlap = "serialized"
        /\ e.readBurst = Defaults.burst /\ e.writeBurst = Defaults.burst
        /\ e.readIssue = Defaults.issue /\ e.writeIssue = Defaults.issue

\* A historic engine in full.
Kept(e) == Historic(e) /\ Priced(e) /\ DOMAIN e = Fields

LEMMA ConfiguredPriced ==
    ASSUME NEW p, p.drr_quantum_cycles \in Nat
    PROVE  Priced(Configured(p)) /\ DOMAIN Configured(p) = Fields
<1>. DEFINE e == Configured(p)
<1>1. DOMAIN e = Fields
  BY ConfiguredForms
<1>2. \/ e.bus = 0
      \/ /\ DrrValid(p) /\ AsRequested(e, p)
         /\ e.quantumBytes = OrElse(p.drr_quantum_bytes, 256)
         /\ e.quantumCycles = OrElse(p.drr_quantum_cycles, 64)
  BY ConfiguredForms
<1>. HIDE DEF e
<1>3. CASE e.bus = 0
  BY <1>1, <1>3 DEF Priced, e
<1>4. CASE /\ DrrValid(p) /\ AsRequested(e, p)
           /\ e.quantumBytes = OrElse(p.drr_quantum_bytes, 256)
           /\ e.quantumCycles = OrElse(p.drr_quantum_cycles, 64)
  <2>1. e.cost \in {"useful", "occupied", "service"}
    BY <1>4 DEF DrrValid, AsRequested
  <2>2. e.quantumCycles \in Nat \ {0}
    BY <1>4, OrElseType, 64 \in Nat \ {0}
  <2>3. e.quantumBytes \in Nat \ {0}
    <3>1. Within(e.quantumBytes, Limits.quantum) /\ PowerOf2(e.quantumBytes)
      BY <1>4 DEF DrrValid
    <3>2. PICK k \in 0 .. 16 : e.quantumBytes = 2^k
      BY <3>1 DEF PowerOf2
    <3>3. e.quantumBytes \in Int
      BY <3>2
    <3>4. Limits.quantum[1] > 0 /\ Limits.quantum \in Nat \X Nat
      BY ConfigAssumption
    <3>. QED
      BY <3>1, <3>3, <3>4 DEF Within
  <2>. QED
    BY <1>1, <2>1, <2>2, <2>3 DEF Priced, e
<1>. QED
  BY <1>2, <1>3, <1>4

LEMMA ConfiguredHistoric ==
    ASSUME NEW p, Leaves(p, {})
    PROVE  Kept(Configured(p))
<1>. DEFINE e == Configured(p)
<1>1. \/ e.channels = 0
      \/ /\ BusValid(p) /\ AsRequested(e, p)
         /\ e.bus = OrElse(p.bus_width, Defaults.bus)
         /\ e.readBurst = OrElse(p.read_burst, CommonBurst(p))
         /\ e.writeBurst = OrElse(p.write_burst, CommonBurst(p))
         /\ e.readIssue = IssueOf(p, p.read_issue) /\ e.writeIssue = IssueOf(p, p.write_issue)
  BY ConfiguredForms
<1>0. Priced(e) /\ DOMAIN e = Fields
  <2>1. p.drr_quantum_cycles = 64
    BY DEF Leaves, Early, Historical
  <2>. QED
    BY <2>1, ConfiguredPriced
<1>2. /\ p.max_burst = Defaults.burst /\ p.burst_issue = Defaults.issue
      /\ p.read_burst = 0 /\ p.write_burst = 0 /\ p.read_issue = Unset /\ p.write_issue = Unset
      /\ p.segmentation = "aggregate" /\ p.base_scope = "descriptor" /\ p.payload_scope = "packed"
      /\ p.issue_payload_mode = "serialized" /\ p.boundary_mode = "size"
  BY DEF Leaves, Early, Historical
<1>3. Defaults.burst \in Nat /\ Limits.bus \in Nat \X Nat /\ Limits.bus[1] > 0
  BY ConfigAssumption
<1>. HIDE DEF e
<1>4. CASE e.channels = 0
  BY <1>0, <1>4 DEF Historic, Kept, e
<1>5. CASE /\ BusValid(p) /\ AsRequested(e, p)
           /\ e.bus = OrElse(p.bus_width, Defaults.bus)
           /\ e.readBurst = OrElse(p.read_burst, CommonBurst(p))
           /\ e.writeBurst = OrElse(p.write_burst, CommonBurst(p))
           /\ e.readIssue = IssueOf(p, p.read_issue) /\ e.writeIssue = IssueOf(p, p.write_issue)
  <2>1. CommonBurst(p) = Defaults.burst
    BY <1>2 DEF CommonBurst, OrElse
  <2>2. e.readBurst = Defaults.burst /\ e.writeBurst = Defaults.burst
    BY <1>2, <1>5, <2>1 DEF OrElse
  <2>3. e.readIssue = Defaults.issue /\ e.writeIssue = Defaults.issue
    BY <1>2, <1>5 DEF IssueOf
  <2>4. Limits.bus[1] <= e.bus /\ PowerOf2(e.bus)
    BY <1>5 DEF BusValid, Within
  <2>5. e.bus > 0
    <3>1. PICK k \in 0 .. 16 : e.bus = 2^k
      BY <2>4 DEF PowerOf2
    <3>2. e.bus \in Int
      BY <3>1
    <3>. QED
      BY <1>3, <2>4, <3>2
  <2>. QED
    BY <1>0, <1>2, <1>5, <2>2, <2>3, <2>5 DEF Historic, Kept, AsRequested, e
<1>. QED
  BY <1>1, <1>4, <1>5

\* A default that is the historical one, or none of these, leaves the rest.
LEMMA WithEarly ==
    ASSUME NEW p, NEW names, Leaves(p, names), NEW d, Early(d), NEW rest, names \subseteq rest \cup DOMAIN d
    PROVE  Leaves(With(p, d), rest)
<1>1. DOMAIN With(p, d) = DOMAIN p \cup DOMAIN d
  BY DEF With
<1>2. \A n \in DOMAIN With(p, d) : With(p, d)[n] = IF n \in DOMAIN p THEN p[n] ELSE d[n]
  BY DEF With
<1>. QED
  BY <1>1, <1>2 DEF Leaves, Early

LEMMA ChainHistoric ==
    /\ \A p : Leaves(p, DOMAIN Historical) => Kept(InitTiming(p))
    /\ \A p : Leaves(p, DOMAIN Historical) => Kept(InitChannels(p))
<1>. DEFINE N0 == {"drr_quantum_cycles"}
            N1 == N0 \cup {"boundary_mode"}
            N2 == N1 \cup {"issue_payload_mode"}
            N3 == N2 \cup {"payload_scope"}
            N4 == N3 \cup {"base_scope"}
            N5 == N4 \cup {"segmentation"}
            N6 == N5 \cup {"read_issue", "write_issue"}
            N7 == N6 \cup {"read_burst", "write_burst"}
            N8 == N7 \cup {"max_burst", "burst_issue"}
<1>1. ASSUME NEW q, Leaves(q, N0) PROVE Kept(InitDrrCost(q))
  <2>. DEFINE d == [drr_quantum_cycles |-> 64]
  <2>1. Early(d) /\ N0 \subseteq {} \cup DOMAIN d
    BY DEF Early, Historical
  <2>. HIDE DEF d
  <2>2. Leaves(With(q, d), {})
    BY <1>1, <2>1, WithEarly
  <2>. QED
    BY <2>2, ConfiguredHistoric DEF InitDrrCost, d
<1>2. ASSUME NEW q, Leaves(q, N0) PROVE Kept(InitDrr(q))
  <2>. DEFINE d == [drr_cost_mode |-> "useful"]
  <2>1. Early(d) /\ N0 \subseteq N0 \cup DOMAIN d
    BY DEF Early, Historical
  <2>. HIDE DEF d
  <2>2. Leaves(With(q, d), N0)
    BY <1>2, <2>1, WithEarly
  <2>. QED
    BY <2>2, <1>1 DEF InitDrr, d
<1>3. ASSUME NEW q, Leaves(q, N0) PROVE Kept(InitPolicyCap(q))
  <2>. DEFINE d == [drr_quantum_bytes |-> 256]
  <2>1. Early(d) /\ N0 \subseteq N0 \cup DOMAIN d
    BY DEF Early, Historical
  <2>. HIDE DEF d
  <2>2. Leaves(With(q, d), N0)
    BY <1>3, <2>1, WithEarly
  <2>. QED
    BY <2>2, <1>2 DEF InitPolicyCap, d
<1>4. ASSUME NEW q, Leaves(q, N0) PROVE Kept(InitAgingPolicy(q))
  <2>. DEFINE d == [aging_max_boost |-> 0]
  <2>1. Early(d) /\ N0 \subseteq N0 \cup DOMAIN d
    BY DEF Early, Historical
  <2>. HIDE DEF d
  <2>2. Leaves(With(q, d), N0)
    BY <1>4, <2>1, WithEarly
  <2>. QED
    BY <2>2, <1>3 DEF InitAgingPolicy, d
<1>5. ASSUME NEW q, Leaves(q, N0) PROVE Kept(InitAgingRate(q))
  <2>. DEFINE d == [aging_metric |-> "grants", aging_cycle_quantum |-> 1]
  <2>1. Early(d) /\ N0 \subseteq N0 \cup DOMAIN d
    BY DEF Early, Historical
  <2>. HIDE DEF d
  <2>2. Leaves(With(q, d), N0)
    BY <1>5, <2>1, WithEarly
  <2>. QED
    BY <2>2, <1>4 DEF InitAgingRate, d
<1>6. ASSUME NEW q, Leaves(q, N0) PROVE Kept(InitAging(q))
  <2>. DEFINE d == [aging_increment |-> 1]
  <2>1. Early(d) /\ N0 \subseteq N0 \cup DOMAIN d
    BY DEF Early, Historical
  <2>. HIDE DEF d
  <2>2. Leaves(With(q, d), N0)
    BY <1>6, <2>1, WithEarly
  <2>. QED
    BY <2>2, <1>5 DEF InitAging, d
<1>7. ASSUME NEW q, Leaves(q, N0) PROVE Kept(InitBoundary(q))
  <2>. DEFINE d == [aging_scope |-> "submission"]
  <2>1. Early(d) /\ N0 \subseteq N0 \cup DOMAIN d
    BY DEF Early, Historical
  <2>. HIDE DEF d
  <2>2. Leaves(With(q, d), N0)
    BY <1>7, <2>1, WithEarly
  <2>. QED
    BY <2>2, <1>6 DEF InitBoundary, d
<1>8. ASSUME NEW q, Leaves(q, N1) PROVE Kept(InitOverlap(q))
  <2>. DEFINE d == [boundary_mode |-> "size"]
  <2>1. Early(d) /\ N1 \subseteq N0 \cup DOMAIN d
    BY DEF Early, Historical
  <2>. HIDE DEF d
  <2>2. Leaves(With(q, d), N0)
    BY <1>8, <2>1, WithEarly
  <2>. QED
    BY <2>2, <1>7 DEF InitOverlap, d
<1>9. ASSUME NEW q, Leaves(q, N2) PROVE Kept(InitPayloadScope(q))
  <2>. DEFINE d == [issue_payload_mode |-> "serialized"]
  <2>1. Early(d) /\ N2 \subseteq N1 \cup DOMAIN d
    BY DEF Early, Historical
  <2>. HIDE DEF d
  <2>2. Leaves(With(q, d), N1)
    BY <1>9, <2>1, WithEarly
  <2>. QED
    BY <2>2, <1>8 DEF InitPayloadScope, d
<1>10. ASSUME NEW q, Leaves(q, N3) PROVE Kept(InitBaseScope(q))
  <2>. DEFINE d == [payload_scope |-> "packed"]
  <2>1. Early(d) /\ N3 \subseteq N2 \cup DOMAIN d
    BY DEF Early, Historical
  <2>. HIDE DEF d
  <2>2. Leaves(With(q, d), N2)
    BY <1>10, <2>1, WithEarly
  <2>. QED
    BY <2>2, <1>9 DEF InitBaseScope, d
<1>11. ASSUME NEW q, Leaves(q, N4) PROVE Kept(InitSegmentation(q))
  <2>. DEFINE d == [base_scope |-> "descriptor"]
  <2>1. Early(d) /\ N4 \subseteq N3 \cup DOMAIN d
    BY DEF Early, Historical
  <2>. HIDE DEF d
  <2>2. Leaves(With(q, d), N3)
    BY <1>11, <2>1, WithEarly
  <2>. QED
    BY <2>2, <1>10 DEF InitSegmentation, d
<1>12. ASSUME NEW q, Leaves(q, N5) PROVE Kept(InitDirectionalIssue(q))
  <2>. DEFINE d == [segmentation |-> "aggregate"]
  <2>1. Early(d) /\ N5 \subseteq N4 \cup DOMAIN d
    BY DEF Early, Historical
  <2>. HIDE DEF d
  <2>2. Leaves(With(q, d), N4)
    BY <1>12, <2>1, WithEarly
  <2>. QED
    BY <2>2, <1>11 DEF InitDirectionalIssue, d
<1>13. ASSUME NEW q, Leaves(q, N6) PROVE Kept(InitDirectionalBurst(q))
  <2>. DEFINE d == [read_issue |-> Unset, write_issue |-> Unset]
  <2>1. Early(d) /\ N6 \subseteq N5 \cup DOMAIN d
    BY DEF Early, Historical
  <2>. HIDE DEF d
  <2>2. Leaves(With(q, d), N5)
    BY <1>13, <2>1, WithEarly
  <2>. QED
    BY <2>2, <1>12 DEF InitDirectionalBurst, d
<1>14. ASSUME NEW q, Leaves(q, N7) PROVE Kept(InitBurst(q))
  <2>. DEFINE d == [read_burst |-> 0, write_burst |-> 0]
  <2>1. Early(d) /\ N7 \subseteq N6 \cup DOMAIN d
    BY DEF Early, Historical
  <2>. HIDE DEF d
  <2>2. Leaves(With(q, d), N6)
    BY <1>14, <2>1, WithEarly
  <2>. QED
    BY <2>2, <1>13 DEF InitBurst, d
<1>15. ASSUME NEW q, Leaves(q, N8) PROVE Kept(InitTiming(q))
  <2>. DEFINE d == [max_burst |-> Defaults.burst, burst_issue |-> Defaults.issue]
  <2>1. Early(d) /\ N8 \subseteq N7 \cup DOMAIN d
    BY DEF Early, Historical
  <2>. HIDE DEF d
  <2>2. Leaves(With(q, d), N7)
    BY <1>15, <2>1, WithEarly
  <2>. QED
    BY <2>2, <1>14 DEF InitTiming, d
<1>16. ASSUME NEW q, Leaves(q, N8) PROVE Kept(InitArch(q))
  <2>. DEFINE d == [read_latency |-> Defaults.read, write_latency |-> Defaults.write]
  <2>1. Early(d) /\ N8 \subseteq N8 \cup DOMAIN d
    BY DEF Early, Historical
  <2>. HIDE DEF d
  <2>2. Leaves(With(q, d), N8)
    BY <1>16, <2>1, WithEarly
  <2>. QED
    BY <2>2, <1>15 DEF InitArch, d
<1>17. ASSUME NEW q, Leaves(q, N8) PROVE Kept(InitBindingPolicy(q))
  <2>. DEFINE d == [bus_width |-> Defaults.bus]
  <2>1. Early(d) /\ N8 \subseteq N8 \cup DOMAIN d
    BY DEF Early, Historical
  <2>. HIDE DEF d
  <2>2. Leaves(With(q, d), N8)
    BY <1>17, <2>1, WithEarly
  <2>. QED
    BY <2>2, <1>16 DEF InitBindingPolicy, d
<1>18. ASSUME NEW q, Leaves(q, N8) PROVE Kept(InitPolicy(q))
  <2>. DEFINE d == [binding_policy |-> "explicit"]
  <2>1. Early(d) /\ N8 \subseteq N8 \cup DOMAIN d
    BY DEF Early, Historical
  <2>. HIDE DEF d
  <2>2. Leaves(With(q, d), N8)
    BY <1>18, <2>1, WithEarly
  <2>. QED
    BY <2>2, <1>17 DEF InitPolicy, d
<1>19. ASSUME NEW q, Leaves(q, N8) PROVE Kept(InitConfig(q))
  <2>. DEFINE d == [arb_policy |-> "rr"]
  <2>1. Early(d) /\ N8 \subseteq N8 \cup DOMAIN d
    BY DEF Early, Historical
  <2>. HIDE DEF d
  <2>2. Leaves(With(q, d), N8)
    BY <1>19, <2>1, WithEarly
  <2>. QED
    BY <2>2, <1>18 DEF InitConfig, d
<1>20. ASSUME NEW q, Leaves(q, N8) PROVE Kept(InitChannels(q))
  <2>. DEFINE d == [bus_mode |-> "independent"]
  <2>1. Early(d) /\ N8 \subseteq N8 \cup DOMAIN d
    BY DEF Early, Historical
  <2>. HIDE DEF d
  <2>2. Leaves(With(q, d), N8)
    BY <1>20, <2>1, WithEarly
  <2>. QED
    BY <2>2, <1>19 DEF InitChannels, d
<1>21. DOMAIN Historical = N8
  BY DEF Historical
<1>. QED
  BY <1>15, <1>20, <1>21

LEMMA InitializersHistoric ==
    /\ \A p \in ShortRequests : Kept(InitTiming(p))
    /\ \A async \in BOOLEAN : Kept(InitDefault(async))
    /\ Kept(Zeroed)
<1>1. ASSUME NEW p \in ShortRequests PROVE Kept(InitTiming(p))
  <2>1. DOMAIN p = ShortFields
    BY ConfigAssumption
  <2>2. Leaves(p, DOMAIN Historical)
    BY <2>1 DEF Leaves, Early, Historical, ShortFields
  <2>. QED
    BY <2>2, ChainHistoric
<1>2. ASSUME NEW async \in BOOLEAN PROVE Kept(InitDefault(async))
  <2>. DEFINE p == [async |-> async, num_channels |-> Defaults.channels, max_queue_depth |-> Defaults.depth]
  <2>1. Leaves(p, DOMAIN Historical)
    BY DEF Leaves, Early, Historical
  <2>2. InitDefault(async) = InitChannels(p)
    BY DEF InitDefault
  <2>. HIDE DEF p
  <2>. QED
    BY <2>1, <2>2, ChainHistoric
<1>3. Kept(Zeroed)
  BY DEF Historic, Kept, Priced, Fields, Zeroed
<1>. QED
  BY <1>1, <1>2, <1>3

\* The cycles of such an engine.
LEMMA HistoricCycles ==
    ASSUME NEW e, EngineTimed(e), Historic(e), e.channels > 0, NEW d, DescriptorTyped(d)
    PROVE  TransferCycles(e, d) =
              (IF Writes(d) THEN e.writeLatency ELSE e.readLatency)
              + CeilDiv(d.bytes, e.bus) + CeilDiv(d.bytes, Defaults.burst) * Defaults.issue
<1>1. /\ e.boundary = "size" /\ e.segmentation = "aggregate" /\ e.base = "descriptor"
      /\ e.payload = "packed" /\ e.overlap = "serialized"
      /\ BurstBytes(e, d) = Defaults.burst /\ IssueCycles(e, d) = Defaults.issue
  BY DEF Historic, BurstBytes, IssueCycles
<1>2. /\ BurstBytes(e, d) \in Nat \ {0} /\ e.bus \in Nat \ {0} /\ d.bytes \in Nat
      /\ e.readLatency \in Nat /\ e.writeLatency \in Nat
  BY EngineParts, SegmentType
<1>3. PayloadCycles(e, d) = CeilDiv(d.bytes, e.bus)
  BY <1>1, <1>2, CeilDivNone DEF PayloadCycles
<1>4. BurstCount(e, d) = CeilDiv(d.bytes, Defaults.burst)
  BY <1>1, <1>2, CeilDivNone DEF BurstCount
<1>. DEFINE latency == IF Writes(d) THEN e.writeLatency ELSE e.readLatency
            c == CeilDiv(d.bytes, e.bus)
            x == CeilDiv(d.bytes, Defaults.burst) * Defaults.issue
<1>5. BaseCycles(e, d) = latency
  <2>1. BaseCycles(e, d) = latency * 1
    BY <1>1 DEF BaseCycles
  <2>2. latency \in Nat
    BY <1>2
  <2>. HIDE DEF latency
  <2>. QED
    BY <2>1, <2>2
<1>6. Combine(e, PayloadCycles(e, d), BurstCount(e, d), IssueCycles(e, d)) = c + x
  BY <1>1, <1>3, <1>4 DEF Combine
<1>7. latency \in Nat /\ c \in Nat /\ x \in Nat
  <2>1. CeilDiv(d.bytes, Defaults.burst) \in Nat /\ Defaults.issue \in Nat
    BY <1>1, <1>2, CeilDivType, ConfigAssumption
  <2>. QED
    BY <1>2, <2>1, CeilDivType, NaturalProduct
<1>8. TransferCycles(e, d) = latency + (c + x)
  BY <1>5, <1>6 DEF TransferCycles
<1>. HIDE DEF latency, c, x
<1>9. TransferCycles(e, d) = latency + c + x
  BY <1>7, <1>8
<1>. QED
  BY <1>9 DEF latency, c, x

\* The price of a descriptor in whole quanta.
LEMMA CostRounds ==
    ASSUME NEW e, EngineTimed(e), Priced(e), NEW d, DescriptorTyped(d),
           ExactCost(e, d) > 0, DrrCost(e, 1, d) < CostMax
    PROVE  /\ DrrCost(e, 1, d) % DrrQuantum(e) = 0 /\ ExactCost(e, d) <= DrrCost(e, 1, d)
           /\ DrrCost(e, 1, d) - ExactCost(e, d) < DrrQuantum(e)
<1>. DEFINE exact == ExactCost(e, d)
            q == DrrQuantum(e)
            c == CeilDiv(exact, q)
<1>1. e.bus \in Nat \ {0} /\ e.bus > 0
  BY EngineParts
<1>2. q \in Nat \ {0}
  BY <1>1 DEF Priced, DrrQuantum
<1>3. exact \in Nat
  <2>1. TransferCycles(e, d) \in Nat /\ PayloadCycles(e, d) \in Nat /\ d.bytes \in Nat
    BY TransferTyped, PayloadTyped, SegmentType
  <2>2. PayloadCycles(e, d) * e.bus \in Nat
    BY <1>1, <2>1, NaturalProduct
  <2>. QED
    BY <1>1, <2>1, <2>2 DEF Priced, ExactCost
<1>4. DrrCost(e, 1, d) = RoundedCost(exact, q)
  <2>1. exact # 0
    <3>1. exact > 0
      OBVIOUS
    <3>. HIDE DEF exact
    <3>. QED
      BY <1>3, <3>1
  <2>2. DrrCost(e, 1, d) = IF exact = 0 \/ 1 = 0 THEN exact ELSE RoundedCost(exact, q)
    BY DEF DrrCost
  <2>. HIDE DEF exact, q
  <2>. QED
    BY <2>1, <2>2
<1>5. RoundedCost(exact, q) = c * q
  <2>1. RoundedCost(exact, q) = IF exact > CostMax - (q - 1) THEN CostMax ELSE c * q
    BY DEF RoundedCost
  <2>2. RoundedCost(exact, q) < CostMax /\ CostMax \in Nat
    BY <1>4, TransferAssumption
  <2>. HIDE DEF exact, q, c
  <2>. QED
    BY <2>1, <2>2
<1>. HIDE DEF exact, q
<1>6. c \in Nat /\ exact <= c * q /\ c * q < exact + q
  BY <1>2, <1>3, CeilDivCovers
<1>. HIDE DEF c
<1>. DEFINE p == c * q
<1>7. p \in Int /\ p = q * c + 0 /\ 0 \in 0 .. q - 1
  BY <1>2, <1>6
<1>. HIDE DEF p
<1>8. p % q = 0
  BY <1>2, <1>6, <1>7, RemainderIs
<1>9. exact <= p /\ p - exact < q
  BY <1>2, <1>3, <1>6, <1>7 DEF p
<1>. QED
  BY <1>4, <1>5, <1>8, <1>9 DEF p, exact, q

-------------------------------------------------------------------------------
(* The delays of a scan.                                                       *)

\* What the setters leave.
DrrTyped(s) ==
    /\ DOMAIN s = DOMAIN DrrFresh
    /\ s.round \in Nat /\ s.select \in Nat /\ s.roundMode \in 0 .. 2
    /\ s.width \in Nat \ {0} /\ s.roundWidth \in Nat /\ s.selectWidth \in Nat

LEMMA FreshTyped == DrrTyped(DrrFresh)
BY DEF DrrTyped, DrrFresh

LEMMA SettingsKeepDrr ==
    ASSUME DrrTyped(drr), Settings
    PROVE  DrrTyped(drr')
<1>. USE DEF DrrTyped, DrrFresh, SetDrr
<1>1. DrrSettings \subseteq Nat
  BY ConfigAssumption
<1>2. ASSUME NEW n \in DrrSettings, NEW w \in WeightVectors, SetService(n, w) PROVE DrrTyped(drr')
  BY <1>2 DEF SetService
<1>3. ASSUME NEW n \in DrrSettings, NEW working, SetIdlePolicy(n, working) PROVE DrrTyped(drr')
  BY <1>3 DEF SetIdlePolicy
<1>4. ASSUME NEW n \in DrrSettings, SetGranularity(n) PROVE DrrTyped(drr')
  BY <1>4 DEF SetGranularity
<1>5. ASSUME NEW n \in DrrSettings, SetRoundCycles(n) PROVE DrrTyped(drr')
  BY <1>1, <1>5 DEF SetRoundCycles
<1>6. ASSUME NEW n \in DrrSettings, SetRoundMode(n) PROVE DrrTyped(drr')
  <2>1. n \in 0 .. 2
    BY <1>1, <1>6 DEF SetRoundMode
  <2>. QED
    BY <1>6, <2>1 DEF SetRoundMode
<1>7. ASSUME NEW n \in DrrSettings, SetSelectCycles(n) PROVE DrrTyped(drr')
  BY <1>1, <1>7 DEF SetSelectCycles
<1>8. ASSUME NEW n \in DrrSettings, SetScanWidth(n) PROVE DrrTyped(drr')
  <2>1. OrElse(n, 1) \in Nat \ {0}
    BY <1>1 DEF OrElse
  <2>. QED
    BY <1>8, <2>1 DEF SetScanWidth
<1>9. ASSUME NEW n \in DrrSettings, NEW m \in DrrSettings, SetStageScanWidths(n, m) PROVE DrrTyped(drr')
  BY <1>1, <1>9 DEF SetStageScanWidths
<1>10. ASSUME NEW c, NEW credit, Earn(c, credit) PROVE DrrTyped(drr')
  BY <1>10 DEF Earn
<1>. QED
  BY <1>2, <1>3, <1>4, <1>5, <1>6, <1>7, <1>8, <1>9, <1>10 DEF Settings

\* At least one group, at most one for each probe, and no fewer for more probes.
LEMMA CeilDivOrdered ==
    ASSUME NEW n \in Nat \ {0}, NEW m \in Nat, n <= m, NEW k \in Nat \ {0}
    PROVE  CeilDiv(n, k) \in 1 .. n /\ CeilDiv(n, k) <= CeilDiv(m, k) /\ CeilDiv(m, k) \in Nat
<1>. DEFINE c == CeilDiv(n, k)
            b == CeilDiv(m, k)
<1>1. c \in Nat /\ n <= c * k /\ c * k < n + k /\ b \in Nat /\ m <= b * k
  BY CeilDivCovers
<1>. HIDE DEF c, b
<1>2. c # 0
  <2>1. c = 0 => c * k = 0
    OBVIOUS
  <2>. QED
    BY <1>1, <2>1
<1>3. ASSUME n < c PROVE FALSE
  <2>1. k * (n + 1) <= k * c
    BY <1>1, <1>3, ProductMonotone
  <2>2. n * 1 <= n * k
    BY ProductMonotone
  <2>3. k * (n + 1) = n * k + k /\ k * c = c * k
    BY <1>1
  <2>. DEFINE x == n * k
              y == c * k
  <2>4. x \in Nat /\ y \in Nat
    BY <1>1, NaturalProduct
  <2>5. x + k <= y /\ n <= x /\ y < n + k
    BY <1>1, <2>1, <2>2, <2>3
  <2>. HIDE DEF x, y
  <2>. QED
    BY <2>4, <2>5
<1>4. ASSUME b < c PROVE FALSE
  <2>1. k * (b + 1) <= k * c
    BY <1>1, <1>4, ProductMonotone
  <2>2. k * (b + 1) = b * k + k /\ k * c = c * k
    BY <1>1
  <2>. DEFINE x == b * k
              y == c * k
  <2>3. x \in Nat /\ y \in Nat
    BY <1>1, NaturalProduct
  <2>4. x + k <= y /\ m <= x /\ y < n + k
    BY <1>1, <2>1, <2>2
  <2>. HIDE DEF x, y
  <2>. QED
    BY <2>3, <2>4
<1>. QED
  BY <1>1, <1>2, <1>3, <1>4 DEF c, b

LEMMA DelaysOrdered ==
    ASSUME DrrTyped(drr), engine.channels \in Nat
    PROVE  ScanDelaysOrdered
<1>. SUFFICES ASSUME engine.channels > 0 PROVE ScanDelaysOrdered
  BY DEF ScanDelaysOrdered
<1>. DEFINE C == engine.channels
            w == OrElse(drr.roundWidth, drr.width)
            v == OrElse(drr.selectWidth, drr.width)
<1>1. C \in Nat \ {0} /\ w \in Nat \ {0} /\ v \in Nat \ {0}
  BY DEF DrrTyped, OrElse
<1>2. drr.round \in Nat /\ drr.select \in Nat /\ drr.roundMode \in {0, 1, 2}
  BY DEF DrrTyped
<1>3. drr.round <= RoundDelay /\ RoundDelay <= drr.round * C
  <2>. DEFINE g == IF drr.roundMode = 0 THEN 1 ELSE CeilDiv(C, w)
  <2>1. RoundDelay = drr.round * g
    BY DEF RoundDelay, ScanGroups
  <2>. HIDE DEF C, w
  <2>2. g \in Nat /\ 1 <= g /\ g <= C
    <3>1. CeilDiv(C, w) \in 1 .. C
      BY <1>1, CeilDivOrdered
    <3>. QED
      BY <1>1, <3>1
  <2>. HIDE DEF g
  <2>3. drr.round * 1 <= drr.round * g /\ drr.round * g <= drr.round * C
    BY <1>1, <1>2, <2>2, ProductMonotone
  <2>. QED
    BY <1>2, <2>1, <2>3
<1>4. ASSUME NEW n \in InUse
      PROVE  drr.select <= SelectDelay(n + 1) /\ SelectDelay(n + 1) <= SelectDelay(C)
  <2>. DEFINE g(probes) == CASE drr.roundMode = 0 -> 1
                             [] drr.roundMode = 1 -> CeilDiv(C, v)
                             [] drr.roundMode = 2 -> CeilDiv(probes, v)
  <2>1. SelectDelay(n + 1) = drr.select * g(n + 1) /\ SelectDelay(C) = drr.select * g(C)
    BY DEF SelectDelay, ScanGroups
  <2>2. n + 1 \in Nat \ {0} /\ n + 1 <= C
    BY <1>1 DEF InUse
  <2>. HIDE DEF C, v
  <2>3. CeilDiv(n + 1, v) \in Nat /\ 1 <= CeilDiv(n + 1, v) /\ CeilDiv(n + 1, v) <= CeilDiv(C, v)
        /\ CeilDiv(C, v) \in Nat /\ 1 <= CeilDiv(C, v)
    <3>1. CeilDiv(n + 1, v) \in 1 .. n + 1 /\ CeilDiv(n + 1, v) <= CeilDiv(C, v) /\ CeilDiv(C, v) \in Nat
      BY <1>1, <2>2, CeilDivOrdered
    <3>. QED
      BY <2>2, <3>1
  <2>4. g(n + 1) \in Nat /\ g(C) \in Nat /\ 1 <= g(n + 1) /\ g(n + 1) <= g(C)
    BY <1>2, <2>3
  <2>. DEFINE a == g(n + 1)
              b == g(C)
  <2>. HIDE DEF g
  <2>. HIDE DEF a, b
  <2>5. drr.select * 1 <= drr.select * a /\ drr.select * a <= drr.select * b
    BY <1>2, <2>4, ProductMonotone DEF a, b
  <2>. QED
    BY <1>2, <2>1, <2>5 DEF a, b
<1>. QED
  BY <1>3, <1>4 DEF ScanDelaysOrdered

-------------------------------------------------------------------------------
(* What a transfer costs.                                                      *)

\* What was executed last was well made, on an engine with a price; and the
\* historical parameters are those of a historical engine.
ChargesInv ==
    /\ TransferInv
    /\ Priced(engine) /\ DOMAIN engine = Fields
    /\ Historic(short)
    /\ DrrTyped(drr)
    /\ last.done => DescriptorTyped(last.d) /\ Sized(last.d)

LEMMA ChargesStart == TransferInit => ChargesInv
<1>. SUFFICES ASSUME TransferInit PROVE ChargesInv
  OBVIOUS
<1>1. TransferInv
  BY TransferStarts
<1>2. engine = Zeroed /\ short = Zeroed /\ drr = DrrFresh /\ last = Nothing
  BY DEF TransferInit, ConfigInit
<1>3. last.done = FALSE
  BY <1>2 DEF Nothing
<1>. QED
  BY <1>1, <1>2, <1>3, InitializersHistoric, FreshTyped DEF ChargesInv, Kept

LEMMA FullPriced ==
    ASSUME NEW p \in FullRequests
    PROVE  Priced(Configured(p)) /\ DOMAIN Configured(p) = Fields
<1>1. p.drr_quantum_cycles \in Nat
  BY ConfigAssumption DEF Counting, CountFields
<1>. QED
  BY <1>1, ConfiguredPriced

LEMMA ReinitializeCharges ==
    ASSUME ChargesInv, Reinitialize
    PROVE  ChargesInv'
<1>1. TransferInv'
  BY ReinitializeKeeps DEF ChargesInv
<1>2. \/ \E p \in ShortRequests : Reinitialized(InitTiming(p), InitTiming(p))
      \/ \E async \in BOOLEAN : Reinitialized(InitDefault(async), InitDefault(async))
      \/ \E p \in FullRequests : Reinitialized(Configured(p), Zeroed)
      \/ Reinitialized(Zeroed, Zeroed)
  BY DEF Reinitialize, Initialize, Destroy
<1>3. /\ Priced(engine') /\ DOMAIN engine' = Fields
      /\ Historic(short') /\ drr' = DrrFresh
  BY <1>2, InitializersHistoric, FullPriced DEF Reinitialized, Kept
<1>4. last'.done = FALSE
  BY DEF Reinitialize, Nothing
<1>. QED
  BY <1>1, <1>3, <1>4, FreshTyped DEF ChargesInv

LEMMA ExecuteCharges ==
    ASSUME ChargesInv, NEW o \in Orders, NEW d \in Descriptors(o), Execute(d)
    PROVE  ChargesInv'
<1>1. DescriptorTyped(d) /\ Sized(d)
  BY DescriptorsTyped, DescriptorsSized
<1>2. TransferInv'
  BY <1>1, ExecuteKeeps DEF ChargesInv
<1>3. engine' = engine /\ short' = short /\ drr' = drr /\ last' = [done |-> TRUE, d |-> d, before |-> memory]
  BY DEF Execute, configVars
<1>4. last'.d = d
  BY <1>3
<1>. QED
  BY <1>1, <1>2, <1>3, <1>4 DEF ChargesInv

LEMMA LegacyCharges ==
    ASSUME ChargesInv, NEW o \in Orders, NEW writes \in BOOLEAN, Legacy(o, writes)
    PROVE  ChargesInv'
<1>. DEFINE d == LegacyDescriptor(o, writes)
<1>1. /\ engine' = engine /\ short' = short /\ drr' = drr /\ last' = [done |-> TRUE, d |-> d, before |-> memory]
      /\ o.make = "linear" /\ o.region # "none" /\ o.base + d.bytes <= RegionSize[o.region]
  BY DEF Legacy, LegacyDescriptor, configVars
<1>2. DescriptorTyped(d) /\ Sized(d)
  BY <1>1, LegacyTyped, LegacySized
<1>3. TransferInv'
  BY LegacyCallKeeps DEF ChargesInv
<1>. HIDE DEF d
<1>4. last'.d = d
  BY <1>1
<1>. QED
  BY <1>1, <1>2, <1>3, <1>4 DEF ChargesInv

LEMMA ChargesStep == ChargesInv /\ [TransferNext]_<<configVars, transferVars>> => ChargesInv'
<1>. SUFFICES ASSUME ChargesInv, [TransferNext]_<<configVars, transferVars>> PROVE ChargesInv'
  OBVIOUS
<1>0. TransferInv'
  BY TransferStep DEF ChargesInv
<1>1. CASE Reinitialize
  BY <1>1, ReinitializeCharges
<1>2. ASSUME NEW o \in Orders, NEW d \in Descriptors(o), Execute(d) PROVE ChargesInv'
  BY <1>2, ExecuteCharges
<1>3. ASSUME NEW o \in Orders, NEW writes \in BOOLEAN, Legacy(o, writes) PROVE ChargesInv'
  BY <1>3, LegacyCharges
<1>4. CASE UNCHANGED <<configVars, transferVars>>
  BY <1>0, <1>4 DEF ChargesInv, configVars, transferVars
<1>5. ASSUME NEW o \in Orders, NEW d \in Descriptors(o), Refuse(d) PROVE ChargesInv'
  BY <1>4, <1>5 DEF Refuse
<1>6. CASE Settings /\ UNCHANGED transferVars
  <2>1. engine' = engine /\ short' = short
    BY <1>6, SettingsKeepEngine
  <2>2. DrrTyped(drr')
    BY <1>6, SettingsKeepDrr DEF ChargesInv
  <2>3. last' = last
    BY <1>6 DEF transferVars
  <2>. QED
    BY <1>0, <2>1, <2>2, <2>3 DEF ChargesInv
<1>. QED
  BY <1>1, <1>2, <1>3, <1>4, <1>5, <1>6 DEF TransferNext, Transfers

LEMMA ChargesFollow == ChargesInv => ChargesRight
<1>. SUFFICES ASSUME ChargesInv PROVE ChargesRight
  OBVIOUS
<1>1. ASSUME last.done, engine.bus > 0
      PROVE  EngineTimed(engine) /\ DescriptorTyped(last.d) /\ Sized(last.d)
  BY <1>1 DEF ChargesInv, TransferInv, EngineTimed
<1>2. OccupiedCoversUseful
  BY <1>1, PayloadCovers DEF OccupiedCoversUseful
<1>3. BurstsMeetBoundaries
  <2>1. ASSUME last.done, engine.bus > 0, NEW i \in DOMAIN AllSegments(last.d)
        PROVE  BoundedSegment(engine, last.d, AllSegments(last.d)[i])[1]
                 = Cardinality(BurstStarts(engine, last.d, AllSegments(last.d)[i]))
    BY <1>1, <2>1, SegmentsTyped, BurstsAreStarts
  <2>. QED
    BY <2>1 DEF BurstsMeetBoundaries
<1>4. OverlapIsBounded
  BY <1>1, OverlapBounded DEF OverlapIsBounded, ChargesInv
<1>5. HistoricalTiming
  <2>1. ASSUME last.done, short.channels > 0, engine = short
        PROVE  EngineTimed(engine) /\ Historic(engine) /\ engine.channels > 0 /\ DescriptorTyped(last.d)
    BY <1>1, <2>1 DEF ChargesInv, Historic
  <2>. QED
    BY <2>1, HistoricCycles DEF HistoricalTiming
<1>6. CostRoundsUp
  BY <1>1, CostRounds DEF CostRoundsUp, ChargesInv
<1>7. ScanDelaysOrdered
  BY DelaysOrdered DEF ChargesInv, TransferInv, Sound
<1>. QED
  BY <1>2, <1>3, <1>4, <1>5, <1>6, <1>7 DEF ChargesRight

\* Whatever the engine's configuration, the setters and the descriptor: the
\* payload covers the bytes, a bounded segment has one burst for each of its
\* starts, overlap hides what it may and no more, an engine of the first
\* initializers keeps their timing, a price is its cost in whole quanta, and the
\* delays of a scan are in order (dma_descriptor.c's cycle model).
THEOREM CyclesAreRight == TransferSpec => []ChargesRight
<1>1. TransferInit => ChargesInv
  BY ChargesStart
<1>2. ChargesInv /\ [TransferNext]_<<configVars, transferVars>> => ChargesInv'
  BY ChargesStep
<1>3. ChargesInv => ChargesRight
  BY ChargesFollow
<1>. QED
  BY <1>1, <1>2, <1>3, PTL DEF TransferSpec
================================================================================
