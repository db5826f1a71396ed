# TLA+ models of the TinyTU cmodel

TinyTU is a C library (`src/tu_cmodel/`) that models a systolic tensor unit:
memories, a descriptor DMA engine, a command queue, a tile pipeline, compute
engines, and the software around them (an instruction scheduler and a register
allocator, an execution-context manager, a cluster of cores, a configuration
loader). The library is single threaded. Concurrency in it is that of the
hardware it models: commands, descriptors, tiles, contexts and refreshes make
progress in ticks, in an order decided by queues, dependencies, arbiters and
schedulers and not by the caller. What is hard besides is arithmetic at the edge
of its width, and long sequences of legal calls. That is what these modules
model.

Paths are relative to `src/tu_cmodel/` unless they say otherwise. `PROJECT.json`
maps every definition to its source lines.

## 1. Inventory and modules

| Component | Module | State in the code | Hard because |
|---|---|---|---|
| command queue, `command_queue.c` | `CommandQueue` | ring of commands, newest barrier, counts | one iteration of a scan releases commands for the next; ids are looked up in reused slots; two of three loops have no bound |
| DMA engine, `dma_descriptor.c` | `DmaEngine` | per channel a list, the transfer in service, counters, DRR credit; cursors | admission, counters kept beside lists, starvation and work conservation of five policies, flushes in between |
| DMA configuration, ibid. | `DmaConfig` | the engine's parameters | eighteen initializers that each hand a default to the next; setters that drop credits |
| DMA transfers, ibid. | `DmaTransfer` | descriptor, bytes, meters, totals | six shapes, spans checked in 32 bits, bursts cut by three limits, four scopes of cost |
| context manager, `infra/tu_context.c` | `ContextManager` | table of contexts, active index, images | count and index beside the table, switches that fail halfway, work under way at a switch |
| pipeline controller, `compute/pipeline_controller.c` | `PipelineController` | tile slots with stages, statistics, two clocks | results ignored, swaps between the stages of other tiles, bounded waits |
| double buffer, `memory/double_buffer.c` | `DoubleBuffer`, `PingPong` | primary, shadow, active index, dirty mark | every other component looks through it |
| SRAM regions, `tu_sram.c` | `SramRegion` | per bank a word budget and last refill | budgets and windows; a context switch sets the clock back |
| DRAM, `memory/dram_model.c` | `Dram` | clocks, window, bus direction, open rows, refreshes | timings cached in cycles, lazy refresh, setters at any time |
| memory hierarchy, `memory/memory_hierarchy.c` | `MemoryHierarchy` | scratchpad, clock, DRAM | accesses split into words that may be refused one by one |
| cluster and core, `tu_cluster.c`, `tu_core.c` | `Cluster` | cores, who owns which memory, cycles | state moved in and out of one global; collectives that stop halfway; routes on incomplete meshes |
| address generator, `memory/address_generator.c` | `AddressGenerator` | iterator | a stride, a base and a count that overflow together |
| weight compression, `memory/weight_compress.c` | `WeightCodec` | none between calls | damaged streams; decoders with too little room |
| structured sparsity, `sparsity/structured_2of4.c` | `StructuredSparsity` | none between calls | tiles that cut a group of four |
| performance counters, `perf/performance_counters.c` | `PerfCounters` | counters, snapshot | difference and merge must name every counter |
| cycle model, `perf/cycle_model.c` | `CycleModel` | ring of tiles in flight, bank budgets, open rows, clock | three clocks that advance together; a ring that overwrites |
| event trace and debugger, `perf/event_trace.c`, `infra/tu_debug.c` | `Observability` | signals, file, recording, assertion counts | changes written late; loads that fail halfway |
| instruction scheduler, `isa/tu_scheduler.c` | `InstrScheduler` | dependency graph, mobility, ready list | at most sixteen dependencies; barriers nothing waits for |
| register allocator, `isa/tu_liveness.c` | `Liveness` | ranges, interference, places, output | sorting after the interference matrix was filled; fills into a bounded output |
| configuration loader, `infra/config.c`, with `tu_cmodel.c` | `ConfigLoader` | configuration, unit, DRAM | the loader, the initializer, eight setters and the DRAM each check the values, or do not |

`MC<module>` gives the constants values for TLC and `MC<module>_<run>.cfg` are the runs;
`<module>_proofs` holds theorems and their proofs. `DmaTransfer_proofs` holds those of DMA
configuration, loader and transfers, `Libraries_proofs` those of counters, cycle model,
observers, instruction scheduler and sparse product, `Memory_proofs` those of region, DRAM,
hierarchy, cluster and register allocator, and `DataLemmas` what several of them need of sums,
remainders and finite sets.

Not modelled, since they keep no state on which the control of another part
depends, or compute what neither TLC nor the provers can represent (floating
point, text): compute engines and dataflow plugins, number formats, the
instruction tables and the assembler, power formulas, the JSON reader, status and
error injection, logging, bindings and generators, and the facade `tu_cmodel.c`
but for its initialization. `PROJECT.json` lists each with its reason.

### How the parts interact

    file --> configuration loader --> facade (global state) <--> core, cluster
                                         |
             command queue --executes----+----> SRAM regions (double buffer)
                  ^                                ^        ^
                  | sync                     save, |        | swap, mark
             context manager ----------------restore        |
                                                   |   pipeline controller
             DMA engine (channels, bus) --moves----+        |
                  ^---------------------------submit, tick--+
             address generator --> descriptors      memory hierarchy --> DRAM
             scheduler, allocator: programs in, programs out
             counters, cycle model, trace, debugger: told what happened

| Interaction | Where it is composed |
|---|---|
| loader to engine | `ConfigLoader` extends `DmaConfig`: what the file says is what the real initializer and setters leave |
| configuration to transfers | `DmaTransfer` extends `DmaConfig`: transfers are charged by an engine any initializer made |
| pipeline to engine and buffer | `PipelineController` extends `DoubleBuffer`; the engine seen from there rejects, queues, issues at its own time |
| context switch to regions | `SramRegion` (save and restore of a metered, double-buffered region), `ContextManager` (contents, a transfer in flight) |
| hierarchy to DRAM and buffer | `MemoryHierarchy` extends `Dram` and instantiates `DoubleBuffer` |
| cycle model to counters | `CycleModel` extends `PerfCounters` |
| cores to global state | `Cluster` |

## 2. How the models read

An action is a call of the library, with every call that makes inside it. Where a
loop inside a call lets something else be seen between its rounds, or need not
end, a round is an action and a variable says which call is under way:
`CommandQueue` (`pc`), DRR arbitration in `DmaEngine` (`pc`), the visits of a tick and
the bounded waits in `PipelineController`, the passes of `InstrScheduler` and `Liveness`,
the elements of a stream in `AddressGenerator`, the tiles of a sparse product.

Data is abstracted to what the properties tell apart. A queue is the sequence its
`head` leads to, beside `tailpos`, since linking a chain cuts off what stood behind
the tail. A buffer holds the number of the submission that filled it
(`PipelineController`), one watched byte whichever it is (`SramRegion`), or its bytes
(`DmaTransfer`, where byte i of the source is i + 1 so that nothing can be exchanged
unnoticed). A checksum is the set of its bits. A stream is the structure its bytes
spell and their number. Weights are small integers, so that the sums of the sparse
product are exact. A file maps keys to typed values; numbers are those of the
program. Integers keep their width where it matters: `DepthModulus`, `ClockModulus`,
`WordModulus`, `MaxWord`, `Word`, `ConfigWord`. Clocks are differences where nothing reads
them absolutely (`DmaEngine`, `PipelineController`) and values where something does
(`Dram`, `SramRegion`, `CycleModel`).

History variables record what the code forgets and a property needs: `view` (what a
context's program knows the core to hold), `last` in `Dram` (what the last access was
told), `earnedAs` in `DmaConfig` (the price at which
credits were earned), `accepted` and `vouched` in `ConfigLoader`.

Undefined behaviour is a choice: a read of a freed descriptor in the pipeline
returns any value of `Garbage`.

**Variants.** Beside some definitions stands a second one as a plausible slip would
write it (a lost test, a limit clamped instead of refused, a cursor that stays). No
specification uses one. `PROJECT.json` pairs each property with a variant: with the
variant in place of the definition TLC finds that property violated, so the property
depends on the code doing it right and the bounds let the case occur.

**Abstract specification.** `PingPong` states what a double-buffered region promises:
its reader sees the front, its loader fills the back, only a flip exchanges them, and
switching the shadow on and off or switching contexts shows the reader nothing else.
`SramRegion` implements it under a refinement mapping (front is the active buffer, back
the shadow); `ImplementsPingPong` is checked by TLC and proved.

## 3. The runs

| Run | Properties | Shows |
|---|---|---|
| `cmdq_modes` | `OrderRespected`, `CountsAgree`, `Settled`, `ExecutedForGood`, `WaitsReturn` | every sequence of calls on a deferred and on a functional queue |
| `dma_modes` | `QueuesSound`, `OneTransferOnBus`, `CreditsBounded`, `NeverIdleWithBacklog`, `EventuallyServed` | both execution modes, all bindings, independent and shared paths, four kinds of DRR |
| `dma_policies` | `FairOvertaking`, `EventuallyServed` | round robin, strict and aging priority on three channels |
| `dma_cutoff_doc` | `NothingCutOff` is violated | a submission behind a queued chain loses the rest of the chain |
| `ctx_switching` | `SlotsAccounted`, `Isolation`, `HighestFirst`, `EventuallyScheduled` | both schedulers, scheduled and manual clients |
| `pipeline_tiles` | `SlotsTracked`, `StatsNeverWrap`, `ComputesOnOwnData`, `TilesFinish` | tiles with rejected and late descriptors, all buffer and engine modes |
| `pipeline_preload_doc` | `PreloadsIntoShadow` is violated | a preload lands in the buffer a tile computes on |
| `memory` | `MetersExact`, `MemorySound`, `MemorySteps`, `ClusterSound`, `ImplementsPingPong`, `CollectivesDeliver` | a region, a DRAM under every setter, the hierarchy, clusters |
| `dma_transfers` | `ConfigurationSound`, `TransfersDeliver`, `ChargesRight` | every initializer and setter; descriptors of every shape |
| `libraries` | `AddressesRight`, `CodecLossless`, `SparsityExact`, `AccountsAgree`, `RecordsFaithful`, `ScoreboardHolds`, `ScheduleFaithful`, `ScheduleSound`, `PlacementSound`, `PatchesKeepMeaning` | nine parts that share nothing, one per behaviour |
| `config_loading` | `AcceptedInForce` | every limit of the loader, at its real value |
| `config_dram_doc` | `AcceptedMakesDram` is violated | an accepted configuration that makes no DRAM |

Type invariants are conjuncts of the invariants named above (`QueuesSound`,
`MemorySound`, ...) or theorems.

### Bounds

- *Command queue.* Four slots, the least `tu_cmdq_create` makes. Nothing leaves the
  buffer before a reset, so four submissions, or fewer and a reset, are every history.
  Dependencies name earlier commands, the command itself, and commands not yet
  submitted. Waits: for id 0, for a command that may hang, for an absent one; with no
  timeout and with one of two cycles.
- *DMA engine.* `dma_modes`: two channels of depth 2, sizes where bytes and cycles
  disagree and unusable pointers, which are what the bindings tell apart; DRR weights 1
  and 2 against costs below, at and above a grant, credit saturating at 9.
  `dma_policies`: three channels, the fewest at which a rotation can leave someone out,
  an aging quantum of two, a transfer that keeps the bus for more than a tick.
  `DepthModulus` 16 is far from the depth, so that only a count that goes below zero
  wraps. Chains of two are only in `dma_cutoff_doc`: it shows that counters and lists
  part as soon as one is submitted behind another.
- *DMA configuration and transfers.* Limits scaled down, each check failing once; every
  combination of segmentation, payload scope, issue mode and boundary; regions of 8 and
  5 bytes, pages of 4, words of 16 values so that spans wrap; about six hundred
  descriptors, all of them on two engines and a sample on every engine.
- *Contexts.* Three, so that a scheduler has a choice while one runs. Scopes that retain
  SRAM, which the schedulers do not read, are checked under manual clients.
- *Pipeline.* Two slots asked for as zero and as three (both are clamped), three
  submissions, one round of waiting instead of 10^6 so that a wait gives up as well as
  succeeds.
- *Memories.* A region of three bytes in two banks, clock of eight values. A DRAM of two
  channels of two banks, six cycles, two calls and one setter after one of three
  boards, chosen so that refreshes fall due, are deferred to their limit, and come faster
  than the limit. Clusters of two and three cores that run; routes and
  estimates on rings and meshes up to seven, complete and not.
- *Libraries.* Patterns that end at the last word, one past it, and are empty; all tensors
  of up to four elements over four codes, one of them -0.0; streams with one damaged
  count, mask or length; matrices with ties and incomplete groups under tiles that divide
  nothing; six calls of the cycle model over a ring of two; programs of four
  instructions out of seven, with at most two dependencies each, so that the cap is
  reached (sixteen in the code).
- *Loader.* The program's own limits. 3397 files: each key at, below and above each of its
  limits, as the wrong type and under every name; and the keys that are checked together.
  `ConfigWord` 2^30 stands for 2^32, beyond every limit; cast numbers are tried on both sides
  of it. Three calls.

### Deadlock

`CHECK_DEADLOCK FALSE` in the runs that bound the number of calls (`memory`, `libraries`,
`dma_transfers`, `config_*`): the client may stop there. Everywhere else a client can always
call something, or a call under way can go on.

### Fairness

- `CommandQueue`: weak fairness of `Running`. A call that has begun is C code that keeps
  executing; nothing obliges a client to make another call.
- `DmaEngine`: weak fairness of `Arbitrate` (the rest of a call under way) and of `Tick`: the
  engine's drivers call `tu_dma_tick` until their work is done. None of submissions or
  flushes. `EventuallyServed` excludes strict priority, which starves by design.
- `ContextManager`: weak fairness of `RequestSwitch`: a client that keeps asking, as one does
  that acts on `tu_ctx_slice_expired`. `EventuallyScheduled` is stated for round robin.
- `PipelineController`: weak fairness of a call under way (`Visit`, `Wait`, `Tick`), strong
  fairness of `Sync`, which a client keeps calling among other calls, and strong fairness
  of an issue on each of the two channels: the engine's arbitration, of which
  `EventuallyServed` is the promise. `TilesFinish` is of tiles whose descriptors were accepted.

The other modules promise nothing that must eventually happen: their calls end.

## 4. The proofs

Everything here holds for all values of the constants the modules' assumptions admit.

**CommandQueue_proofs.** `TypeCorrectness`, `OrderIsRespected`, `ExecutedOnce`,
`SettledBetweenCalls`, `StatisticsAgree`. The invariant adds to the properties that nothing
leaves the buffer before a reset (slot i below `count` holds id i + 1, the others are
clear), that `last_barrier_id` names the newest barrier, and that functional queues have
nothing pending. Order alone is not inductive: a submission could take over the slot of a
completed dependency. Settledness is the argument that one scan in slot order suffices,
since a command depends on lower slots only, unless the client named commands to come.

**DmaEngine_proofs.** `TypeCorrectness`; `BusExclusive`, inductive together with: an
arbitration is pending only while nothing is in service; `OvertakingIsFair`, an action
property from the arithmetic of the rotation; `QueuesAreSound` under `MaxChain = 1` (with
chains it is false, `dma_cutoff_doc`); `CreditsAreBounded`: under RESET and work-conserving
visits no channel holds more than the dearest price and one grant, because only a visit
that goes on may keep a grant and it is the next thing a scan looks at; `BusNeverIdles`: after
a tick the bus is free only if no channel has anything it may start.

**DmaTransfer_proofs.** The configuration of the engine, the loader that writes it and the transfers it
is charged for. `ConfigurationIsSound`: any sequence of initializers with
any parameters, setters and ticks leaves the engine off or within every accepted range, and
credits at the price they were earned at. `ConfiguredSound` is that of the last initializer,
`ChainSound` carries it up the chain of eighteen; the invariant types the credits of all
channels. `AcceptedIsInForce`: a file the loader accepts, however its keys are spelled and
typed, is what the engine and the DRAM then run with. `LoaderInv` says what the last accepted
configuration left in each; the argument is that every test a setter makes is implied by
the validator's, key by key. It rests on `InputAssumption` (files have the shapes enumerated)
and on the limits of both sides being those of the source: the literals of the validator
and the macros of the engine, which TLC evaluates at the program's values.

`DescriptorsDeliver`: a descriptor of any shape that the span check lets through stays in its
regions and brings every byte where its strides, indices or targets say; the engine's totals
are those of its channels and the legacy calls. The argument has three parts. The last byte a shape
touches bounds all of its copies (`CopyLies`), which needs the order of the three strides and
that no product was cut to 32 bits. The bytes of the copies are those of the elements, each
once (`SameByte`), so that a place named by one element holds its byte whatever order the
copies are made in, and where several meet the last one wins. The cost is a natural
number: the recursion over the bursts of a segment has a solution, since a burst takes a byte at
least (`SegmentStep`), so that the ledgers are sums of numbers. `TransferInv` adds the types of memory
and meters and that the engine's timing was measured (`Timed`), which every initializer leaves.
`TransferAssumption` says what constructors and the address setter may be given: regions a size of
32 bits, everything else any natural number.

`CyclesAreRight`: the cycles charged for a descriptor are right under every configuration the
eighteen initializers, the setters and a destroy can leave, between any two transfers. Each part
has an argument of its own. What a scope pays for covers the bytes: rounding up covers a
segment, and what covers the parts covers their sum. The bursts of a bounded segment are counted by
a recursion that jumps from burst to burst; they are as many as the places where one must start
(`BurstStarts`: every cut, and every full burst behind one), since each jump ends at the next
of them (`NextStart`). Overlap hides no command but those behind the first. The first
initializers leave the later fields at their defaults (`Early`, carried up the chain by
`WithEarly`), so that their engine's cycles are those of the historic formula. Prices and scan
delays are roundings up. `ChargesInv` adds the setters' ranges (`DrrTyped`) and that an engine of the
first initializers is still as they left it. `ConfigAssumption` fixes the arguments of the first
initializer that takes latencies (`ShortFields`).

**ContextManager_proofs.** `TypeCorrectness`; `SlotsAreAccounted` and `ContextsAreIsolated`,
for clients that free no IDLE context and leave no transfer to the manager (section 5 says
why); `HighestRunsFirst`. The invariant adds: a transfer in flight belongs to the running
context, a waiting context's image is what its program knows, and a view covers what the
scope retains.

**PipelineController_proofs.** `PipelineTypes`; `SlotsAreTracked`: active tiles, stages and
descriptors in the engine agree. The invariant adds that no descriptor is held twice and
that a slot not yet submitted to holds nothing. `StatisticsNeverWrap`: what is yet to be
counted of every tile under way (its debts) is added to both sides, so that completions
never exceed submissions. `TilesComputeOnOwnData`: a tile computes on the buffer its own
descriptors filled.

**Memory_proofs.** *Region.* `RegionMeters`: until a restore sets the clock back no bank serves more
than its grant for each window begun, and all banks are refilled together.
`RegionIsDoubleBuffer`: the region implements `PingPong`, when contexts are saved only while
the primary buffer is active (`SwappedSaves`): initial states map to initial states, every
step to a step or a stutter.

*DRAM and hierarchy.* `DramKeepsPromises` of the DRAM under all its setters, `HierarchySound` and
`HierarchySteps` of the hierarchy over it, for every geometry and every configuration the
setters accept (`SettersAssumption` is their tests). `DramInv`: cached timings agree with their
sources, whichever of clock and source was set last; the next refresh is due at most an
interval from now; a row is open only if it was used since the last refresh of its bank;
budget left and bytes served unstalled together are at most the window's budget. That no two
addresses share a place is a chain of bijections, quotient and remainder at each level and
an exclusive or that undoes itself. `HierInv` adds that the hierarchy's clock is the DRAM's.

*Cluster.* `ClusterIsSound` and `CollectivesReachAll`, for every network `tu_cluster_create` accepts.
`ClusterInv`: the cores' shape; every allocation has one owner and what is live is what is
owned; cycles of the cores plus those lost in a re-initialization are those of transfers
and barriers, and nothing is charged before the last core is there. Hops are shortest
since the distance falls by one along some link and by no more along any (`Nearer`), so
that the cores within k links, which their recursion determines, are those k hops away.
Routes are walks from neighbour to neighbour, straight lines joined at the corner. Two
messages are bounded as each pays its hops and every link it uses.

*Register allocator.* `PlacementIsSound` and `PatchesKeepTheMeaning`, for every program,
configuration, table of registers and room for the result. `AllocInv`: a read goes to the newest
register of its region, so that the registers of a region stand in order of definition, each
defined after the last use of those before (`Ranges`), also when the table is full;
each was written by the instruction that defines it (`Origins`), and what is still read is alive
(`ReadsKept`). Hence the matrix is empty, the sort by definition is the sort by number and
moves nothing (`SortedByNumber`), the lowest free offset is always 0 (`OffsetZero`), and a
register is spilled only when it exceeds its room alone. Each place is come to once
(`PlacesInOrder`), so that in the end every register was dealt with. `RewriteInv`: the output is the
instructions before `next`, each patched and behind its fills (`Rewritten`); a fill can only be
missing once the output is full, since `Capped` drops nothing before. A product's operand is
the newest register of its region: the read kept it alive up to the product (`ProductOperand`).

**Libraries_proofs.** `AccountsAlwaysAgree`: counters balance and the three clocks of the cycle model
advance together (`CountersInv`, `ClockInv`); a sum over all counters is a set of bars. `AccountsSpec`
adds the program's own recording calls, which it makes when the model is not the accurate
one; the run checks counters and cycle model apart. `ScoreboardKeepsOrder`: tile k is in slot
k modulo the ring's size until an overrun (`RingInv`). `ObserversTellTheTruth`: a waveform's changes are
written at their time, a recording's steps are those taken, counts are those of the
assertions that failed (`WaveformInv`, `RecordingInv`).

*Instruction scheduler.* `ScheduleIsSound` and `ScheduleIsFaithful`, for every program, policy,
and limit of the graph. `SchedInv`: edges come from producers, within both caps (`Bounded`);
mobilities leave room for every latency; the list holds no instruction before one it waits
for, and counters are what is left to wait for. It is never stuck since the first
instruction left waits for none. The recursions EdgesUpTo, Asap and Alap are shown to have
solutions along the order of the program (`BoundedRecursion`). That the order means the same
is the argument that two instructions meeting in a byte which one of them writes are
dependent, so that the last writer before a place is the same (`SameWriter`). It needs two
conditions: no dependency was dropped (`Untruncated`), and the program normalizes no group
(`AccessesSeen`): `is_compute_op` leaves that operation out, and its accesses go unseen.

*Sparse product.* `SparseIsExact`, for all matrices a multiple of four deep, all tile sizes
whose 16-bit indices do not wrap (`SparsityAssumption`) and all machines. The code's six exchanges
sort the places of a group, so that the two kept are the largest. `SparseInv`: the sum of a row and a
column is that of the kept weights below `ReachedAt`, how far its tile's loops have come, and
the count is the number of triples row, column, kept weight below it; a tile moves exactly the sums of
its block on, to the next border (`TileReaches`), whether that border cuts a group or not. At
the end the triples left out are those of kept weights that are zero, and kept weights stand at
different k, so that their sum is the dense one (`SumIsDense`).

**DataLemmas.** The library's sums as cardinalities of sets of bars, which makes them provable:
changing one entry, splitting one off, adding two functions; sums of integers as gains less losses. Division with remainder.
Induction over numbers and finite sets in the form of a set without a least element:
the library's induction theorems take an operator and cannot be instantiated here.

**Only model-checked.** Liveness, which needs fairness and ENABLED. What the codecs compute
(`CodecLossless`), iterations over streams of symbols whose every intermediate state would need an
invariant of its own, and the arithmetic of the address patterns (`AddressesRight`).

What the proofs changed in the model: an ideal DRAM never catches up with refreshes; the
exclusive-or mapping is refused at creation too unless the channels are a power of two;
the estimate's cases exclude each other; networks are those creation accepts; the scatter, gather and
multicast constructors set the direction themselves. The allocator's lists and its stable sort are
stated by rank (`Ascending`, `InOrder`), and the two reads of an instruction are added one after the other
(`AddUseAt`), where a fold and a recursive sort stood.

## 5. Where the code and its documentation part

Three runs end in a counterexample; `PROJECT.json` quotes the line each contradicts.

1. *A chain is cut off* (`dma_descriptor.c:1869`, `dma_cutoff_doc`).
2. *A preload does not go into the shadow* (`compute/pipeline_controller.c:187`,
   `pipeline_preload_doc`).
3. *An accepted configuration makes no DRAM* (`infra/config.c:1598`, `config_dram_doc`): the
   validator compares the deferral limit with the refresh interval only when refresh is on,
   `tu_dram_set_refresh` always.

Seen while modelling, without a run of their own:

*Command queue.* A newer barrier releases the commands an older, pending barrier holds
(`command_queue.h:188`, `command_queue.c:339`). Draining never ends in the deferred modes, where
nothing takes a command off `count` (`command_queue.h:203`, `.c:321`); a context save waits the same
way. Ids restart at 1 after a reset.

*DMA engine.* After a synchronous chain the depth counter wraps and the idle channel rejects for
ever (`dma_descriptor.c:1884`, `docs/dma-descriptor-engine.md:162`). A flush leaves credit outside the
DRR scan (`:2138`); RETAIN_RESIDUAL adds the rest of one burst to the next (`:2053`). Round-robin
binding rejects though other channels have room (`:1797`). Data moves at issue, completion comes
later (`:2056`). `dims` are `[rows, cols, depth]` in the header, `[depth, rows, cols]` in the 3D code.
The stall of a strided transfer is that of a contiguous one. Internal and multicast transfers
are never metered; the legacy load and store add no occupied bytes. Constructors accept a
direction that nothing executes.

*Contexts.* Freeing an IDLE context takes one off `active_count`, and the next allocation makes a
second context ACTIVE (`tu_context.c:382`, `tu_context.h:162`); a switch does not flush the DMA engine
(`tu_context.c:409`, `docs/multi-context-execution.md:73`). `ContextManager` has a client for each
(`freesIdle`, `unflushed`) with which `SlotsAccounted` and `Isolation` fail. A context of priority 0 is
never scheduled by priority (`:508`). A save copies the primary buffer even when the shadow is
active (`:39`; `SwappedSaves`).

*Pipeline.* The result of a submission is ignored (`:204`), a rejected store keeps its tile (`:295`),
a completed preload swaps and then marks the new shadow dirty (`:258`), the two waits give up
silently (`:376`), a reset keeps the depth and not the mark of being initialized (`:94`).

*Memories.* DRAM: the deferral limit is not one at rates above 1 (`dram_model.c:509`); a reset keeps
the start of the bandwidth window; what a stalled access consumed is counted twice; the schedule
is absolute, so that a late start pays all refreshes at once. Hierarchy: `set_level_config` says
"Call BEFORE init" and init overwrites it; a partial last word is merged with the primary
buffer though the shadow may be active; a rejected word read copies an uninitialized word; a
hit is counted though the last word was rejected. Cluster: all-reduce reports success though
regions too small contributed garbage, and counts no cycles; an empty message costs its
route under shared links; `tu_core_init` goes back to the default sizes.

*Cycle model, counters, observers.* `dma_transfer` passes `is_read` where `tu_dram_access` takes
`is_write`; arbitration never charges; a tile completes its own entry, so that hazards never stall;
a full ring is overwritten. Differences lose row hits, bank conflicts of the global buffer and the
dataflow counters. The first tick of a trace drops its cycles. A failed load leaves the count of
the recording it freed; replay executes nothing (`tu_debug.h:219`); the checksum does not see
swapped words.

*Weight codec, address generator.* An empty RLE tensor writes no header; the count of an unframed
bitmap may change unnoticed; RLE decoding leaves partial output when it refuses. An element at
0xFFFFFF00 looks like padding. In the tiled sparse product a 16-bit row index wraps near 65535 and
the loop does not end (`structured_2of4.c:405`).

*Compiler.* Nothing waits for a barrier; group normalization is not taken for a computation; the
validator may reject a valid schedule of alike instructions; the channel of a strided load is read
from other bits than in the allocator. Ranges are ignored at placement (`tu_liveness.c:206`);
registers of one region never meet, so that all stand at offset 0; spilling a victim frees
nothing; a capacity below the margin wraps.

*Loader.* Sizes of 4 GiB and more wrap to fewer bytes; bank width and queue depth are those the
library was compiled with; rows and columns out of 16 bits silently become 16, though
`docs/runtime-configuration.md:104` says they are validated; 2^32 + 64 is read as 64; a value of
another JSON type keeps the default; unknown names of the DRAM type, cycle model, rounding and
conflict model are the defaults. `tu_init_from_config` validates nothing but the metering: an engine
that refuses is then off while the unit says it is initialized.

## 6. Not modelled, within the modelled components

Command queue: operands, and completion signals, which no function registers. DMA: raw address
overflow of the legacy load and store; division by a bus of width zero after a refused
initialization. Contexts: time slices, statistics, failing allocations. Pipeline: more than one
region. Regions: stall statistics. DRAM: statistics, and presets other than as boards. Hierarchy:
counters per level, the register file's. Cluster: printing. Core: the convenience calls, which
swap as execution does. Counters: derived ratios and reports. Debugger: dumps and printed
differences. Scheduler and allocator: printing. Loader: fields that nothing checks or runs with,
fractions of reals and NaN, texts that do not parse (refused before anything is read), dump and
documentation.

## 7. Where to go on

`AddressesRight` as a theorem; `DmaEngine` under a client that submits
chains, against an abstract bag of accepted descriptors; the regions of `SramRegion` in
`ContextManager` in place of its parts; the kernels' index arithmetic (convolution and pooling
windows), which is integer although the values are not.

## 8. Running

    tlc -workers 2 -config MCDmaEngine_modes.cfg MCDmaEngine
    tlapm DmaEngine_proofs.tla

A run takes from seconds to two and a half minutes with two workers; the proofs of a module a few
minutes from nothing.
