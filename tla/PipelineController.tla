------------------------- MODULE PipelineController -------------------------
(***************************************************************************)
(* The tile pipeline (compute/pipeline_controller.c): tiles in slots that  *)
(* are preloaded through the DMA engine, computed for a number of cycles   *)
(* and stored through the engine again, overlapping with each other.       *)
(*                                                                         *)
(* The engine is seen from here: it may reject a descriptor (its channel   *)
(* is full, of anybody's descriptors), and then frees it; it queues the    *)
(* others, loads and stores on a channel of their own, and each tick may   *)
(* issue the head of a channel, which moves its data and completes it at   *)
(* once.  A descriptor with unusable pointers is issued and never          *)
(* completes.  In synchronous mode a submission is issued at once.         *)
(*                                                                         *)
(* All tiles use one SRAM region; the content of a buffer is the number of *)
(* the submission whose data it holds.  The clock appears as the cycles a  *)
(* computing tile has left.  A freed descriptor is read: what is read is   *)
(* any value.                                                              *)
(***************************************************************************)
EXTENDS DoubleBuffer, Sequences, FiniteSets

CONSTANTS
    Configs,        \* what tu_pipeline_init is asked for: depth and overlaps
    Requests,       \* the tiles clients submit
    MaxDepth,       \* 8 in the code
    LoadCycles,     \* bytes of a load by the width of the bus
    StoreCycles,
    Garbage,        \* what a read of a freed descriptor's size may give
    MaxSubmissions, \* bound: submissions a client makes
    MaxRounds,      \* 10^6 in the code: the bound of both waits
    Modes           \* is the region double-buffered, is the engine asynchronous?

\* What a submission brings: none, a good or an unusable descriptor each way.
Request == [load : {"none", "good", "bad"}, store : {"none", "good"}, cycles : Nat]

ASSUME PipelineAssumption ==
    /\ MaxDepth \in Nat \ {0} /\ LoadCycles \in Nat /\ StoreCycles \in Nat
    /\ Configs \subseteq [depth : Nat, load : BOOLEAN, store : BOOLEAN]
    /\ Requests \subseteq Request
    /\ Garbage \subseteq Nat /\ Garbage # {}
    /\ MaxSubmissions \in Nat /\ MaxRounds \in Nat /\ Zero = 0
    /\ Modes \subseteq [double : BOOLEAN, async : BOOLEAN]

Slots == 0 .. MaxDepth - 1
Ways == {"load", "store"}

\* A descriptor as its tile's pointer sees it: null, not yet submitted, waiting
\* in the engine, completed, issued without ever completing, or freed.
DescState == {"null", "held", "queued", "completed", "stuck", "freed"}

Tile == [stage : {"IDLE", "PRELOAD", "COMPUTE", "STORE", "DONE"},
         data : 0 .. MaxSubmissions, left : Nat, cycles : Nat,
         load : DescState, store : DescState, bad : BOOLEAN]

VARIABLES
    initialized, depth, loadOverlap, storeOverlap,
    slots, active_count, processed,     \* processed: total_tiles_processed > 0
    stats,         \* the cycle totals the statistics are computed from
    rejected,      \* the engine has rejected a descriptor since they began
    queued,        \* queued[w]: slots whose descriptor the channel holds
    region, async,
    pc, caller,    \* where the call in progress is, and who called advance
    cursor, rounds, request,
    submissions

configVars == <<initialized, depth, loadOverlap, storeOverlap, async>>
callVars == <<pc, caller, cursor, rounds, request, submissions>>
vars == <<configVars, slots, active_count, processed, stats, rejected, queued, region, callVars>>

IdleTile == [stage |-> "IDLE", data |-> 0, left |-> 0, cycles |-> 0,
             load |-> "null", store |-> "null", bad |-> FALSE]
NoStats == [compute |-> 0, load |-> 0, store |-> 0, overlappedLoad |-> 0,
            overlappedStore |-> 0, sequential |-> 0]
NoRequest == [load |-> "none", store |-> "none", cycles |-> 0]

InFlight(i) == slots[i].stage \in {"PRELOAD", "COMPUTE", "STORE"}

\* Variant: a slot counts as free once its tile is computed.
FreeOrStoring == {i \in 0 .. depth - 1 : slots[i].stage \notin {"PRELOAD", "COMPUTE"}}

Free == {i \in 0 .. depth - 1 : ~InFlight(i)}

Init ==
    /\ initialized = FALSE /\ depth = 0 /\ loadOverlap = FALSE /\ storeOverlap = FALSE
    /\ slots = [i \in Slots |-> IdleTile] /\ active_count = 0 /\ processed = FALSE
    /\ stats = NoStats /\ rejected = FALSE
    /\ queued = [w \in Ways |-> <<>>]
    /\ \E m \in Modes :
          /\ region = IF m.double THEN Enable(SingleBuffered(0)) ELSE SingleBuffered(0)
          /\ async = m.async
    /\ pc = "idle" /\ caller = "client" /\ cursor = 0 /\ rounds = 0
    /\ request = NoRequest /\ submissions = 0

-----------------------------------------------------------------------------
\* Issuing the descriptor of slot i: the data of a load goes where the raw
\* pointer of its region points, which is the active buffer.
LoadMoves(r, tile) == IF tile.bad THEN r ELSE WriteActive(r, tile.data)
Issue(tile, w) ==
    IF w = "load" THEN [tile EXCEPT !.load = IF tile.bad THEN "stuck" ELSE "completed"]
    ELSE [tile EXCEPT !.store = "completed"]

\* tu_dma_tick: each channel may have a free data path for its head.
DmaTick ==
    \E W \in SUBSET {w \in Ways : queued[w] # <<>>} :
        /\ queued' = [w \in Ways |-> IF w \in W THEN Tail(queued[w]) ELSE queued[w]]
        /\ slots' = [i \in Slots |->
              LET loaded == IF "load" \in W /\ Head(queued["load"]) = i
                            THEN Issue(slots[i], "load") ELSE slots[i]
              IN  IF "store" \in W /\ Head(queued["store"]) = i
                  THEN Issue(loaded, "store") ELSE loaded]
        /\ region' = IF "load" \in W THEN LoadMoves(region, slots[Head(queued["load"])])
                     ELSE region

\* tu_dma_submit_desc for the tile to be put in slot i: its outcome.
Outcomes(tile, w) ==
    {[tile |-> IF w = "load" THEN [tile EXCEPT !.load = "freed"]
               ELSE [tile EXCEPT !.store = "freed"], queues |-> FALSE]}
    \cup IF async
         THEN {[tile |-> IF w = "load" THEN [tile EXCEPT !.load = "queued"]
                         ELSE [tile EXCEPT !.store = "queued"], queues |-> TRUE]}
         ELSE {[tile |-> Issue(tile, w), queues |-> FALSE]}

Queued(w, i, queues) == IF queues THEN [queued EXCEPT ![w] = Append(@, i)] ELSE queued

\* Variant: a transfer's size that is counted without a transfer.
SizeAlways(state, cycles) == {cycles}

\* Variant: the tile's transfer is not waited for.
SeenDoneAtOnce(state) == {TRUE}

\* Does the pipeline see the descriptor completed?  Of a freed one: maybe.
SeenDone(state) ==
    CASE state \in {"null", "completed"} -> {TRUE}
      [] state = "freed"                 -> BOOLEAN
      [] OTHER                           -> {FALSE}

\* total_bytes / TU_DMA_BUS_WIDTH_BYTES of a tile's descriptor.
Size(state, cycles) ==
    CASE state = "null" -> {0} [] state = "freed" -> Garbage [] OTHER -> {cycles}

-----------------------------------------------------------------------------
\* tu_pipeline_destroy: all the engine holds is executed, in whatever order
\* of channels; only the last load shows in the buffer.
Flushed ==
    LET loads == queued["load"]
        good == {k \in DOMAIN loads : ~slots[loads[k]].bad}
    IN  IF good = {} THEN {region}
        ELSE {WriteActive(region, slots[loads[k]].data) : k \in {k \in good : \A l \in good : l <= k}}

Cleared ==
    /\ slots' = [i \in Slots |-> IdleTile] /\ active_count' = 0 /\ processed' = FALSE
    /\ stats' = NoStats /\ rejected' = FALSE

Clamped(d) == IF d < 1 THEN 1 ELSE IF d > MaxDepth THEN MaxDepth ELSE d

\* tu_pipeline_init; the engine is flushed if the pipeline was initialized.
Initialize(c) ==
    /\ pc = "idle"
    /\ initialized' = TRUE /\ depth' = Clamped(c.depth)
    /\ loadOverlap' = c.load /\ storeOverlap' = c.store
    /\ Cleared
    /\ region' \in IF initialized THEN Flushed ELSE {region}
    /\ queued' = IF initialized THEN [w \in Ways |-> <<>>] ELSE queued
    /\ UNCHANGED <<async, callVars>>

\* tu_pipeline_reset and tu_pipeline_destroy: a reset keeps the depth and the
\* configuration, but neither the slots nor the mark of being initialized.
Reset(keep) ==
    /\ pc = "idle" /\ initialized
    /\ initialized' = FALSE
    /\ depth' = IF keep THEN depth ELSE 0
    /\ loadOverlap' = (keep /\ loadOverlap) /\ storeOverlap' = (keep /\ storeOverlap)
    /\ Cleared
    /\ region' \in Flushed
    /\ queued' = [w \in Ways |-> <<>>]
    /\ UNCHANGED <<async, callVars>>

-----------------------------------------------------------------------------
OneIfNone(kind, cycles) == IF kind = "none" THEN 1 ELSE cycles

\* tu_pipeline_submit_tile up to the wait for a slot: an uninitialized
\* pipeline starts with one slot; the sequential cost counts even if the
\* submission fails in the end.
Submit(r) ==
    /\ pc = "idle" /\ submissions < MaxSubmissions
    /\ pc' = "submit" /\ request' = r /\ rounds' = 0
    /\ submissions' = submissions + 1
    /\ initialized' = TRUE
    /\ depth' = IF initialized THEN depth ELSE 1
    /\ loadOverlap' = (initialized => loadOverlap)
    /\ storeOverlap' = (initialized => storeOverlap)
    /\ stats' = [stats EXCEPT !.sequential =
                    @ + OneIfNone(r.load, LoadCycles) + r.cycles
                      + OneIfNone(r.store, StoreCycles)]
    /\ UNCHANGED <<async, slots, active_count, processed, rejected, queued, region, caller, cursor>>

\* The first tile of an overlapping pipeline may find its data in place.
InPlace(r) == depth > 1 /\ loadOverlap /\ ~processed /\ r.load = "none"

NewTile(r) ==
    [stage |-> IF InPlace(r) THEN "COMPUTE" ELSE "PRELOAD", data |-> submissions,
     left |-> IF InPlace(r) THEN r.cycles ELSE 0, cycles |-> r.cycles,
     load |-> "null", store |-> IF r.store = "none" THEN "null" ELSE "held",
     bad |-> (r.load = "bad")]

\* The rest of it: the lowest free slot is taken and the load submitted.
Place ==
    /\ pc = "submit"
    /\ \E i \in Free :
          /\ \A j \in Free : i <= j
          /\ \E out \in IF request.load = "none"
                        THEN {[tile |-> NewTile(request), queues |-> FALSE]}
                        ELSE Outcomes(NewTile(request), "load") :
                /\ slots' = [slots EXCEPT ![i] = out.tile]
                /\ queued' = Queued("load", i, out.queues)
                /\ region' = IF out.tile.load = "completed"
                             THEN LoadMoves(region, out.tile) ELSE region
                /\ rejected' = (rejected \/ out.tile.load = "freed")
    /\ stats' = [stats EXCEPT !.load = @ + IF request.load = "none" THEN 0 ELSE LoadCycles]
    /\ active_count' = active_count + 1
    /\ pc' = "idle" /\ request' = NoRequest
    /\ UNCHANGED <<configVars, processed, caller, cursor, rounds, submissions>>

\* No slot, and no patience left: the tile is rejected.
GiveUp ==
    /\ pc = "submit" /\ Free = {} /\ rounds = MaxRounds
    /\ pc' = "idle" /\ request' = NoRequest
    /\ UNCHANGED <<configVars, slots, active_count, processed, stats, rejected, queued, region,
                   caller, cursor, rounds, submissions>>

-----------------------------------------------------------------------------
\* Variant: a wait that does not let time pass.
LaterNever(ss) == ss

\* Time passes for the tiles that compute.
Later(ss) == [i \in Slots |-> IF ss[i].left = 0 THEN ss[i] ELSE [ss[i] EXCEPT !.left = @ - 1]]

\* current_cycle is a field a client writes between its calls of advance.
ClientClock ==
    /\ pc = "idle" /\ slots' = Later(slots)
    /\ UNCHANGED <<configVars, active_count, processed, stats, rejected, queued, region, callVars>>

\* tu_pipeline_sync
Sync ==
    /\ pc = "idle" /\ initialized
    /\ pc' = "sync" /\ rounds' = 0
    /\ UNCHANGED <<configVars, slots, active_count, processed, stats, rejected, queued, region,
                   caller, cursor, request, submissions>>

\* Both waits let a cycle pass and advance, a bounded number of rounds.
Round ==
    /\ \/ pc = "submit" /\ Free = {}
       \/ pc = "sync" /\ active_count > 0
    /\ rounds < MaxRounds
    /\ rounds' = rounds + 1
    /\ slots' = Later(slots)
    /\ caller' = pc /\ pc' = "tick"
    /\ UNCHANGED <<configVars, active_count, processed, stats, rejected, queued, region, cursor,
                   request, submissions>>

SyncReturns ==
    /\ pc = "sync" /\ (active_count = 0 \/ rounds = MaxRounds)
    /\ pc' = "idle"
    /\ UNCHANGED <<configVars, slots, active_count, processed, stats, rejected, queued, region,
                   caller, cursor, rounds, request, submissions>>

ClientAdvance ==
    /\ pc = "idle" /\ initialized
    /\ caller' = "client" /\ pc' = "tick"
    /\ UNCHANGED <<configVars, slots, active_count, processed, stats, rejected, queued, region,
                   cursor, rounds, request, submissions>>

\* tu_pipeline_advance: the engine's tick, then every slot in turn.
Tick ==
    /\ pc = "tick" /\ DmaTick
    /\ pc' = "advance" /\ cursor' = 0
    /\ UNCHANGED <<configVars, active_count, processed, stats, rejected, caller, rounds,
                   request, submissions>>

\* Other clients of the engine tick it, too.
EngineTick ==
    /\ pc = "idle" /\ DmaTick
    /\ UNCHANGED <<configVars, active_count, processed, stats, rejected, callVars>>

Advances(stage) == pc = "advance" /\ cursor < depth /\ slots[cursor].stage = stage

NextSlot == cursor' = cursor + 1 /\ UNCHANGED <<pc, caller, rounds, request, submissions>>

\* PRELOAD to COMPUTE: a double-buffered region is swapped first.
Preloaded ==
    LET t == slots[cursor] IN
    /\ Advances("PRELOAD") /\ TRUE \in SeenDone(t.load)
    /\ region' = IF t.load = "null" THEN Swap(region) ELSE NotifyShadowWrite(Swap(region))
    /\ slots' = [slots EXCEPT ![cursor] = [t EXCEPT !.stage = "COMPUTE", !.left = t.cycles]]
    /\ \E bytes \in Size(t.load, LoadCycles) :
          stats' = [stats EXCEPT !.compute = @ + t.cycles,
                        !.overlappedLoad = @ + IF active_count >= 2 /\ loadOverlap
                                               THEN bytes ELSE 0]
    /\ NextSlot /\ UNCHANGED <<configVars, active_count, processed, rejected, queued>>

\* COMPUTE to STORE when the clock says so; the store is submitted.
Computed ==
    LET t == [slots[cursor] EXCEPT !.stage = "STORE"] IN
    /\ Advances("COMPUTE") /\ t.left = 0
    /\ \E out \in IF t.store = "null" THEN {[tile |-> t, queues |-> FALSE]}
                  ELSE Outcomes(t, "store") :
          /\ slots' = [slots EXCEPT ![cursor] = out.tile]
          /\ queued' = Queued("store", cursor, out.queues)
          /\ rejected' = (rejected \/ out.tile.store = "freed")
          /\ \E bytes \in Size(out.tile.store, StoreCycles) :
                stats' = [stats EXCEPT !.store = @ + bytes]
    /\ NextSlot /\ UNCHANGED <<configVars, active_count, processed, region>>

\* STORE to DONE.
Stored ==
    LET t == slots[cursor] IN
    /\ Advances("STORE") /\ TRUE \in SeenDone(t.store)
    /\ slots' = [slots EXCEPT ![cursor] =
                    [t EXCEPT !.stage = "DONE", !.load = "null", !.store = "null"]]
    /\ active_count' = active_count - 1 /\ processed' = TRUE
    /\ \E bytes \in Size(t.store, StoreCycles) :
          stats' = [stats EXCEPT !.overlappedStore =
                       @ + IF active_count - 1 >= 1 /\ storeOverlap THEN bytes ELSE 0]
    /\ NextSlot /\ UNCHANGED <<configVars, rejected, queued, region>>

\* A slot that is not in flight, or whose tile still waits.
PassOver ==
    /\ pc = "advance" /\ cursor < depth
    /\ LET t == slots[cursor] IN
          \/ ~InFlight(cursor)
          \/ t.stage = "PRELOAD" /\ FALSE \in SeenDone(t.load)
          \/ t.stage = "COMPUTE" /\ t.left > 0
          \/ t.stage = "STORE" /\ FALSE \in SeenDone(t.store)
    /\ NextSlot
    /\ UNCHANGED <<configVars, slots, active_count, processed, stats, rejected, queued, region>>

AdvanceReturns ==
    /\ pc = "advance" /\ cursor = depth
    /\ pc' = IF caller = "client" THEN "idle" ELSE caller
    /\ UNCHANGED <<configVars, slots, active_count, processed, stats, rejected, queued, region,
                   caller, cursor, rounds, request, submissions>>

Visit == Preloaded \/ Computed \/ Stored \/ PassOver \/ AdvanceReturns
Wait == Round \/ SyncReturns \/ Place \/ GiveUp

Next ==
    \/ \E c \in Configs : Initialize(c)
    \/ \E keep \in BOOLEAN : Reset(keep)
    \/ \E r \in Requests : Submit(r)
    \/ ClientClock \/ Sync \/ ClientAdvance \/ EngineTick \/ Tick \/ Visit \/ Wait

Spec == Init /\ [][Next]_vars

\* The client keeps calling tu_pipeline_sync (SF: other calls come in between),
\* a call that began returns, and a channel of the engine whose head waits
\* gets its data path at one of the ticks that keep coming.
FairSpec ==
    /\ Spec
    /\ SF_vars(Sync) /\ WF_vars(Visit) /\ WF_vars(Wait) /\ WF_vars(Tick)
    /\ \A w \in Ways : SF_vars(Tick /\ queued[w] # <<>> /\ queued'[w] # queued[w])

-----------------------------------------------------------------------------
\* The controller's fields keep their types.
TypeOK ==
    /\ initialized \in BOOLEAN /\ depth \in 0 .. MaxDepth
    /\ loadOverlap \in BOOLEAN /\ storeOverlap \in BOOLEAN /\ async \in BOOLEAN
    /\ initialized => depth > 0
    /\ slots \in [Slots -> Tile] /\ active_count \in Nat /\ processed \in BOOLEAN
    /\ rejected \in BOOLEAN
    /\ stats \in [DOMAIN NoStats -> Nat]
    /\ queued \in [Ways -> Seq(Slots)]
    /\ region \in Region(0 .. MaxSubmissions)
    /\ pc \in {"idle", "submit", "sync", "tick", "advance"}
    /\ caller \in {"client", "submit", "sync"}
    /\ cursor \in 0 .. MaxDepth /\ rounds \in 0 .. MaxRounds
    /\ submissions \in 0 .. MaxSubmissions

\* active_count, which decides when sync returns and what counts as overlap,
\* is the number of tiles in flight.
CountsActive == active_count = Cardinality({i \in Slots : InFlight(i)})

\* The engine holds no descriptor whose tile has gone on without it: a slot is
\* recycled only after its transfers.
HoldsOnlyAwaited ==
    \A w \in Ways : \A k \in DOMAIN queued[w] :
        LET t == slots[queued[w][k]] IN
        IF w = "load" THEN t.stage = "PRELOAD" /\ t.load = "queued"
        ELSE t.stage = "STORE" /\ t.store = "queued"

\* Slots, count and engine agree about which tiles are in flight: a drift of one
\* of the three would end a wait early, or recycle a slot under a transfer.
SlotsTracked == CountsActive /\ HoldsOnlyAwaited

\* The unsigned differences of tu_pipeline_get_stats and print_stats never
\* wrap, as long as no descriptor was rejected.
Hindered(i) == slots[i].load \in {"freed", "stuck"} \/ slots[i].store = "freed"
StatsNeverWrap ==
    ~rejected =>
    /\ stats.overlappedLoad <= stats.load
    /\ stats.overlappedStore <= stats.store
    /\ stats.compute + (stats.load - stats.overlappedLoad)
         + (stats.store - stats.overlappedStore) <= stats.sequential

\* One slot and one buffer: a tile computes and stores on the data it loaded.
ComputesOnOwnData ==
    depth = 1 /\ ~region.enabled =>
        (slots[0].stage \in {"COMPUTE", "STORE"} /\ slots[0].load \in {"queued", "completed"}
            => region.primary = slots[0].data)

\* compute/pipeline_controller.h:14: "STAGE_DMA_PRELOAD  — DMA writes tile
\* N+1 data into shadow buffer".
PreloadsIntoShadow ==
    [][region.enabled /\ depth > 1 /\ loadOverlap /\ pc = "tick" => ActiveData(region') = ActiveData(region)]_vars

\* A tile whose descriptors the engine took and can serve ends, if the client
\* keeps synchronizing.
TilesFinish == \A i \in Slots : InFlight(i) ~> ~InFlight(i) \/ Hindered(i)

=============================================================================
