--------------------------- MODULE ContextManager ---------------------------
(***************************************************************************)
(* The TinyTU context manager (tu_cmodel/infra/tu_context.c): several      *)
(* execution contexts share one core.  A context is saved by copying what  *)
(* the save scope retains of the core, and resumed by copying that back.   *)
(* A save first waits for the core's command queue, but not for the DMA    *)
(* engine: a descriptor submitted in asynchronous mode lands when its      *)
(* queue is next driven (tu_dma_tick, tu_sync), whoever holds the core.    *)
(*                                                                         *)
(* Abstracted: the core's contents are up to three parts, control state    *)
(* (counts, dataflow, runtime configuration), the live prefixes of the     *)
(* SRAM regions and the rest of them; the DMA engine is one transfer not   *)
(* yet executed (DmaEngine models the engine); the command queue is a      *)
(* functional one, whose commands execute as they are submitted and whose  *)
(* wait returns at once (CommandQueue models the queue, and shows that the *)
(* wait of a deferred one does not return); statistics, overhead           *)
(* accounting and the time slices, which only the client reads, are left   *)
(* out; memory allocation succeeds.                                        *)
(***************************************************************************)
EXTENDS Integers, FiniteSets

CONSTANTS
    Configs,       \* the configurations tu_ctx_manager_create may be given
    MaxContexts,   \* max_contexts
    Priorities,    \* the priorities a client may set
    Parts,         \* the parts of the core's contents
    Values,        \* what a part of the core may hold
    Fresh,         \* what a part holds after tu_core_create
    None           \* "not retained", "no transfer"

Contexts == 0 .. MaxContexts - 1
States == {"IDLE", "ACTIVE", "READY", "BLOCKED"}   \* nothing sets COMPLETED

DefaultPriority == 128

\* Beside policy and save scope, how the client uses the manager,
\*   "scheduled"  switches only by tu_ctx_request_switch and
\*                tu_ctx_block_current;
\*   "manual"     also by tu_ctx_switch, and by tu_ctx_save and then
\*                tu_ctx_restore;
\*   "freesIdle"  also frees contexts that are IDLE, as tu_context.h allows;
\* and the DMA engine,
\*   "sync"       descriptors execute as they are submitted;
\*   "flushed"    they do not, and a program waits for its own before the
\*                client takes the core from it;
\*   "unflushed"  they do not, and that is left to the manager.
Config == [policy : {"rr", "priority"}, scope : {"full", "live", "control"},
           client : {"scheduled", "manual", "freesIdle"},
           dma : {"sync", "flushed", "unflushed"}]

ASSUME ManagerAssumption ==
    /\ Configs \subseteq Config
    /\ MaxContexts \in Nat \ {0}
    /\ Priorities \subseteq 0 .. 255
    /\ Parts \subseteq {"control", "live", "tail"}
    /\ Fresh \in Values /\ None \notin Values

Contents == [Parts -> Values]
Image == [Parts -> Values \cup {None}]
Transfer == [part : Parts \ {"control"}, value : Values, owner : Contexts]

ASSUME TransferAssumption == None \notin Transfer

VARIABLES
    config,         \* chosen by tu_ctx_manager_create
    state,          \* contexts[c].state
    priority,       \* contexts[c].priority
    saved,          \* contexts[c].hw_state: None where nothing is retained
    active_ctx_id,
    active_count,
    core,           \* the contents of the core
    in_flight,      \* a descriptor in the DMA engine's queue, or None
    view            \* history: what c's program knows the retained parts hold

vars == <<config, state, priority, saved, active_ctx_id, active_count, core,
          in_flight, view>>

Retained ==
    CASE config.scope = "full"    -> Parts
      [] config.scope = "live"    -> Parts \ {"tail"}
      [] config.scope = "control" -> Parts \ {"live", "tail"}

NoImage == [p \in Parts |-> None]

\* ctx_save_full_state: what a snapshot of these contents keeps.
Snapshot(mem) == [p \in Parts |-> IF p \in Retained THEN mem[p] ELSE None]

\* Variant: the live prefix is copied back whatever the scope.
LoadedLive(image, mem) ==
    [p \in Parts |->
        IF image[p] = None \/ p = "tail" THEN mem[p] ELSE image[p]]

\* ctx_restore_full_state: parts that were not retained stay as they are.
Loaded(image, mem) ==
    [p \in Parts |-> IF image[p] = None THEN mem[p] ELSE image[p]]

Current == state[active_ctx_id] = "ACTIVE"
Ready == {c \in Contexts : state[c] = "READY"}
Allocated == {c \in Contexts : state[c] # "IDLE"}

-----------------------------------------------------------------------------
Init ==
    /\ config \in Configs
    /\ state = [c \in Contexts |-> "IDLE"]
    /\ priority = [c \in Contexts |-> DefaultPriority]
    /\ saved = [c \in Contexts |-> NoImage]
    /\ active_ctx_id = 0 /\ active_count = 0
    /\ core = [p \in Parts |-> Fresh] /\ in_flight = None
    /\ view = [c \in Contexts |-> NoImage]

\* What the program of context c learns when it changes part p.
Learnt(c, p, value) ==
    IF p \in Retained THEN [view EXCEPT ![c][p] = value] ELSE view

\* tu_ctx_save, as the other operations call it: nothing happens unless the
\* current context is ACTIVE.
StateAfterSave ==
    IF Current THEN [state EXCEPT ![active_ctx_id] = "READY"] ELSE state
SavedAfterSave ==
    IF Current THEN [saved EXCEPT ![active_ctx_id] = Snapshot(core)] ELSE saved

\* The client may take the core from the current context.
MayLeave == config.dma = "flushed" => in_flight = None

-----------------------------------------------------------------------------
\* tu_ctx_alloc: the first IDLE slot, with a snapshot of the core as it is.
Alloc(c) ==
    /\ c \notin Allocated /\ \A d \in 0 .. c - 1 : d \in Allocated
    /\ state' = [state EXCEPT ![c] =
                     IF active_count = 0 THEN "ACTIVE" ELSE "READY"]
    /\ priority' = [priority EXCEPT ![c] = DefaultPriority]
    /\ saved' = [saved EXCEPT ![c] = Snapshot(core)]
    /\ view' = [view EXCEPT ![c] = Snapshot(core)]
    /\ active_ctx_id' = IF active_count = 0 THEN c ELSE active_ctx_id
    /\ active_count' = active_count + 1
    /\ UNCHANGED <<config, core, in_flight>>

CountAfterFree == IF active_count > 0 THEN active_count - 1 ELSE 0

\* tu_ctx_free: an ACTIVE context is saved first, which saves the current one.
Free(c) ==
    LET saves == state[c] = "ACTIVE"
        states == IF saves THEN StateAfterSave ELSE state
        images == IF saves THEN SavedAfterSave ELSE saved
    IN  /\ c \in Allocated \/ config.client = "freesIdle"
        /\ saves => MayLeave
        /\ IF states[c] = "ACTIVE"
           THEN /\ state' = states /\ saved' = images
                /\ UNCHANGED <<priority, active_count, view>>
           ELSE /\ state' = [states EXCEPT ![c] = "IDLE"]
                /\ saved' = [images EXCEPT ![c] = NoImage]
                /\ view' = [view EXCEPT ![c] = NoImage]
                /\ priority' = [priority EXCEPT ![c] = 0]
                /\ active_count' = CountAfterFree
        /\ UNCHANGED <<config, active_ctx_id, core, in_flight>>

\* The client sets a priority in the descriptor tu_ctx_get returns.  (Under
\* round robin nothing would read it.)
SetPriority(c, p) ==
    /\ config.policy = "priority"
    /\ c \in Allocated
    /\ priority' = [priority EXCEPT ![c] = p]
    /\ UNCHANGED <<config, state, saved, active_ctx_id, active_count, core,
                   in_flight, view>>

-----------------------------------------------------------------------------
\* tu_ctx_save, called by the client, and tu_ctx_block_current.
SaveTo(st) ==
    /\ Current /\ MayLeave
    /\ state' = [state EXCEPT ![active_ctx_id] = st]
    /\ saved' = SavedAfterSave
    /\ UNCHANGED <<config, priority, active_ctx_id, active_count, core,
                   in_flight, view>>

BlockCurrent == SaveTo("BLOCKED")

Save == config.client # "scheduled" /\ SaveTo("READY")

Unblock(c) ==
    /\ state[c] = "BLOCKED"
    /\ state' = [state EXCEPT ![c] = "READY"]
    /\ UNCHANGED <<config, priority, saved, active_ctx_id, active_count, core,
                   in_flight, view>>

\* tu_ctx_restore, called by a client that has saved before.
Restore(c) ==
    /\ config.client # "scheduled"
    /\ \A d \in Contexts : state[d] # "ACTIVE"
    /\ state[c] = "READY"
    /\ state' = [state EXCEPT ![c] = "ACTIVE"]
    /\ core' = Loaded(saved[c], core)
    /\ active_ctx_id' = c
    /\ UNCHANGED <<config, priority, saved, active_count, in_flight, view>>

\* Variant: the outgoing context is not demoted.
SwitchToKeeping(id) ==
    /\ MayLeave /\ id \in Ready
    /\ saved' = SavedAfterSave
    /\ state' = [state EXCEPT ![id] = "ACTIVE"]
    /\ core' = Loaded(SavedAfterSave[id], core)
    /\ active_ctx_id' = id
    /\ UNCHANGED <<config, priority, active_count, in_flight, view>>

\* tu_ctx_switch: the current context is saved before the target is looked at;
\* if that one is not READY the call fails, with no context ACTIVE.
SwitchTo(id) ==
    /\ MayLeave
    /\ saved' = SavedAfterSave
    /\ IF id \in Contexts /\ StateAfterSave[id] = "READY"
       THEN /\ state' = [StateAfterSave EXCEPT ![id] = "ACTIVE"]
            /\ core' = Loaded(SavedAfterSave[id], core)
            /\ active_ctx_id' = id
       ELSE state' = StateAfterSave /\ UNCHANGED <<core, active_ctx_id>>
    /\ UNCHANGED <<config, priority, active_count, in_flight, view>>

Switch(id) == config.client # "scheduled" /\ SwitchTo(id)

\* How far after the active context's slot the round robin finds slot c.
After(c) ==
    IF c > active_ctx_id THEN c - active_ctx_id - 1
    ELSE c - active_ctx_id - 1 + MaxContexts

\* Variant: a search that always begins at slot 0.
FirstInTurnFromZero(c) == \A d \in Ready : c <= d

FirstInTurn(c) == \A d \in Ready : After(c) <= After(d)

\* Variant: a later context of lower priority replaces the best one.
MostUrgentLast(c) == priority[c] > 0 /\ \A d \in Ready : d <= c

\* The best priority starts at 0 and is only replaced by a higher one.
MostUrgent(c) ==
    /\ priority[c] > 0
    /\ \A d \in Ready : \/ priority[d] < priority[c]
                        \/ priority[d] = priority[c] /\ c <= d

\* tu_ctx_schedule_next returns c.
IsNext(c) ==
    /\ c \in Ready
    /\ IF config.policy = "rr" THEN FirstInTurn(c) ELSE MostUrgent(c)

RequestSwitch == \E c \in Contexts : IsNext(c) /\ SwitchTo(c)

-----------------------------------------------------------------------------
\* The program of the ACTIVE context changes the core: directly, by a command
\* or by a descriptor that executes as it is submitted.
Write(p, value) ==
    /\ Current
    /\ core' = [core EXCEPT ![p] = value]
    /\ view' = Learnt(active_ctx_id, p, value)
    /\ UNCHANGED <<config, state, priority, saved, active_ctx_id, active_count,
                   in_flight>>

\* It submits a descriptor that loads a part of the core's SRAM.
SubmitTransfer(p, value) ==
    /\ Current /\ config.dma # "sync" /\ in_flight = None
    /\ in_flight' = [part |-> p, value |-> value, owner |-> active_ctx_id]
    /\ UNCHANGED <<config, state, priority, saved, active_ctx_id, active_count,
                   core, view>>

\* tu_dma_tick or tu_sync: the descriptor is executed, and its submitter told.
Land ==
    /\ in_flight # None
    /\ core' = [core EXCEPT ![in_flight.part] = in_flight.value]
    /\ view' = Learnt(in_flight.owner, in_flight.part, in_flight.value)
    /\ in_flight' = None
    /\ UNCHANGED <<config, state, priority, saved, active_ctx_id, active_count>>

Program ==
    \/ \E p \in Parts, value \in Values : Write(p, value)
    \/ \E p \in Parts \ {"control"}, value \in Values : SubmitTransfer(p, value)
    \/ Land

Next ==
    \/ \E c \in Contexts : Alloc(c) \/ Free(c) \/ Unblock(c) \/ Restore(c)
    \/ \E c \in Contexts, p \in Priorities : SetPriority(c, p)
    \/ BlockCurrent \/ Save \/ RequestSwitch
    \/ \E id \in 0 .. MaxContexts : Switch(id)
    \/ Program

Spec == Init /\ [][Next]_vars

\* The client asks for a switch again and again, as it does when it sees
\* tu_ctx_slice_expired; it need not do anything else.
FairSpec == Spec /\ WF_vars(RequestSwitch)

-----------------------------------------------------------------------------
\* The manager's state keeps its types.
TypeOK ==
    /\ config \in Configs
    /\ state \in [Contexts -> States]
    /\ priority \in [Contexts -> 0 .. 255]
    /\ saved \in [Contexts -> Image] /\ view \in [Contexts -> Image]
    /\ active_ctx_id \in Contexts /\ active_count \in 0 .. MaxContexts
    /\ core \in Contents /\ in_flight \in Transfer \cup {None}

\* tu_ctx_alloc, tu_ctx_free and the switches keep at most one context
\* executing on the core, the one active_ctx_id names (tu_context.h: "Currently
\* executing context ID").
OneActive == \A c \in Contexts : state[c] = "ACTIVE" => c = active_ctx_id

\* tu_context.h says of active_count "Currently allocated contexts"; the next
\* tu_ctx_alloc relies on it to tell whether the core is free.
CountIsAllocated == active_count = Cardinality(Allocated)

\* Who runs and who counts agree: allocation hands the core over exactly when
\* it is free, so two errors that would each hide the other are held apart.
SlotsAccounted == OneActive /\ CountIsAllocated

\* docs/multi-context-execution.md: "The restored context picks up exactly
\* where it left off".  Whatever switches, blocks, frees and allocations came
\* between, the ACTIVE context finds every part the save scope retains as its
\* program left it, its transfers included and nobody else's.
Isolation ==
    Current => \A p \in Retained : core[p] = view[active_ctx_id][p]

\* A READY context is resumed by the scheduler only when no READY context has a
\* higher priority ("next READY context with highest priority").
HighestFirst ==
    [][config.policy = "priority" /\ config.client = "scheduled" =>
          \A c \in Ready : state'[c] = "ACTIVE" =>
              \A d \in Ready : priority[d] <= priority[c]]_vars

\* Round robin starves nobody: a READY context is scheduled (or freed) whatever
\* the others block, unblock, allocate and free meanwhile.  (A client that must
\* flush first could be kept from asking by a program that submits for ever.)
EventuallyScheduled ==
    \A c \in Contexts :
        config.policy = "rr" /\ config.client = "scheduled"
            /\ config.dma # "flushed" /\ state[c] = "READY"
            ~> state[c] # "READY"

=============================================================================
