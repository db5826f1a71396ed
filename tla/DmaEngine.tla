----------------------------- MODULE DmaEngine -----------------------------
(***************************************************************************)
(* The TinyTU DMA engine (tu_cmodel/dma_descriptor.c): descriptor queues,  *)
(* one per channel, that feed either one data path each (independent) or   *)
(* one data path together (shared serial), arbitrated round robin, by      *)
(* strict or aging priority, or by deficit round robin (DRR).              *)
(*                                                                         *)
(* A channel's linked list (head, tail, next) is modelled by the sequence  *)
(* its head leads to, and by tailpos, the position in it of the descriptor *)
(* tail points at: a submission links its chain behind that descriptor, so *)
(* what stood behind it is cut off; tailpos 0 is a tail whose descriptor   *)
(* has left the queue.                                                     *)
(*                                                                         *)
(* Abstracted: addresses and data; a descriptor is the sizes the engine    *)
(* computes from it (bytes, DRR cost, service cycles), its priority and    *)
(* whether its host pointers are usable.  The clock appears only as        *)
(* differences: cycles an active transfer still takes, steps a descriptor  *)
(* has aged.  (The DRR scan delays advance the clock only while nothing is *)
(* active, which no difference sees.)                                      *)
(***************************************************************************)
EXTENDS Integers, SequencesExt

CONSTANTS
    Modes,          \* the configurations an initialization may choose
    NumChannels,    \* channels in use (at most TU_DMA_ENGINE_MAX_CHANNELS)
    MaxDepth,       \* max_depth of a channel (initialization makes it positive)
    DepthModulus,   \* 2^32 in the code: queue_depth is a uint32_t
    MaxPriority,    \* 255 in the code: priorities are uint8_t
    AgingQuantum,   \* aging_cycle_quantum
    AgingIncrement, \* aging_increment
    AgingMaxBoost,  \* aging_max_boost, 0 for no cap
    Grant,          \* DRR credits a channel gets per visit: quantum * weight
    CreditMax,      \* UINT64_MAX in the code: where credits saturate
    Kinds,          \* the descriptors a client may submit
    MaxChain,       \* the longest chain it submits
    None            \* the null pointer

Channels == 0 .. NumChannels - 1

\* What the engine is configured with: asynchronous or executing every
\* submission at once, one bus or independent paths, and the policies.
Mode == [async : BOOLEAN, shared : BOOLEAN,
         arbitration : {"rr", "strict", "aging", "drr"},
         binding : {"explicit", "rr", "outstanding", "bytes", "cycles"},
         fromHead : BOOLEAN,     \* aging_scope is FROM_QUEUE_HEAD
         byCycles : BOOLEAN,     \* aging_metric is BY_WAIT_CYCLES
         retain : BOOLEAN,       \* drr_idle_policy is RETAIN_RESIDUAL
         conserving : BOOLEAN]   \* drr_service_mode is WORK_CONSERVING

ASSUME EngineAssumption ==
    /\ Modes \subseteq Mode
    /\ NumChannels \in Nat \ {0}
    /\ DepthModulus \in Nat \ {0} /\ MaxDepth \in 1 .. DepthModulus - 1
    /\ MaxPriority \in Nat
    /\ AgingQuantum \in Nat \ {0} /\ AgingIncrement \in Nat \ {0}
    /\ AgingMaxBoost \in Nat
    /\ CreditMax \in Nat /\ Grant \in [Channels -> Nat \ {0}]
    /\ Kinds \subseteq [bytes : Nat, cost : Nat, cycles : Nat,
                        priority : 0 .. MaxPriority, valid : BOOLEAN]
    /\ \A k \in Kinds : k.cost <= CreditMax
    /\ MaxChain \in Nat \ {0}

VARIABLES
    mode,          \* chosen by initialization
    queue,         \* queue[c]: the descriptors head leads to, with their ages
    tailpos,       \* tailpos[c]: position of tail in the queue, 0 if outside
    active,        \* active[c]: the transfer in service, or None
    queue_depth,   \* queue_depth[c], a counter of its own in the code
    unfinished,    \* total_submitted - total_completed of the channel
    next_binding,  \* next_binding_channel
    next_shared,   \* next_shared_channel
    credits,       \* drr_deficit_credits of each channel
    continuing,    \* the channel whose DRR visit goes on, or None
    pc,            \* "idle", or the arbitration a tick still has to do
    probe,         \* DRR: queue looked at, relative to next_shared
    any            \* DRR: this round met a queue that is not empty

channelVars == <<queue, tailpos, queue_depth>>
drrVars == <<credits, continuing, probe, any>>
vars == <<mode, channelVars, active, unfinished, next_binding, next_shared,
          drrVars, pc>>

AgeCap == MaxPriority * AgingQuantum   \* older than this changes no priority

Item == [kind : Kinds, age : 0 .. AgeCap]
Transfer == [kind : Kinds, left : Nat]

ASSUME NoneAssumption == None \notin Transfer \cup Channels

Chains == UNION {[1 .. n -> Kinds] : n \in 1 .. MaxChain}

-----------------------------------------------------------------------------
Least(a, b) == IF a < b THEN a ELSE b

\* Variant: a cursor that stays on the channel it granted.
AfterStays(c) == c

After(c) == IF c + 1 = NumChannels THEN 0 ELSE c + 1

\* How far a rotating cursor has to advance to reach a channel.
Behind(cursor, c) == IF c >= cursor THEN c - cursor ELSE c - cursor + NumChannels

\* c is the channel of S that a scan from the cursor finds first.
IsFirst(c, cursor, S) ==
    c \in S /\ \A d \in S : Behind(cursor, c) <= Behind(cursor, d)

Busy == {c \in Channels : active[c] # None}
Backlogged == {c \in Channels : queue[c] # <<>>}

InService(c) == IF c \in Busy THEN 1 ELSE 0

Outstanding(c) == (queue_depth[c] + InService(c)) % DepthModulus

AssignedBytes(c) ==
    FoldSeq(LAMBDA item, sum : sum + item.kind.bytes,
            IF c \in Busy THEN active[c].kind.bytes ELSE 0, queue[c])

ProjectedCycles(c) ==
    FoldSeq(LAMBDA item, sum : sum + item.kind.cycles,
            IF c \in Busy THEN active[c].left ELSE 0, queue[c])

\* What a binding policy wants least of; the others look at no load.
Load(c) ==
    CASE mode.binding = "outstanding" -> Outstanding(c)
      [] mode.binding = "bytes"       -> AssignedBytes(c)
      [] mode.binding = "cycles"      -> ProjectedCycles(c)
      [] OTHER                   -> 0

\* A submission that asks for channel `requested` is bound to channel c.
BoundTo(c, requested) ==
    IF mode.binding = "explicit" THEN c = requested
    ELSE IsFirst(c, next_binding,
                 {d \in Channels : \A e \in Channels : Load(d) <= Load(e)})

Fits(c) == Outstanding(c) < MaxDepth

-----------------------------------------------------------------------------
Init ==
    /\ mode \in Modes
    /\ queue = [c \in Channels |-> <<>>]
    /\ tailpos = [c \in Channels |-> 0]
    /\ active = [c \in Channels |-> None]
    /\ queue_depth = [c \in Channels |-> 0]
    /\ unfinished = [c \in Channels |-> 0]
    /\ next_binding = 0 /\ next_shared = 0
    /\ credits = [c \in Channels |-> 0]
    /\ continuing = None /\ pc = "idle" /\ probe = 0 /\ any = FALSE

\* A submitted chain as it is queued: just arrived.
Items(chain) == [k \in DOMAIN chain |-> [kind |-> chain[k], age |-> 0]]

\* Linking a chain behind the descriptor tail points at.
Linked(c, chain) ==
    IF queue[c] = <<>> THEN Items(chain)
    ELSE IF tailpos[c] = 0 THEN queue[c]
    ELSE SubSeq(queue[c], 1, tailpos[c]) \o Items(chain)

\* Variant: a tail that is moved only for an empty queue.
LinkedTailStays(c) == IF queue[c] = <<>> THEN 1 ELSE tailpos[c]

\* tail points at the head of the chain, wherever that ended up.
LinkedTail(c) ==
    IF queue[c] = <<>> THEN 1 ELSE IF tailpos[c] = 0 THEN 0 ELSE tailpos[c] + 1

\* tu_dma_submit_desc with engine in asynchronous mode.  A rejected chain is
\* destroyed and leaves no trace; the depth and the submission count grow by
\* one for the whole chain.
Enqueue(c, chain) ==
    /\ queue' = [queue EXCEPT ![c] = Linked(c, chain)]
    /\ tailpos' = [tailpos EXCEPT ![c] = LinkedTail(c)]
    /\ queue_depth' = [queue_depth EXCEPT ![c] = (@ + 1) % DepthModulus]
    /\ unfinished' = [unfinished EXCEPT ![c] = @ + 1]

\* In synchronous mode the whole chain is executed, and each of its
\* descriptors counted off, before the call returns.
ExecuteAtOnce(c, chain) ==
    /\ queue_depth' = [queue_depth EXCEPT ![c] = (@ + 1 - Len(chain)) % DepthModulus]
    /\ unfinished' = [unfinished EXCEPT ![c] = @ + 1 - Len(chain)]
    /\ UNCHANGED <<queue, tailpos>>

Submit(requested, chain) ==
    \E c \in Channels :
        /\ pc = "idle"
        /\ BoundTo(c, requested)
        /\ Fits(c)
        /\ IF mode.async THEN Enqueue(c, chain) ELSE ExecuteAtOnce(c, chain)
        /\ next_binding' = IF mode.binding = "explicit" THEN next_binding ELSE After(c)
        /\ UNCHANGED <<mode, active, next_shared, drrVars, pc>>

-----------------------------------------------------------------------------
\* tu_dma_execute_desc as issue sees it: the data moves now and the transfer
\* is busy for its service cycles; with unusable pointers nothing is done and
\* the completion time stays 0, in the past.
Issued(item) ==
    [kind |-> item.kind, left |-> IF item.kind.valid THEN item.kind.cycles ELSE 0]

\* What one clock cycle leaves of the transfer in service.
Remaining(c) ==
    IF c \notin Busy \/ active[c].left <= 1 THEN None
    ELSE [active[c] EXCEPT !.left = @ - 1]

Retired == {c \in Busy : Remaining(c) = None}

\* Variant: a bus that counts as free while the cursor's own channel is.
BusFreeAtCursor == next_shared \notin Busy \ Retired

BusFree == Busy = Retired

Aged(item) == [item EXCEPT !.age = Least(@ + 1, AgeCap)]

AgeAll(qs) == [c \in Channels |-> [k \in DOMAIN qs[c] |-> Aged(qs[c][k])]]

\* Taking the head off the queues of the channels in S.
Pop(S) ==
    /\ tailpos' = [c \in Channels |->
                      IF c \in S /\ tailpos[c] > 0 THEN tailpos[c] - 1 ELSE tailpos[c]]
    /\ queue_depth' = [c \in Channels |->
                          IF c \in S THEN (queue_depth[c] - 1) % DepthModulus
                          ELSE queue_depth[c]]

\* tu_dma_tick with independent data paths: every channel retires its transfer
\* if its time has come and, if it is free, starts the next.
TickIndependent ==
    LET starts == {c \in Backlogged : Remaining(c) = None} IN
    /\ pc = "idle" /\ ~mode.shared
    /\ active' = [c \in Channels |->
                     IF c \in starts THEN Issued(Head(queue[c])) ELSE Remaining(c)]
    /\ queue' = [c \in Channels |->
                    IF c \in starts THEN Tail(queue[c]) ELSE queue[c]]
    /\ Pop(starts)
    /\ unfinished' = [c \in Channels |->
                         IF c \in Retired THEN unfinished[c] - 1 ELSE unfinished[c]]
    /\ UNCHANGED <<mode, next_binding, next_shared, drrVars, pc>>

\* The first half of tu_dma_tick on a shared bus: time passes and transfers
\* retire; if that leaves the bus free, arbitration follows.
TickShared ==
    /\ pc = "idle" /\ mode.shared
    /\ active' = [c \in Channels |-> Remaining(c)]
    /\ unfinished' = [c \in Channels |->
                         IF c \in Retired THEN unfinished[c] - 1 ELSE unfinished[c]]
    /\ queue' = IF mode.byCycles THEN AgeAll(queue) ELSE queue
    /\ pc' = IF ~BusFree THEN "idle"
             ELSE IF mode.arbitration = "drr" THEN "drr" ELSE "grant"
    /\ probe' = 0 /\ any' = FALSE
    /\ UNCHANGED <<mode, tailpos, queue_depth, next_binding, next_shared, credits,
                   continuing>>
-----------------------------------------------------------------------------
\* The head of channel c goes into service.
Start(c) ==
    /\ active' = [active EXCEPT ![c] = Issued(Head(queue[c]))]
    /\ Pop({c})

\* Variant: no boost.
EffectiveStatic(item) == item.kind.priority

\* descriptor_effective_priority: the descriptor's own plus its age's boost.
Effective(item) ==
    LET quantum == IF mode.byCycles THEN AgingQuantum ELSE 1
        steps == (item.age \div quantum) * AgingIncrement
        boost == IF AgingMaxBoost = 0 THEN steps ELSE Least(steps, AgingMaxBoost)
    IN  Least(item.kind.priority + boost, MaxPriority)

\* What the arbitration of a shared bus compares before it rotates.
Urgency(c) ==
    CASE mode.arbitration = "strict" -> Head(queue[c]).kind.priority
      [] mode.arbitration = "aging"  -> Effective(Head(queue[c]))
      [] OTHER                  -> 0

\* Variant: a best priority that overlooks the last channel.
MostUrgentButLast ==
    {c \in Backlogged : \A d \in Backlogged \ {NumChannels - 1} : Urgency(d) <= Urgency(c)}

MostUrgent == {c \in Backlogged : \A d \in Backlogged : Urgency(d) <= Urgency(c)}

\* The queues after a grant to c: everyone else has missed one, and c's new
\* head becomes eligible now.
QueuesAfterGrant(c) ==
    LET popped == [queue EXCEPT ![c] = Tail(@)]
        older == IF mode.byCycles THEN popped ELSE AgeAll(popped)
    IN  IF mode.fromHead /\ older[c] # <<>> THEN [older EXCEPT ![c][1].age = 0]
        ELSE older

\* The second half of tu_dma_tick: round robin, strict or aging priority.
GrantPolicy ==
    /\ pc = "grant"
    /\ \E c \in Channels :
          /\ IsFirst(c, next_shared, MostUrgent)
          /\ Start(c)
          /\ queue' = QueuesAfterGrant(c)
          /\ next_shared' = After(c)
    /\ pc' = "idle"
    /\ UNCHANGED <<mode, unfinished, next_binding, drrVars>>

GrantNothing ==
    /\ pc = "grant" /\ Backlogged = {}
    /\ pc' = "idle"
    /\ UNCHANGED <<mode, channelVars, active, unfinished, next_binding,
                   next_shared, drrVars>>

-----------------------------------------------------------------------------
\* Deficit round robin, one probed queue per step.
Probed == IF next_shared + probe < NumChannels THEN next_shared + probe
          ELSE next_shared + probe - NumChannels

\* Variant: a visit that goes on is granted again.
FundsAlways(c) == Least(credits[c] + Grant[c], CreditMax)

\* The credit a probed queue can spend: a visit that goes on gets no new grant.
Funds(c) ==
    IF continuing = c THEN credits[c] ELSE Least(credits[c] + Grant[c], CreditMax)

\* An empty queue loses its credit (under drr_idle_policy RESET) and its visit.
DrrSkip ==
    /\ pc = "drr" /\ probe < NumChannels
    /\ queue[Probed] = <<>>
    /\ credits' = IF mode.retain THEN credits ELSE [credits EXCEPT ![Probed] = 0]
    /\ continuing' = IF continuing = Probed THEN None ELSE continuing
    /\ probe' = probe + 1
    /\ UNCHANGED <<mode, channelVars, active, unfinished, next_binding,
                   next_shared, any, pc>>

\* A queue whose head costs more than its credit keeps the grant and waits.
DrrShort ==
    /\ pc = "drr" /\ probe < NumChannels
    /\ queue[Probed] # <<>>
    /\ Funds(Probed) < Head(queue[Probed]).kind.cost
    /\ credits' = [credits EXCEPT ![Probed] = Funds(Probed)]
    /\ continuing' = None
    /\ any' = TRUE
    /\ probe' = probe + 1
    /\ UNCHANGED <<mode, channelVars, active, unfinished, next_binding,
                   next_shared, pc>>

\* A queue that can pay is served; a work-conserving visit goes on with the
\* next descriptor the credit left covers.
DrrServe ==
    LET c    == Probed
        rest == Tail(queue[c])
        left == IF rest = <<>> /\ ~mode.retain THEN 0
                ELSE Funds(c) - Head(queue[c]).kind.cost
        goesOn == mode.conserving /\ rest # <<>> /\ left >= Head(rest).kind.cost
    IN  /\ pc = "drr" /\ probe < NumChannels
        /\ queue[c] # <<>>
        /\ Funds(c) >= Head(queue[c]).kind.cost
        /\ Start(c)
        /\ queue' = [queue EXCEPT ![c] = rest]
        /\ credits' = [credits EXCEPT ![c] = left]
        /\ next_shared' = IF goesOn THEN c ELSE After(c)
        /\ continuing' = IF goesOn THEN c ELSE None
        /\ pc' = "idle" /\ probe' = 0 /\ any' = FALSE
        /\ UNCHANGED <<mode, unfinished, next_binding>>

\* Variant: one round and no more.
DrrRoundEndOnce ==
    /\ pc = "drr" /\ probe = NumChannels
    /\ pc' = "idle"
    /\ probe' = 0 /\ any' = FALSE
    /\ UNCHANGED <<mode, channelVars, active, unfinished, next_binding, next_shared,
                   credits, continuing>>

\* The end of a round: once more if some queue is waiting for credit.
DrrRoundEnd ==
    /\ pc = "drr" /\ probe = NumChannels
    /\ pc' = IF any THEN "drr" ELSE "idle"
    /\ probe' = 0 /\ any' = FALSE
    /\ UNCHANGED <<mode, channelVars, active, unfinished, next_binding, next_shared,
                   credits, continuing>>

-----------------------------------------------------------------------------
\* tu_dma_flush_channel for the channels of S (tu_dma_flush_all: all of them):
\* what is queued and in service completes; arbitration state is not touched.
Flush(S) ==
    /\ pc = "idle"
    /\ queue' = [c \in Channels |-> IF c \in S THEN <<>> ELSE queue[c]]
    /\ tailpos' = [c \in Channels |-> IF c \in S THEN 0 ELSE tailpos[c]]
    /\ active' = [c \in Channels |-> IF c \in S THEN None ELSE active[c]]
    /\ queue_depth' = [c \in Channels |->
                          IF c \in S THEN (queue_depth[c] - Len(queue[c])) % DepthModulus
                          ELSE queue_depth[c]]
    /\ unfinished' = [c \in Channels |->
                         IF c \notin S THEN unfinished[c]
                         ELSE unfinished[c] - Len(queue[c])
                              - InService(c)]
    /\ UNCHANGED <<mode, next_binding, next_shared, drrVars, pc>>

Tick == TickIndependent \/ TickShared
Arbitrate == GrantPolicy \/ GrantNothing \/ DrrSkip \/ DrrShort \/ DrrServe \/ DrrRoundEnd

Next ==
    \/ \E requested \in 0 .. NumChannels, chain \in Chains : Submit(requested, chain)
    \/ Tick
    \/ Arbitrate
    \/ \E c \in Channels : Flush({c})
    \/ Flush(Channels)

Spec == Init /\ [][Next]_vars

\* The client keeps calling tu_dma_tick, and a call that began returns.
FairSpec == Spec /\ WF_vars(Tick) /\ WF_vars(Arbitrate)

-----------------------------------------------------------------------------
\* The engine's state keeps its types: counters stay within their width, the
\* tail stays within its queue, cursors name channels.
TypeOK ==
    /\ mode \in Modes
    /\ queue \in [Channels -> Seq(Item)]
    /\ tailpos \in [Channels -> Nat]
    /\ \A c \in Channels : tailpos[c] <= Len(queue[c])
    /\ active \in [Channels -> Transfer \cup {None}]
    /\ queue_depth \in [Channels -> 0 .. DepthModulus - 1]
    /\ unfinished \in [Channels -> Int]
    /\ next_binding \in Channels /\ next_shared \in Channels
    /\ credits \in [Channels -> 0 .. CreditMax]
    /\ continuing \in Channels \cup {None}
    /\ pc \in {"idle", "grant", "drr"}
    /\ probe \in 0 .. NumChannels /\ any \in BOOLEAN

\* While only single descriptors are submitted, the counters count what is
\* there and the tail is the last descriptor of the queue.
CountersExact ==
    \A c \in Channels :
        /\ queue_depth[c] = Len(queue[c])
        /\ tailpos[c] = Len(queue[c])
        /\ unfinished[c] = Len(queue[c]) + InService(c)

\* docs/exploration/dma-channel-queue-sweep.md: "`max_outstanding` now means
\* active plus pending descriptors."
DepthRespected ==
    \A c \in Channels : Len(queue[c]) + InService(c) <= MaxDepth

\* Under least_outstanding a submission is rejected only when every channel is
\* full.
RejectsOnlyWhenFull ==
    mode.binding = "outstanding" =>
      \A c \in Channels, requested \in 0 .. NumChannels :
          BoundTo(c, requested) /\ ~Fits(c) => \A d \in Channels : ~Fits(d)

\* Three ways in which a queue that drifts from what its channel really holds
\* would show: counts and tail that no longer describe it, more outstanding than
\* max_outstanding allows, a rejection while another channel has room.
QueuesSound == CountersExact /\ DepthRespected /\ RejectsOnlyWhenFull

\* A submission never drops a descriptor queued before it, and a tick takes
\* none but the head: docs/dma-descriptor-engine.md says of a submitted chain
\* "Executes all three in order".
QueuedKinds(c) == [k \in DOMAIN queue[c] |-> queue[c][k].kind]
NothingCutOff ==
    [][\A c \in Channels :
          queue[c] # <<>> =>
              \/ queue'[c] = <<>>
              \/ IsPrefix(QueuedKinds(c), QueuedKinds(c)')
              \/ IsPrefix(Tail(QueuedKinds(c)), QueuedKinds(c)')]_vars

\* Shared serial bus: at most one channel has a transfer in service.
OneTransferOnBus == mode.shared => \A c, d \in Busy : c = d

\* The arbitration of a tick never returns with the bus free and work queued.
NeverIdleWithBacklog ==
    [][pc # "idle" /\ pc' = "idle" => Busy' # {} \/ Backlogged' = {}]_vars

\* A grant of round robin, strict or aging priority passes a waiting channel
\* over only for a more urgent head, or for an equal one it finds first from
\* the cursor, which then brings the cursor nearer to the one passed over.
FairOvertaking ==
    [][\A c, d \in Channels :
          /\ pc = "grant" /\ c # d
          /\ c \in Backlogged
          /\ d \notin Busy /\ d \in Busy'
          => \/ Urgency(d) > Urgency(c)
             \/ /\ Urgency(d) = Urgency(c)
                /\ Behind(next_shared', c) < Behind(next_shared, c)]_vars

\* DRR with a work-conserving visit and RESET: a channel never hoards more
\* than what the dearest descriptor lacked, plus one grant.
CreditsBounded ==
    mode.conserving /\ ~mode.retain =>
        \A c \in Channels : \A dearest \in 1 .. CreditMax :
            (\A k \in Kinds : k.cost <= dearest) => credits[c] < dearest + Grant[c]

\* Except under strict priority every queued head is eventually served (or
\* flushed), whatever keeps being submitted to the other channels.
EventuallyServed ==
    \A c \in Channels :
        mode.arbitration # "strict" /\ c \in Backlogged
            ~> c \in Busy \/ c \notin Backlogged

=============================================================================
