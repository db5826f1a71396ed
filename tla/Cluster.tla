------------------------------- MODULE Cluster -------------------------------
(***************************************************************************)
(* Cores and clusters (tu_core.c, tu_cluster.c): who owns the memory of a  *)
(* core when states are moved in and out of the global g_tu, the topology, *)
(* its routes and latency estimates, and the transfers between the output  *)
(* regions of the cores.                                                   *)
(*                                                                         *)
(* A region is a short sequence of values; an allocation stands for all    *)
(* the memory of one tu_state_t.                                           *)
(***************************************************************************)
EXTENDS Integers, Sequences, FiniteSets, SequencesExt, FiniteSetsExt

CONSTANTS
    Nets,           \* networks a cluster is created with
    CreatedSize,    \* size of an output region from the cluster's configuration,
    DefaultSize,    \* and from the default one, which tu_core_init uses
    Values,         \* values a program stores
    Windows,        \* <<source offset, destination offset, size>> of transfers
    TrafficSizes,   \* sizes of messages of an estimate
    MaxAllocs,      \* bounds: allocations
    MaxNetCalls     \* and calls

\* What tu_cluster_create and the loader accept: a mesh has rows.
Networks ==
    {n \in [count : Nat \ {0}, topology : {"ring", "mesh", "none"}, rows : Nat,
            routing : {"xy", "yx"}, switching : {"legacy", "cut", "store"},
            shared : BOOLEAN, hop : Nat, link : Nat] :
        n.topology = "mesh" => n.rows > 0}

ASSUME ClusterAssumption ==
    /\ Nets \subseteq Networks /\ MaxAllocs \in Nat
    /\ CreatedSize \in Nat \ {0} /\ DefaultSize \in Nat \ {0}
    /\ Windows \subseteq Nat \X Nat \X (Nat \ {0}) /\ TrafficSizes \subseteq Nat \ {0}

VARIABLES
    net,       \* the cluster's network, or NoNet
    cores,     \* its cores, in order of creation
    legacy,    \* the allocation g_tu holds, 0 for none
    live,      \* allocations not freed
    traffic,   \* statistics: messages, size and cycles sent, barriers, cycles lost
    netLast,   \* the last call and what it returned
    allocs, netCalls

clusterVars == <<net, cores, legacy, live, traffic, netLast, allocs, netCalls>>

NoNet == [count |-> 0, topology |-> "none", rows |-> 0, routing |-> "xy",
          switching |-> "cut", shared |-> FALSE, hop |-> 1, link |-> 1]
CoreIds(n) == 0 .. n.count - 1
Unreachable == -1
NoTraffic == [messages |-> 0, bytes |-> 0, cycles |-> 0, barriers |-> 0, dropped |-> 0]
Said(op, rc) == [op |-> op, rc |-> rc, src |-> 0, window |-> <<0, 0, 0>>]

-----------------------------------------------------------------------------
(* Topology. *)

Cols(n) == (n.count + n.rows - 1) \div n.rows
Row(n, c) == c \div Cols(n)
Col(n, c) == c % Cols(n)
Apart(a, b) == IF a > b THEN a - b ELSE b - a

\* tu_cluster_hop_distance
HopDistance(n, src, dst) ==
    IF src = dst THEN 0
    ELSE CASE n.topology = "ring" ->
                Min({(dst + n.count - src) % n.count, (src + n.count - dst) % n.count})
           [] n.topology = "mesh" ->
                IF Row(n, src) >= n.rows \/ Row(n, dst) >= n.rows THEN Unreachable
                ELSE Apart(Row(n, src), Row(n, dst)) + Apart(Col(n, src), Col(n, dst))
           [] OTHER -> Unreachable

\* tu_cluster_neighbors
Neighbors(n, c) ==
    CASE n.topology = "ring" ->
            {(c + n.count - 1) % n.count, (c + 1) % n.count} \ {c}
      [] n.topology = "mesh" ->
            (IF Row(n, c) > 0 THEN {c - Cols(n)} ELSE {})
            \cup (IF Row(n, c) + 1 < n.rows /\ c + Cols(n) < n.count THEN {c + Cols(n)} ELSE {})
            \cup (IF Col(n, c) > 0 THEN {c - 1} ELSE {})
            \cup (IF Col(n, c) + 1 < Cols(n) /\ c + 1 < n.count /\ Row(n, c + 1) = Row(n, c)
                  THEN {c + 1} ELSE {})
      [] OTHER -> {}

\* tu_cluster_estimate_transfer_cycles
Serialized(n, size) == (size + n.link - 1) \div n.link

TransferCycles(n, src, dst, size) ==
    LET hops == HopDistance(n, src, dst)
    IN  IF hops = Unreachable THEN Unreachable
        ELSE IF hops = 0 \/ size = 0 THEN 0
        ELSE IF n.switching = "legacy" THEN hops * n.hop
        ELSE IF n.link = 0 THEN Unreachable
        ELSE IF n.switching = "cut" THEN hops * n.hop + Serialized(n, size)
        ELSE hops * (n.hop + Serialized(n, size))

\* add_route_service: the cores on the way, the source first; NoRoute when a
\* step would leave the cores of an incomplete mesh.
NoRoute == <<>>

RingRoute(n, src, dst) ==
    LET forward == (dst + n.count - src) % n.count
        backward == (src + n.count - dst) % n.count
    IN  IF forward <= backward THEN [k \in 1 .. forward + 1 |-> (src + k - 1) % n.count]
        ELSE [k \in 1 .. backward + 1 |-> (src + n.count - (k - 1)) % n.count]

Line(from, to, step) ==
    LET sign == IF from <= to THEN 1 ELSE -1
    IN  [k \in 1 .. Apart(from, to) \div step + 1 |-> from + sign * step * (k - 1)]

MeshRoute(n, src, dst) ==
    LET corner == IF n.routing = "xy" THEN Row(n, src) * Cols(n) + Col(n, dst)
                  ELSE Row(n, dst) * Cols(n) + Col(n, src)
        route == IF n.routing = "xy" THEN Line(src, corner, 1) \o Tail(Line(corner, dst, Cols(n)))
                 ELSE Line(src, corner, Cols(n)) \o Tail(Line(corner, dst, 1))
    IN  IF \A k \in 2 .. Len(route) : route[k] < n.count THEN route ELSE NoRoute

Route(n, src, dst) ==
    CASE n.topology = "ring" -> RingRoute(n, src, dst)
      [] n.topology = "mesh" -> MeshRoute(n, src, dst)
      [] OTHER -> IF src = dst THEN <<src>> ELSE NoRoute

\* tu_cluster_estimate_traffic_cycles of a sequence of <<source, target, size>>
Service(n, m) == IF n.switching = "legacy" \/ m[3] = 0 THEN 0 ELSE Serialized(n, m[3])
LinksOf(n, m) ==
    LET r == Route(n, m[1], m[2]) IN {<<r[k], r[k + 1]>> : k \in 1 .. Len(r) - 1}

Bottleneck(n, messages) ==
    LET links == [i \in DOMAIN messages |-> LinksOf(n, messages[i])]
        load(l) == SumFunction([i \in DOMAIN messages |->
                        IF l \in links[i] THEN Service(n, messages[i]) ELSE 0])
    IN  Max({load(l) : l \in UNION Range(links)} \cup {0})

Isolated(n, messages) ==
    Max({TransferCycles(n, messages[i][1], messages[i][2], messages[i][3]) : i \in DOMAIN messages})

Estimable(n, messages) ==
    \A i \in DOMAIN messages :
        /\ TransferCycles(n, messages[i][1], messages[i][2], messages[i][3]) # Unreachable
        /\ Route(n, messages[i][1], messages[i][2]) # NoRoute

TrafficCycles(n, messages) ==
    LET route == Max({HopDistance(n, messages[i][1], messages[i][2]) * n.hop :
                        i \in DOMAIN messages})
    IN  IF n.shared THEN Max({Isolated(n, messages), Bottleneck(n, messages) + route})
        ELSE Isolated(n, messages)

-----------------------------------------------------------------------------
(* Cores: a state is initialized in g_tu, which frees what g_tu held, and   *)
(* moved into the core.                                                     *)

CoreAt(i) == cores[i + 1]
Fresh == allocs + 1

FreshCore(size) == [mem |-> Fresh, cells |-> [a \in 1 .. size |-> 0], cycles |-> 0]
Complete == net # NoNet /\ Len(cores) = net.count

Call(op, rc) ==
    netCalls < MaxNetCalls /\ netCalls' = netCalls + 1 /\ netLast' = Said(op, rc)

ClusterInit ==
    /\ net = NoNet /\ cores = <<>> /\ legacy = 0 /\ live = {}
    /\ traffic = NoTraffic /\ netLast = Said("none", 0) /\ allocs = 0 /\ netCalls = 0

\* tu_init and tu_shutdown of the program that drives no core.
LegacyInit ==
    /\ allocs < MaxAllocs /\ allocs' = Fresh
    /\ legacy' = Fresh /\ live' = (live \ {legacy}) \cup {Fresh}
    /\ UNCHANGED <<net, cores, traffic, netLast, netCalls>>

LegacyShutdown ==
    /\ legacy # 0
    /\ legacy' = 0 /\ live' = live \ {legacy}
    /\ UNCHANGED <<net, cores, traffic, netLast, allocs, netCalls>>

\* tu_cluster_create, its arguments being valid: then a core at a time.
CreateCluster(n) ==
    /\ net = NoNet
    /\ net' = n /\ cores' = <<>> /\ traffic' = NoTraffic
    /\ Call("create", 0)
    /\ UNCHANGED <<legacy, live, allocs>>

\* Variant: g_tu keeps what it has just handed to the core.
CreateCoreKept ==
    /\ net # NoNet /\ Len(cores) < net.count
    /\ allocs < MaxAllocs /\ allocs' = Fresh
    /\ live' = (live \ {legacy}) \cup {Fresh} /\ legacy' = Fresh
    /\ cores' = Append(cores, FreshCore(CreatedSize))
    /\ UNCHANGED <<net, traffic, netLast, netCalls>>

\* tu_core_create_with_id
CreateCore ==
    /\ net # NoNet /\ Len(cores) < net.count
    /\ allocs < MaxAllocs /\ allocs' = Fresh
    /\ live' = (live \ {legacy}) \cup {Fresh} /\ legacy' = 0
    /\ cores' = Append(cores, FreshCore(CreatedSize))
    /\ UNCHANGED <<net, traffic, netLast, netCalls>>

\* A core that cannot be allocated: the ones before it are destroyed.
CreateFails ==
    /\ net # NoNet /\ Len(cores) < net.count
    /\ live' = live \ {CoreAt(i).mem : i \in 0 .. Len(cores) - 1}
    /\ net' = NoNet /\ cores' = <<>>
    /\ UNCHANGED <<legacy, traffic, netLast, allocs, netCalls>>

DestroyCluster ==
    /\ Complete
    /\ live' = live \ {CoreAt(i).mem : i \in 0 .. Len(cores) - 1}
    /\ net' = NoNet /\ cores' = <<>>
    /\ UNCHANGED <<legacy, traffic, netLast, allocs, netCalls>>

\* tu_core_init of a core: its region gets the default size, and g_tu is lost.
ReinitCore(c) ==
    /\ Complete /\ allocs < MaxAllocs /\ allocs' = Fresh
    /\ live' = (live \ {CoreAt(c).mem, legacy}) \cup {Fresh} /\ legacy' = 0
    /\ cores' = [cores EXCEPT ![c + 1] = FreshCore(DefaultSize)]
    /\ traffic' = [traffic EXCEPT !.dropped = @ + CoreAt(c).cycles]
    /\ UNCHANGED <<net, netLast, netCalls>>

-----------------------------------------------------------------------------
(* Programs and transfers. *)

Fits(cells, offset, size) == offset + size <= Len(cells)
Read(cells, offset, size) == SubSeq(cells, offset + 1, offset + size)

\* tu_sram_write_bulk: nothing is written when not all of it fits.
Written(cells, offset, data) ==
    IF ~Fits(cells, offset, Len(data)) THEN cells
    ELSE [a \in DOMAIN cells |->
            IF a \in offset + 1 .. offset + Len(data) THEN data[a - offset] ELSE cells[a]]

\* A program run by a core, or by all (tu_cluster_spmd_execute), that stores v;
\* one that is refused runs on the others all the same.
Execute(c, a, v) ==
    /\ Complete /\ Call("execute", 0)
    /\ cores' = [cores EXCEPT ![c + 1].cells = Written(@, a, <<v>>)]
    /\ UNCHANGED <<net, legacy, live, traffic, allocs>>

SpmdExecute(refused, a, v) ==
    /\ Complete /\ Call("spmd", IF refused = {} THEN 0 ELSE -1)
    /\ cores' = [i \in DOMAIN cores |->
                    IF i - 1 \in refused THEN cores[i]
                    ELSE [cores[i] EXCEPT !.cells = Written(@, a, <<v>>)]]
    /\ UNCHANGED <<net, legacy, live, traffic, allocs>>

\* Variant: only the source is validated.
SendableFrom(src, dst, w) ==
    /\ Fits(CoreAt(src).cells, w[1], w[3])
    /\ TransferCycles(net, src, dst, w[3]) # Unreachable

Sendable(src, dst, w) ==
    /\ Fits(CoreAt(src).cells, w[1], w[3]) /\ Fits(CoreAt(dst).cells, w[2], w[3])
    /\ TransferCycles(net, src, dst, w[3]) # Unreachable

Received(core, src, dst, w) ==
    [core EXCEPT !.cells = Written(@, w[2], Read(CoreAt(src).cells, w[1], w[3])),
                 !.cycles = @ + TransferCycles(net, src, dst, w[3])]

Sent(src, dsts, w) ==
    /\ cores' = [i \in DOMAIN cores |->
                    IF i - 1 \in dsts THEN Received(cores[i], src, i - 1, w) ELSE cores[i]]
    /\ traffic' = [traffic EXCEPT
                    !.messages = @ + Cardinality(dsts),
                    !.bytes = @ + Cardinality(dsts) * w[3],
                    !.cycles = @ + SumFunction([d \in dsts |-> TransferCycles(net, src, d, w[3])])]
    /\ UNCHANGED <<net, legacy, live, allocs>>

\* tu_cluster_send; a core may send to itself.
Send(src, dst, w) ==
    /\ Complete
    /\ Call("send", IF Sendable(src, dst, w) THEN 0 ELSE -1)
    /\ Sent(src, IF Sendable(src, dst, w) THEN {dst} ELSE {}, w)

\* tu_cluster_broadcast: to one core after the other, up to the first that
\* refuses; the ones before it keep what they received.
Others(src) == CoreIds(net) \ {src}
Reached(src, w) ==
    {d \in Others(src) : \A e \in Others(src) : e <= d => Sendable(src, e, w)}

Broadcast(src, w) ==
    /\ Complete
    /\ netCalls < MaxNetCalls /\ netCalls' = netCalls + 1
    /\ netLast' = [op |-> "broadcast", src |-> src, window |-> w,
                   rc |-> IF Reached(src, w) = Others(src) THEN 0 ELSE -1]
    /\ Sent(src, Reached(src, w), w)

\* tu_cluster_allreduce_sum_f32: a region too small leaves its part of the sum
\* as it was allocated, zero for core 0 and anything for another.
Summands(c, w) ==
    IF Fits(CoreAt(c).cells, w[1], w[3]) THEN {Read(CoreAt(c).cells, w[1], w[3])}
    ELSE IF c = 0 THEN {[k \in 1 .. w[3] |-> 0]} ELSE [1 .. w[3] -> Values]

SumOf(parts, w) ==
    [k \in 1 .. w[3] |-> SumFunction([c \in CoreIds(net) |-> parts[c][k]])]

Parts(w) ==
    {p \in [CoreIds(net) -> UNION {Summands(c, w) : c \in CoreIds(net)}] :
        \A c \in CoreIds(net) : p[c] \in Summands(c, w)}

AllReduce(w) ==
    /\ Complete
    /\ netCalls < MaxNetCalls /\ netCalls' = netCalls + 1
    /\ netLast' = [op |-> "allreduce", src |-> 0, window |-> w, rc |-> 0]
    /\ \E p \in Parts(w) :
          cores' = [i \in DOMAIN cores |->
                        [cores[i] EXCEPT !.cells = Written(@, w[2], SumOf(p, w))]]
    /\ traffic' = [traffic EXCEPT !.messages = @ + net.count - 1,
                                  !.bytes = @ + w[3] * (net.count - 1)]
    /\ UNCHANGED <<net, legacy, live, allocs>>

\* tu_cluster_barrier
Barrier ==
    /\ Complete /\ Call("barrier", 0)
    /\ cores' = [i \in DOMAIN cores |-> [cores[i] EXCEPT !.cycles = @ + 2 * net.hop]]
    /\ traffic' = [traffic EXCEPT !.barriers = @ + 1]
    /\ UNCHANGED <<net, legacy, live, allocs>>

ClusterNext ==
    \/ LegacyInit \/ LegacyShutdown \/ CreateCore \/ CreateFails \/ DestroyCluster \/ Barrier
    \/ \E n \in Nets : CreateCluster(n)
    \/ \E c \in CoreIds(net) :
          \/ ReinitCore(c)
          \/ \E a \in 0 .. CreatedSize - 1, v \in Values : Execute(c, a, v)
    \/ \E refused \in SUBSET CoreIds(net), a \in {0}, v \in Values : SpmdExecute(refused, a, v)
    \/ \E src, dst \in CoreIds(net), w \in Windows : Send(src, dst, w)
    \/ \E src \in CoreIds(net), w \in Windows : Broadcast(src, w)
    \/ \E w \in Windows : AllReduce(w)

ClusterSpec == ClusterInit /\ [][ClusterNext]_clusterVars

-----------------------------------------------------------------------------
\* The cores, their memory and their cycles keep their types.
ClusterTypeOK ==
    /\ net \in Nets \cup {NoNet} /\ Len(cores) <= net.count
    /\ \A i \in DOMAIN cores : /\ cores[i].mem \in 1 .. MaxAllocs /\ cores[i].cycles \in Nat
                               /\ Len(cores[i].cells) \in {CreatedSize, DefaultSize}
    /\ legacy \in 0 .. MaxAllocs /\ live \subseteq 1 .. MaxAllocs

\* Creating, re-initializing and destroying cores and the global state, in any
\* order: no two share memory, none holds freed memory, and none is lost.
MemoryOwnedOnce ==
    LET held == {CoreAt(i).mem : i \in 0 .. Len(cores) - 1} \cup ({legacy} \ {0})
    IN  /\ live = held
        /\ Cardinality(held) = Len(cores) + (IF legacy = 0 THEN 0 ELSE 1)

\* The cores within k links of a core.
WithinOf(n, c) ==
    LET W[k \in Nat] == IF k = 0 THEN {c}
                        ELSE LET near == W[k - 1]
                             IN  near \cup UNION {Neighbors(n, d) : d \in near}
    IN  W

JustCreated == net # NoNet /\ netLast.op = "create" /\ cores = <<>> /\ allocs = 0

\* The hop distance is the length of a shortest path along the neighbours
\* (tu_cluster.h: "the minimum hop distance"), complete mesh or not.
HopsAreShortest ==
    JustCreated =>
        \A s, d \in CoreIds(net) :
            HopDistance(net, s, d) =
                (IF d \in WithinOf(net, s)[net.count]
                 THEN Min({k \in 0 .. net.count : d \in WithinOf(net, s)[k]})
                 ELSE Unreachable)

\* The route of an estimate goes from neighbour to neighbour in as many hops as
\* the distance, and there is one in every ring and full mesh.
RoutesFollowLinks ==
    JustCreated =>
        \A s, d \in CoreIds(net) :
            LET r == Route(net, s, d)
            IN  IF r = NoRoute
                THEN net.topology = "none" \/ net.count # net.rows * Cols(net)
                ELSE /\ r[1] = s /\ r[Len(r)] = d /\ Len(r) = HopDistance(net, s, d) + 1
                     /\ \A k \in 1 .. Len(r) - 1 : r[k + 1] \in Neighbors(net, r[k])

\* Messages injected together take at least as long as the slowest alone and at
\* most as long as one after the other.
TrafficBounded ==
    JustCreated =>
        LET Messages == CoreIds(net) \X CoreIds(net) \X TrafficSizes
        IN  \A a, b \in Messages :
              Estimable(net, <<a, b>>) =>
                /\ TrafficCycles(net, <<a, b>>) >= Isolated(net, <<a, b>>)
                /\ TrafficCycles(net, <<a, b>>)
                     <= Isolated(net, <<a>>) + Isolated(net, <<b>>)

\* A broadcast that reports success reached every other core with the data the
\* source held; one that fails reached the cores before the one that failed.
BroadcastDelivers ==
    netLast'.op = "broadcast" /\ netCalls' # netCalls =>
       LET w == netLast'.window
           data == Read(CoreAt(netLast'.src).cells, w[1], w[3])
           got == {d \in Others(netLast'.src) :
                      /\ Fits(CoreAt(d).cells, w[2], w[3])
                      /\ Read(cores'[d + 1].cells, w[2], w[3]) = data}
       IN  netLast'.rc = 0 => got = Others(netLast'.src)

\* Where every region holds both windows, an all-reduce leaves the sum of what
\* every core held before, in every core.
AllReduceSums ==
    netLast'.op = "allreduce" /\ netCalls' # netCalls =>
       LET w == netLast'.window
           before == [c \in CoreIds(net) |-> Read(CoreAt(c).cells, w[1], w[3])]
       IN  (\A c \in CoreIds(net) : /\ Fits(CoreAt(c).cells, w[1], w[3])
                                    /\ Fits(CoreAt(c).cells, w[2], w[3]))
           => \A c \in CoreIds(net) : \A k \in 1 .. w[3] :
                  cores'[c + 1].cells[w[2] + k] =
                      SumFunction([e \in CoreIds(net) |-> before[e][k]])

\* The cycles charged to the cores are the cycles of the transfers and, on
\* every core, the barriers: nothing else counts, and nothing twice.
CyclesAccounted ==
    Complete =>
        SumFunction([i \in DOMAIN cores |-> cores[i].cycles]) + traffic.dropped
            = traffic.cycles + 2 * net.hop * traffic.barriers * net.count

\* Memory, routes and cycles of a cluster: who owns what, how far it is, and
\* that each cycle spent is charged once.
ClusterSound ==
    /\ ClusterTypeOK
    /\ MemoryOwnedOnce
    /\ HopsAreShortest /\ RoutesFollowLinks
    /\ TrafficBounded
    /\ CyclesAccounted

\* A collective that reports success has reached everybody with the right data.
CollectivesDeliver == [][BroadcastDelivers /\ AllReduceSums]_clusterVars

=============================================================================
