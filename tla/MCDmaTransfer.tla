----------------------------- MODULE MCDmaTransfer -----------------------------
(* A small instance of the DMA engine's configuration and of its transfers for *)
(* TLC.  A behaviour either configures and sets, or initializes once and        *)
(* transfers.                                                                  *)
EXTENDS DmaTransfer

VARIABLE part

MCLimits ==
    [channels |-> <<1, 2>>, bus |-> <<1, 4>>, burst |-> <<2, 4>>, boost |-> <<1, 2>>,
     quantum |-> <<2, 256>>, cycles |-> <<1, 64>>, issue |-> <<0, 2>>]
MCDefaults == [channels |-> 2, depth |-> 2, bus |-> 2, burst |-> 4, issue |-> 1, read |-> 3, write |-> 5]
MCRegionSize == [r |-> 8, s |-> 5]
MCMeter == [width |-> 2, banks |-> 2, words |-> 1, window |-> 4, penalty |-> 2]

MCShort ==
    {[async |-> FALSE, num_channels |-> n, max_queue_depth |-> 0, bus_mode |-> "shared",
      arb_policy |-> "rr", binding_policy |-> "explicit", bus_width |-> bus,
      read_latency |-> 1, write_latency |-> 2] : n \in {0, 1, 3}, bus \in {0, 1, 3}}

Plain ==
    [async |-> TRUE, num_channels |-> 1, max_queue_depth |-> 1, bus_mode |-> "shared",
     arb_policy |-> "drr", aging_scope |-> "head", aging_metric |-> "cycles", aging_increment |-> 0,
     aging_max_boost |-> 0, aging_cycle_quantum |-> 0, drr_quantum_bytes |-> 2, drr_cost_mode |-> "occupied",
     drr_quantum_cycles |-> 3, binding_policy |-> "rr", bus_width |-> 2, read_latency |-> 2,
     write_latency |-> 1, max_burst |-> 4, read_burst |-> 2, write_burst |-> 4, burst_issue |-> 1,
     read_issue |-> 2, write_issue |-> Unset, segmentation |-> "logical", base_scope |-> "segment",
     payload_scope |-> "segment", issue_payload_mode |-> "overlapped", boundary_mode |-> "size"]

\* Every scope and boundary, and each check failing once.
MCFull ==
    {[Plain EXCEPT !.segmentation = s, !.payload_scope = p, !.boundary_mode = b, !.issue_payload_mode = o,
                   !.drr_cost_mode = IF o = "serialized" THEN "service" ELSE "occupied"] :
        s \in {"aggregate", "logical"}, p \in {"packed", "segment", "burst"},
        o \in {"serialized", "overlapped"},
        b \in {"size", "sram", "sram4k", "ext4k", "both4k", "ext", "both"}}
    \cup {[Plain EXCEPT !.bus_mode = "tree"], [Plain EXCEPT !.aging_increment = 3],
          [Plain EXCEPT !.drr_quantum_bytes = 3], [Plain EXCEPT !.binding_policy = "?"],
          [Plain EXCEPT !.segmentation = "?"], [Plain EXCEPT !.bus_width = 8],
          [Plain EXCEPT !.read_burst = 3], [Plain EXCEPT !.read_burst = 1],
          [Plain EXCEPT !.write_issue = 3], [Plain EXCEPT !.num_channels = 3],
          [Plain EXCEPT !.aging_cycle_quantum = 65, !.bus_mode = "independent"]}

MCWeights == {<<0, 0>>, <<1, 2>>, <<0, 1>>, <<1>>}

Order ==
    [make |-> "linear", dir |-> "in", ch |-> 0, region |-> "r", base |-> 0, dims |-> <<1, 1, 1>>,
     elem |-> 1, sramStride |-> <<0, 0>>, hostStride |-> <<0, 0>>, index |-> <<>>, targets |-> <<>>,
     host |-> TRUE, ext |-> 3]

Linears ==
    {[Order EXCEPT !.dir = d, !.base = b, !.dims = <<n, 1, 1>>, !.elem = e, !.region = r] :
        d \in {"in", "out"}, b \in {0, 3, 4}, n \in {0, 2, 3, 5}, e \in {1, 2, 4}, r \in {"r", "s"}}
Planes ==
    {[Order EXCEPT !.make = "2d", !.dir = d, !.base = b, !.dims = <<y, x, 1>>, !.sramStride = <<s, 0>>,
                   !.hostStride = <<h, 0>>, !.elem = e] :
        d \in {"in", "out"}, b \in {0, 1}, y \in {0, 2, 3}, x \in {1, 2, 9}, s \in {1, 3}, h \in {0, 2}, e \in {1, 2}}
Cubes ==
    {[Order EXCEPT !.make = "3d", !.dir = d, !.base = b, !.dims = <<z, 2, x>>, !.sramStride = s,
                   !.hostStride = h] :
        d \in {"in", "out"}, b \in {0, 2}, z \in {1, 2}, x \in {1, 2}, s \in {<<2, 3>>, <<1, 4>>, <<3, 1>>},
        h \in {<<2, 4>>, <<4, 1>>}}
Indexed ==
    {[Order EXCEPT !.make = m, !.dir = IF m = "scatter" THEN "in" ELSE "out", !.index = i, !.elem = e] :
        m \in {"scatter", "gather"}, i \in {<<>>, <<3, 0>>, <<6, 2, 6>>, <<1, 2>>, <<7>>}, e \in {1, 2}}
Multicasts ==
    {[Order EXCEPT !.make = "multicast", !.dims = <<n, 1, 1>>, !.targets = t, !.elem = 2] :
        n \in {0, 1, 2}, t \in {<<<<"r", 1>>, <<"s", 0>>>>, <<<<"s", 2>>>>, <<<<"r", 0>>, <<"none", 0>>>>,
                                 <<<<"r", 5>>, <<"r", 6>>>>}}
Odd == {[Order EXCEPT !.host = FALSE], [Order EXCEPT !.dir = "internal"], [Order EXCEPT !.region = "none"],
        [Order EXCEPT !.ch = 3, !.dims = <<3, 1, 1>>]}

MCOrders == Linears \cup Planes \cup Cubes \cup Indexed \cup Multicasts \cup Odd
MCRepeated ==
    {[Order EXCEPT !.make = "3d", !.dir = "out", !.dims = <<2, 2, 1>>, !.sramStride = <<2, 4>>, !.hostStride = <<1, 3>>],
     [Order EXCEPT !.ch = 1, !.base = 1, !.dims = <<5, 1, 1>>], [Order EXCEPT !.ch = 3],
     [Order EXCEPT !.make = "gather", !.dir = "out", !.index = <<3, 0>>, !.elem = 2]}

\* Orders made of every engine; all of them are made of a few.
MCSampled ==
    {[Order EXCEPT !.dir = d, !.base = 3, !.dims = <<5, 1, 1>>] : d \in {"in", "out"}}
    \cup {[Order EXCEPT !.make = "2d", !.dims = <<2, 3, 1>>, !.sramStride = <<4, 0>>, !.hostStride = <<3, 0>>,
                         !.dir = d] : d \in {"in", "out"}}
    \cup {[Order EXCEPT !.make = "3d", !.dims = <<2, 2, 2>>, !.sramStride = <<2, 3>>, !.hostStride = <<2, 5>>],
          [Order EXCEPT !.make = "scatter", !.index = <<3, 6, 1>>, !.elem = 2],
          [Order EXCEPT !.make = "multicast", !.dims = <<3, 1, 1>>, !.targets = <<<<"r", 1>>, <<"s", 2>>>>]}
    \cup MCRepeated

\* The engines whose configuration goes on; the others end with their first call.
MCSettled == {Zeroed, Configured(Plain), InitDefault(FALSE)}

MCInit == part \in {"configure", "transfer"} /\ TransferInit

MCNext ==
    \/ part = "configure" /\ (configCalls > 0 => engine \in MCSettled)
       /\ ConfigNext /\ UNCHANGED transferVars
    \/ part = "transfer" /\ configCalls = 0 /\ Reinitialize
    \/ part = "transfer" /\ configCalls = 1
       /\ Transfers(IF engine \in {Configured(Plain), InitDefault(FALSE)} THEN Orders ELSE MCSampled)

MCSpec == MCInit /\ [][MCNext /\ UNCHANGED part]_<<part, configVars, transferVars>>

===============================================================================
