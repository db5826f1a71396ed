------------------------------ MODULE MCMemory ------------------------------
(* Small instances of the memories and of the cores for TLC: an on-chip    *)
(* region, a DRAM, the hierarchy over it, and a cluster.  Each behaviour   *)
(* is one of the four, the others at rest.                                 *)
EXTENDS SramRegion, MemoryHierarchy, Cluster

VARIABLE part

\* One word, two words in two banks, an access past the end.
MCAccesses == {<<0, 2>>, <<1, 2>>, <<3, 1>>}

MCLatencies == {<<"core", 1, 1>>, <<"ns", 1, 0>>}
MCRowSettings == {<<"open", "core", 0>>, <<"adaptive", "ns", 1>>, <<"closed", "core", 0>>}
MCTurnarounds == {<<"fixed", "core", 1, 2>>, <<"idle", "ns", 2, 1>>, <<"span", "core", 1, 1>>}
MCRefreshes == {<<"all", "fixed", 1, 3, 1, 1, 0>>, <<"per", "deferred", 1, 4, 2, 1, 3>>}
MCRowPenalties == {<<1, 2>>}
MCTransfers == {<<0, 1>>, <<16, 2>>}

\* All-bank refresh with idle credit; per-bank deferred refresh with an
\* adaptive timeout; refresh faster than its deferral allows.
MCBoards ==
    {<<2, <<"core", 1, 1>>, <<"open", "core", 0>>, <<1, 2>>, "burst",
       <<"idle", "ns", 2, 1>>, <<"all", "fixed", 1, 3, 1, 1, 0>>>>,
     <<3, <<"ns", 1, 0>>, <<"adaptive", "ns", 1>>, <<1, 2>>, "xor",
       <<"span", "core", 1, 1>>, <<"per", "deferred", 1, 4, 2, 1, 3>>>>,
     <<2, <<"core", 1, 1>>, <<"open", "core", 0>>, <<1, 2>>, "row",
       <<"fixed", "core", 1, 2>>, <<"per", "deferred", 4, 8, 2, 1, 1>>>>}

\* A word and a half, an access that ends past the region, an empty one.
MCHierAccesses == {<<0, 3>>, <<3, 2>>, <<1, 0>>}

Network(count, topology, height, routing, switching, shared) ==
    [count |-> count, topology |-> topology, rows |-> height, routing |-> routing,
     switching |-> switching, shared |-> shared, hop |-> 1, link |-> 2]

\* Three small networks whose cores run; the larger ones are never complete,
\* and only their routes and estimates are of interest.
MCNets ==
    {Network(3, "ring", 0, "xy", "cut", TRUE), Network(2, "none", 0, "xy", "cut", FALSE),
     Network(3, "mesh", 2, "yx", "legacy", FALSE), Network(5, "ring", 0, "xy", "store", TRUE),
     Network(6, "mesh", 2, "yx", "cut", TRUE), Network(7, "mesh", 3, "xy", "store", TRUE)}
MCWindows == {<<0, 1, 1>>, <<0, 0, 2>>}

hierRest == spad = DB!SingleBuffered(Blank) /\ hierCycle = 0 /\ hits = 0 /\ moved = Unmoved
dramRest == DramInit /\ setting = Created("dram")

MCInit ==
    \/ part = "sram" /\ SramInit /\ dramRest /\ hierRest /\ ClusterInit
    \/ part = "dram" /\ SramInit /\ DramInit /\ hierRest /\ ClusterInit
    \/ part = "hierarchy" /\ SramInit /\ HierInit /\ dramRest /\ ClusterInit
    \/ part = "cluster" /\ SramInit /\ dramRest /\ hierRest /\ ClusterInit

MCNext ==
    \/ part = "sram" /\ SramNext /\ UNCHANGED <<dramVars, hierVars, clusterVars>>
    \/ part = "dram" /\ DramNext /\ UNCHANGED <<sramVars, hierVars, clusterVars>>
    \/ part = "hierarchy" /\ HierNext /\ UNCHANGED <<sramVars, clusterVars>>
    \/ part = "cluster" /\ ClusterNext /\ UNCHANGED <<sramVars, dramVars, hierVars>>

MCSpec ==
    MCInit /\ [][MCNext /\ UNCHANGED part]_<<part, sramVars, dramVars, hierVars, clusterVars>>

=============================================================================
