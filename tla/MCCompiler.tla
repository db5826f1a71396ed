----------------------------- MODULE MCCompiler -----------------------------
(* Small instances of the two compiler passes for TLC.  The passes share   *)
(* nothing: each behaviour is one of either, the other at rest.            *)
EXTENDS InstrScheduler, Liveness

SchedInstr(op, d0, d1, d2, low, high, flags) ==
    [op |-> op, dim0 |-> d0, dim1 |-> d1, dim2 |-> d2, immLow |-> low, immHigh |-> high,
     flags |-> flags]

\* Loads of W and A, a store of O, readers and writers of all three that
\* overlap in part, the full range of a convolution, and a barrier.
MCInstructions ==
    {SchedInstr("DMA_LOAD", 0, 2, 0, 0, 0, 0), SchedInstr("DMA_LOAD", 1, 2, 0, 0, 0, 1),
     SchedInstr("DMA_STORE", 0, 0, 0, 0, 0, 2), SchedInstr("MMA", 1, 1, 1, 0, 0, 0),
     SchedInstr("SOFTMAX", 1, 1, 0, 0, 4, 0),
     SchedInstr("CONV", 0, 0, 0, 0, 0, 0), SchedInstr("BARRIER", 0, 0, 0, 0, 0, 0)}

LiveInstr(op, region, d0, d1, d2, low, high) ==
    [op |-> op, region |-> region, dim0 |-> d0, dim1 |-> d1, dim2 |-> d2,
     immLow |-> low, immHigh |-> high]

\* Registers that fit and that do not fit the rooms below, in all regions.
MCLiveInstrs ==
    {LiveInstr("LOAD", "W", 7, 16, 0, 0, 0), LiveInstr("LOAD", "A", 9, 20, 0, 0, 0),
     LiveInstr("LOAD", "A", 64, 60, 0, 0, 0),
     LiveInstr("STORE", "O", 3, 8, 0, 0, 0), LiveInstr("MMA", "O", 2, 2, 1, 9, 3),
     LiveInstr("RELU", "O", 5, 5, 0, 0, 0), LiveInstr("ATTENTION", "O", 0, 0, 0, 0, 0)}

Config(capacity, margin, step, spilling, victims) ==
    [capacity |-> [r \in Regions |-> capacity], margin |-> margin, step |-> step,
     retries |-> step = 4, spilling |-> spilling, victims |-> victims]

\* Tight rooms, one placed by force, and one whose margin wraps.
MCLiveConfigs ==
    {Config(48, 8, 16, TRUE, "LRU"), Config(32, 8, 4, TRUE, "LARGEST"),
     Config(24, 0, 16, FALSE, "FIFO"), Config(16, 32, 16, TRUE, "FIFO"),
     Config(24, 0, 16, TRUE, "LEAST_ACCESSED")}

CompilerInit(part) ==
    /\ part # "allocate" => /\ liveCode = <<LiveInstr("RELU", "O", 5, 5, 0, 0, 0)>>
                            /\ liveConfig = Config(24, 0, 16, FALSE, "FIFO")
    /\ part # "schedule" => program = <<SchedInstr("CONV", 0, 0, 0, 0, 0, 0)>> /\ policy = "ASAP"
    /\ LiveInit /\ SchedInit
compilerVars == <<schedVars, liveVars>>
CompilerNext(part) ==
    \/ part = "schedule" /\ SchedNext /\ UNCHANGED liveVars
    \/ part = "allocate" /\ LiveNext /\ UNCHANGED schedVars

=============================================================================
