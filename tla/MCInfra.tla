-------------------------------- MODULE MCInfra --------------------------------
(* Small instances of the counters, the cycle model and the observers for      *)
(* TLC.  Each behaviour is one of the four, the others at rest.                *)
EXTENDS CycleModel, Observability

MCPj == [mac |-> 3, sramRead |-> 2, sramWrite |-> 5, dram |-> 7, dmaByte |-> 1, leak |-> 1]

\* Every call once, on both counted channels.
MCCalls ==
    {[call |-> "read", bytes |-> 4, active |-> 2, stall |-> 1, ch |-> c, type |-> 3] : c \in {0, 1}}
    \cup {[call |-> "write", bytes |-> 3, active |-> 1, stall |-> 2, ch |-> 1],
          [call |-> "internal", bytes |-> 2, active |-> 1, ch |-> 0],
          [call |-> "mma", macs |-> 8, tiles |-> 2, edge |-> 1, active |-> 4, stall |-> 1,
           type |-> 3, flow |-> 1],
          [call |-> "op", code |-> 6, active |-> 2, stall |-> 3, flops |-> 5],
          [call |-> "idle", cycles |-> 2], [call |-> "bubble", count |-> 1],
          [call |-> "spad", isWrite |-> TRUE, words |-> 2, conflicts |-> 1, stall |-> 1],
          [call |-> "gbuf", isWrite |-> FALSE, words |-> 1, conflicts |-> 1],
          [call |-> "dram", isWrite |-> FALSE, bytes |-> 8, hit |-> FALSE, stall |-> 2],
          [call |-> "regfile", isWrite |-> TRUE, words |-> 3],
          [call |-> "descriptor", bytes |-> 5, ch |-> 1, type |-> 0, isRead |-> TRUE,
           active |-> 1, stall |-> 0, sramStall |-> 1],
          [call |-> "tick", cycles |-> 1]}

MCTiming == [rcd |-> 3, rp |-> 2, cl |-> 2, cwl |-> 1, ccd |-> 1, burst |-> 2, banks |-> 2, row |-> 2]

MCIssues == {<<<<1, 2>>, <<3>>>>, <<<<3, 1>>, <<2>>>>, <<<<2, 4>>, <<4, 3>>>>, <<<<4>>, <<>>>>}
MCTilesRun ==
    {[m |-> 1, n |-> 1, k |-> 2, w |-> 1, a |-> 2, o |-> 1],
     [m |-> 2, n |-> 1, k |-> 1, w |-> 2, a |-> 2, o |-> 4]}
MCTransfersRun ==
    {[ch |-> 0, bytes |-> 3, isRead |-> TRUE, addr |-> 0, bank |-> 1],
     [ch |-> 1, bytes |-> 2, isRead |-> FALSE, addr |-> 4, bank |-> 0],
     [ch |-> 1, bytes |-> 2, isRead |-> TRUE, addr |-> 5, bank |-> 9],
     [ch |-> 0, bytes |-> 5, isRead |-> TRUE, addr |-> 8, bank |-> 1]}

MCCrc == <<{}, {1}, {1, 2}>>

InfraInit(part) ==
    PerfInit /\ CmInit /\ TraceInit /\ DebugInit /\ (part # "cycles" => cmMode = "functional")
infraVars == <<cycleVars, traceVars, debugVars>>
InfraNext(part) ==
    \/ part = "counters" /\ PerfNext /\ UNCHANGED <<cmVars, traceVars, debugVars>>
    \/ part = "cycles" /\ CycleNext /\ UNCHANGED <<traceVars, debugVars>>
    \/ part = "waveform" /\ TraceNext /\ UNCHANGED <<cycleVars, debugVars>>
    \/ part = "debugger" /\ DebugNext /\ UNCHANGED <<cycleVars, traceVars>>

===============================================================================
