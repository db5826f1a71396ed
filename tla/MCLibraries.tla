------------------------------ MODULE MCLibraries ------------------------------
(* The parts of the simulator that share no state with any other, as one        *)
(* specification for TLC: a behaviour is one of them, the others at rest.       *)
EXTENDS MCData, MCInfra, MCCompiler

VARIABLE part

Parts == {"addresses", "weights", "sparsity", "counters", "cycles", "waveform", "debugger",
          "schedule", "allocate"}

MCInit == part \in Parts /\ DataInit /\ InfraInit(part) /\ CompilerInit(part)

MCNext ==
    \/ DataNext(part) /\ UNCHANGED <<infraVars, compilerVars>>
    \/ InfraNext(part) /\ UNCHANGED <<dataVars, compilerVars>>
    \/ CompilerNext(part) /\ UNCHANGED <<dataVars, infraVars>>

MCSpec == MCInit /\ [][MCNext /\ UNCHANGED part]_<<part, dataVars, infraVars, compilerVars>>

===============================================================================
