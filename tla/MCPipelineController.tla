------------------------ MODULE MCPipelineController ------------------------
(* Small instances of PipelineController for TLC.                          *)
EXTENDS PipelineController

\* A depth below and one above what the controller clamps to.
MCConfigs ==
    {[depth |-> 0, load |-> TRUE, store |-> TRUE],
     [depth |-> 3, load |-> TRUE, store |-> FALSE]}

\* A tile with everything, and one whose data is in place.
MCRequests ==
    {[load |-> "good", store |-> "good", cycles |-> 1],
     [load |-> "none", store |-> "none", cycles |-> 0]}

MCModes == [double : BOOLEAN, async : BOOLEAN] \ {[double |-> TRUE, async |-> FALSE]}

=============================================================================
