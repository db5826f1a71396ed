--------------------------- MODULE MCCommandQueue ---------------------------
(* Instances of CommandQueue for TLC.                                      *)
EXTENDS CommandQueue

\* Dependencies on earlier commands, on the command itself (3 for the third
\* submission) and on commands not yet submitted.
MCDepSets == {{}, {1}, {3}, {1, 2}}

=============================================================================
