-------------------------- MODULE MCContextManager --------------------------
(* Instances of ContextManager for TLC.                                    *)
EXTENDS ContextManager

\* Round robin and priorities under a client that leaves scheduling to the
\* manager, and the scopes that retain SRAM under one that also switches by
\* hand and runs programs that wait for their own transfers.
MCConfigs ==
    [policy : {"rr", "priority"}, scope : {"control"}, client : {"scheduled"},
     dma : {"sync"}]
    \cup [policy : {"rr"}, scope : {"full", "live"}, client : {"manual"},
          dma : {"flushed"}]

=============================================================================
