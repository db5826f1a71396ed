---------------------------- MODULE MCDmaEngine ----------------------------
(* Instances of DmaEngine for TLC.                                         *)
EXTENDS DmaEngine

Plain == [async |-> TRUE, shared |-> FALSE, arbitration |-> "rr",
          binding |-> "explicit", fromHead |-> FALSE, byCycles |-> FALSE,
          retain |-> FALSE, conserving |-> FALSE]

\* Both execution modes, independent paths and a shared bus, every way of
\* choosing a channel, and DRR with interleaved and work-conserving visits,
\* RESET and RETAIN_RESIDUAL.
MCModes ==
    {[Plain EXCEPT !.async = a, !.shared = s, !.binding = b] :
        a, s \in BOOLEAN, b \in {"explicit", "rr", "outstanding", "bytes", "cycles"}}
    \cup {[Plain EXCEPT !.shared = TRUE, !.arbitration = "drr",
                        !.retain = r, !.conserving = w] : r, w \in BOOLEAN}

\* The policies of a shared bus other than DRR; aging by cycles waited at the
\* head, and by grants missed since submission.
MCPolicies ==
    {[Plain EXCEPT !.shared = TRUE, !.arbitration = a] : a \in {"rr", "strict"}}
    \cup {[Plain EXCEPT !.shared = TRUE, !.arbitration = "aging",
                        !.fromHead = a, !.byCycles = a] : a \in BOOLEAN}

MCAsynchronous == {Plain}

Kind(size, cycles, priority) ==
    [bytes |-> size, cost |-> size, cycles |-> cycles, priority |-> priority,
     valid |-> TRUE]

\* Many bytes and few cycles, the opposite, and unusable pointers; the cost is
\* above, below and at the credits of one DRR visit.
MCSizes == {Kind(5, 1, 0), Kind(1, 3, 0), [Kind(2, 2, 0) EXCEPT !.valid = FALSE]}

\* Low and high priority; the high one never stops coming, and the low one
\* keeps the bus for more than a tick.
MCPriorities == {Kind(1, 2, 0), Kind(1, 1, 1)}

MCGrant == [c \in Channels |-> c + 1]      \* weights 1, 2, ...

=============================================================================
