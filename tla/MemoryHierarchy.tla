--------------------------- MODULE MemoryHierarchy ---------------------------
(***************************************************************************)
(* The memory hierarchy (memory/memory_hierarchy.c): accesses by level,    *)
(* split into bank words for the scratchpad and the global buffer and      *)
(* delegated to the DRAM model for the last level, and the clock the two   *)
(* share.  Counters of reads, writes, bytes and stalls, and the meters of  *)
(* the regions (SramRegion), are left out.                                 *)
(***************************************************************************)
EXTENDS Dram

CONSTANTS
    SpadSize,       \* bytes of the scratchpad region an access is given,
    GbufSize,       \* and of the global buffer
    WordBytes,      \* bank_width of both
    HierAccesses    \* <<address, bytes>> of the accesses

ASSUME HierAssumption ==
    /\ SpadSize \in Nat \ {0} /\ GbufSize \in Nat \ {0} /\ WordBytes \in Nat \ {0}
    /\ HierAccesses \subseteq Nat \X Nat

VARIABLES
    spad,        \* the scratchpad, double-buffered or not
    hierCycle,   \* current_cycle of the hierarchy
    hits,        \* accesses the global buffer counts as hits less misses: bounded
    moved        \* the last access: its level, its bytes and what was moved

hierVars == <<spad, hierCycle, hits, moved>>

SpadAddr == 0 .. SpadSize - 1
Blank == [a \in SpadAddr |-> 0]
DB == INSTANCE DoubleBuffer WITH Zero <- Blank

Span(addr, bytes) == addr .. addr + bytes - 1
Unmoved == [level |-> "none", span |-> {}, bytes |-> {}, returned |-> 0, hit |-> FALSE]

\* The words of an access, and those the region admits (bounds_check): the
\* others are reported and skipped.
WordStarts(addr, bytes) ==
    {addr + i * WordBytes : i \in 0 .. CeilDiv(bytes, WordBytes) - 1}
Admitted(addr, bytes, size) == {w \in WordStarts(addr, bytes) : w + WordBytes <= size}
AdmittedBytes(addr, bytes, size) ==
    UNION {Span(w, WordBytes) : w \in Admitted(addr, bytes, size)}

\* Variant: the padding of a partial last word is not taken from the region.
SpadWrittenPadded(addr, bytes, d) ==
    [a \in SpadAddr |-> IF a \in AdmittedBytes(addr, bytes, SpadSize) THEN d
                        ELSE DB!ActiveData(spad)[a]]

\* Whole words are written: a partial last one is filled up from banks.data,
\* the primary buffer, whichever is active.
SpadWritten(addr, bytes, d) ==
    [a \in SpadAddr |->
        IF a \notin AdmittedBytes(addr, bytes, SpadSize) THEN DB!ActiveData(spad)[a]
        ELSE IF a \in Span(addr, bytes) THEN d ELSE spad.primary[a]]

HierInit ==
    /\ DramInit /\ setting.type # "ideal"
    /\ spad = DB!SingleBuffered(Blank) /\ hierCycle = 0 /\ hits = 0 /\ moved = Unmoved

-----------------------------------------------------------------------------
SpadAccess(addr, bytes) ==
    moved' = [level |-> "spad", span |-> Span(addr, bytes), returned |-> 0, hit |-> FALSE,
              bytes |-> AdmittedBytes(addr, bytes, SpadSize) \cap Span(addr, bytes)]

\* tu_mem_hierarchy_read and _write of LOCAL_SPAD
SpadRead(addr, bytes) ==
    SpadAccess(addr, bytes) /\ UNCHANGED <<dramVars, spad, hierCycle, hits>>

SpadWrite(addr, bytes, d) ==
    /\ SpadAccess(addr, bytes)
    /\ spad' = DB!WriteActive(spad, SpadWritten(addr, bytes, d))
    /\ UNCHANGED <<dramVars, hierCycle, hits>>

\* GLOBAL_BUF: whole words too, the last one past the caller's buffer; the
\* hit is counted by the end of the span (addr + bytes is a uint32_t).
GbufAccess(addr, bytes) ==
    /\ moved' = [level |-> "gbuf", span |-> Span(addr, bytes), returned |-> 0,
                 hit |-> addr + bytes <= GbufSize,
                 bytes |-> AdmittedBytes(addr, bytes, GbufSize)]
    /\ hits' = IF addr + bytes <= GbufSize THEN Least(hits + 1, 1) ELSE 0
    /\ UNCHANGED <<dramVars, spad, hierCycle>>

\* DRAM delegates, and an empty access returns at once.
HierDram(dir, addr, bytes) ==
    /\ DramAccess(dir, addr, bytes)
    /\ moved' = [level |-> "dram", span |-> Span(addr, bytes), returned |-> 0,
                 hit |-> FALSE, bytes |-> Span(addr, bytes)]
    /\ UNCHANGED <<spad, hierCycle, hits>>

\* REGFILE moves nothing: reads return zeros.
RegfileAccess ==
    /\ moved' = [Unmoved EXCEPT !.level = "regfile"]
    /\ UNCHANGED <<dramVars, spad, hierCycle, hits>>

\* tu_mem_hierarchy_tick, a cycle at a time; neither the scratchpads nor the
\* global buffer are advanced.
HierTick ==
    /\ DramTick
    /\ hierCycle' = hierCycle + 1
    /\ UNCHANGED <<spad, hits, moved>>

HierReset ==
    /\ DramReset
    /\ hierCycle' = 0 /\ hits' = 0
    /\ UNCHANGED <<spad, moved>>

\* The scratchpad's double buffer, which its owner drives.
SpadDouble ==
    /\ spad' \in {DB!Enable(spad), DB!Swap(spad), DB!Disable(spad)}
    /\ spad' # spad
    /\ UNCHANGED <<dramVars, hierCycle, hits, moved>>

HierNext ==
    \/ \E x \in HierAccesses :
          \/ SpadRead(x[1], x[2]) \/ GbufAccess(x[1], x[2])
          \/ \E d \in {0, 1} : SpadWrite(x[1], x[2], d)
    \/ \E t \in Transfers, dir \in {"read", "write"} : HierDram(dir, t[1], t[2])
    \/ RegfileAccess \/ HierTick \/ HierReset \/ SpadDouble

HierSpec == HierInit /\ [][HierNext]_<<hierVars, dramVars>>

-----------------------------------------------------------------------------
\* The scratchpad, the clock and the counters keep their types.
HierTypeOK ==
    /\ spad \in DB!Region([SpadAddr -> {0, 1}])
    /\ hierCycle \in 0 .. MaxNow /\ hits \in {0, 1}

\* The hierarchy and its DRAM count the same cycles, across ticks and resets.
ClocksInStep ==
    hierCycle' # hierCycle => hierCycle' - hierCycle = now' - now

\* A write to the scratchpad changes the bytes it was given, where whole
\* words fit, and no other: while the primary buffer is the active one.
SpadWritesItsBytes ==
    \A x \in HierAccesses, d \in {0, 1} :
        SpadWrite(x[1], x[2], d) /\ spad.active = 0 =>
            \A a \in SpadAddr :
                DB!ActiveData(spad)'[a] =
                    IF a \in moved'.bytes THEN d ELSE DB!ActiveData(spad)[a]

\* No access is told of a row or a bus what did not happen (tu_dram_access), and
\* no step of the hierarchy writes a byte it was not given or leaves its memory
\* behind in time (tu_mem_hierarchy_write, tu_mem_hierarchy_tick).
MemorySteps ==
    [][DramStep /\ [SpadWritesItsBytes /\ ClocksInStep]_<<hierVars, now>>]_<<hierVars, dramVars>>

\* The hierarchy over a DRAM that keeps its promises.
MemorySound == HierTypeOK /\ DramSound

=============================================================================
