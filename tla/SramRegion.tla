----------------------------- MODULE SramRegion -----------------------------
(***************************************************************************)
(* One SRAM region (tu_sram.c): word accesses metered per bank against a   *)
(* budget that is refilled once per window, bounds checks, the double      *)
(* buffer, and what a context switch does to it (infra/tu_context.c).      *)
(*                                                                         *)
(* Content: each buffer stands for the value of the byte at address        *)
(* Watched, whichever it is.  An access is a range of addresses; only      *)
(* whether it is admitted, which banks its words hit and whether it covers *)
(* the watched byte matter.  The region is never empty and its allocations *)
(* never fail.  The clock is a uint64_t, of ClockModulus values here.      *)
(***************************************************************************)
EXTENDS DoubleBuffer, Integers, FiniteSets

CONSTANTS
    Size,          \* total_size in bytes
    Banks,         \* bank_count
    Width,         \* bank_width in bytes
    WordGrant,     \* words_per_cycle: words a bank grants per window
    Window,        \* bw_refill_window in cycles
    ClockModulus,  \* 2^64 in the code
    MaxCycle,      \* bound: the clock is not advanced beyond
    Data,          \* values of the watched byte
    Watched,       \* its address
    Accesses,      \* the accesses <<addr, bytes>> clients make, valid or not
    SwappedSaves   \* may a context be saved while the shadow is active?

ASSUME SramAssumption ==
    /\ Size \in Nat \ {0} /\ Banks \in Nat \ {0} /\ Width \in Nat \ {0}
    /\ WordGrant \in Nat \ {0} /\ Window \in Nat \ {0}
    /\ MaxCycle \in Nat /\ ClockModulus \in Nat /\ MaxCycle < ClockModulus
    /\ Zero \in Data /\ Watched \in 0 .. Size - 1
    /\ Accesses \subseteq Nat \X Nat
    /\ SwappedSaves \in BOOLEAN

VARIABLES
    region,        \* the buffers
    savedRegion,   \* what the context holds: the primary's byte, the clock and
                   \* bw_modeling; the front only the properties look at
    available,     \* words_available of each bank
    served,        \* reads_served + writes_served of each bank, and
    lastRefill,    \* last_refill_cycle of each bank
    cycle,         \* current_cycle
    refills,       \* how often it was refilled, until the clock is set back
    setBack,       \* a restore has set the clock back
    metering,      \* bw_modeling
    bySpan         \* word_metering is ADDRESS_SPAN

meterVars == <<available, served, lastRefill, refills, setBack>>
sramVars == <<region, savedRegion, meterVars, cycle, metering, bySpan>>

Bank == 0 .. Banks - 1

SramInit ==
    /\ region = SingleBuffered(Zero)
    /\ savedRegion = [primary |-> Zero, front |-> Zero, cycle |-> 0,
                      metering |-> TRUE]
    /\ available = [b \in Bank |-> WordGrant]
    /\ served = [b \in Bank |-> 0]
    /\ lastRefill = [b \in Bank |-> 0]
    /\ cycle = 0 /\ refills = [b \in Bank |-> 0] /\ setBack = FALSE
    /\ metering = TRUE /\ bySpan = FALSE

-----------------------------------------------------------------------------
\* bounds_check
InBounds(addr, bytes) == addr <= Size /\ bytes <= Size - addr

\* The words an access is charged for: by its size, or those it touches.
WordCount(addr, bytes) ==
    IF bytes = 0 THEN 0
    ELSE IF bySpan THEN (addr + bytes - 1) \div Width - addr \div Width + 1
    ELSE 1 + (bytes - 1) \div Width

\* How many of them fall on bank b.
Hits(b, addr, bytes) ==
    Cardinality({i \in 0 .. WordCount(addr, bytes) - 1 :
                    (addr \div Width + i) % Banks = b})

\* Variant: a bank that serves what it has no budget for.
ServedNowAll(b, addr, bytes) == IF metering THEN Hits(b, addr, bytes) ELSE 0

\* sram_bw_consume, word by word: what the budget covers is served, the rest
\* stalls; without modelling nothing is counted.
ServedNow(b, addr, bytes) ==
    IF ~metering THEN 0
    ELSE IF Hits(b, addr, bytes) <= available[b] THEN Hits(b, addr, bytes)
    ELSE available[b]

Meter(addr, bytes) ==
    /\ available' = [b \in Bank |-> IF metering
                        THEN IF Hits(b, addr, bytes) <= available[b]
                             THEN available[b] - Hits(b, addr, bytes) ELSE 0
                        ELSE available[b]]
    /\ served' = [b \in Bank |-> IF setBack THEN served[b]
                                  ELSE served[b] + ServedNow(b, addr, bytes)]
    /\ UNCHANGED <<lastRefill, refills, setBack>>

Covers(addr, bytes) == addr <= Watched /\ Watched < addr + bytes

\* tu_sram_read, tu_sram_read_bulk
SramRead(addr, bytes) ==
    /\ InBounds(addr, bytes) /\ bytes > 0
    /\ Meter(addr, bytes)
    /\ UNCHANGED <<region, savedRegion, cycle, metering, bySpan>>

\* tu_sram_write, tu_sram_write_bulk
SramWrite(addr, bytes, d) ==
    /\ InBounds(addr, bytes) /\ bytes > 0
    /\ Meter(addr, bytes)
    /\ region' = IF Covers(addr, bytes) THEN WriteActive(region, d) ELSE region
    /\ UNCHANGED <<savedRegion, cycle, metering, bySpan>>

\* An access out of bounds reports TU_ERR_SRAM_OVERFLOW; it and an empty one
\* do nothing else.
SramReject(addr, bytes) ==
    /\ ~InBounds(addr, bytes) \/ bytes = 0
    /\ UNCHANGED sramVars

\* The DMA engine and the facade write through the raw pointer, unmetered.
SramRawWrite(d) ==
    /\ region' = WriteActive(region, d)
    /\ UNCHANGED <<savedRegion, meterVars, cycle, metering, bySpan>>

-----------------------------------------------------------------------------
\* tu_sram_refill_bw at clock `now`: the distance is unsigned.
Elapsed(now, b) == (now - lastRefill[b]) % ClockModulus

Due(now) == {b \in Bank : Elapsed(now, b) >= Window}

\* tu_sram_advance_cycle; with modelling off the clock still runs.
SramAdvance(cycles) ==
    LET now == cycle + cycles
        due == IF metering THEN Due(now) ELSE {}
    IN  /\ now <= MaxCycle
        /\ cycle' = now
        /\ available' = [b \in Bank |-> IF b \in due THEN WordGrant ELSE available[b]]
        /\ lastRefill' = [b \in Bank |-> IF b \in due THEN now ELSE lastRefill[b]]
        /\ refills' = [b \in Bank |-> IF b \in due /\ ~setBack THEN refills[b] + 1
                                   ELSE refills[b]]
        /\ UNCHANGED <<region, savedRegion, served, setBack, metering, bySpan>>

\* tu_sram_set_bw_modeling
SramSetModeling(on) ==
    /\ metering' = on
    /\ UNCHANGED <<region, savedRegion, meterVars, cycle, bySpan>>

\* tu_sram_set_word_metering
SramSetMetering(span) ==
    /\ bySpan' = span
    /\ UNCHANGED <<region, savedRegion, meterVars, cycle, metering>>

-----------------------------------------------------------------------------
OnRegion(r) == region' = r /\ UNCHANGED <<savedRegion, meterVars, cycle, metering, bySpan>>

SramEnable == OnRegion(Enable(region))
SramDisable == OnRegion(Disable(region))
SramSwap == OnRegion(Swap(region))

\* A loader that fills the shadow through tu_sram_get_shadow_ptr, which is
\* null without one, and reports it (tu_sram_notify_shadow_write).
SramFillShadow(d) ==
    region.enabled /\ OnRegion(NotifyShadowWrite(WriteShadow(region, d)))

\* ctx_copy_sram_data copies banks.data, the primary, and the clock.
SramSave ==
    /\ SwappedSaves \/ region.active = 0
    /\ savedRegion' = [primary |-> region.primary, front |-> ActiveData(region),
                       cycle |-> cycle, metering |-> metering]
    /\ UNCHANGED <<region, meterVars, cycle, metering, bySpan>>

\* The restore drops the double buffer and takes back the primary, the
\* clock and bw_modeling; the meters keep what they have.
SramRestore ==
    /\ region' = SingleBuffered(savedRegion.primary)
    /\ cycle' = savedRegion.cycle
    /\ setBack' = (setBack \/ savedRegion.cycle < cycle)
    /\ metering' = savedRegion.metering
    /\ UNCHANGED <<savedRegion, available, served, lastRefill, refills, bySpan>>

SramNext ==
    \/ \E a \in Accesses :
          \/ SramRead(a[1], a[2]) \/ SramReject(a[1], a[2])
          \/ \E d \in Data : SramWrite(a[1], a[2], d)
    \/ \E d \in Data : SramRawWrite(d) \/ SramFillShadow(d)
    \/ \E cycles \in 1 .. Window + 1 : SramAdvance(cycles)
    \/ \E on \in BOOLEAN : SramSetModeling(on) \/ SramSetMetering(on)
    \/ SramEnable \/ SramDisable \/ SramSwap \/ SramSave \/ SramRestore

SramSpec == SramInit /\ [][SramNext]_sramVars

-----------------------------------------------------------------------------
SavedRegion == [primary : Data, front : Data, cycle : 0 .. MaxCycle, metering : BOOLEAN]

\* The region's budgets, clocks and buffers keep their types.
SramTypeOK ==
    /\ region \in Region(Data) /\ savedRegion \in SavedRegion
    /\ available \in [Bank -> 0 .. WordGrant]
    /\ served \in [Bank -> Nat] /\ lastRefill \in [Bank -> Nat]
    /\ refills \in [Bank -> Nat]
    /\ cycle \in 0 .. MaxCycle
    /\ setBack \in BOOLEAN /\ metering \in BOOLEAN /\ bySpan \in BOOLEAN

\* Whatever is read, written, switched off and on: unless a restore has set
\* the clock back, a bank has served at most its grant for each window that
\* has begun (tu_sram.h: "words_per_cycle is a grant per refill window").
GrantPerWindow ==
    ~setBack => \A b \in Bank :
        /\ served[b] + available[b] <= WordGrant * (refills[b] + 1)
        /\ refills[b] * Window <= lastRefill[b]
        /\ lastRefill[b] <= cycle

\* The banks are refilled together: the budget of no bank lags behind.
BanksInPhase == \A b, c \in Bank : lastRefill[b] = lastRefill[c]

\* The meters of a region: budgets never below zero nor above a grant, refilled
\* together, and nothing served beyond the grants of the windows begun.
MetersExact == SramTypeOK /\ BanksInPhase /\ GrantPerWindow

\* The region implements what a double buffer promises its reader: the active
\* buffer is the front and the shadow the back.
PP == INSTANCE PingPong WITH
         front <- ActiveData(region), double <- region.enabled,
         back <- IF region.enabled THEN ShadowData(region) ELSE Zero,
         kept <- savedRegion.front
ImplementsPingPong == PP!PingPongSpec

=============================================================================
