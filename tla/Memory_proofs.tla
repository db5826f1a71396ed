---------------------------- MODULE Memory_proofs ----------------------------
(***************************************************************************)
(* Theorems about the memories.  An SRAM region: its banks are refilled    *)
(* together, no bank serves more than the grant of the windows that have   *)
(* begun, and it implements the double buffer PingPong states.  The DRAM,  *)
(* whatever its setters do: timings follow their sources, refreshes come   *)
(* on time, no row is hit across a refresh, no window serves more than its *)
(* budget.  The hierarchy over it: one clock, and no byte changes unasked. *)
(* The cluster: whose memory is whose, how far the cores are and by which  *)
(* links, what the cycles are for, and what collectives leave behind.  The *)
(* places the register allocator gives a program in the regions, and the   *)
(* program rewritten to use them.                                          *)
(***************************************************************************)
EXTENDS SramRegion, MemoryHierarchy, Cluster, Liveness, DataLemmas, FiniteSetTheorems,
        SequenceTheorems, TLAPS

-----------------------------------------------------------------------------
(* The region. *)

LEMMA RegionType ==
    ASSUME NEW r, r \in Region(Data), Zero \in Data
    PROVE  /\ Enable(r) \in Region(Data)
           /\ Disable(r) \in Region(Data)
           /\ Swap(r) \in Region(Data)
           /\ ActiveData(r) \in Data
           /\ \A d \in Data : /\ WriteActive(r, d) \in Region(Data)
                              /\ NotifyShadowWrite(WriteShadow(r, d)) \in Region(Data)
<1>0. \A e \in BOOLEAN, data \in Data : Unswapped(e, data) \in Region(Data)
  BY DEF Region, Unswapped
<1>1. \A data \in Data : SingleBuffered(data) \in Region(Data)
  BY <1>0 DEF SingleBuffered
<1>2. ActiveData(r) \in Data
  BY DEF ActiveData, Region
<1>3. Disable(r) \in Region(Data)
  BY <1>1, <1>2 DEF Disable
<1>4. Enable(r) \in Region(Data)
  <2>1. r.primary \in Data /\ TRUE \in BOOLEAN
    BY DEF Region
  <2>2. Unswapped(TRUE, r.primary) \in Region(Data)
    BY <1>0, <2>1
  <2>. QED
    BY <2>2 DEF Enable
<1>. USE DEF Region
<1>5. Swap(r) \in Region(Data)
  <2>1. [r EXCEPT !.active = 1 - r.active] \in Region(Data)
    BY DEF Region
  <2>2. Swap(r) = IF r.enabled THEN [[r EXCEPT !.active = 1 - r.active] EXCEPT !.dirty = FALSE]
                  ELSE r
    BY DEF Swap
  <2>. QED
    BY <2>1, <2>2
<1>6. ASSUME NEW d \in Data
      PROVE  WriteActive(r, d) \in Region(Data)
  BY DEF WriteActive
<1>7. ASSUME NEW d \in Data
      PROVE  NotifyShadowWrite(WriteShadow(r, d)) \in Region(Data)
  <2>1. WriteShadow(r, d) \in Region(Data)
    BY DEF WriteShadow
  <2>. QED
    BY <2>1 DEF NotifyShadowWrite
<1>. QED
  BY <1>2, <1>3, <1>4, <1>5, <1>6, <1>7

\* An access has finitely many words, so a bank is hit a number of times.
LEMMA HitsType ==
    ASSUME NEW b \in Bank, NEW addr \in Nat, NEW bytes \in Nat
    PROVE  Hits(b, addr, bytes) \in Nat
<1>. DEFINE words == 0 .. WordCount(addr, bytes) - 1
            hit == {i \in words : (addr \div Width + i) % Banks = b}
<1>1. WordCount(addr, bytes) \in Int
  BY SramAssumption DEF WordCount
<1>2. IsFiniteSet(words)
  BY <1>1, FS_Interval
<1>3. IsFiniteSet(hit)
  BY <1>2, FS_Subset
<1>. QED
  BY <1>3, FS_CardinalityType DEF Hits

\* What an access does to the meters.
LEMMA MeterType ==
    ASSUME SramTypeOK, NEW addr \in Nat, NEW bytes \in Nat, Meter(addr, bytes)
    PROVE  /\ available' \in [Bank -> 0 .. WordGrant]
           /\ served' \in [Bank -> Nat]
           /\ ~setBack => \A b \in Bank :
                 served'[b] + available'[b] = served[b] + available[b]
<1>1. \A b \in Bank : Hits(b, addr, bytes) \in Nat
  BY HitsType
<1>2. \A b \in Bank : available[b] \in 0 .. WordGrant /\ served[b] \in Nat
  BY DEF SramTypeOK
<1>3. available' \in [Bank -> 0 .. WordGrant]
  BY <1>1, <1>2, SramAssumption DEF Meter
<1>4. \A b \in Bank : ServedNow(b, addr, bytes) \in Nat
  BY <1>1, <1>2, SramAssumption DEF ServedNow
<1>5. served' \in [Bank -> Nat]
  BY <1>2, <1>4 DEF Meter
<1>6. ASSUME ~setBack, NEW b \in Bank
      PROVE  served'[b] + available'[b] = served[b] + available[b]
  BY <1>1, <1>2, <1>4, <1>6, SramAssumption DEF Meter, ServedNow
<1>. QED
  BY <1>3, <1>5, <1>6

\* The distance to the last refill is exact while the clock has not gone back.
LEMMA ElapsedExact ==
    ASSUME SramTypeOK, NEW clock \in 0 .. MaxCycle, NEW b \in Bank,
           lastRefill[b] <= clock
    PROVE  Elapsed(clock, b) = clock - lastRefill[b]
<1>1. clock - lastRefill[b] \in 0 .. ClockModulus - 1
  BY SramAssumption DEF SramTypeOK
<1>. QED
  BY <1>1, SramAssumption DEF Elapsed

-----------------------------------------------------------------------------
(* One step, whichever it is, by what it changes. *)

LEMMA Kinds ==
    ASSUME SramTypeOK, [SramNext]_sramVars
    PROVE  \/ \E a \in Accesses, d \in Data :
                 /\ a \in Nat \X Nat
                 /\ SramRead(a[1], a[2]) \/ SramWrite(a[1], a[2], d)
           \/ \E cycles \in 1 .. Window + 1 : SramAdvance(cycles)
           \/ \E on \in BOOLEAN : SramSetModeling(on) \/ SramSetMetering(on)
           \/ \E d \in Data : SramRawWrite(d) \/ SramFillShadow(d)
           \/ SramEnable \/ SramDisable \/ SramSwap
           \/ SramSave
           \/ SramRestore
           \/ UNCHANGED sramVars
BY SramAssumption DEF SramNext, SramReject

LEMMA InitType == SramInit => SramTypeOK
<1>. SUFFICES ASSUME SramInit PROVE SramTypeOK
  OBVIOUS
<1>1. region \in Region(Data) /\ savedRegion \in SavedRegion
  BY SramAssumption DEF SramInit, Region, SavedRegion, SingleBuffered, Unswapped
<1>2. available \in [Bank -> 0 .. WordGrant]
  BY SramAssumption DEF SramInit
<1>3. served \in [Bank -> Nat] /\ lastRefill \in [Bank -> Nat] /\ refills \in [Bank -> Nat]
  BY DEF SramInit
<1>4. setBack \in BOOLEAN /\ metering \in BOOLEAN /\ bySpan \in BOOLEAN
  BY DEF SramInit
<1>5. cycle \in 0 .. MaxCycle
  BY SramAssumption DEF SramInit
<1>. QED
  BY <1>1, <1>2, <1>3, <1>4, <1>5 DEF SramTypeOK

LEMMA StepType == SramTypeOK /\ [SramNext]_sramVars => SramTypeOK'
<1>. SUFFICES ASSUME SramTypeOK, [SramNext]_sramVars PROVE SramTypeOK'
  OBVIOUS
<1>1. CASE \E a \in Accesses, d \in Data :
              /\ a \in Nat \X Nat
              /\ SramRead(a[1], a[2]) \/ SramWrite(a[1], a[2], d)
  <2>1. PICK a \in Nat \X Nat, d \in Data : SramRead(a[1], a[2]) \/ SramWrite(a[1], a[2], d)
    BY <1>1
  <2>2. a[1] \in Nat /\ a[2] \in Nat /\ Meter(a[1], a[2])
    BY <2>1 DEF SramRead, SramWrite
  <2>3. available' \in [Bank -> 0 .. WordGrant] /\ served' \in [Bank -> Nat]
    BY <2>2, MeterType
  <2>4. region' \in Region(Data)
    BY <2>1, RegionType, SramAssumption DEF SramRead, SramWrite, SramTypeOK
  <2>5. UNCHANGED <<savedRegion, cycle, metering, bySpan, lastRefill, refills, setBack>>
    BY <2>1, <2>2 DEF SramRead, SramWrite, Meter
  <2>. QED
    BY <2>3, <2>4, <2>5 DEF SramTypeOK
<1>2. ASSUME NEW cycles \in 1 .. Window + 1, SramAdvance(cycles)
      PROVE  SramTypeOK'
  <2>. DEFINE clock == cycle + cycles
  <2>1. clock \in 0 .. MaxCycle /\ cycle' = clock
    BY <1>2, SramAssumption DEF SramAdvance, SramTypeOK
  <2>2. available' \in [Bank -> 0 .. WordGrant]
    BY <1>2, SramAssumption DEF SramAdvance, SramTypeOK
  <2>3. lastRefill' \in [Bank -> Nat] /\ refills' \in [Bank -> Nat]
    BY <1>2, <2>1, SramAssumption DEF SramAdvance, SramTypeOK
  <2>. QED
    BY <1>2, <2>1, <2>2, <2>3 DEF SramAdvance, SramTypeOK
<1>3. ASSUME NEW on \in BOOLEAN, SramSetModeling(on) \/ SramSetMetering(on)
      PROVE  SramTypeOK'
  BY <1>3 DEF SramSetModeling, SramSetMetering, SramTypeOK, meterVars
<1>4. ASSUME NEW d \in Data, SramRawWrite(d) \/ SramFillShadow(d)
      PROVE  SramTypeOK'
  BY <1>4, RegionType, SramAssumption
     DEF SramRawWrite, SramFillShadow, OnRegion, SramTypeOK, meterVars
<1>5. CASE SramEnable \/ SramDisable \/ SramSwap
  BY <1>5, RegionType, SramAssumption
     DEF SramEnable, SramDisable, SramSwap, OnRegion, SramTypeOK, meterVars
<1>6. CASE SramSave
  <2>1. ActiveData(region) \in Data
    BY RegionType, SramAssumption DEF SramTypeOK
  <2>. QED
    BY <1>6, <2>1 DEF SramSave, SramTypeOK, SavedRegion, Region, meterVars
<1>7. CASE SramRestore
  BY <1>7, SramAssumption
     DEF SramRestore, SramTypeOK, SavedRegion, Region, SingleBuffered, Unswapped
<1>8. CASE UNCHANGED sramVars
  BY <1>8 DEF sramVars, meterVars, SramTypeOK
<1>. QED
  BY <1>1, <1>2, <1>3, <1>4, <1>5, <1>6, <1>7, <1>8, Kinds

\* Every variable of a region keeps its type, whatever clients do to it.
THEOREM RegionTypes == SramSpec => []SramTypeOK
<1>1. SramInit => SramTypeOK
  BY InitType
<1>2. SramTypeOK /\ [SramNext]_sramVars => SramTypeOK'
  BY StepType
<1>. QED
  BY <1>1, <1>2, PTL DEF SramSpec

-----------------------------------------------------------------------------
LEMMA StepPhase ==
    SramTypeOK /\ BanksInPhase /\ [SramNext]_sramVars => BanksInPhase'
<1>. SUFFICES ASSUME SramTypeOK, BanksInPhase, [SramNext]_sramVars
              PROVE  BanksInPhase'
  OBVIOUS
<1>1. ASSUME NEW cycles \in 1 .. Window + 1, SramAdvance(cycles)
      PROVE  BanksInPhase'
  <2>. DEFINE clock == cycle + cycles
  <2>1. \A b, c \in Bank : b \in Due(clock) <=> c \in Due(clock)
    BY DEF BanksInPhase, Due, Elapsed
  <2>. QED
    BY <1>1, <2>1 DEF SramAdvance, BanksInPhase
<1>2. CASE UNCHANGED lastRefill
  BY <1>2 DEF BanksInPhase
<1>. QED
  BY <1>1, <1>2, Kinds
     DEF SramRead, SramWrite, Meter, SramSetModeling, SramSetMetering, SramRawWrite,
         SramFillShadow, OnRegion, SramEnable, SramDisable, SramSwap, SramSave,
         SramRestore, sramVars, meterVars

\* tu_sram_refill_bw refills all banks in the same call, through switching
\* the modelling off and on and setting the clock back.
THEOREM RegionPhase == SramSpec => []BanksInPhase
<1>1. SramInit => BanksInPhase
  BY DEF SramInit, BanksInPhase
<1>2. QED
  BY <1>1, StepPhase, RegionTypes, PTL DEF SramSpec

-----------------------------------------------------------------------------
LEMMA StepGrant ==
    SramTypeOK /\ GrantPerWindow /\ [SramNext]_sramVars => GrantPerWindow'
<1>. SUFFICES ASSUME SramTypeOK, GrantPerWindow, [SramNext]_sramVars, ~setBack',
                     NEW b \in Bank
              PROVE  /\ served'[b] + available'[b] <= WordGrant * (refills'[b] + 1)
                     /\ refills'[b] * Window <= lastRefill'[b]
                     /\ lastRefill'[b] <= cycle'
  BY DEF GrantPerWindow
<1>0. ~setBack
  BY Kinds
     DEF SramRead, SramWrite, Meter, SramAdvance, SramSetModeling, SramSetMetering,
         SramRawWrite, SramFillShadow, OnRegion, SramEnable, SramDisable, SramSwap,
         SramSave, SramRestore, sramVars, meterVars
<1>. /\ served[b] + available[b] <= WordGrant * (refills[b] + 1)
     /\ refills[b] * Window <= lastRefill[b]
     /\ lastRefill[b] <= cycle
     /\ served[b] \in Nat /\ refills[b] \in Nat /\ lastRefill[b] \in Nat
     /\ available[b] \in 0 .. WordGrant /\ cycle \in 0 .. MaxCycle
  BY <1>0 DEF GrantPerWindow, SramTypeOK
<1>1. CASE \E a \in Accesses, d \in Data :
              /\ a \in Nat \X Nat
              /\ SramRead(a[1], a[2]) \/ SramWrite(a[1], a[2], d)
  <2>1. PICK a \in Nat \X Nat : Meter(a[1], a[2]) /\ cycle' = cycle
    BY <1>1 DEF SramRead, SramWrite
  <2>2. served'[b] + available'[b] = served[b] + available[b]
    BY <1>0, <2>1, MeterType
  <2>. QED
    BY <2>1, <2>2 DEF Meter
<1>2. ASSUME NEW cycles \in 1 .. Window + 1, SramAdvance(cycles)
      PROVE  /\ served'[b] + available'[b] <= WordGrant * (refills'[b] + 1)
             /\ refills'[b] * Window <= lastRefill'[b]
             /\ lastRefill'[b] <= cycle'
  <2>. DEFINE clock == cycle + cycles
  <2>1. clock \in 0 .. MaxCycle /\ cycle' = clock /\ clock >= cycle
    BY <1>2, SramAssumption DEF SramAdvance
  <2>2. CASE metering /\ b \in Due(clock)
    <3>1. /\ available'[b] = WordGrant /\ lastRefill'[b] = clock
          /\ refills'[b] = refills[b] + 1 /\ served'[b] = served[b]
      BY <1>0, <1>2, <2>2 DEF SramAdvance, SramTypeOK
    <3>2. Elapsed(clock, b) = clock - lastRefill[b]
      BY <2>1, ElapsedExact
    <3>3. clock - lastRefill[b] >= Window
      BY <2>2, <3>2 DEF Due
    <3>4. WordGrant * (refills[b] + 1 + 1) = WordGrant * (refills[b] + 1) + WordGrant
      BY SramAssumption
    <3>5. (refills[b] + 1) * Window = refills[b] * Window + Window
      BY SramAssumption
    <3>6. refills[b] * Window \in Nat /\ WordGrant * (refills[b] + 1) \in Nat
      BY SramAssumption
    <3>7. served'[b] + available'[b] <= WordGrant * (refills'[b] + 1)
      <4>. HIDE DEF clock
      <4>1. served[b] <= WordGrant * (refills[b] + 1)
        BY <3>6
      <4>. QED
        BY <3>1, <3>4, <3>6, <4>1, SramAssumption
    <3>8. refills'[b] * Window <= lastRefill'[b]
      BY <2>1, <3>1, <3>3, <3>5, <3>6, SramAssumption
    <3>. QED
      BY <2>1, <3>1, <3>7, <3>8
  <2>3. CASE ~(metering /\ b \in Due(clock))
    <3>1. /\ available'[b] = available[b] /\ lastRefill'[b] = lastRefill[b]
          /\ refills'[b] = refills[b] /\ served'[b] = served[b]
      BY <1>2, <2>3 DEF SramAdvance, SramTypeOK
    <3>. QED
      BY <2>1, <3>1
  <2>. QED
    BY <2>2, <2>3
<1>3. CASE SramRestore
  <2>1. cycle' = savedRegion.cycle /\ savedRegion.cycle \in 0 .. MaxCycle
    BY <1>3 DEF SramRestore, SramTypeOK, SavedRegion
  <2>2. ~(savedRegion.cycle < cycle)
    BY <1>3, Zenon DEF SramRestore
  <2>. QED
    BY <1>3, <2>1, <2>2 DEF SramRestore
<1>4. CASE UNCHANGED <<meterVars, cycle>>
  BY <1>4 DEF meterVars
<1>. QED
  BY <1>1, <1>2, <1>3, <1>4, Kinds
     DEF SramSetModeling, SramSetMetering, SramRawWrite, SramFillShadow, OnRegion,
         SramEnable, SramDisable, SramSwap, SramSave, sramVars

\* For every geometry and window: until a restore sets the clock back, what
\* a bank has served is within the grants of the windows begun.
THEOREM RegionGrant == SramSpec => []GrantPerWindow
<1>1. SramInit => GrantPerWindow
  BY SramAssumption DEF SramInit, GrantPerWindow
<1>2. QED
  BY <1>1, StepGrant, RegionTypes, PTL DEF SramSpec

\* The meters of tu_sram.c are exact for every geometry, grant and window.
THEOREM RegionMeters == SramSpec => []MetersExact
<1>1. SramTypeOK /\ BanksInPhase /\ GrantPerWindow => MetersExact
  BY DEF MetersExact
<1>2. QED
  BY <1>1, RegionTypes, RegionPhase, RegionGrant, PTL

-----------------------------------------------------------------------------
(* The refinement.  A context saved while the shadow is active keeps the   *)
(* wrong buffer, so the region implements PingPong only for clients that   *)
(* save it while the primary is.                                           *)
SavedIsFront == savedRegion.primary = savedRegion.front

LEMMA StepSaved ==
    ASSUME ~SwappedSaves
    PROVE  SramTypeOK /\ SavedIsFront /\ [SramNext]_sramVars => SavedIsFront'
<1>. SUFFICES ASSUME SavedIsFront, SramTypeOK, [SramNext]_sramVars PROVE SavedIsFront'
  OBVIOUS
<1>1. CASE SramSave
  BY <1>1 DEF SramSave, SavedIsFront, ActiveData, SramTypeOK, Region
<1>2. CASE UNCHANGED savedRegion
  BY <1>2 DEF SavedIsFront
<1>. QED
  BY <1>1, <1>2, Kinds
     DEF SramRead, SramWrite, SramAdvance, SramSetModeling, SramSetMetering,
         SramRawWrite, SramFillShadow, OnRegion, SramEnable, SramDisable, SramSwap,
         SramRestore, sramVars

LEMMA StepRefines ==
    ASSUME ~SwappedSaves, SramTypeOK, SavedIsFront, [SramNext]_sramVars
    PROVE  [PP!PingPongNext]_(PP!ppVars)
<1>. DEFINE front == ActiveData(region)
            back == IF region.enabled THEN ShadowData(region) ELSE Zero
<1>. USE DEF PP!PingPongNext, PP!ppVars
<1>0. region \in Region(Data) /\ Zero \in Data
  BY SramAssumption DEF SramTypeOK
<1>1. CASE UNCHANGED <<region, savedRegion>>
  BY <1>1
<1>2. ASSUME NEW d \in Data, region' = WriteActive(region, d), UNCHANGED savedRegion
      PROVE  PP!WriteFront(d)
  BY <1>0, <1>2
     DEF PP!WriteFront, WriteActive, ActiveData, ShadowData, Region
<1>3. ASSUME NEW d \in Data, SramFillShadow(d)
      PROVE  PP!Fill(d)
  <2>1. WriteShadow(region, d) \in Region(Data)
    BY <1>0 DEF WriteShadow, Region
  <2>2. /\ region' = [WriteShadow(region, d) EXCEPT !.dirty = TRUE]
        /\ region.enabled /\ UNCHANGED savedRegion
    BY <1>3, <2>1 DEF SramFillShadow, OnRegion, NotifyShadowWrite, WriteShadow
  <2>3. /\ region'.enabled = TRUE /\ region'.active = region.active
        /\ ActiveData(region') = ActiveData(region) /\ ShadowData(region') = d
    BY <1>0, <2>1, <2>2 DEF WriteShadow, ActiveData, ShadowData, Region
  <2>. QED
    BY <1>0, <2>2, <2>3 DEF PP!Fill, Region
<1>4. CASE SramEnable
  <2>1. CASE region.enabled
    BY <1>1, <1>4, <2>1 DEF SramEnable, OnRegion, Enable
  <2>2. CASE ~region.enabled
    <3>1. region' = Unswapped(TRUE, region.primary) /\ UNCHANGED savedRegion
      BY <1>4, <2>2 DEF SramEnable, OnRegion, Enable
    <3>2. /\ region'.enabled = TRUE /\ ActiveData(region') = region.primary
          /\ ShadowData(region') = Zero
      BY <3>1 DEF Unswapped, ActiveData, ShadowData
    <3>3. PP!Grow
      BY <1>0, <2>2, <3>1, <3>2 DEF PP!Grow, ActiveData, Region
    <3>. QED
      BY <3>3
  <2>3. region.enabled \in BOOLEAN
    BY <1>0 DEF Region
  <2>. QED
    BY <2>1, <2>2, <2>3
<1>5. CASE SramDisable
  BY <1>0, <1>5
     DEF PP!Shrink, SramDisable, OnRegion, Disable, SingleBuffered, Unswapped, ActiveData, Region
<1>6. CASE SramSwap
  BY <1>0, <1>6
     DEF PP!Flip, SramSwap, OnRegion, Swap, ActiveData, ShadowData, Region
<1>7. CASE SramSave
  BY <1>0, <1>7 DEF PP!Keep, SramSave
<1>8. CASE SramRestore
  BY <1>0, <1>8
     DEF PP!BringBack, SramRestore, SavedIsFront, SingleBuffered, Unswapped, ActiveData, Region
<1>9. ASSUME NEW a \in Nat \X Nat, NEW d \in Data, SramWrite(a[1], a[2], d)
      PROVE  \/ UNCHANGED <<region, savedRegion>>
             \/ region' = WriteActive(region, d) /\ UNCHANGED savedRegion
  BY <1>9 DEF SramWrite
<1>. QED
  BY <1>1, <1>2, <1>3, <1>4, <1>5, <1>6, <1>7, <1>8, <1>9, Kinds
     DEF SramRead, SramAdvance, SramSetModeling, SramSetMetering, SramRawWrite, sramVars

\* The region is a double buffer to its reader and its loader, across writes,
\* swaps, enabling, disabling and context switches, unless a context is saved
\* while the shadow is active (tu_context.c copies banks.data).
THEOREM RegionIsDoubleBuffer ==
    ASSUME ~SwappedSaves
    PROVE  SramSpec => ImplementsPingPong
<1>1. SramInit => PP!PingPongInit /\ SavedIsFront
  BY DEF SramInit, PP!PingPongInit, SavedIsFront, SingleBuffered, Unswapped, ActiveData
<1>2. SramTypeOK /\ SavedIsFront /\ [SramNext]_sramVars => SavedIsFront'
  BY StepSaved
<1>3. SramTypeOK /\ SavedIsFront /\ [SramNext]_sramVars => [PP!PingPongNext]_(PP!ppVars)
  BY StepRefines
<1>. QED
  BY <1>1, <1>2, <1>3, RegionTypes, PTL DEF SramSpec, ImplementsPingPong, PP!PingPongSpec

-----------------------------------------------------------------------------
(* The DRAM.  Conversions and quotients.                                    *)

LEMMA Rounding ==
    ASSUME NEW a \in Nat, NEW b \in Nat \ {0}
    PROVE  /\ CeilDiv(a, b) \in Nat /\ CeilDiv(a, b) * b >= a
           /\ a > 0 => CeilDiv(a, b) > 0
<1>. DEFINE x == a + b - 1
            q == x \div b
            r == x % b
<1>1. x \in Nat
  OBVIOUS
<1>2. q \in Nat /\ r \in 0 .. b - 1 /\ x = b * q + r
  <2>. HIDE DEF x
  <2>. QED
    BY <1>1, Division
<1>. HIDE DEF q, r
<1>3. b * q >= a /\ b * q = q * b
  BY <1>2
<1>4. a > 0 => q > 0
  <2>. SUFFICES ASSUME a > 0, q = 0 PROVE FALSE
    BY <1>2
  <2>. QED
    BY <1>3
<1>. QED
  BY <1>2, <1>3, <1>4 DEF q, CeilDiv

LEMMA ConvertedType ==
    ASSUME NEW d, NEW source \in Nat, NEW clock \in Nat \ {0}
    PROVE  /\ Converted(d, source, clock) \in Nat
           /\ source = 0 => Converted(d, source, clock) = 0
           /\ source > 0 => Converted(d, source, clock) > 0
<1>1. source * clock \in Nat /\ (source > 0 => source * clock > 0) /\ (source = 0 => source * clock = 0)
  OBVIOUS
<1>2. CeilDiv(source * clock, 2) \in Nat /\ (source * clock > 0 => CeilDiv(source * clock, 2) > 0)
  BY <1>1, Rounding
<1>3. CeilDiv(0, 2) = 0
  BY DEF CeilDiv
<1>. QED
  BY <1>1, <1>2, <1>3 DEF Converted

-----------------------------------------------------------------------------
(* What the setters leave.                                                  *)

Settings ==
    [type : {"dram", "ideal"}, clock : Nat \ {0}, latDomain : Domains, readNs : Nat,
     writeNs : Nat, readLat : Nat, writeLat : Nat, rowModel : BOOLEAN, policy : RowPolicies,
     toDomain : Domains, timeoutNs : Nat, timeout : Nat, miss : Nat, conflict : Nat,
     mapping : {"burst", "row", "xor"}, turnMode : TurnModes, turnDomain : Domains,
     rtwNs : Nat, wtrNs : Nat, rtw : Nat, wtr : Nat, readBurst : Nat \ {0},
     writeBurst : Nat \ {0}, mode : {"none", "all", "per"}, sched : {"fixed", "deferred"},
     rate : {1, 2, 4}, trefiNs : Nat, trfcNs : Nat, trfcPbNs : Nat, maxdefNs : Nat,
     trefi : Nat, trfc : Nat, trfcPb : Nat, maxdef : Nat]

\* A setting whose cycles are those of its sources, and that refreshes at
\* intervals if at all.
Consistent(s) ==
    /\ s \in Settings
    /\ s.readLat = Converted(s.latDomain, s.readNs, s.clock)
    /\ s.writeLat = Converted(s.latDomain, s.writeNs, s.clock)
    /\ s.timeout = Converted(s.toDomain, s.timeoutNs, s.clock)
    /\ s.rtw = Converted(s.turnDomain, s.rtwNs, s.clock)
    /\ s.wtr = Converted(s.turnDomain, s.wtrNs, s.clock)
    /\ s.trefi = Converted("ns", s.trefiNs, s.clock)
    /\ s.mode # "none" => s.trefiNs > 0
    /\ XorNeedsPowerOfTwo(s)

LEMMA CreatedConsistent == \A type \in {"dram", "ideal"} : Consistent(Created(type))
<1>. TAKE type \in {"dram", "ideal"}
<1>1. Created(type) \in Settings
  BY DramAssumption DEF Created, Settings, Domains, RowPolicies, TurnModes
<1>2. \A d \in Domains : Converted(d, 0, 2) = 0
  BY ConvertedType
<1>3. Converted("core", 1, 2) = 1
  BY DEF Converted
<1>. QED
  BY <1>1, <1>2, <1>3 DEF Created, Consistent, XorNeedsPowerOfTwo, Domains

LEMMA LatencyConsistent ==
    ASSUME NEW s, Consistent(s), NEW l \in LatencyValues
    PROVE  /\ Consistent(WithLatency(s, l))
           /\ WithLatency(s, l).clock = s.clock /\ WithLatency(s, l).trefiNs = s.trefiNs
<1>. DEFINE t == WithLatency(s, l)
<1>1. s \in Settings /\ s.clock \in Nat \ {0} /\ l[1] \in Domains /\ l[2] \in Nat /\ l[3] \in Nat
  BY DEF Consistent, Settings, LatencyValues
<1>2. Converted(l[1], l[2], s.clock) \in Nat /\ Converted(l[1], l[3], s.clock) \in Nat
  BY <1>1, ConvertedType
<1>3. t \in Settings
  BY ZenonT(60), <1>1, <1>2 DEF WithLatency, Settings
<1>. QED
  BY <1>1, <1>3 DEF WithLatency, Consistent, Settings, XorNeedsPowerOfTwo

LEMMA RowConsistent ==
    ASSUME NEW s, Consistent(s), NEW r \in RowValues, NEW p \in Nat \X Nat
    PROVE  /\ Consistent(WithRow(s, r, p))
           /\ WithRow(s, r, p).clock = s.clock /\ WithRow(s, r, p).trefiNs = s.trefiNs
           /\ WithRow(s, r, p).trefi = s.trefi /\ WithRow(s, r, p).rate = s.rate
           /\ WithRow(s, r, p).mode = s.mode /\ WithRow(s, r, p).type = s.type
           /\ WithRow(s, r, p).sched = s.sched /\ WithRow(s, r, p).maxdef = s.maxdef
<1>. DEFINE t == WithRow(s, r, p)
<1>1. /\ s \in Settings /\ s.clock \in Nat \ {0}
      /\ r[1] \in RowPolicies /\ r[2] \in Domains /\ r[3] \in Nat /\ p[1] \in Nat /\ p[2] \in Nat
  BY DEF Consistent, Settings, RowValues
<1>2. Converted(r[2], r[3], s.clock) \in Nat
  BY <1>1, ConvertedType
<1>3. t \in Settings
  BY ZenonT(60), <1>1, <1>2 DEF WithRow, Settings
<1>. QED
  BY SMTT(60), <1>1, <1>3 DEF WithRow, Consistent, Settings, XorNeedsPowerOfTwo

LEMMA TurnConsistent ==
    ASSUME NEW s, Consistent(s), NEW v \in TurnValues
    PROVE  /\ Consistent(WithTurnaround(s, v))
           /\ WithTurnaround(s, v).clock = s.clock /\ WithTurnaround(s, v).trefiNs = s.trefiNs
           /\ WithTurnaround(s, v).trefi = s.trefi /\ WithTurnaround(s, v).rate = s.rate
           /\ WithTurnaround(s, v).mode = s.mode /\ WithTurnaround(s, v).type = s.type
           /\ WithTurnaround(s, v).sched = s.sched /\ WithTurnaround(s, v).maxdef = s.maxdef
           /\ WithTurnaround(s, v).policy = s.policy
<1>. DEFINE t == WithTurnaround(s, v)
<1>1. /\ s \in Settings /\ s.clock \in Nat \ {0}
      /\ v[1] \in TurnModes /\ v[2] \in Domains /\ v[3] \in Nat /\ v[4] \in Nat
  BY DEF Consistent, Settings, TurnValues
<1>2. Converted(v[2], v[3], s.clock) \in Nat /\ Converted(v[2], v[4], s.clock) \in Nat
  BY <1>1, ConvertedType
<1>3. t \in Settings
  BY ZenonT(60), <1>1, <1>2 DEF WithTurnaround, Settings
<1>. QED
  BY SMTT(60), <1>1, <1>3 DEF WithTurnaround, Consistent, Settings, XorNeedsPowerOfTwo

\* What only a refresh changes, and what no change of timings does.
SameTimings(t, s) ==
    /\ t.clock = s.clock /\ t.latDomain = s.latDomain /\ t.readNs = s.readNs /\ t.writeNs = s.writeNs
    /\ t.readLat = s.readLat /\ t.writeLat = s.writeLat /\ t.toDomain = s.toDomain
    /\ t.timeoutNs = s.timeoutNs /\ t.timeout = s.timeout /\ t.turnDomain = s.turnDomain
    /\ t.rtwNs = s.rtwNs /\ t.wtrNs = s.wtrNs /\ t.rtw = s.rtw /\ t.wtr = s.wtr
SameModes(t, s) ==
    /\ t.mapping = s.mapping /\ t.mode = s.mode /\ t.type = s.type
    /\ t.trefiNs = s.trefiNs /\ t.trefi = s.trefi

LEMMA RetimedType ==
    ASSUME NEW s, s \in Settings
    PROVE  /\ Retimed(s) \in Settings
           /\ Retimed(s).trefi = Converted("ns", s.trefiNs, s.clock)
           /\ SameTimings(Retimed(s), s) /\ Retimed(s).policy = s.policy
           /\ Retimed(s).mapping = s.mapping /\ Retimed(s).mode = s.mode
           /\ Retimed(s).trefiNs = s.trefiNs /\ Retimed(s).type = s.type
<1>1. s.clock \in Nat \ {0} /\ s.trefiNs \in Nat /\ s.trfcNs \in Nat /\ s.trfcPbNs \in Nat
      /\ s.maxdefNs \in Nat
  BY DEF Settings
<1>2. /\ Converted("ns", s.trefiNs, s.clock) \in Nat /\ Converted("ns", s.trfcNs, s.clock) \in Nat
      /\ Converted("ns", s.trfcPbNs, s.clock) \in Nat /\ Converted("ns", s.maxdefNs, s.clock) \in Nat
  BY <1>1, ConvertedType
<1>3. Retimed(s) \in Settings
  BY ZenonT(60), <1>2 DEF Retimed, Settings
<1>4. Retimed(s).trefi = Converted("ns", s.trefiNs, s.clock)
  BY DEF Retimed, Settings
<1>5. SameTimings(Retimed(s), s)
  BY DEF Retimed, Settings, SameTimings
<1>. QED
  BY <1>3, <1>4, <1>5 DEF Retimed, Settings

LEMMA RefreshConsistent ==
    ASSUME NEW s, Consistent(s), NEW r \in RefreshValues
    PROVE  Consistent(WithRefresh(s, r))
<1>. DEFINE u == [s EXCEPT !.mode = r[1], !.sched = r[2], !.rate = r[3], !.trefiNs = r[4],
                           !.trfcNs = r[5], !.trfcPbNs = r[6],
                           !.maxdefNs = IF r[7] = 0 THEN r[4] ELSE r[7]]
<1>1. /\ s \in Settings /\ r[1] \in {"none", "all", "per"} /\ r[2] \in {"fixed", "deferred"}
      /\ r[3] \in {1, 2, 4} /\ r[4] \in Nat \ {0} /\ r[5] \in Nat /\ r[6] \in Nat /\ r[7] \in Nat
  BY DEF Consistent, RefreshValues
<1>. DEFINE defer == IF r[7] = 0 THEN r[4] ELSE r[7]
<1>2. u \in Settings
  <2>1. defer \in Nat
    BY <1>1
  <2>. HIDE DEF defer
  <2>2. u = [s EXCEPT !.mode = r[1], !.sched = r[2], !.rate = r[3], !.trefiNs = r[4],
                      !.trfcNs = r[5], !.trfcPbNs = r[6], !.maxdefNs = defer]
    BY DEF defer
  <2>. HIDE DEF u
  <2>. DEFINE x == [s EXCEPT !.mode = r[1], !.sched = r[2], !.rate = r[3]]
              y == [x EXCEPT !.trefiNs = r[4], !.trfcNs = r[5]]
  <2>3. x \in Settings
    BY ZenonT(60), <1>1 DEF Settings
  <2>4. u = [y EXCEPT !.trfcPbNs = r[6], !.maxdefNs = defer]
    BY <2>2
  <2>. HIDE DEF x
  <2>5. y \in Settings
    BY ZenonT(60), <1>1, <2>3 DEF Settings
  <2>. HIDE DEF y
  <2>6. [y EXCEPT !.trfcPbNs = r[6], !.maxdefNs = defer] \in Settings
    <3>1. r[6] \in Nat
      BY <1>1
    <3>. QED
      BY ZenonT(60), <2>1, <2>5, <3>1 DEF Settings
  <2>. QED
    BY <2>4, <2>6
<1>3. SameTimings(u, s) /\ u.mapping = s.mapping /\ u.trefiNs = r[4]
  BY <1>1 DEF Settings, SameTimings
<1>4. WithRefresh(s, r) = Retimed(u)
  BY DEF WithRefresh
<1>. HIDE DEF u
<1>. QED
  BY <1>1, <1>2, <1>3, <1>4, RetimedType DEF Consistent, XorNeedsPowerOfTwo, SameTimings

\* A change of the clock converts every source again.
LEMMA ClockConsistent ==
    ASSUME NEW s, Consistent(s), NEW c \in Nat \ {0}
    PROVE  /\ Consistent(WithClock(s, c)) /\ WithClock(s, c).mode = s.mode
           /\ WithClock(s, c).policy = s.policy /\ WithClock(s, c).type = s.type
<1>. DEFINE a == [s EXCEPT !.clock = c]
            l == WithLatency(a, <<s.latDomain, s.readNs, s.writeNs>>)
            r == WithRow(l, <<s.policy, s.toDomain, s.timeoutNs>>, <<s.miss, s.conflict>>)
            v == WithTurnaround(r, <<s.turnMode, s.turnDomain, s.rtwNs, s.wtrNs>>)
<1>1. s \in Settings
  BY DEF Consistent
<1>2. a \in Settings /\ a.clock = c /\ SameModes(a, s)
  BY <1>1 DEF Settings, SameModes
<1>3. /\ s.latDomain \in Domains /\ s.readNs \in Nat /\ s.writeNs \in Nat /\ s.policy \in RowPolicies
      /\ s.toDomain \in Domains /\ s.timeoutNs \in Nat /\ s.miss \in Nat /\ s.conflict \in Nat
      /\ s.turnMode \in TurnModes /\ s.turnDomain \in Domains /\ s.rtwNs \in Nat /\ s.wtrNs \in Nat
  BY <1>1 DEF Settings
<1>4. \A d \in Domains, n \in Nat : Converted(d, n, c) \in Nat
  BY ConvertedType
<1>. HIDE DEF a
<1>5. /\ l \in Settings /\ l.clock = c /\ SameModes(l, s)
      /\ l.latDomain = s.latDomain /\ l.readNs = s.readNs /\ l.writeNs = s.writeNs
      /\ l.readLat = Converted(s.latDomain, s.readNs, c)
      /\ l.writeLat = Converted(s.latDomain, s.writeNs, c)
  <2>1. l = [a EXCEPT !.latDomain = s.latDomain, !.readNs = s.readNs, !.writeNs = s.writeNs,
                      !.readLat = Converted(s.latDomain, s.readNs, c),
                      !.writeLat = Converted(s.latDomain, s.writeNs, c)]
    BY <1>2 DEF WithLatency
  <2>. HIDE DEF l
  <2>2. Converted(s.latDomain, s.readNs, c) \in Nat /\ Converted(s.latDomain, s.writeNs, c) \in Nat
    BY <1>3, <1>4
  <2>3. l \in Settings
    <3>. DEFINE x == [a EXCEPT !.latDomain = s.latDomain, !.readNs = s.readNs, !.writeNs = s.writeNs]
    <3>1. x \in Settings
      BY ZenonT(60), <1>2, <1>3 DEF Settings
    <3>2. l = [x EXCEPT !.readLat = Converted(s.latDomain, s.readNs, c),
                        !.writeLat = Converted(s.latDomain, s.writeNs, c)]
      BY <2>1
    <3>. HIDE DEF x
    <3>3. [x EXCEPT !.readLat = Converted(s.latDomain, s.readNs, c),
                    !.writeLat = Converted(s.latDomain, s.writeNs, c)] \in Settings
      BY <2>2, <3>1 DEF Settings
    <3>. QED
      BY <3>2, <3>3
  <2>4. SameModes(l, s)
    BY <1>2, <2>1 DEF SameModes, Settings
  <2>. QED
    BY <1>2, <2>1, <2>3, <2>4 DEF Settings
<1>. HIDE DEF l
<1>6. /\ r \in Settings /\ r.clock = c /\ SameModes(r, s) /\ r.policy = s.policy
      /\ r.latDomain = s.latDomain /\ r.readNs = s.readNs /\ r.writeNs = s.writeNs
      /\ r.readLat = l.readLat /\ r.writeLat = l.writeLat
      /\ r.toDomain = s.toDomain /\ r.timeoutNs = s.timeoutNs
      /\ r.timeout = Converted(s.toDomain, s.timeoutNs, c)
  <2>1. r = [l EXCEPT !.policy = s.policy, !.toDomain = s.toDomain, !.timeoutNs = s.timeoutNs,
                      !.timeout = Converted(s.toDomain, s.timeoutNs, c),
                      !.miss = s.miss, !.conflict = s.conflict]
    BY <1>5 DEF WithRow
  <2>. HIDE DEF r
  <2>2. Converted(s.toDomain, s.timeoutNs, c) \in Nat
    BY <1>3, <1>4
  <2>3. r \in Settings
    <3>. DEFINE x == [l EXCEPT !.policy = s.policy, !.toDomain = s.toDomain, !.timeoutNs = s.timeoutNs]
    <3>1. x \in Settings
      BY ZenonT(60), <1>3, <1>5 DEF Settings
    <3>2. r = [x EXCEPT !.timeout = Converted(s.toDomain, s.timeoutNs, c),
                        !.miss = s.miss, !.conflict = s.conflict]
      BY <2>1
    <3>. HIDE DEF x
    <3>3. [x EXCEPT !.timeout = Converted(s.toDomain, s.timeoutNs, c),
                    !.miss = s.miss, !.conflict = s.conflict] \in Settings
      BY ZenonT(60), <1>3, <2>2, <3>1 DEF Settings
    <3>. QED
      BY <3>2, <3>3
  <2>4. SameModes(r, s)
    BY <1>5, <2>1 DEF SameModes, Settings
  <2>. QED
    BY <1>5, <2>1, <2>3, <2>4 DEF Settings
<1>. HIDE DEF r
<1>7. /\ v \in Settings /\ v.clock = c /\ SameModes(v, s) /\ v.policy = s.policy
      /\ v.latDomain = s.latDomain /\ v.readNs = s.readNs /\ v.writeNs = s.writeNs
      /\ v.readLat = l.readLat /\ v.writeLat = l.writeLat
      /\ v.toDomain = s.toDomain /\ v.timeoutNs = s.timeoutNs /\ v.timeout = r.timeout
      /\ v.turnDomain = s.turnDomain /\ v.rtwNs = s.rtwNs /\ v.wtrNs = s.wtrNs
      /\ v.rtw = Converted(s.turnDomain, s.rtwNs, c) /\ v.wtr = Converted(s.turnDomain, s.wtrNs, c)
  <2>1. v = [r EXCEPT !.turnMode = s.turnMode, !.turnDomain = s.turnDomain, !.rtwNs = s.rtwNs,
                      !.wtrNs = s.wtrNs, !.rtw = Converted(s.turnDomain, s.rtwNs, c),
                      !.wtr = Converted(s.turnDomain, s.wtrNs, c)]
    BY <1>6 DEF WithTurnaround
  <2>. HIDE DEF v
  <2>2. Converted(s.turnDomain, s.rtwNs, c) \in Nat /\ Converted(s.turnDomain, s.wtrNs, c) \in Nat
    BY <1>3, <1>4
  <2>3. v \in Settings
    <3>. DEFINE x == [r EXCEPT !.turnMode = s.turnMode, !.turnDomain = s.turnDomain]
                y == [x EXCEPT !.rtwNs = s.rtwNs, !.wtrNs = s.wtrNs]
    <3>1. x \in Settings
      BY ZenonT(60), <1>3, <1>6 DEF Settings
    <3>2. v = [y EXCEPT !.rtw = Converted(s.turnDomain, s.rtwNs, c),
                        !.wtr = Converted(s.turnDomain, s.wtrNs, c)]
      BY <2>1
    <3>. HIDE DEF x
    <3>3. y \in Settings
      BY ZenonT(60), <1>3, <3>1 DEF Settings
    <3>. HIDE DEF y
    <3>4. [y EXCEPT !.rtw = Converted(s.turnDomain, s.rtwNs, c),
                    !.wtr = Converted(s.turnDomain, s.wtrNs, c)] \in Settings
      BY ZenonT(60), <2>2, <3>3 DEF Settings
    <3>. QED
      BY <3>2, <3>4
  <2>4. SameModes(v, s)
    BY <1>6, <2>1 DEF SameModes, Settings
  <2>. QED
    BY SMTT(60), <1>6, <2>1, <2>3, <2>4 DEF Settings
<1>. HIDE DEF v
<1>8. WithClock(s, c) = IF s.trefiNs # 0 THEN Retimed(v) ELSE v
  BY DEF WithClock, a, l, r, v
<1>9. s.trefiNs = 0 => s.trefi = Converted("ns", s.trefiNs, c)
  <2>1. s.clock \in Nat \ {0} /\ s.trefi = Converted("ns", s.trefiNs, s.clock)
    BY DEF Consistent, Settings
  <2>. QED
    BY <2>1, ConvertedType
<1>10. s.mode # "none" => s.trefiNs > 0
  BY DEF Consistent
<1>11. s.mapping = "xor" => PowerOfTwo(Channels)
  BY DEF Consistent, XorNeedsPowerOfTwo
<1>12. CASE s.trefiNs # 0
  <2>1. WithClock(s, c) = Retimed(v)
    BY <1>8, <1>12
  <2>. QED
    BY <1>5, <1>6, <1>7, <1>10, <1>11, <2>1, RetimedType
       DEF Consistent, XorNeedsPowerOfTwo, SameTimings, SameModes
<1>13. CASE s.trefiNs = 0
  <2>1. WithClock(s, c) = v
    BY <1>8, <1>13
  <2>2. v.mode = s.mode /\ v.type = s.type /\ v.mapping = s.mapping /\ v.trefiNs = s.trefiNs
        /\ v.trefi = s.trefi
    BY <1>7 DEF SameModes
  <2>3. /\ v.readLat = Converted(v.latDomain, v.readNs, v.clock)
        /\ v.writeLat = Converted(v.latDomain, v.writeNs, v.clock)
        /\ v.timeout = Converted(v.toDomain, v.timeoutNs, v.clock)
        /\ v.rtw = Converted(v.turnDomain, v.rtwNs, v.clock)
        /\ v.wtr = Converted(v.turnDomain, v.wtrNs, v.clock)
    BY <1>5, <1>6, <1>7
  <2>4. v.trefi = Converted("ns", v.trefiNs, v.clock)
    BY <1>7, <1>9, <1>13, <2>2
  <2>5. Consistent(v)
    BY <1>7, <1>10, <1>11, <2>2, <2>3, <2>4 DEF Consistent, XorNeedsPowerOfTwo
  <2>. QED
    BY <1>7, <2>1, <2>2, <2>5
<1>. QED
  BY <1>12, <1>13

\* Boards are made of what the setters accept.
LEMMA BoardConsistent ==
    ASSUME NEW b \in Boards
    PROVE  LET s == Configured(b[1], b[2], b[3], b[4], b[5], b[6], b[7])
           IN  XorNeedsPowerOfTwo(s) => Consistent(s)
<1>1. /\ b[1] \in Nat \ {0} /\ b[2] \in LatencyValues /\ b[3] \in RowValues /\ b[4] \in Nat \X Nat
      /\ b[5] \in {"burst", "row", "xor"} /\ b[6] \in TurnValues /\ b[7] \in RefreshValues
  BY SettersAssumption
<1>. DEFINE z == [Created("dram") EXCEPT !.clock = b[1]]
            r == WithRow(WithLatency(z, b[2]), b[3], b[4])
            m == [r EXCEPT !.mapping = b[5]]
            v == WithTurnaround(m, b[6])
            s == WithRefresh(v, b[7])
<1>2. Consistent(z)
  <2>1. z \in Settings
    BY <1>1, CreatedConsistent DEF Consistent, Settings
  <2>2. /\ z.clock = b[1] /\ z.readNs = 1 /\ z.writeNs = 1 /\ z.latDomain = "core" /\ z.readLat = 1
        /\ z.writeLat = 1 /\ z.toDomain = "core" /\ z.timeoutNs = 0 /\ z.timeout = 0
        /\ z.turnDomain = "core" /\ z.rtwNs = 0 /\ z.wtrNs = 0 /\ z.rtw = 0 /\ z.wtr = 0
        /\ z.trefiNs = 0 /\ z.trefi = 0 /\ z.mode = "none" /\ z.mapping = "burst"
    BY <1>1 DEF Created
  <2>3. \A d \in Domains : Converted(d, 0, b[1]) = 0
    BY <1>1, ConvertedType
  <2>4. Converted("core", 1, b[1]) = 1
    BY DEF Converted
  <2>. QED
    BY <2>1, <2>2, <2>3, <2>4 DEF Consistent, XorNeedsPowerOfTwo, Domains
<1>. HIDE DEF z
<1>3. Consistent(r)
  BY <1>1, <1>2, LatencyConsistent, RowConsistent
<1>. HIDE DEF r
<1>. SUFFICES ASSUME XorNeedsPowerOfTwo(s) PROVE Consistent(s)
  BY DEF Configured, r, z
<1>4. s.mapping = b[5]
  <2>1. r \in Settings
    BY <1>3 DEF Consistent
  <2>2. m.mapping = b[5]
    BY <2>1 DEF Settings
  <2>. HIDE DEF m
  <2>3. v.mapping = b[5]
    BY <2>2 DEF WithTurnaround
  <2>. HIDE DEF v
  <2>. QED
    BY <2>3 DEF WithRefresh, Retimed
<1>5. b[5] = "xor" => PowerOfTwo(Channels)
  BY <1>4 DEF XorNeedsPowerOfTwo
<1>6. Consistent(m)
  <2>1. m \in Settings
    BY <1>1, <1>3 DEF Consistent, Settings
  <2>. QED
    BY <1>3, <1>5, <2>1 DEF Consistent, Settings, XorNeedsPowerOfTwo
<1>. HIDE DEF m
<1>7. Consistent(v)
  BY <1>1, <1>6, TurnConsistent
<1>. HIDE DEF v
<1>. QED
  BY <1>1, <1>7, RefreshConsistent

-----------------------------------------------------------------------------
(* Catching up with the refreshes.                                          *)

\* Integers below a bound have a greatest.
LEMMA GreatestInteger ==
    ASSUME NEW G \in SUBSET Int, G # {}, NEW u \in Int, \A g \in G : g <= u
    PROVE  \E g \in G : \A h \in G : h <= g
<1>. DEFINE T == {u - g : g \in G}
<1>1. \A g \in G : u - g \in Nat
  OBVIOUS
<1>2. T \in SUBSET Nat
  BY <1>1
<1>3. T # {}
  OBVIOUS
<1>4. PICK d \in T : \A e \in T : d <= e
  <2>. HIDE DEF T
  <2>. QED
    BY <1>2, <1>3, LeastNatural
<1>5. PICK g \in G : d = u - g
  OBVIOUS
<1>6. \A h \in G : u - h \in T
  OBVIOUS
<1>7. \A h \in G : h <= g
  <2>. HIDE DEF T
  <2>. TAKE h \in G
  <2>1. u - g <= u - h
    BY <1>4, <1>5, <1>6
  <2>. QED
    BY <2>1
<1>. QED
  BY <1>7

Deferral == IF setting.sched = "fixed" THEN 0 ELSE setting.maxdef
SlotStates == [next : Nat, until : Nat, at : Nat, gap : Int]

RefreshInv ==
    /\ refresh \in [DramBank -> SlotStates]
    /\ \A b \in DramBank : refresh[b].at <= now
    /\ \A b \in Slots(setting) :
          /\ refresh[b].next <= refresh[b].at + Interval(setting)
          /\ refresh[b].gap <= Interval(setting) + Deferral

LEMMA SlotsType ==
    ASSUME Consistent(setting)
    PROVE  /\ \A b \in Slots(setting) : b \in DramBank /\ Interval(setting) \in Nat \ {0}
           /\ \A b \in DramBank : setting.mode # "none" => SlotOf(setting, b) \in DramBank
           /\ \A b \in DramBank : setting.mode # "none" /\ setting.type # "ideal" =>
                 SlotOf(setting, b) \in Slots(setting)
           /\ Interval(setting) \in Nat /\ Deferral \in Nat
<1>1. setting \in Settings
  BY DEF Consistent
<1>2. /\ setting.trefi \in Nat /\ setting.rate \in Nat \ {0} /\ setting.maxdef \in Nat
      /\ setting.mode \in {"none", "all", "per"} /\ setting.type \in {"dram", "ideal"}
      /\ setting.clock \in Nat \ {0} /\ setting.trefiNs \in Nat
  BY <1>1 DEF Settings
<1>3. Interval(setting) \in Nat /\ (setting.trefi > 0 => Interval(setting) > 0)
  BY <1>2, Rounding DEF Interval
<1>4. setting.mode # "none" => setting.trefi > 0
  BY <1>2, ConvertedType DEF Consistent
<1>5. 0 \in DramBank
  BY DramAssumption DEF DramBank
<1>. QED
  BY <1>2, <1>3, <1>4, <1>5 DEF Slots, SlotOf, Deferral

\* The refreshes that fire are those due, in order, none further from the one
\* before than the interval and the deferral.
LEMMA CatchUp ==
    ASSUME Consistent(setting), RefreshInv, now \in Nat,
           NEW t \in Nat, now <= t, NEW onAccess \in BOOLEAN, NEW b \in Slots(setting)
    PROVE  LET r == CaughtUp(t, onAccess)[b]
               I == Interval(setting)
           IN  /\ r \in SlotStates /\ r.at <= t
               /\ r.next <= r.at + I /\ r.gap <= I + Deferral
               /\ r.next > Horizon(t, onAccess)
               /\ r.next = refresh[b].next => r.at = refresh[b].at
<1>. DEFINE I == Interval(setting)
            limit == Horizon(t, onAccess)
            following == refresh[b].next
            at == refresh[b].at
            n == Fires(b, t, onAccess)
            fired(k) == IF k = 0 THEN at ELSE FireAt(b, k, t, onAccess)
            gaps == {fired(k) - fired(k - 1) : k \in 1 .. n}
            r == CaughtUp(t, onAccess)[b]
<1>1. b \in DramBank /\ I \in Nat \ {0} /\ Deferral \in Nat
  BY SlotsType
<1>2. /\ refresh[b] \in SlotStates /\ following \in Nat /\ at \in Nat /\ at <= now
      /\ following <= at + I
  BY <1>1 DEF RefreshInv, SlotStates
<1>3. limit \in Int /\ limit <= t
  <2>1. setting.maxdef \in Nat
    BY DEF Consistent, Settings
  <2>. QED
    BY <2>1 DEF Horizon
<1>4. r = IF n = 0 THEN [refresh[b] EXCEPT !.gap = 0]
          ELSE [next |-> following + n * I, until |-> fired(n) + Lockout, at |-> fired(n),
                gap |-> CHOOSE g \in gaps : \A h \in gaps : h <= g]
  BY <1>1 DEF CaughtUp
<1>5. n = IF following > limit THEN 0 ELSE (limit - following) \div I + 1
  BY DEF Fires
<1>. HIDE DEF r
<1>6. CASE following > limit
  <2>1. n = 0
    BY <1>5, <1>6
  <2>2. r = [refresh[b] EXCEPT !.gap = 0]
    BY <1>4, <2>1
  <2>3. r \in SlotStates /\ r.next = following /\ r.at = at /\ r.gap = 0
    BY <1>2, <2>2 DEF SlotStates
  <2>. QED
    BY <1>1, <1>2, <1>6, <2>3 DEF r
<1>7. CASE ~ (following > limit)
  <2>. DEFINE q == (limit - following) \div I
              m == (limit - following) % I
  <2>1. limit - following \in Nat
    BY <1>2, <1>3, <1>7
  <2>2. q \in Nat /\ m \in 0 .. I - 1 /\ limit - following = I * q + m /\ n = q + 1
    <3>1. n = q + 1
      BY <1>5, <1>7
    <3>. DEFINE x == limit - following
    <3>. HIDE DEF I, limit, following, n
    <3>2. x \in Nat
      BY <2>1
    <3>. HIDE DEF x
    <3>3. x \div I \in Nat /\ x % I \in 0 .. I - 1 /\ x = I * (x \div I) + (x % I)
      BY <1>1, <3>2, Division
    <3>. QED
      BY <3>1, <3>3 DEF x
  <2>. HIDE DEF q, m
  <2>. DEFINE due(k) == following + (k - 1) * I
  <2>3. /\ n \in Nat \ {0} /\ n * I = I * q + I /\ due(n) = following + I * q
        /\ \A k \in 1 .. n : due(k) \in Int
        /\ \A k \in 2 .. n : due(k) = due(k - 1) + I
    <3>1. n \in Nat \ {0} /\ n - 1 = q
      BY <2>2
    <3>. HIDE DEF n, following, I
    <3>2. n * I = I * q + I /\ due(n) = following + I * q
      BY <1>1, <1>2, <2>2, <3>1
    <3>3. \A k \in 1 .. n : due(k) \in Int
      BY <1>1, <1>2, <3>1
    <3>4. \A k \in 2 .. n : due(k) = due(k - 1) + I
      <4>. TAKE k \in 2 .. n
      <4>1. ASSUME NEW j \in Nat PROVE (j + 1) * I = j * I + I
        BY <1>1
      <4>2. k - 2 \in Nat /\ k - 1 = (k - 2) + 1 /\ k - 1 - 1 = k - 2
        BY <3>1
      <4>3. (k - 1) * I = (k - 1 - 1) * I + I
        BY <4>1, <4>2
      <4>. QED
        BY <1>1, <1>2, <3>1, <4>2, <4>3
    <3>. QED
      BY <3>1, <3>2, <3>3, <3>4
  <2>4. due(n) <= limit /\ following + n * I > limit /\ following + n * I = due(n) + I /\ due(1) = following
        /\ following + n * I \in Nat
    <3>1. I * q \in Nat
      BY <1>1, <2>2
    <3>2. due(1) = following
      BY <1>1, <1>2
    <3>. HIDE DEF n, following, I, limit, due
    <3>. QED
      BY <1>1, <1>2, <1>3, <2>2, <2>3, <3>1, <3>2
  <2>5. \A k \in 1 .. n : fired(k) =
            IF setting.sched = "fixed" THEN due(k)
            ELSE IF onAccess THEN Least(t, due(k) + setting.maxdef) ELSE due(k) + setting.maxdef
    BY DEF FireAt
  <2>6. setting.maxdef \in Nat /\ limit = IF setting.sched = "fixed" \/ onAccess THEN t
                                          ELSE t - setting.maxdef
    BY DEF Consistent, Settings, Horizon
  <2>. HIDE DEF fired, due, n, limit, I, following, at
  <2>7. /\ fired(n) \in Int /\ due(n) <= fired(n) /\ fired(n) <= t
        /\ fired(1) \in Int /\ fired(1) <= following + Deferral
    <3>1. n \in 1 .. n /\ 1 \in 1 .. n /\ due(n) \in Int /\ due(1) \in Int
      BY <2>3
    <3>2. CASE setting.sched = "fixed"
      BY <1>2, <1>3, <2>4, <2>5, <2>6, <3>1, <3>2 DEF Deferral
    <3>3. CASE setting.sched # "fixed" /\ onAccess
      BY <1>2, <1>3, <2>4, <2>5, <2>6, <3>1, <3>3 DEF Deferral, Least
    <3>4. CASE setting.sched # "fixed" /\ ~ onAccess
      BY <1>2, <1>3, <2>4, <2>5, <2>6, <3>1, <3>4 DEF Deferral
    <3>. QED
      BY <3>2, <3>3, <3>4
  <2>8. fired(0) = at
    BY DEF fired
  <2>9. \A k \in 1 .. n : fired(k) - fired(k - 1) \in Int /\ fired(k) - fired(k - 1) <= I + Deferral
    <3>. SUFFICES ASSUME NEW k \in 1 .. n
                  PROVE  fired(k) - fired(k - 1) \in Int /\ fired(k) - fired(k - 1) <= I + Deferral
      OBVIOUS
    <3>1. CASE k = 1
      BY <1>1, <1>2, <2>7, <2>8, <3>1
    <3>2. CASE k # 1
      <4>1. k \in 2 .. n /\ k - 1 \in 1 .. n /\ due(k) = due(k - 1) + I
            /\ due(k) \in Int /\ due(k - 1) \in Int
        BY <2>3, <3>2
      <4>. DEFINE d == due(k)
                  e == due(k - 1)
      <4>2. /\ fired(k) = IF setting.sched = "fixed" THEN d
                          ELSE IF onAccess THEN Least(t, d + setting.maxdef) ELSE d + setting.maxdef
            /\ fired(k - 1) = IF setting.sched = "fixed" THEN e
                              ELSE IF onAccess THEN Least(t, e + setting.maxdef) ELSE e + setting.maxdef
        BY <2>5, <4>1
      <4>3. d = e + I /\ d \in Int /\ e \in Int
        BY <4>1
      <4>. HIDE DEF d, e
      <4>. QED
        BY <1>1, <2>6, <4>2, <4>3 DEF Least
    <3>. QED
      BY <3>1, <3>2
  <2>10. PICK g \in gaps : g = CHOOSE x \in gaps : \A h \in gaps : h <= x
    <3>1. gaps \in SUBSET Int /\ \A x \in gaps : x <= I + Deferral
      BY <2>9
    <3>2. gaps # {}
      <4>1. 1 \in 1 .. n
        BY <2>3
      <4>. QED
        BY <4>1
    <3>. HIDE DEF gaps
    <3>3. I + Deferral \in Int
      BY <1>1
    <3>4. \E x \in gaps : \A h \in gaps : h <= x
      BY <3>1, <3>2, <3>3, GreatestInteger
    <3>. QED
      BY <3>4
  <2>11. g \in Int /\ g <= I + Deferral
    BY <2>9
  <2>12. r = [next |-> following + n * I, until |-> fired(n) + Lockout, at |-> fired(n), gap |-> g]
    <3>1. n # 0
      BY <2>3
    <3>. HIDE DEF gaps
    <3>. QED
      BY <1>4, <2>10, <3>1
  <2>13. fired(n) \in Nat /\ Lockout \in Nat
    <3>1. I * q \in Nat /\ due(n) \in Nat
      BY <1>1, <1>2, <2>2, <2>3
    <3>2. Lockout \in Nat
      BY DEF Lockout, Consistent, Settings
    <3>. QED
      BY <2>7, <3>1, <3>2
  <2>14. r \in SlotStates
    BY <2>4, <2>11, <2>12, <2>13 DEF SlotStates
  <2>15. following + n * I # following
    BY <1>1, <1>2, <1>3, <1>7, <2>4
  <2>16. r.at = fired(n) /\ r.next = following + n * I /\ r.gap = g
    BY <2>12
  <2>. QED
    BY <1>1, <2>3, <2>4, <2>7, <2>11, <2>14, <2>15, <2>16 DEF r, I, limit, following
<1>. QED
  BY <1>6, <1>7

-----------------------------------------------------------------------------
(* The exclusive or of the hashed mapping.                                  *)

XorRow(f, i) ==
    [j \in Nat |-> IF i = 0 THEN j ELSE IF j = 0 THEN i
                   ELSE 2 * f[i \div 2][j \div 2] + ((i + j) % 2)]
XorBody(f) ==
    [i \in Nat |-> [j \in Nat |-> IF i = 0 THEN j ELSE IF j = 0 THEN i
                    ELSE 2 * f[i \div 2][j \div 2] + ((i + j) % 2)]]
XorUpTo(n, f) ==
    /\ f \in [0 .. n -> [Nat -> Nat]]
    /\ \A i \in 0 .. n : f[i] = XorRow(f, i)

LEMMA XorUnfolds == Xor = CHOOSE f : f = XorBody(f)
BY DEF Xor, XorBody

LEMMA Halves ==
    ASSUME NEW i \in Nat
    PROVE  /\ i \div 2 \in Nat /\ i % 2 \in {0, 1} /\ i = 2 * (i \div 2) + (i % 2)
           /\ i > 0 => i \div 2 < i
           /\ i \div 2 <= i
OBVIOUS

LEMMA XorRowType ==
    ASSUME NEW i \in Nat, NEW f, i > 0 => f[i \div 2] \in [Nat -> Nat]
    PROVE  XorRow(f, i) \in [Nat -> Nat]
<1>. SUFFICES ASSUME NEW j \in Nat
              PROVE  (IF i = 0 THEN j ELSE IF j = 0 THEN i
                      ELSE 2 * f[i \div 2][j \div 2] + ((i + j) % 2)) \in Nat
  BY DEF XorRow
<1>1. CASE i = 0 \/ j = 0
  BY <1>1
<1>2. CASE i # 0 /\ j # 0
  <2>1. j \div 2 \in Nat /\ (i + j) % 2 \in {0, 1}
    BY Halves
  <2>2. f[i \div 2][j \div 2] \in Nat
    BY <1>2, <2>1
  <2>. DEFINE x == f[i \div 2][j \div 2]
              y == (i + j) % 2
  <2>. HIDE DEF x, y
  <2>3. 2 * x + y \in Nat
    BY <2>1, <2>2 DEF x, y
  <2>. QED
    BY <1>2, <2>3 DEF x, y
<1>. QED
  BY <1>1, <1>2

LEMMA XorApproximations ==
    ASSUME NEW n \in Nat
    PROVE  \E f : XorUpTo(n, f)
<1>. DEFINE T == {m \in Nat : \E f : XorUpTo(m, f)}
<1>1. 0 \in T
  <2>. DEFINE f == [i \in 0 .. 0 |-> [j \in Nat |-> j]]
  <2>1. f \in [0 .. 0 -> [Nat -> Nat]]
    OBVIOUS
  <2>2. \A i \in 0 .. 0 : f[i] = XorRow(f, i)
    BY DEF XorRow
  <2>. QED
    BY <2>1, <2>2 DEF XorUpTo
<1>2. ASSUME NEW m \in T PROVE m + 1 \in T
  <2>1. PICK f : XorUpTo(m, f)
    OBVIOUS
  <2>. DEFINE g == [i \in 0 .. m + 1 |-> IF i = m + 1 THEN XorRow(f, m + 1) ELSE f[i]]
  <2>2. f \in [0 .. m -> [Nat -> Nat]] /\ \A i \in 0 .. m : f[i] = XorRow(f, i)
    BY <2>1 DEF XorUpTo
  <2>3. m \in Nat /\ (m + 1) \div 2 \in 0 .. m
    <3>1. m \in Nat
      OBVIOUS
    <3>. QED
      BY <3>1
  <2>4. XorRow(f, m + 1) \in [Nat -> Nat]
    <3>. DEFINE h == (m + 1) \div 2
    <3>1. m + 1 \in Nat /\ h \in 0 .. m
      BY <2>3
    <3>. HIDE DEF h
    <3>2. f[h] \in [Nat -> Nat]
      BY <2>2, <3>1
    <3>. QED
      BY <3>1, <3>2, XorRowType DEF h
  <2>5. g \in [0 .. m + 1 -> [Nat -> Nat]]
    <3>1. \A i \in 0 .. m + 1 : i # m + 1 => i \in 0 .. m
      BY <2>3
    <3>. QED
      BY <2>2, <2>4, <3>1
  <2>6. \A i \in 0 .. m + 1 : i # 0 => g[i \div 2] = f[i \div 2]
    <3>1. \A i \in 0 .. m + 1 : i # 0 => i \div 2 \in 0 .. m /\ i \div 2 # m + 1 /\ i \div 2 \in 0 .. m + 1
      BY <2>3
    <3>. QED
      BY <3>1
  <2>7. \A i \in 0 .. m + 1 : XorRow(g, i) = XorRow(f, i)
    <3>. HIDE DEF g
    <3>. QED
      BY <2>6 DEF XorRow
  <2>8. \A i \in 0 .. m + 1 : g[i] = XorRow(f, i)
    <3>1. \A i \in 0 .. m + 1 : i # m + 1 => i \in 0 .. m
      BY <2>3
    <3>. QED
      BY <2>2, <3>1
  <2>9. m + 1 \in Nat
    BY <2>3
  <2>. HIDE DEF g
  <2>10. XorUpTo(m + 1, g)
    BY <2>5, <2>7, <2>8 DEF XorUpTo
  <2>. QED
    BY <2>9, <2>10
<1>. HIDE DEF T
<1>3. T \in SUBSET Nat
  BY DEF T
<1>4. T = Nat
  BY <1>1, <1>2, <1>3, InductionOnNaturals
<1>. QED
  BY <1>4 DEF T

LEMMA XorAgree ==
    ASSUME NEW m \in Nat, NEW n \in Nat, NEW f, NEW g, XorUpTo(m, f), XorUpTo(n, g)
    PROVE  \A k \in Nat : k <= m /\ k <= n => f[k] = g[k]
<1>. DEFINE T == {k \in Nat : k <= m /\ k <= n /\ f[k] # g[k]}
<1>. SUFFICES ASSUME T # {} PROVE FALSE
  OBVIOUS
<1>1. PICK k \in T : \A l \in T : k <= l
  <2>1. T \in SUBSET Nat
    OBVIOUS
  <2>. HIDE DEF T
  <2>. QED
    BY <2>1, LeastNatural
<1>2. k \in Nat /\ k <= m /\ k <= n /\ f[k] # g[k]
  OBVIOUS
<1>3. f[k] = XorRow(f, k) /\ g[k] = XorRow(g, k)
  BY <1>2 DEF XorUpTo
<1>4. k # 0 => f[k \div 2] = g[k \div 2]
  <2>. SUFFICES ASSUME k # 0 PROVE f[k \div 2] = g[k \div 2]
    OBVIOUS
  <2>1. k \div 2 \in Nat /\ k \div 2 < k
    BY <1>2, Halves
  <2>. DEFINE h == k \div 2
  <2>. HIDE DEF h
  <2>2. h \notin T /\ h <= m /\ h <= n /\ h \in Nat
    BY <1>1, <1>2, <2>1 DEF h
  <2>3. f[h] = g[h]
    BY <2>2
  <2>. QED
    BY <2>3 DEF h
<1>5. XorRow(f, k) = XorRow(g, k)
  BY <1>4 DEF XorRow
<1>. QED
  BY <1>2, <1>3, <1>5

\* The recursion has a solution, and Xor is one.
LEMMA XorRecurs ==
    /\ \A i, j \in Nat : Xor[i][j] = IF i = 0 THEN j ELSE IF j = 0 THEN i
                                     ELSE 2 * Xor[i \div 2][j \div 2] + ((i + j) % 2)
    /\ \A i, j \in Nat : Xor[i][j] \in Nat
<1>. DEFINE F(i) == CHOOSE f : XorUpTo(i, f)
            G == [i \in Nat |-> F(i)[i]]
<1>1. \A i \in Nat : XorUpTo(i, F(i))
  BY XorApproximations
<1>. HIDE DEF F
<1>2. \A i \in Nat : G[i] = XorRow(G, i)
  <2>. TAKE i \in Nat
  <2>1. F(i)[i] = XorRow(F(i), i)
    BY <1>1 DEF XorUpTo
  <2>2. i # 0 => F(i)[i \div 2] = G[i \div 2]
    <3>1. i \div 2 \in Nat /\ i \div 2 <= i
      BY Halves
    <3>2. XorUpTo(i, F(i)) /\ XorUpTo(i \div 2, F(i \div 2))
      BY <1>1, <3>1
    <3>. DEFINE h == i \div 2
    <3>. HIDE DEF h
    <3>3. F(i)[h] = F(h)[h]
      BY <3>1, <3>2, XorAgree DEF h
    <3>. QED
      BY <3>1, <3>3 DEF h
  <2>3. XorRow(F(i), i) = XorRow(G, i)
    <3>. HIDE DEF G
    <3>. QED
      BY <2>2 DEF XorRow
  <2>. QED
    BY <2>1, <2>3
<1>3. G = XorBody(G)
  <2>1. \A i \in Nat : G[i] = XorBody(G)[i]
    <3>. HIDE DEF G
    <3>. QED
      BY <1>2 DEF XorBody, XorRow
  <2>2. DOMAIN G = Nat /\ DOMAIN XorBody(G) = Nat
    BY DEF XorBody
  <2>3. G = [i \in Nat |-> G[i]] /\ XorBody(G) = [i \in Nat |-> XorBody(G)[i]]
    BY DEF XorBody
  <2>. HIDE DEF G
  <2>. QED
    BY <2>1, <2>3
<1>4. Xor = XorBody(Xor)
  <2>. HIDE DEF G
  <2>. QED
    BY <1>3, XorUnfolds
<1>5. \A i, j \in Nat : Xor[i][j] = IF i = 0 THEN j ELSE IF j = 0 THEN i
                                     ELSE 2 * Xor[i \div 2][j \div 2] + ((i + j) % 2)
  <2>. TAKE i, j \in Nat
  <2>. DEFINE f == Xor
  <2>1. f = XorBody(f)
    BY <1>4
  <2>. HIDE DEF f
  <2>2. XorBody(f)[i][j] = IF i = 0 THEN j ELSE IF j = 0 THEN i
                           ELSE 2 * f[i \div 2][j \div 2] + ((i + j) % 2)
    BY DEF XorBody
  <2>3. f[i][j] = XorBody(f)[i][j]
    BY <2>1
  <2>. QED
    BY <2>2, <2>3 DEF f
<1>. DEFINE T == {i \in Nat : \E j \in Nat : Xor[i][j] \notin Nat}
<1>6. T = {}
  <2>. SUFFICES ASSUME T # {} PROVE FALSE
    OBVIOUS
  <2>1. PICK i \in T : \A l \in T : i <= l
    <3>1. T \in SUBSET Nat
      OBVIOUS
    <3>. HIDE DEF T
    <3>. QED
      BY <3>1, LeastNatural
  <2>2. PICK j \in Nat : Xor[i][j] \notin Nat
    OBVIOUS
  <2>3. i \in Nat /\ i # 0 /\ j # 0 /\ Xor[i][j] = 2 * Xor[i \div 2][j \div 2] + ((i + j) % 2)
    BY <1>5, <2>2
  <2>4. i \div 2 \in Nat /\ i \div 2 < i /\ j \div 2 \in Nat /\ (i + j) % 2 \in {0, 1}
    BY <2>3, Halves
  <2>5. i \div 2 \notin T
    <3>. HIDE DEF T
    <3>. QED
      BY <2>1, <2>3, <2>4
  <2>6. Xor[i \div 2][j \div 2] \in Nat
    BY <2>4, <2>5
  <2>. DEFINE x == Xor[i \div 2][j \div 2]
              y == (i + j) % 2
  <2>. HIDE DEF x, y
  <2>7. 2 * x + y \in Nat
    BY <2>4, <2>6 DEF x, y
  <2>. QED
    BY <2>2, <2>3, <2>7 DEF x, y
<1>. QED
  BY <1>5, <1>6

LEMMA XorEqual == \A i \in Nat : Xor[i][i] = 0
<1>. DEFINE T == {i \in Nat : Xor[i][i] # 0}
<1>. SUFFICES ASSUME T # {} PROVE FALSE
  OBVIOUS
<1>1. PICK i \in T : \A l \in T : i <= l
  <2>1. T \in SUBSET Nat
    OBVIOUS
  <2>. HIDE DEF T
  <2>. QED
    BY <2>1, LeastNatural
<1>2. i \in Nat /\ Xor[i][i] # 0
  OBVIOUS
<1>3. i # 0 /\ Xor[i][i] = 2 * Xor[i \div 2][i \div 2] + ((i + i) % 2)
  BY <1>2, XorRecurs
<1>4. i \div 2 \in Nat /\ i \div 2 < i /\ (i + i) % 2 = 0
  BY <1>2, <1>3, Halves
<1>5. i \div 2 \notin T
  <2>. HIDE DEF T
  <2>. QED
    BY <1>1, <1>2, <1>4
<1>6. Xor[i \div 2][i \div 2] = 0
  BY <1>4, <1>5
<1>. QED
  BY <1>2, <1>3, <1>4, <1>6

\* What is combined twice is as it was.
LEMMA XorTwice == \A i, j \in Nat : Xor[Xor[i][j]][j] = i
<1>. DEFINE T == {i \in Nat : \E j \in Nat : Xor[Xor[i][j]][j] # i}
<1>. SUFFICES ASSUME T # {} PROVE FALSE
  OBVIOUS
<1>1. PICK i \in T : \A l \in T : i <= l
  <2>1. T \in SUBSET Nat
    OBVIOUS
  <2>. HIDE DEF T
  <2>. QED
    BY <2>1, LeastNatural
<1>2. PICK j \in Nat : Xor[Xor[i][j]][j] # i
  OBVIOUS
<1>. DEFINE p == i \div 2
            q == j \div 2
            y == Xor[p][q]
            x == Xor[i][j]
            bit == (i + j) % 2
<1>3. i \in Nat /\ x \in Nat
  BY XorRecurs
<1>4. i # 0 /\ j # 0
  <2>1. i = 0 => x = j
    BY <1>3, XorRecurs
  <2>2. j = 0 => x = i
    BY <1>3, XorRecurs
  <2>. QED
    BY <1>2, <1>3, <2>1, <2>2, XorEqual, XorRecurs
<1>5. /\ p \in Nat /\ q \in Nat /\ p < i /\ bit \in {0, 1}
      /\ i = 2 * p + (i % 2) /\ j = 2 * q + (j % 2) /\ i % 2 \in {0, 1} /\ j % 2 \in {0, 1}
      /\ bit = IF i % 2 = j % 2 THEN 0 ELSE 1
  BY <1>3, <1>4
<1>6. y \in Nat /\ x = 2 * y + bit
  <2>1. Xor[p][q] \in Nat
    BY <1>5, XorRecurs
  <2>. QED
    BY <1>3, <1>4, <2>1, XorRecurs
<1>7. Xor[y][q] = p
  <2>1. p \notin T
    <3>. HIDE DEF T, p
    <3>. QED
      BY <1>1, <1>3, <1>5
  <2>. QED
    BY <1>5, <2>1
<1>8. Xor[x][j] = IF x = 0 THEN j ELSE 2 * Xor[x \div 2][q] + ((x + j) % 2)
  BY <1>3, <1>4, XorRecurs
<1>. HIDE DEF p, q, y, x, bit
<1>9. x \div 2 = y /\ x % 2 = bit
  BY <1>5, <1>6
<1>10. CASE x = 0
  <2>1. y = 0 /\ bit = 0
    BY <1>5, <1>6, <1>10
  <2>2. Xor[0][q] = q
    BY <1>5, XorRecurs
  <2>3. p = q
    BY <1>7, <2>1, <2>2
  <2>4. i = j
    BY <1>5, <2>1, <2>3
  <2>. QED
    BY <1>2, <1>8, <1>10, <2>4 DEF x
<1>11. CASE x # 0
  <2>1. (x + j) % 2 = i % 2
    BY <1>3, <1>5, <1>9
  <2>2. Xor[x][j] = 2 * p + (i % 2)
    BY <1>7, <1>8, <1>9, <1>11, <2>1
  <2>. QED
    BY <1>2, <1>5, <2>2 DEF x
<1>. QED
  BY <1>10, <1>11

\* Below a power of two, it stays below it.
LEMMA XorBelow ==
    \A n \in Nat \ {0} : PowerOfTwo(n) => \A i, j \in 0 .. n - 1 : Xor[i][j] \in 0 .. n - 1
<1>. DEFINE T == {n \in Nat \ {0} : PowerOfTwo(n) /\ \E i, j \in 0 .. n - 1 : Xor[i][j] \notin 0 .. n - 1}
<1>. SUFFICES ASSUME T # {} PROVE FALSE
  OBVIOUS
<1>1. PICK n \in T : \A l \in T : n <= l
  <2>1. T \in SUBSET Nat
    OBVIOUS
  <2>. HIDE DEF T
  <2>. QED
    BY <2>1, LeastNatural
<1>2. n \in Nat \ {0} /\ PowerOfTwo(n)
  OBVIOUS
<1>3. PICK i \in 0 .. n - 1, j \in 0 .. n - 1 : Xor[i][j] \notin 0 .. n - 1
  OBVIOUS
<1>. DEFINE p == i \div 2
            q == j \div 2
            y == Xor[p][q]
            m == n \div 2
            bit == (i + j) % 2
<1>4. i # 0 /\ j # 0 /\ Xor[i][j] = 2 * y + bit
  <2>. HIDE DEF y, bit
  <2>1. i \in Nat /\ j \in Nat
    OBVIOUS
  <2>2. Xor[i][j] = IF i = 0 THEN j ELSE IF j = 0 THEN i ELSE 2 * y + bit
    BY <2>1, XorRecurs DEF y, bit
  <2>. QED
    BY <1>3, <2>2
<1>5. n > 1
  BY <1>2, <1>4
<1>6. n % 2 = 0
  <2>1. n \in 2 .. n /\ n % n = 0
    <3>1. n = n * 1 + 0 /\ 0 \in 0 .. n - 1 /\ 1 \in Nat /\ 0 \in Nat
      BY <1>2
    <3>2. n \div n \in Nat /\ n % n \in 0 .. n - 1 /\ n = n * (n \div n) + (n % n)
      BY <1>2, Division
    <3>3. n % n = 0
      <4>. DEFINE a == n \div n
                  r == n % n
      <4>. HIDE DEF a, r
      <4>1. r = 0
        BY <1>2, <3>1, <3>2, DivisionUnique DEF a, r
      <4>. QED
        BY <4>1 DEF r
    <3>. QED
      BY <1>2, <1>5, <3>3
  <2>. QED
    BY <1>2, <2>1 DEF PowerOfTwo
<1>7. n = 2 * m /\ m \in Nat \ {0} /\ m < n
  BY <1>2, <1>5, <1>6
<1>8. PowerOfTwo(m)
  <2>. SUFFICES ASSUME NEW d \in 2 .. m, m % d = 0 PROVE d % 2 = 0
    BY DEF PowerOfTwo
  <2>1. d \in Nat \ {0} /\ d \in 2 .. n
    BY <1>7
  <2>. DEFINE k == m \div d
  <2>2. k \in Nat /\ m = d * k + 0
    BY <1>7, <2>1, Division
  <2>. HIDE DEF k, m
  <2>3. n = d * (2 * k) + 0 /\ 2 * k \in Nat /\ 0 \in 0 .. d - 1
    <3>1. d * k + d * k = d * (2 * k)
      BY <2>1, <2>2
    <3>. QED
      BY <1>7, <2>1, <2>2, <3>1
  <2>4. n % d = 0
    <3>. DEFINE a == n \div d
                r == n % d
                k2 == 2 * k
    <3>1. a \in Nat /\ r \in 0 .. d - 1 /\ n = d * a + r
      BY <1>2, <2>1, Division
    <3>. HIDE DEF a, r, k2
    <3>2. n = d * k2 + 0 /\ k2 \in Nat
      BY <2>3 DEF k2
    <3>3. d * a + r = d * k2 + 0
      BY <3>1, <3>2
    <3>4. r = 0
      BY <2>1, <2>3, <3>1, <3>2, <3>3, DivisionUnique
    <3>. QED
      BY <3>4 DEF r
  <2>. QED
    BY <1>2, <2>1, <2>4 DEF PowerOfTwo
<1>9. p \in 0 .. m - 1 /\ q \in 0 .. m - 1 /\ bit \in {0, 1}
  <2>1. i \in Nat /\ j \in Nat /\ i < n /\ j < n
    OBVIOUS
  <2>. QED
    BY <1>7, <2>1
<1>10. y \in 0 .. m - 1
  <2>1. m \notin T
    <3>. HIDE DEF T, m
    <3>. QED
      BY <1>1, <1>2, <1>7
  <2>. HIDE DEF p, q, m
  <2>. QED
    BY <1>7, <1>8, <1>9, <2>1
<1>. HIDE DEF y, bit, m
<1>11. 2 * y + bit \in 0 .. n - 1
  BY <1>7, <1>9, <1>10
<1>. QED
  BY <1>3, <1>4, <1>11

-----------------------------------------------------------------------------
(* Addresses.                                                               *)

LEMMA PlacedInRow ==
    ASSUME NEW R \in Nat \ {0}, NEW q \in Nat, NEW s \in 0 .. R - 1
    PROVE  (R * q + s) \div R = q /\ (R * q + s) % R = s /\ R * q + s \in Nat
<1>. DEFINE x == R * q + s
            p == x \div R
            r == x % R
<1>1. x \in Nat
  <2>1. R * q \in Nat
    OBVIOUS
  <2>. QED
    BY <2>1
<1>2. p \in Nat /\ r \in 0 .. R - 1 /\ x = R * p + r
  <2>. HIDE DEF x
  <2>. QED
    BY <1>1, Division
<1>3. R * q + s = R * p + r
  BY <1>2
<1>. HIDE DEF p, r
<1>4. q = p /\ s = r
  BY <1>2, <1>3, DivisionUnique
<1>. QED
  BY <1>1, <1>4 DEF p, r

\* A set numbered by 0 .. n - 1, each number once, has n elements.
LEMMA Numbered ==
    ASSUME NEW n \in Nat, NEW h, NEW S, h \in [0 .. n - 1 -> S],
           \A k \in S : \E s \in 0 .. n - 1 : h[s] = k,
           \A s, t \in 0 .. n - 1 : h[s] = h[t] => s = t
    PROVE  Cardinality(S) = n
<1>1. h \in Bijection(0 .. n - 1, S)
  BY DEF Bijection, Injection, IsInjective, Surjection
<1>2. IsFiniteSet(0 .. n - 1) /\ Cardinality(0 .. n - 1) = n
  <2>1. 0 \in Int /\ n - 1 \in Int
    OBVIOUS
  <2>2. IsFiniteSet(0 .. n - 1) /\ Cardinality(0 .. n - 1) = IF 0 > n - 1 THEN 0 ELSE (n - 1) - 0 + 1
    BY <2>1, FS_Interval
  <2>. QED
    BY <2>2
<1>. QED
  BY <1>1, <1>2, FS_Bijection DEF ExistsBijection

LEMMA DecodeBurst ==
    ASSUME NEW k \in Nat
    PROVE  (k * BurstBytes) \div BurstBytes = k
<1>. DEFINE B == BurstBytes
<1>1. B \in Nat \ {0}
  BY DramAssumption
<1>2. k * B = B * k + 0 /\ 0 \in 0 .. B - 1
  <2>. HIDE DEF B
  <2>. QED
    BY <1>1
<1>. HIDE DEF B
<1>3. (B * k + 0) \div B = k
  BY <1>1, <1>2, PlacedInRow
<1>. QED
  BY <1>2, <1>3 DEF B

LEMMA RowHolds == BurstsPerRow \in Nat \ {0}
<1>1. RowBytes \div BurstBytes \in Nat
  BY DramAssumption, Division
<1>. QED
  BY <1>1 DEF BurstsPerRow

\* What is below the product of three numbers, by quotients and remainders.
LEMMA Grid ==
    ASSUME NEW A \in Nat \ {0}, NEW B \in Nat \ {0}, NEW D \in Nat \ {0},
           NEW b \in 0 .. D - 1, NEW y \in 0 .. B - 1, NEW x \in 0 .. A - 1
    PROVE  /\ B * b + y \in 0 .. B * D - 1
           /\ A * (B * b + y) + x \in 0 .. A * (B * D) - 1
<1>1. ASSUME NEW P \in Nat \ {0}, NEW Q \in Nat \ {0}, NEW u \in 0 .. Q - 1, NEW v \in 0 .. P - 1
      PROVE  P * u + v \in 0 .. P * Q - 1
  <2>1. P * (Q - 1 - u) >= 0 /\ P * (Q - 1 - u) = P * Q - P - P * u
    OBVIOUS
  <2>2. P * u \in Nat /\ P * Q \in Nat
    OBVIOUS
  <2>. QED
    BY <2>1, <2>2
<1>2. B * D \in Nat \ {0}
  OBVIOUS
<1>3. B * b + y \in 0 .. B * D - 1
  BY <1>1
<1>. QED
  BY <1>1, <1>2, <1>3

\* The bursts of row 0 of a bank when rows are spread over the channels, and
\* when bursts are.
RowsOf(A, B, D, c, b) ==
    {k \in 0 .. A * (B * D) - 1 :
        /\ (k \div A) % B = c /\ ((k \div A) \div B) % D = b
        /\ ((k \div A) \div B) \div D = 0}

LEMMA RowsSpread ==
    ASSUME NEW A \in Nat \ {0}, NEW B \in Nat \ {0}, NEW D \in Nat \ {0},
           NEW c \in 0 .. B - 1, NEW b \in 0 .. D - 1
    PROVE  Cardinality(RowsOf(A, B, D, c, b)) = A
<1>. DEFINE S == RowsOf(A, B, D, c, b)
            x == B * b + c
            h == [s \in 0 .. A - 1 |-> A * x + s]
<1>1. x \in Nat /\ x % B = c /\ x \div B = b
  BY PlacedInRow
<1>2. b % D = b /\ b \div D = 0
  <2>1. D * 0 + b = b /\ 0 \in Nat
    OBVIOUS
  <2>2. (D * 0 + b) \div D = 0 /\ (D * 0 + b) % D = b
    BY <2>1, PlacedInRow
  <2>. QED
    BY <2>1, <2>2
<1>3. \A s \in 0 .. A - 1 : A * x + s \in 0 .. A * (B * D) - 1
  BY Grid
<1>. HIDE DEF x
<1>4. \A s \in 0 .. A - 1 : A * x + s \in S
  <2>. TAKE s \in 0 .. A - 1
  <2>. DEFINE k == A * x + s
  <2>1. k \div A = x /\ k \in 0 .. A * (B * D) - 1
    BY <1>1, <1>3, PlacedInRow
  <2>. HIDE DEF k
  <2>2. k \in S
    BY <1>1, <1>2, <2>1 DEF RowsOf
  <2>. QED
    BY <2>2 DEF k
<1>5. \A k \in S : \E s \in 0 .. A - 1 : A * x + s = k
  <2>. TAKE k \in S
  <2>. DEFINE w == k \div A
              s == k % A
              u == w \div B
  <2>1. k \in Nat
    BY DEF RowsOf
  <2>2. w \in Nat /\ s \in 0 .. A - 1 /\ k = A * w + s
    BY <2>1, Division
  <2>3. w % B = c /\ u % D = b /\ u \div D = 0
    BY DEF RowsOf
  <2>. HIDE DEF w, s
  <2>4. u \in Nat /\ w = B * u + c
    BY <2>2, <2>3, Division
  <2>. HIDE DEF u
  <2>5. u = D * 0 + b
    BY <2>3, <2>4, Division
  <2>6. w = x
    BY <2>4, <2>5 DEF x
  <2>. QED
    BY <2>2, <2>6
<1>. HIDE DEF S
<1>6. \A s, t \in 0 .. A - 1 : A * x + s = A * x + t => s = t
  BY <1>1
<1>7. Cardinality(S) = A
  <2>0. A \in Nat
    OBVIOUS
  <2>1. h \in [0 .. A - 1 -> S]
    BY <1>4
  <2>2. \A s \in 0 .. A - 1 : h[s] = A * x + s
    OBVIOUS
  <2>. HIDE DEF h
  <2>3. /\ \A k \in S : \E s \in 0 .. A - 1 : h[s] = k
        /\ \A s, t \in 0 .. A - 1 : h[s] = h[t] => s = t
    BY <1>5, <1>6, <2>2
  <2>. QED
    BY <2>0, <2>1, <2>3, Numbered
<1>. QED
  BY <1>7 DEF S

BurstsOf(A, B, D, c, b) ==
    {k \in 0 .. A * (B * D) - 1 :
        /\ k % A = c /\ ((k \div A) \div B) % D = b
        /\ ((k \div A) \div B) \div D = 0}

LEMMA BurstsSpread ==
    ASSUME NEW A \in Nat \ {0}, NEW B \in Nat \ {0}, NEW D \in Nat \ {0},
           NEW c \in 0 .. A - 1, NEW b \in 0 .. D - 1
    PROVE  Cardinality(BurstsOf(A, B, D, c, b)) = B
<1>. DEFINE S == BurstsOf(A, B, D, c, b)
            h == [s \in 0 .. B - 1 |-> A * (B * b + s) + c]
<1>2. b % D = b /\ b \div D = 0
  <2>1. D * 0 + b = b /\ 0 \in Nat
    OBVIOUS
  <2>2. (D * 0 + b) \div D = 0 /\ (D * 0 + b) % D = b
    BY <2>1, PlacedInRow
  <2>. QED
    BY <2>1, <2>2
<1>3. \A s \in 0 .. B - 1 : A * (B * b + s) + c \in 0 .. A * (B * D) - 1
  BY Grid
<1>4. \A s \in 0 .. B - 1 : A * (B * b + s) + c \in S
  <2>. TAKE s \in 0 .. B - 1
  <2>. DEFINE x == B * b + s
              k == A * x + c
  <2>1. x \in Nat /\ x \div B = b
    BY PlacedInRow
  <2>. HIDE DEF x
  <2>2. k \div A = x /\ k % A = c
    BY <2>1, PlacedInRow
  <2>3. k \in 0 .. A * (B * D) - 1
    BY <1>3 DEF x
  <2>. HIDE DEF k
  <2>4. k \in S
    BY <1>2, <2>1, <2>2, <2>3 DEF BurstsOf
  <2>. QED
    BY <2>4 DEF k, x
<1>5. \A k \in S : \E s \in 0 .. B - 1 : A * (B * b + s) + c = k
  <2>. TAKE k \in S
  <2>. DEFINE w == k \div A
              u == w \div B
              s == w % B
  <2>1. k \in Nat /\ k % A = c
    BY DEF BurstsOf
  <2>2. w \in Nat /\ k = A * w + c
    BY <2>1, Division
  <2>3. u % D = b /\ u \div D = 0
    BY DEF BurstsOf
  <2>. HIDE DEF w
  <2>4. u \in Nat /\ s \in 0 .. B - 1 /\ w = B * u + s
    BY <2>2, Division
  <2>. HIDE DEF u, s
  <2>5. u = D * 0 + b
    BY <2>3, <2>4, Division
  <2>. QED
    BY <2>2, <2>4, <2>5
<1>. HIDE DEF S
<1>6. \A s, t \in 0 .. B - 1 : A * (B * b + s) + c = A * (B * b + t) + c => s = t
  <2>. TAKE s, t \in 0 .. B - 1
  <2>. DEFINE x == B * b + s
              y == B * b + t
  <2>1. x \in Nat /\ y \in Nat /\ (x = y => s = t)
    <3>1. B * b \in Nat
      OBVIOUS
    <3>. QED
      BY <3>1
  <2>2. (A * x + c) \div A = x /\ (A * y + c) \div A = y
    <3>. HIDE DEF x, y
    <3>. QED
      BY <2>1, PlacedInRow
  <2>. HIDE DEF x, y
  <2>3. A * x + c = A * y + c => s = t
    BY <2>1, <2>2
  <2>. QED
    BY <2>3 DEF x, y
<1>7. Cardinality(S) = B
  <2>0. B \in Nat
    OBVIOUS
  <2>1. h \in [0 .. B - 1 -> S]
    BY <1>4
  <2>2. \A s \in 0 .. B - 1 : h[s] = A * (B * b + s) + c
    OBVIOUS
  <2>. HIDE DEF h
  <2>3. /\ \A k \in S : \E s \in 0 .. B - 1 : h[s] = k
        /\ \A s, t \in 0 .. B - 1 : h[s] = h[t] => s = t
    BY <1>5, <1>6, <2>2
  <2>. QED
    BY <2>0, <2>1, <2>3, Numbered
<1>. QED
  BY <1>7 DEF S

LEMMA DecodeType ==
    ASSUME Consistent(setting), NEW addr \in Nat
    PROVE  /\ Decode(setting.mapping, addr).channel \in Channel
           /\ Decode(setting.mapping, addr).bank \in DramBank
           /\ Decode(setting.mapping, addr).row \in Nat
<1>. DEFINE burst == addr \div BurstBytes
            R == BurstsPerRow
            group == (burst \div Channels) \div R
            upper == burst \div R
<1>1. /\ Channels \in Nat \ {0} /\ DramBanks \in Nat \ {0} /\ BurstBytes \in Nat \ {0}
      /\ R \in Nat \ {0}
  BY DramAssumption, RowHolds
<1>. HIDE DEF R
<1>2. burst \in Nat
  BY <1>1, Division
<1>. HIDE DEF burst
<1>3. group \in Nat /\ upper \in Nat
  BY <1>1, <1>2, Division
<1>. HIDE DEF group, upper
<1>4. \A n \in Nat : /\ n % DramBanks \in DramBank /\ n \div DramBanks \in Nat
                     /\ n % Channels \in Channel /\ n \div Channels \in Nat
  BY <1>1, Division DEF DramBank, Channel
<1>5. setting.mapping = "xor" => Xor[burst % Channels][group % Channels] \in Channel
  <2>1. setting.mapping = "xor" => PowerOfTwo(Channels)
    BY DEF Consistent, XorNeedsPowerOfTwo
  <2>. QED
    BY <1>1, <1>2, <1>3, <1>4, <2>1, XorBelow DEF Channel
<1>6. setting.mapping \in {"burst", "row", "xor"}
  BY DEF Consistent, Settings
<1>7. Decode(setting.mapping, addr) =
        CASE setting.mapping = "row" -> Located(upper % Channels, upper \div Channels)
          [] setting.mapping = "burst" -> Located(burst % Channels, group)
          [] setting.mapping = "xor" -> Located(Xor[burst % Channels][group % Channels], group)
  BY DEF Decode, burst, R, group, upper
<1>. QED
  BY <1>2, <1>3, <1>4, <1>5, <1>6, <1>7 DEF Located

LEMMA Spreads ==
    ASSUME Consistent(setting)
    PROVE  MappingSpreads
<1>. DEFINE A == Channels
            D == DramBanks
            R == BurstsPerRow
            N == Channels * DramBanks * BurstsPerRow
<1>. SUFFICES ASSUME NEW c \in Channel, NEW b \in DramBank
              PROVE  Cardinality({k \in 0 .. N - 1 :
                        Decode(setting.mapping, k * BurstBytes)
                            = [channel |-> c, bank |-> b, row |-> 0]}) = R
  BY DEF MappingSpreads
<1>1. A \in Nat \ {0} /\ D \in Nat \ {0} /\ R \in Nat \ {0} /\ c \in 0 .. A - 1 /\ b \in 0 .. D - 1
  BY DramAssumption, RowHolds DEF Channel, DramBank
<1>2. N = A * (R * D) /\ N = R * (A * D)
  <2>1. N = (A * D) * R
    OBVIOUS
  <2>. HIDE DEF A, D, R, N
  <2>. QED
    BY <1>1, <2>1
<1>. DEFINE Of(k) == Decode(setting.mapping, k * BurstBytes)
            here == [channel |-> c, bank |-> b, row |-> 0]
<1>. DEFINE S == {k \in 0 .. N - 1 : Of(k) = here}
<1>. SUFFICES Cardinality(S) = R
  OBVIOUS
<1>3. \A ch, group : Located(ch, group) = here <=> ch = c /\ group % D = b /\ group \div D = 0
  BY DEF Located
<1>4. \A k \in 0 .. N - 1 : k \in Nat /\ (k * BurstBytes) \div BurstBytes = k
  <2>1. \A k \in 0 .. N - 1 : k \in Nat
    OBVIOUS
  <2>. QED
    BY <2>1, DecodeBurst
<1>5. \A k \in 0 .. N - 1 :
        Of(k) = CASE setting.mapping = "row" -> Located((k \div R) % A, (k \div R) \div A)
                  [] setting.mapping = "burst" -> Located(k % A, (k \div A) \div R)
                  [] setting.mapping = "xor" ->
                        Located(Xor[k % A][((k \div A) \div R) % A], (k \div A) \div R)
  BY <1>4 DEF Decode
<1>6. setting.mapping \in {"burst", "row", "xor"}
  BY DEF Consistent, Settings
<1>. HIDE DEF N, Of, here, A, R, D
<1>7. CASE setting.mapping = "row"
  <2>1. S = RowsOf(R, A, D, c, b)
    BY <1>2, <1>3, <1>5, <1>7 DEF RowsOf
  <2>. HIDE DEF S
  <2>. QED
    BY <1>1, RowsSpread, <2>1
<1>8. CASE setting.mapping = "burst"
  <2>1. S = BurstsOf(A, R, D, c, b)
    BY <1>2, <1>3, <1>5, <1>8 DEF BurstsOf
  <2>. HIDE DEF S
  <2>. QED
    BY <1>1, BurstsSpread, <2>1
<1>9. CASE setting.mapping = "xor"
  <2>. DEFINE g == b % A
              e == Xor[c][g]
  <2>1. g \in 0 .. A - 1
    BY <1>1, Division
  <2>2. PowerOfTwo(A)
    BY <1>9 DEF Consistent, XorNeedsPowerOfTwo, A
  <2>3. e \in 0 .. A - 1
    BY <1>1, <2>1, <2>2, XorBelow
  <2>. HIDE DEF g
  <2>4. \A i \in 0 .. A - 1 : Xor[i][g] = c <=> i = e
    <3>1. \A i \in 0 .. A - 1 : i \in Nat
      OBVIOUS
    <3>. QED
      BY <1>1, <2>1, <3>1, XorTwice
  <2>. HIDE DEF e
  <2>5. \A k \in 0 .. N - 1 : Of(k) = here <=>
            k % A = e /\ ((k \div A) \div R) % D = b /\ ((k \div A) \div R) \div D = 0
    <3>. TAKE k \in 0 .. N - 1
    <3>. DEFINE group == (k \div A) \div R
    <3>1. k % A \in 0 .. A - 1 /\ group \in Nat
      <4>1. k \in Nat
        OBVIOUS
      <4>2. k \div A \in Nat /\ k % A \in 0 .. A - 1
        BY <1>1, <4>1, Division
      <4>. QED
        BY <1>1, <4>2, Division
    <3>2. Of(k) = Located(Xor[k % A][group % A], group)
      BY <1>5, <1>9
    <3>. HIDE DEF group
    <3>3. group % D = b /\ group \div D = 0 => group = b
      <4>1. group = D * (group \div D) + (group % D)
        BY <1>1, <3>1, Division
      <4>. QED
        BY <1>1, <4>1
    <3>4. group = b => Xor[k % A][group % A] = Xor[k % A][g]
      BY DEF g
    <3>5. Of(k) = here <=> k % A = e /\ group % D = b /\ group \div D = 0
      BY <1>3, <2>4, <3>1, <3>2, <3>3, <3>4
    <3>. QED
      BY <3>5 DEF group
  <2>6. S = BurstsOf(A, R, D, e, b)
    BY <1>2, <2>5 DEF BurstsOf
  <2>. HIDE DEF S
  <2>. QED
    BY <1>1, <2>3, BurstsSpread, <2>6
<1>. QED
  BY <1>6, <1>7, <1>8, <1>9

-----------------------------------------------------------------------------
(* The invariant.                                                           *)

\* What is left of a window's budget and what it let pass make up its budget
\* at most.
WindowInv ==
    /\ window \in [size : Nat, start : 0 .. MaxNow, budget : Nat, pending : Nat, unstalled : Nat]
    /\ window.budget + window.unstalled <= WindowBudget

Buses == [Channel -> [free : Nat, dir : {"none", "read", "write"}]]
RowStates == [open : {NoRow} \cup Nat, used : 0 .. MaxNow \cup {Never}]

\* A row that is open was used after the last refresh of its bank.
RowsInv ==
    /\ rows \in [Channel -> [DramBank -> RowStates]]
    /\ setting.policy # "legacy" /\ setting.mode # "none" =>
          \A c \in Channel, b \in DramBank :
             rows[c][b].open # NoRow => refresh[SlotOf(setting, b)].at <= rows[c][b].used

DramInv ==
    /\ Consistent(setting) /\ now \in 0 .. MaxNow /\ channels \in Buses
    /\ WindowInv /\ RefreshInv /\ RowsInv /\ RefreshOnTime

LEMMA ScheduleFresh ==
    ASSUME NEW s, Consistent(s)
    PROVE  /\ Schedule(s) \in [DramBank -> SlotStates]
           /\ \A b \in DramBank : Schedule(s)[b].at = 0 /\ Schedule(s)[b].gap = 0
           /\ \A b \in Slots(s) : b \in DramBank /\ Schedule(s)[b].next <= Interval(s)
           /\ Interval(s) \in Nat
<1>1. s.trefi \in Nat /\ s.rate \in Nat \ {0} /\ s.mode \in {"none", "all", "per"}
  <2>1. s \in Settings
    BY DEF Consistent
  <2>2. s.trefi \in Nat /\ s.rate \in {1, 2, 4} /\ s.mode \in {"none", "all", "per"}
    BY <2>1 DEF Settings
  <2>3. s.clock \in Nat \ {0} /\ s.trefiNs \in Nat
    BY <2>1 DEF Settings
  <2>. QED
    BY <2>2, <2>3
<1>2. Interval(s) \in Nat
  BY <1>1, Rounding DEF Interval
<1>. DEFINE I == Interval(s)
            due(b) == CASE s.mode = "all" /\ b = 0 -> I
                        [] s.mode = "per" -> ((b + 1) * I) \div DramBanks
                        [] OTHER -> Never
<1>. HIDE DEF I
<1>4. Never \in Nat
  BY DramAssumption DEF Never
<1>5. ASSUME NEW b \in DramBank
      PROVE  ((b + 1) * I) \div DramBanks \in Nat /\ ((b + 1) * I) \div DramBanks <= I
  <2>. DEFINE D == DramBanks
              x == (b + 1) * I
              q == x \div D
  <2>1. D \in Nat \ {0} /\ b \in Nat /\ b + 1 <= D /\ I \in Nat
    BY <1>2, DramAssumption DEF DramBank, I
  <2>2. x \in Nat /\ x <= D * I
    <3>1. (D - (b + 1)) * I >= 0 /\ (D - (b + 1)) * I = D * I - x
      <4>. HIDE DEF D
      <4>. QED
        BY <2>1
    <3>. HIDE DEF D
    <3>. QED
      BY <2>1, <3>1
  <2>. HIDE DEF x, D
  <2>3. q \in Nat /\ D * q <= x
    <3>1. q \in Nat /\ x % D \in 0 .. D - 1 /\ x = D * q + (x % D)
      BY <2>1, <2>2, Division
    <3>. DEFINE r == x % D
    <3>. HIDE DEF q, r
    <3>2. q \in Nat /\ r \in 0 .. D - 1 /\ x = D * q + r
      BY <3>1 DEF r
    <3>. QED
      BY <2>1, <3>2
  <2>. HIDE DEF q
  <2>4. q <= I
    <3>. SUFFICES ASSUME q > I PROVE FALSE
      BY <2>1, <2>3
    <3>1. D * (q - I) >= D /\ D * (q - I) = D * q - D * I
      <4>1. q - I >= 1 /\ q - I \in Int
        BY <2>1, <2>3
      <4>. QED
        BY <2>1, <2>3, <4>1
    <3>. QED
      BY <2>1, <2>2, <2>3, <3>1
  <2>. QED
    BY <2>3, <2>4 DEF q, x, D
<1>6. \A b \in DramBank : due(b) \in Nat
  BY <1>2, <1>4, <1>5 DEF I
<1>7. \A b \in Slots(s) : b \in DramBank /\ due(b) <= I
  <2>1. 0 \in DramBank
    BY DramAssumption DEF DramBank
  <2>. QED
    BY <1>1, <1>2, <1>5, <2>1 DEF Slots, I
<1>. DEFINE f == Schedule(s)
            e == [b \in DramBank |-> due(b)]
<1>8. f = [b \in DramBank |-> [next |-> e[b], until |-> 0, at |-> 0, gap |-> 0]]
  BY DEF Schedule, I
<1>9. e \in [DramBank -> Nat] /\ \A b \in Slots(s) : b \in DramBank /\ e[b] <= I
  BY <1>6, <1>7
<1>. HIDE DEF due, f, e
<1>10. f \in [DramBank -> SlotStates]
  BY <1>8, <1>9 DEF SlotStates
<1>11. \A b \in DramBank : f[b].at = 0 /\ f[b].gap = 0 /\ f[b].next = e[b]
  BY <1>8
<1>12. \A b \in Slots(s) : b \in DramBank /\ f[b].next <= I
  BY <1>9, <1>11
<1>. QED
  BY <1>2, <1>10, <1>11, <1>12 DEF I, f

LEMMA BudgetType == ASSUME NEW s \in Settings PROVE (Bandwidth * 2 * DramWindow) \div s.clock \in Nat
<1>. DEFINE x == Bandwidth * 2 * DramWindow
            y == s.clock
<1>1. x \in Nat /\ y \in Nat \ {0}
  BY DramAssumption DEF Settings
<1>. HIDE DEF x, y
<1>2. x \div y \in Nat
  BY <1>1, Division
<1>. QED
  BY <1>2 DEF x, y

LEMMA ClosedRows ==
    /\ Closed \in [Channel -> [DramBank -> RowStates]]
    /\ \A c \in Channel, b \in DramBank : Closed[c][b].open = NoRow
BY DEF Closed, RowStates

LEMMA DramInvInit == DramInit => DramInv
<1>. SUFFICES ASSUME DramInit PROVE DramInv
  OBVIOUS
<1>1. Consistent(setting)
  <2>1. CASE setting \in {Created("dram"), Created("ideal")}
    BY <2>1, CreatedConsistent
  <2>2. CASE \E b \in Boards :
             /\ setting = Configured(b[1], b[2], b[3], b[4], b[5], b[6], b[7])
             /\ XorNeedsPowerOfTwo(setting)
    BY <2>2, BoardConsistent
  <2>. QED
    BY <2>1, <2>2 DEF DramInit
<1>2. /\ now = 0 /\ window = FreshWindow /\ channels = Undirected /\ rows = Closed
      /\ refresh = Schedule(setting) /\ last = Report("set")
  BY DEF DramInit
<1>3. now \in 0 .. MaxNow
  BY <1>2, DramAssumption
<1>4. channels \in Buses
  BY <1>2 DEF Undirected, Buses
<1>5. WindowInv
  <2>1. WindowBudget \in Nat
    BY <1>1, BudgetType DEF Consistent, WindowBudget
  <2>. QED
    BY <1>2, <1>3, <2>1 DEF FreshWindow, WindowInv
<1>6. Interval(setting) \in Nat /\ Deferral \in Nat
  BY <1>1, SlotsType
<1>7. RefreshInv
  BY <1>1, <1>2, <1>6, ScheduleFresh DEF RefreshInv
<1>8. RowsInv
  BY <1>2, ClosedRows DEF RowsInv
<1>9. RefreshOnTime
  BY <1>2 DEF RefreshOnTime, Report
<1>. QED
  BY <1>1, <1>3, <1>4, <1>5, <1>7, <1>8, <1>9 DEF DramInv

\* A reconfiguration that leaves the refreshes and the clock.
LEMMA Reconfigured ==
    ASSUME DramInv, Consistent(setting'), last' = Report("set"),
           now' = now, window' = window, refresh' = refresh, channels' \in Buses,
           setting'.clock = setting.clock, setting'.mode = setting.mode,
           setting'.type = setting.type, setting'.sched = setting.sched,
           setting'.trefi = setting.trefi, setting'.rate = setting.rate,
           setting'.maxdef = setting.maxdef,
           rows' = Closed \/ (rows' = rows /\ setting'.policy = setting.policy)
    PROVE  DramInv'
<1>1. WindowInv'
  BY DEF DramInv, WindowInv, WindowBudget
<1>2. RefreshInv'
  <2>1. Slots(setting)' = Slots(setting)
    BY DEF Slots
  <2>2. Interval(setting)' = Interval(setting)
    BY DEF Interval
  <2>3. Deferral' = Deferral
    BY DEF Deferral
  <2>. QED
    BY <2>1, <2>2, <2>3 DEF DramInv, RefreshInv
<1>3. RowsInv'
  <2>1. CASE rows' = Closed
    BY <2>1, ClosedRows DEF RowsInv
  <2>2. CASE rows' = rows /\ setting'.policy = setting.policy
    <3>1. \A b : SlotOf(setting, b)' = SlotOf(setting, b)
      BY DEF SlotOf
    <3>. QED
      BY <2>2 DEF DramInv, RowsInv, SlotOf
  <2>. QED
    BY <2>1, <2>2
<1>4. RefreshOnTime'
  BY DEF RefreshOnTime, Report
<1>. QED
  BY <1>1, <1>2, <1>3, <1>4 DEF DramInv

LEMMA SettersKeep ==
    ASSUME DramInv
    PROVE  /\ \A l \in Latencies : SetLatency(l) => DramInv'
           /\ \A on \in BOOLEAN : SetRowModeling(on) => DramInv'
           /\ \A r \in RowSettings, p \in RowPenalties : SetRowPolicy(r, p) => DramInv'
           /\ \A m \in Mappings : SetMapping(m) => DramInv'
           /\ \A t \in Turnarounds : SetTurnaround(t) => DramInv'
           /\ \A r, w \in {BurstBytes, 2 * BurstBytes} : SetGranules(r, w) => DramInv'
<1>1. Consistent(setting) /\ setting \in Settings /\ channels \in Buses
  BY DEF DramInv, Consistent
<1>2. ASSUME NEW l \in Latencies, SetLatency(l) PROVE DramInv'
  <2>1. l \in LatencyValues
    BY SettersAssumption
  <2>2. setting' = WithLatency(setting, l) /\ last' = Report("set")
        /\ UNCHANGED <<now, window, channels, rows, refresh>>
    BY <1>2 DEF SetLatency, Reconfigure
  <2>3. Consistent(setting')
    BY <1>1, <2>1, <2>2, LatencyConsistent
  <2>4. /\ setting'.clock = setting.clock /\ setting'.mode = setting.mode
        /\ setting'.type = setting.type /\ setting'.sched = setting.sched
        /\ setting'.trefi = setting.trefi /\ setting'.rate = setting.rate
        /\ setting'.maxdef = setting.maxdef /\ setting'.policy = setting.policy
    BY <1>1, <2>2 DEF WithLatency, Settings
  <2>. QED
    BY <1>1, <2>2, <2>3, <2>4, Reconfigured
<1>3. ASSUME NEW on \in BOOLEAN, SetRowModeling(on) PROVE DramInv'
  <2>2. setting' = [setting EXCEPT !.rowModel = on] /\ last' = Report("set")
        /\ UNCHANGED <<now, window, channels, rows, refresh>>
    BY <1>3 DEF SetRowModeling, Reconfigure
  <2>3. Consistent(setting')
    <3>1. setting' \in Settings
      BY <1>1, <2>2 DEF Settings
    <3>. QED
      BY <1>1, <2>2, <3>1 DEF Consistent, XorNeedsPowerOfTwo, Settings
  <2>4. /\ setting'.clock = setting.clock /\ setting'.mode = setting.mode
        /\ setting'.type = setting.type /\ setting'.sched = setting.sched
        /\ setting'.trefi = setting.trefi /\ setting'.rate = setting.rate
        /\ setting'.maxdef = setting.maxdef /\ setting'.policy = setting.policy
    BY <1>1, <2>2 DEF Settings
  <2>. QED
    BY <1>1, <2>2, <2>3, <2>4, Reconfigured
<1>4. ASSUME NEW r \in RowSettings, NEW p \in RowPenalties, SetRowPolicy(r, p) PROVE DramInv'
  <2>1. r \in RowValues /\ p \in Nat \X Nat
    BY SettersAssumption
  <2>2. setting' = WithRow(setting, r, p) /\ last' = Report("set") /\ rows' = Closed
        /\ UNCHANGED <<now, window, channels, refresh>>
    BY <1>4 DEF SetRowPolicy, Reconfigure
  <2>3. /\ Consistent(setting')
        /\ setting'.clock = setting.clock /\ setting'.mode = setting.mode
        /\ setting'.type = setting.type /\ setting'.sched = setting.sched
        /\ setting'.trefi = setting.trefi /\ setting'.rate = setting.rate
        /\ setting'.maxdef = setting.maxdef
    BY <1>1, <2>1, <2>2, RowConsistent
  <2>4. channels' \in Buses /\ rows' = Closed /\ window' = window /\ refresh' = refresh /\ now' = now
        /\ last' = Report("set")
    BY <1>1, <2>2
  <2>. QED
    BY <2>3, <2>4, Reconfigured
<1>5. ASSUME NEW m \in Mappings, SetMapping(m) PROVE DramInv'
  <2>1. m \in {"burst", "row", "xor"}
    BY SettersAssumption
  <2>2. setting' = [setting EXCEPT !.mapping = m] /\ last' = Report("set") /\ rows' = Closed
        /\ UNCHANGED <<now, window, channels, refresh>>
        /\ XorNeedsPowerOfTwo(setting')
    BY <1>5 DEF SetMapping, Reconfigure
  <2>3. Consistent(setting')
    <3>1. setting' \in Settings
      BY <1>1, <2>1, <2>2 DEF Settings
    <3>. QED
      BY <1>1, <2>2, <3>1 DEF Consistent, Settings
  <2>4. /\ setting'.clock = setting.clock /\ setting'.mode = setting.mode
        /\ setting'.type = setting.type /\ setting'.sched = setting.sched
        /\ setting'.trefi = setting.trefi /\ setting'.rate = setting.rate
        /\ setting'.maxdef = setting.maxdef
    BY <1>1, <2>2 DEF Settings
  <2>. QED
    BY <1>1, <2>2, <2>3, <2>4, Reconfigured
<1>6. ASSUME NEW t \in Turnarounds, SetTurnaround(t) PROVE DramInv'
  <2>1. t \in TurnValues
    BY SettersAssumption
  <2>2. setting' = WithTurnaround(setting, t) /\ last' = Report("set")
        /\ channels' = [c \in Channel |-> [channels[c] EXCEPT !.dir = "none"]]
        /\ UNCHANGED <<now, window, rows, refresh>>
    BY <1>6 DEF SetTurnaround, Reconfigure
  <2>3. /\ Consistent(setting')
        /\ setting'.clock = setting.clock /\ setting'.mode = setting.mode
        /\ setting'.type = setting.type /\ setting'.sched = setting.sched
        /\ setting'.trefi = setting.trefi /\ setting'.rate = setting.rate
        /\ setting'.maxdef = setting.maxdef /\ setting'.policy = setting.policy
    BY <1>1, <2>1, <2>2, TurnConsistent
  <2>4. channels' \in Buses
    BY <1>1, <2>2 DEF Buses
  <2>. QED
    BY <2>2, <2>3, <2>4, Reconfigured
<1>7. ASSUME NEW r \in {BurstBytes, 2 * BurstBytes}, NEW w \in {BurstBytes, 2 * BurstBytes},
             SetGranules(r, w)
      PROVE  DramInv'
  <2>1. r \in Nat \ {0} /\ w \in Nat \ {0}
    BY DramAssumption
  <2>2. setting' = [setting EXCEPT !.readBurst = r, !.writeBurst = w] /\ last' = Report("set")
        /\ UNCHANGED <<now, window, channels, rows, refresh>>
    BY <1>7 DEF SetGranules, Reconfigure
  <2>3. Consistent(setting')
    <3>1. [setting EXCEPT !.readBurst = r, !.writeBurst = w] \in Settings
      BY ZenonT(60), <1>1, <2>1 DEF Settings
    <3>2. setting' \in Settings
      BY <2>2, <3>1
    <3>. QED
      BY <1>1, <2>2, <3>2 DEF Consistent, XorNeedsPowerOfTwo, Settings
  <2>4. /\ setting'.clock = setting.clock /\ setting'.mode = setting.mode
        /\ setting'.type = setting.type /\ setting'.sched = setting.sched
        /\ setting'.trefi = setting.trefi /\ setting'.rate = setting.rate
        /\ setting'.maxdef = setting.maxdef /\ setting'.policy = setting.policy
    BY <1>1, <2>2 DEF Settings
  <2>. QED
    BY <1>1, <2>2, <2>3, <2>4, Reconfigured
<1>. QED
  BY <1>2, <1>3, <1>4, <1>5, <1>6, <1>7

\* A schedule that starts anew fits any setting and any row.
LEMMA Rescheduled ==
    ASSUME DramInv, Consistent(setting'), refresh' = Schedule(setting')
    PROVE  /\ now' \in 0 .. MaxNow => RefreshInv'
           /\ rows' = rows => RowsInv'
<1>1. now' \in 0 .. MaxNow => RefreshInv'
  <2>1. Interval(setting)' \in Nat /\ Deferral' \in Nat
    <3>1. Interval(setting') \in Nat
      BY ScheduleFresh
    <3>2. setting'.maxdef \in Nat
      BY DEF Consistent, Settings
    <3>. QED
      BY <3>1, <3>2 DEF Deferral
  <2>. QED
    BY <2>1, ScheduleFresh DEF RefreshInv
<1>2. rows' = rows => RowsInv'
  <2>. SUFFICES ASSUME rows' = rows PROVE RowsInv'
    OBVIOUS
  <2>1. rows \in [Channel -> [DramBank -> RowStates]]
    BY DEF DramInv, RowsInv
  <2>2. \A c \in Channel, b \in DramBank : rows[c][b].used \in Nat
    <3>1. Never \in Nat
      BY DramAssumption DEF Never
    <3>. QED
      BY <2>1, <3>1, DramAssumption DEF RowStates
  <2>3. \A b \in DramBank : refresh'[b].at = 0
    BY ScheduleFresh
  <2>4. \A b \in DramBank : setting'.mode # "none" => SlotOf(setting, b)' \in DramBank
    BY DramAssumption DEF SlotOf, DramBank
  <2>. QED
    BY <2>1, <2>2, <2>3, <2>4 DEF RowsInv
<1>. QED
  BY <1>1, <1>2

LEMMA RefreshSet ==
    ASSUME DramInv, NEW r \in Refreshes, SetRefresh(r)
    PROVE  DramInv'
<1>1. Consistent(setting) /\ setting \in Settings /\ r \in RefreshValues
  BY SettersAssumption DEF DramInv, Consistent
<1>2. setting' = WithRefresh(setting, r) /\ last' = Report("set") /\ refresh' = Schedule(setting')
      /\ UNCHANGED <<now, window, channels, rows>>
  BY DEF SetRefresh, Reconfigure
<1>3. Consistent(setting')
  BY <1>1, <1>2, RefreshConsistent
<1>4. setting'.clock = setting.clock
  BY <1>1, <1>2 DEF WithRefresh, Retimed, Settings
<1>5. WindowInv'
  BY <1>2, <1>4 DEF DramInv, WindowInv, WindowBudget
<1>6. RefreshInv' /\ RowsInv'
  BY <1>2, <1>3, Rescheduled DEF DramInv
<1>7. RefreshOnTime'
  BY <1>2 DEF RefreshOnTime, Report
<1>. QED
  BY <1>2, <1>3, <1>5, <1>6, <1>7 DEF DramInv

LEMMA ClockSet ==
    ASSUME DramInv, NEW c \in Clocks, SetCoreClock(c)
    PROVE  DramInv'
<1>1. Consistent(setting) /\ setting \in Settings /\ c \in Nat \ {0}
  BY DramAssumption DEF DramInv, Consistent
<1>2. setting' = WithClock(setting, c) /\ last' = Report("set")
      /\ window' = [FreshWindow EXCEPT !.start = now]
      /\ refresh' = (IF setting.trefiNs # 0 THEN Schedule(setting') ELSE refresh)
      /\ UNCHANGED <<now, channels, rows>>
  BY DEF SetCoreClock, Reconfigure
<1>3. Consistent(setting') /\ setting'.mode = setting.mode /\ setting'.policy = setting.policy
  BY <1>1, <1>2, ClockConsistent
<1>4. WindowInv'
  <2>1. WindowBudget' \in Nat
    BY <1>3, BudgetType DEF Consistent, WindowBudget
  <2>. QED
    BY <1>2, <2>1 DEF FreshWindow, WindowInv, DramInv
<1>5. RefreshInv' /\ RowsInv'
  <2>1. CASE setting.trefiNs # 0
    BY <1>2, <1>3, <2>1, Rescheduled DEF DramInv
  <2>2. CASE setting.trefiNs = 0
    <3>1. setting.mode = "none" /\ setting'.mode = "none" /\ refresh' = refresh
      BY <1>1, <1>2, <1>3, <2>2 DEF Consistent
    <3>2. Slots(setting)' = {}
      BY <3>1 DEF Slots
    <3>. QED
      BY <1>2, <3>1, <3>2 DEF DramInv, RefreshInv, RowsInv
  <2>. QED
    BY <2>1, <2>2
<1>6. RefreshOnTime'
  BY <1>2 DEF RefreshOnTime, Report
<1>. QED
  BY <1>2, <1>3, <1>4, <1>5, <1>6 DEF DramInv

LEMMA ResetKeeps == DramInv /\ DramReset => DramInv'
<1>. SUFFICES ASSUME DramInv, DramReset PROVE DramInv'
  OBVIOUS
<1>1. /\ setting' = setting /\ now' = 0 /\ channels' = Undirected /\ rows' = Closed
      /\ window' = [window EXCEPT !.budget = 0, !.pending = 0, !.unstalled = 0]
      /\ refresh' = Schedule(setting') /\ last' = Report("set")
  BY DEF DramReset
<1>2. Consistent(setting') /\ now' \in 0 .. MaxNow
  BY <1>1, DramAssumption DEF DramInv
<1>3. WindowInv'
  <2>1. WindowBudget' \in Nat
    BY <1>2, BudgetType DEF Consistent, WindowBudget
  <2>2. window \in [size : Nat, start : 0 .. MaxNow, budget : Nat, pending : Nat, unstalled : Nat]
    BY DEF DramInv, WindowInv
  <2>3. window' \in [size : Nat, start : 0 .. MaxNow, budget : Nat, pending : Nat, unstalled : Nat]
    BY <1>1, <2>2
  <2>4. window'.budget = 0 /\ window'.unstalled = 0
    BY <1>1, <2>2
  <2>. QED
    BY <2>1, <2>3, <2>4 DEF WindowInv
<1>4. RefreshInv'
  BY <1>1, <1>2, Rescheduled
<1>5. RowsInv'
  BY <1>1, ClosedRows DEF RowsInv
<1>6. RefreshOnTime'
  BY <1>1 DEF RefreshOnTime, Report
<1>7. channels' \in Buses
  BY <1>1 DEF Undirected, Buses
<1>. QED
  BY <1>1, <1>2, <1>3, <1>4, <1>5, <1>6, <1>7 DEF DramInv

-----------------------------------------------------------------------------
(* A tick and an access.                                                    *)

LEMMA CaughtUpType ==
    ASSUME DramInv, NEW t \in Nat, now <= t, NEW onAccess \in BOOLEAN
    PROVE  LET after == CaughtUp(t, onAccess)
           IN  /\ after \in [DramBank -> SlotStates]
               /\ \A b \in DramBank : /\ after[b].at <= t
                                      /\ after[b].next = refresh[b].next => after[b].at = refresh[b].at
<1>. DEFINE after == CaughtUp(t, onAccess)
<1>1. Consistent(setting) /\ RefreshInv /\ now \in Nat
  BY DramAssumption DEF DramInv
<1>2. ASSUME NEW b \in DramBank
      PROVE  /\ after[b] \in SlotStates /\ after[b].at <= t
             /\ after[b].next = refresh[b].next => after[b].at = refresh[b].at
  <2>1. CASE b \in Slots(setting)
    BY <1>1, <2>1, CatchUp
  <2>2. CASE b \notin Slots(setting)
    <3>1. after[b] = [refresh[b] EXCEPT !.gap = 0]
      BY <2>2 DEF CaughtUp
    <3>2. refresh[b] \in SlotStates /\ refresh[b].at <= now
      BY <1>1 DEF RefreshInv
    <3>. HIDE DEF after
    <3>3. after[b] \in SlotStates /\ after[b].at = refresh[b].at
      BY <3>1, <3>2 DEF SlotStates
    <3>4. refresh[b].at \in Nat
      BY <3>2 DEF SlotStates
    <3>. QED
      BY <1>1, <3>2, <3>3, <3>4
  <2>. QED
    BY <2>1, <2>2
<1>3. after = [b \in DramBank |-> after[b]]
  BY DEF CaughtUp
<1>. HIDE DEF after
<1>4. after \in [DramBank -> SlotStates]
  BY <1>2, <1>3
<1>. QED
  BY <1>2, <1>4 DEF after

\* What a catch-up leaves of the refreshes.
LEMMA CaughtUpInv ==
    ASSUME DramInv, setting' = setting, now' \in 0 .. MaxNow, now <= now',
           NEW onAccess \in BOOLEAN, refresh' = CaughtUp(now', onAccess)
    PROVE  /\ RefreshInv'
           /\ \A b \in Slots(setting) : refresh'[b].next > Horizon(now', onAccess)
<1>1. now' \in Nat /\ now \in Nat /\ Consistent(setting) /\ RefreshInv
  BY DramAssumption DEF DramInv
<1>2. refresh' \in [DramBank -> SlotStates] /\ \A b \in DramBank : refresh'[b].at <= now'
  BY <1>1, CaughtUpType
<1>3. Slots(setting)' = Slots(setting) /\ Interval(setting)' = Interval(setting) /\ Deferral' = Deferral
  BY DEF Slots, Interval, Deferral
<1>4. \A b \in Slots(setting) :
         /\ refresh'[b].next <= refresh'[b].at + Interval(setting)
         /\ refresh'[b].gap <= Interval(setting) + Deferral
         /\ refresh'[b].next > Horizon(now', onAccess)
  BY <1>1, CatchUp
<1>. QED
  BY <1>2, <1>3, <1>4 DEF RefreshInv

\* Of the rows a catch-up leaves open, none was used before the last refresh
\* of its bank.
LEMMA PrechargedRows ==
    ASSUME DramInv, NEW t \in Nat, now <= t, NEW onAccess \in BOOLEAN
    PROVE  LET after == CaughtUp(t, onAccess)
           IN  /\ Precharged(after) \in [Channel -> [DramBank -> RowStates]]
               /\ setting.policy # "legacy" /\ setting.mode # "none" =>
                     \A c \in Channel, b \in DramBank :
                        Precharged(after)[c][b].open # NoRow =>
                            /\ Precharged(after)[c][b] = rows[c][b]
                            /\ after[SlotOf(setting, b)].at <= rows[c][b].used
<1>. DEFINE after == CaughtUp(t, onAccess)
            P == Precharged(after)
            fires(b) == /\ setting.policy # "legacy" /\ setting.mode # "none"
                        /\ after[SlotOf(setting, b)].next # refresh[SlotOf(setting, b)].next
<1>1. \A b \in DramBank : after[b].next = refresh[b].next => after[b].at = refresh[b].at
  BY CaughtUpType
<1>. HIDE DEF after
<1>2. P = [c \in Channel |-> [b \in DramBank |->
              IF fires(b) THEN [rows[c][b] EXCEPT !.open = NoRow] ELSE rows[c][b]]]
  BY DEF Precharged
<1>3. rows \in [Channel -> [DramBank -> RowStates]]
  BY DEF DramInv, RowsInv
<1>4. \A c \in Channel, b \in DramBank :
          P[c][b] = IF fires(b) THEN [rows[c][b] EXCEPT !.open = NoRow] ELSE rows[c][b]
  BY <1>2
<1>5. \A c \in Channel, b \in DramBank :
          /\ [rows[c][b] EXCEPT !.open = NoRow] \in RowStates
          /\ [rows[c][b] EXCEPT !.open = NoRow].open = NoRow
          /\ rows[c][b] \in RowStates
  BY <1>3 DEF RowStates
<1>. HIDE DEF fires
<1>6. P \in [Channel -> [DramBank -> RowStates]]
  BY <1>2, <1>5
<1>7. ASSUME setting.policy # "legacy", setting.mode # "none",
             NEW c \in Channel, NEW b \in DramBank, P[c][b].open # NoRow
      PROVE  P[c][b] = rows[c][b] /\ after[SlotOf(setting, b)].at <= rows[c][b].used
  <2>1. ~ fires(b) /\ P[c][b] = rows[c][b]
    BY ZenonT(60), <1>4, <1>5, <1>7
  <2>2. SlotOf(setting, b) \in DramBank
    BY <1>7, SlotsType DEF DramInv
  <2>3. after[SlotOf(setting, b)].at = refresh[SlotOf(setting, b)].at
    BY <1>1, <1>7, <2>1, <2>2 DEF fires
  <2>4. refresh[SlotOf(setting, b)].at <= rows[c][b].used
    BY <1>7, <2>1 DEF DramInv, RowsInv
  <2>. QED
    BY <2>1, <2>3, <2>4
<1>. QED
  BY <1>6, <1>7 DEF after

\* The budget of a window and what it lets pass.
WindowStates == [size : Nat, start : 0 .. MaxNow, budget : Nat, pending : Nat, unstalled : Nat]

LEMMA Refilled ==
    ASSUME DramInv, NEW t \in 0 .. MaxNow
    PROVE  RefilledAt(t) \in WindowStates
           /\ RefilledAt(t).budget + RefilledAt(t).unstalled <= WindowBudget
<1>. DEFINE w == IF window.size = 0 THEN [window EXCEPT !.size = DramWindow, !.start = t]
                 ELSE window
<1>1. window \in WindowStates /\ window.budget + window.unstalled <= WindowBudget /\ WindowBudget \in Nat
  BY BudgetType DEF DramInv, WindowInv, WindowStates, Consistent, WindowBudget
<1>2. w \in WindowStates /\ w.budget = window.budget /\ w.unstalled = window.unstalled
  BY <1>1, DramAssumption DEF WindowStates
<1>3. RefilledAt(t) = IF t < w.start \/ t - w.start >= w.size
                      THEN [w EXCEPT !.budget = WindowBudget, !.start = t, !.pending = 0, !.unstalled = 0]
                      ELSE w
  BY DEF RefilledAt
<1>. HIDE DEF w
<1>4. [w EXCEPT !.budget = WindowBudget, !.start = t, !.pending = 0, !.unstalled = 0] \in WindowStates
  BY <1>1, <1>2 DEF WindowStates
<1>5. [w EXCEPT !.budget = WindowBudget, !.start = t, !.pending = 0, !.unstalled = 0].budget = WindowBudget
      /\ [w EXCEPT !.budget = WindowBudget, !.start = t, !.pending = 0, !.unstalled = 0].unstalled = 0
  BY <1>2 DEF WindowStates
<1>. QED
  BY <1>1, <1>2, <1>3, <1>4, <1>5

LEMMA ConsumedFits ==
    ASSUME NEW w \in WindowStates, w.budget + w.unstalled <= WindowBudget, NEW bytes \in Nat,
           WindowBudget \in Nat
    PROVE  Consumed(w, bytes) \in WindowStates
           /\ Consumed(w, bytes).budget + Consumed(w, bytes).unstalled <= WindowBudget
<1>. DEFINE left == IF w.budget > bytes THEN w.budget - bytes ELSE 0
            passed == IF Contended(w, bytes) THEN w.unstalled ELSE w.unstalled + bytes
<1>1. w.budget \in Nat /\ w.unstalled \in Nat /\ w.pending \in Nat
  BY DEF WindowStates
<1>2. left \in Nat /\ passed \in Nat /\ left + passed <= WindowBudget
  BY <1>1 DEF Contended
<1>3. Consumed(w, bytes) = [w EXCEPT !.pending = w.pending + bytes, !.budget = left, !.unstalled = passed]
  BY DEF Consumed
<1>. HIDE DEF left, passed
<1>4. Consumed(w, bytes) \in WindowStates
  <2>1. w.pending + bytes \in Nat
    BY <1>1
  <2>2. [w EXCEPT !.pending = w.pending + bytes, !.budget = left, !.unstalled = passed] \in WindowStates
    BY <1>2, <2>1 DEF WindowStates
  <2>. QED
    BY <1>3, <2>2
<1>5. Consumed(w, bytes).budget = left /\ Consumed(w, bytes).unstalled = passed
  BY <1>3 DEF WindowStates
<1>. QED
  BY <1>2, <1>4, <1>5

LEMMA TickKeeps == DramInv /\ DramTick => DramInv'
<1>. SUFFICES ASSUME DramInv, DramTick PROVE DramInv'
  OBVIOUS
<1>1. /\ setting' = setting /\ now < MaxNow /\ now' = now + 1 /\ channels' = channels
      /\ window' = RefilledAt(now') /\ refresh' = CaughtUp(now', FALSE)
      /\ rows' = Precharged(CaughtUp(now', FALSE)) /\ last' = Report("tick")
  BY DEF DramTick
<1>2. now \in Nat /\ now' \in Nat /\ now <= now' /\ now' \in 0 .. MaxNow
  BY <1>1, DramAssumption DEF DramInv
<1>3. WindowInv'
  <2>1. WindowBudget' = WindowBudget
    BY <1>1 DEF WindowBudget
  <2>2. window' \in WindowStates /\ window'.budget + window'.unstalled <= WindowBudget
    BY <1>1, <1>2, Refilled
  <2>. QED
    BY <2>1, <2>2 DEF WindowInv, WindowStates
<1>4. RefreshInv' /\ \A b \in Slots(setting) : refresh'[b].next > Horizon(now', FALSE)
  BY <1>1, <1>2, CaughtUpInv
<1>5. RowsInv'
  <2>1. /\ rows' \in [Channel -> [DramBank -> RowStates]]
        /\ setting.policy # "legacy" /\ setting.mode # "none" =>
              \A c \in Channel, b \in DramBank :
                 rows'[c][b].open # NoRow =>
                     /\ rows'[c][b] = rows[c][b]
                     /\ refresh'[SlotOf(setting, b)].at <= rows[c][b].used
    BY <1>1, <1>2, PrechargedRows
  <2>. QED
    BY <1>1, <2>1 DEF RowsInv, SlotOf
<1>6. RefreshOnTime'
  <2>. SUFFICES ASSUME NEW b \in Slots(setting)
                PROVE  refresh'[b].next + (IF setting.sched = "fixed" THEN 0 ELSE setting.maxdef) > now'
    BY <1>1 DEF RefreshOnTime, Slots, Report
  <2>1. refresh'[b].next > Horizon(now', FALSE)
    BY <1>4
  <2>2. refresh'[b].next \in Nat /\ setting.maxdef \in Nat
    <3>1. b \in DramBank
      BY SlotsType DEF DramInv
    <3>. QED
      BY <1>4, <3>1 DEF RefreshInv, SlotStates, DramInv, Consistent, Settings
  <2>. QED
    BY <1>2, <2>1, <2>2 DEF Horizon
<1>. QED
  BY <1>1, <1>2, <1>3, <1>4, <1>5, <1>6 DEF DramInv

-----------------------------------------------------------------------------
\* The parts of an access are naturals.
LEMMA OccupiedType ==
    ASSUME Consistent(setting), NEW dir, NEW addr \in Nat, NEW bytes \in Nat
    PROVE  Occupied(dir, addr, bytes) \in Nat
<1>. DEFINE burst == IF dir = "read" THEN setting.readBurst ELSE setting.writeBurst
            span == IF setting.turnMode = "span" THEN bytes + (addr % burst) ELSE bytes
<1>1. burst \in Nat \ {0}
  BY DEF Consistent, Settings
<1>. HIDE DEF burst
<1>2. addr % burst \in Nat
  BY <1>1, Division
<1>3. span \in Nat
  BY <1>2
<1>. HIDE DEF span
<1>4. CeilDiv(span, burst) \in Nat
  BY <1>1, <1>3, Rounding
<1>5. CeilDiv(span, burst) * burst \in Nat
  <2>. DEFINE x == CeilDiv(span, burst)
  <2>. HIDE DEF x
  <2>1. x * burst \in Nat
    BY <1>1, <1>4 DEF x
  <2>. QED
    BY <2>1 DEF x
<1>6. Occupied(dir, addr, bytes) =
         IF setting.turnMode \in {"round", "span"} THEN CeilDiv(span, burst) * burst ELSE bytes
  BY DEF Occupied, span, burst
<1>. QED
  BY <1>5, <1>6

LEMMA ServiceType ==
    ASSUME DramInv, NEW bus \in [free : Nat, dir : {"none", "read", "write"}],
           NEW dir \in {"read", "write"}, NEW outcome, NEW occupied \in Nat,
           NEW after \in [DramBank -> SlotStates], NEW bank \in DramBank
    PROVE  /\ TurnCost(bus, dir) \in Nat /\ RowPenalty(outcome, dir) \in Nat
           /\ BurstCycles(occupied) \in Nat /\ RefreshWait(after, bank) \in Nat
<1>1. setting \in Settings /\ now \in Nat
  BY DramAssumption DEF DramInv, Consistent
<1>2. setting.rtw \in Nat /\ setting.wtr \in Nat /\ setting.miss \in Nat /\ setting.conflict \in Nat
  BY <1>1 DEF Settings
<1>3. bus.free \in Nat /\ FullCost(bus.dir, dir) \in Nat
  BY <1>2 DEF FullCost
<1>4. TurnCost(bus, dir) \in Nat
  BY <1>1, <1>3 DEF TurnCost
<1>5. RowPenalty(outcome, dir) \in Nat
  BY <1>2 DEF RowPenalty
<1>6. BurstCycles(occupied) \in Nat
  <2>1. CeilDiv(occupied, BusWidth) \in Nat
    BY Rounding, DramAssumption
  <2>. QED
    BY <2>1 DEF BurstCycles
<1>7. RefreshWait(after, bank) \in Nat
  <2>1. setting.mode # "none" => after[SlotOf(setting, bank)].until \in Nat
    <3>1. setting.mode # "none" => SlotOf(setting, bank) \in DramBank
      BY SlotsType DEF DramInv
    <3>. QED
      BY <3>1 DEF SlotStates
  <2>. QED
    BY <1>1, <2>1 DEF RefreshWait
<1>. QED
  BY <1>4, <1>5, <1>6, <1>7

\* What an access does, in the order the code does it.
LEMMA Accessed ==
    ASSUME DramInv, NEW dir \in {"read", "write"}, NEW addr \in Nat, NEW bytes \in Nat,
           DramAccess(dir, addr, bytes)
    PROVE  LET after == CaughtUp(now, TRUE)
               at == Decode(setting.mapping, addr)
               row == Precharged(after)[at.channel][at.bank]
               bus == channels[at.channel]
           IN  /\ at.channel \in Channel /\ at.bank \in DramBank /\ at.row \in Nat
               /\ setting' = setting /\ now' = now /\ refresh' = after
               /\ setting.type # "ideal"
               /\ rows' = [Precharged(after) EXCEPT
                              ![at.channel] = [Precharged(after)[at.channel] EXCEPT ![at.bank] = RowAfter(row, at.row)]]
               /\ window' = Consumed(RefilledAt(now), Occupied(dir, addr, bytes))
               /\ \E free \in Nat :
                     channels' = [channels EXCEPT ![at.channel] =
                        [free |-> free, dir |-> IF setting.turnMode = "none" THEN bus.dir ELSE dir]]
               /\ last'.op = "access" /\ last'.outcome = RowOutcome(row, at.row)
               /\ last'.bank = at.bank /\ last'.channel = at.channel
               /\ last'.cost = FullCost(bus.dir, dir) /\ last'.turned = TurnCost(bus, dir)
               /\ last'.wait = IF bus.free > now THEN bus.free - now ELSE 0
<1>. DEFINE after == CaughtUp(now, TRUE)
            at == Decode(setting.mapping, addr)
            row == Precharged(after)[at.channel][at.bank]
            bus == channels[at.channel]
            outcome == RowOutcome(row, at.row)
            turn == TurnCost(bus, dir)
            wait == RefreshWait(after, at.bank)
            penalty == RowPenalty(outcome, dir)
            latency == IF dir = "read" THEN setting.readLat ELSE setting.writeLat
            occupied == Occupied(dir, addr, bytes)
            free == now + (latency + wait + turn + penalty) + BurstCycles(occupied)
<1>1. Consistent(setting) /\ now \in Nat /\ channels \in Buses /\ now <= now
  BY DramAssumption DEF DramInv
<1>2. at.channel \in Channel /\ at.bank \in DramBank /\ at.row \in Nat
  BY <1>1, DecodeType
<1>3. /\ setting.type # "ideal" /\ setting' = setting /\ now' = now /\ refresh' = after
      /\ rows' = [Precharged(after) EXCEPT ![at.channel][at.bank] = RowAfter(row, at.row)]
      /\ window' = Consumed(RefilledAt(now), occupied)
      /\ channels' = [channels EXCEPT ![at.channel] =
            [free |-> free, dir |-> IF setting.turnMode = "none" THEN bus.dir ELSE dir]]
      /\ last' = [op |-> "access", outcome |-> outcome, bank |-> at.bank, channel |-> at.channel,
                  cost |-> FullCost(bus.dir, dir),
                  wait |-> IF bus.free > now THEN bus.free - now ELSE 0, turned |-> turn]
  BY DEF DramAccess
<1>4. free \in Nat
  <2>1. latency \in Nat
    BY <1>1 DEF Consistent, Settings
  <2>2. bus \in [free : Nat, dir : {"none", "read", "write"}]
    BY <1>1, <1>2 DEF Buses
  <2>3. after \in [DramBank -> SlotStates]
    BY <1>1, CaughtUpType
  <2>4. occupied \in Nat
    BY <1>1, OccupiedType
  <2>. HIDE DEF bus, after, occupied, latency, at, outcome
  <2>5. turn \in Nat /\ penalty \in Nat /\ BurstCycles(occupied) \in Nat /\ wait \in Nat
    BY <1>2, <2>2, <2>3, <2>4, ServiceType
  <2>. HIDE DEF turn, penalty, wait
  <2>. QED
    BY <1>1, <2>1, <2>5
<1>. HIDE DEF free, occupied, latency, penalty, wait, turn, outcome, bus, row, at, after
<1>5. /\ last'.op = "access" /\ last'.outcome = outcome /\ last'.bank = at.bank
      /\ last'.channel = at.channel /\ last'.cost = FullCost(bus.dir, dir) /\ last'.turned = turn
      /\ last'.wait = IF bus.free > now THEN bus.free - now ELSE 0
  BY <1>3
<1>6. \E n \in Nat :
         channels' = [channels EXCEPT ![at.channel] =
            [free |-> n, dir |-> IF setting.turnMode = "none" THEN bus.dir ELSE dir]]
  BY <1>3, <1>4
<1>7. rows' = [Precharged(after) EXCEPT ![at.channel] = [Precharged(after)[at.channel] EXCEPT ![at.bank] = RowAfter(row, at.row)]]
  BY <1>3
<1>. QED
  BY <1>2, <1>3, <1>5, <1>6, <1>7 DEF occupied, turn, outcome, bus, row, at, after

LEMMA AccessKeeps ==
    ASSUME DramInv, NEW dir \in {"read", "write"}, NEW addr \in Nat, NEW bytes \in Nat,
           DramAccess(dir, addr, bytes)
    PROVE  DramInv'
<1>. DEFINE after == CaughtUp(now, TRUE)
            at == Decode(setting.mapping, addr)
            c == at.channel
            b == at.bank
            row == Precharged(after)[c][b]
            bus == channels[c]
            occupied == Occupied(dir, addr, bytes)
            P == Precharged(after)
            new == RowAfter(row, at.row)
<1>1. /\ c \in Channel /\ b \in DramBank /\ at.row \in Nat
      /\ setting' = setting /\ now' = now /\ refresh' = after
      /\ rows' = [P EXCEPT ![c] = [P[c] EXCEPT ![b] = new]]
      /\ window' = Consumed(RefilledAt(now), occupied)
      /\ last'.op = "access"
  <2>1. /\ c \in Channel /\ b \in DramBank /\ at.row \in Nat
        /\ setting' = setting /\ now' = now /\ refresh' = after
        /\ last'.op = "access"
    BY Accessed
  <2>2. window' = Consumed(RefilledAt(now), occupied)
    BY DEF DramAccess
  <2>3. rows' = [P EXCEPT ![c] = [P[c] EXCEPT ![b] = new]]
    BY Accessed, Zenon
  <2>. QED
    BY <2>1, <2>2, <2>3
<1>2. PICK free \in Nat :
         channels' = [channels EXCEPT ![c] =
            [free |-> free, dir |-> IF setting.turnMode = "none" THEN bus.dir ELSE dir]]
  BY Accessed
<1>3. now \in Nat /\ now \in 0 .. MaxNow /\ Consistent(setting) /\ channels \in Buses /\ now <= now
  BY DramAssumption DEF DramInv
<1>4. channels' \in Buses
  BY <1>1, <1>2, <1>3 DEF Buses
<1>5. WindowInv'
  <2>1. WindowBudget' = WindowBudget /\ WindowBudget \in Nat
    BY <1>1, <1>3, BudgetType DEF WindowBudget, Consistent
  <2>2. occupied \in Nat
    BY <1>3, OccupiedType
  <2>. DEFINE w == RefilledAt(now)
  <2>3. w \in WindowStates /\ w.budget + w.unstalled <= WindowBudget
    BY <1>3, Refilled
  <2>4. window' = Consumed(w, occupied)
    BY <1>1
  <2>. HIDE DEF w, occupied
  <2>5. window' \in WindowStates /\ window'.budget + window'.unstalled <= WindowBudget
    BY <2>1, <2>2, <2>3, <2>4, ConsumedFits
  <2>. QED
    BY <2>1, <2>5 DEF WindowInv, WindowStates
<1>6. RefreshInv' /\ \A s \in Slots(setting) : refresh'[s].next > Horizon(now', TRUE)
  BY <1>1, <1>3, CaughtUpInv
<1>7. RowsInv'
  <2>1. /\ P \in [Channel -> [DramBank -> RowStates]]
        /\ setting.policy # "legacy" /\ setting.mode # "none" =>
              \A d \in Channel, k \in DramBank :
                 P[d][k].open # NoRow => /\ P[d][k] = rows[d][k]
                                         /\ after[SlotOf(setting, k)].at <= rows[d][k].used
    BY <1>3, PrechargedRows
  <2>2. new = IF setting.policy \in {"open", "adaptive"} THEN [open |-> at.row, used |-> now]
              ELSE P[c][b]
    BY DEF RowAfter
  <2>3. new \in RowStates
    <3>1. P[c][b] \in RowStates
      BY <1>1, <2>1
    <3>2. [open |-> at.row, used |-> now] \in RowStates
      BY <1>1, <1>3 DEF RowStates
    <3>. HIDE DEF P, c, b, new
    <3>. QED
      BY <2>2, <3>1, <3>2
  <2>4. setting.policy # "legacy" /\ setting.mode # "none" /\ new.open # NoRow =>
           after[SlotOf(setting, b)].at <= new.used
    <3>. SUFFICES ASSUME setting.policy # "legacy", setting.mode # "none", new.open # NoRow
                  PROVE  after[SlotOf(setting, b)].at <= new.used
      OBVIOUS
    <3>1. SlotOf(setting, b) \in DramBank
      BY <1>1, <1>3, SlotsType
    <3>2. after[SlotOf(setting, b)].at <= now
      BY <1>3, <3>1, CaughtUpType
    <3>3. CASE setting.policy \in {"open", "adaptive"}
      <4>1. new = [open |-> at.row, used |-> now]
        BY <2>2, <3>3
      <4>. HIDE DEF new, after, at
      <4>2. new.used = now
        BY <4>1
      <4>. QED
        BY <3>2, <4>2
    <3>4. CASE setting.policy \notin {"open", "adaptive"}
      <4>1. new = P[c][b]
        BY <2>2, <3>4
      <4>. HIDE DEF new, P, after, c, b
      <4>. QED
        BY <1>1, <2>1, <4>1
    <3>. QED
      BY <3>3, <3>4
  <2>. HIDE DEF new, P, after, c, b
  <2>5. rows' \in [Channel -> [DramBank -> RowStates]]
    BY <1>1, <2>1, <2>3
  <2>6. \A d \in Channel, k \in DramBank :
            rows'[d][k] = IF d = c /\ k = b THEN new ELSE P[d][k]
    BY <1>1, <2>1
  <2>7. setting.policy # "legacy" /\ setting.mode # "none" =>
           \A d \in Channel, k \in DramBank :
              rows'[d][k].open # NoRow => refresh'[SlotOf(setting, k)].at <= rows'[d][k].used
    BY <1>1, <2>1, <2>4, <2>6
  <2>. QED
    BY <1>1, <2>5, <2>7 DEF RowsInv, SlotOf
<1>8. RefreshOnTime'
  <2>. SUFFICES ASSUME NEW s \in Slots(setting) PROVE refresh'[s].next + 0 > now'
    BY <1>1 DEF RefreshOnTime, Slots
  <2>. HIDE DEF after, at, c, b, P, new
  <2>1. refresh'[s].next > now'
    BY <1>6 DEF Horizon
  <2>2. refresh'[s].next \in Nat
    <3>1. s \in DramBank
      BY SlotsType DEF DramInv
    <3>. QED
      BY <1>6, <3>1 DEF RefreshInv, SlotStates
  <2>3. now' \in Nat
    BY <1>1, <1>3
  <2>. QED
    BY <2>1, <2>2, <2>3
<1>. QED
  BY <1>1, <1>3, <1>4, <1>5, <1>6, <1>7, <1>8 DEF DramInv

\* What it reports of its row and of its bus.
LEMMA AccessHonest ==
    ASSUME DramInv, NEW dir \in {"read", "write"}, NEW addr \in Nat, NEW bytes \in Nat,
           DramAccess(dir, addr, bytes)
    PROVE  RowHitsHonest /\ BusTurnsAround
<1>. DEFINE after == CaughtUp(now, TRUE)
            at == Decode(setting.mapping, addr)
            c == at.channel
            b == at.bank
            P == Precharged(after)
            row == P[c][b]
            bus == channels[c]
<1>1. /\ c \in Channel /\ b \in DramBank /\ at.row \in Nat
      /\ setting' = setting /\ now' = now /\ refresh' = after
      /\ last'.op = "access" /\ last'.outcome = RowOutcome(row, at.row)
      /\ last'.bank = b /\ last'.channel = c
      /\ last'.cost = FullCost(bus.dir, dir) /\ last'.turned = TurnCost(bus, dir)
      /\ last'.wait = IF bus.free > now THEN bus.free - now ELSE 0
  BY Accessed
<1>2. now \in Nat /\ Consistent(setting) /\ setting \in Settings /\ channels \in Buses
      /\ rows \in [Channel -> [DramBank -> RowStates]] /\ now <= now
  BY DramAssumption DEF DramInv, Consistent, RowsInv
<1>3. RowHitsHonest
  <2>. SUFFICES ASSUME last'.outcome = "hit"
                PROVE  /\ setting.mode # "none" =>
                              refresh'[SlotOf(setting, b)].at <= rows[c][b].used
                       /\ setting.policy = "adaptive" => now - rows[c][b].used <= setting.timeout
    BY <1>1 DEF RowHitsHonest
  <2>1. /\ setting.policy # "legacy" /\ setting.policy # "closed"
        /\ row.open = at.row /\ row.open # NoRow /\ ~ Expired(row)
    BY <1>1 DEF RowOutcome
  <2>2. setting.mode # "none" =>
           row = rows[c][b] /\ after[SlotOf(setting, b)].at <= rows[c][b].used
    BY <1>1, <1>2, <2>1, PrechargedRows
  <2>3. row.used = rows[c][b].used
    <3>1. row = IF /\ setting.policy # "legacy" /\ setting.mode # "none"
                   /\ after[SlotOf(setting, b)].next # refresh[SlotOf(setting, b)].next
                THEN [rows[c][b] EXCEPT !.open = NoRow] ELSE rows[c][b]
      BY <1>1 DEF Precharged
    <3>2. rows[c][b] \in RowStates
      BY <1>1, <1>2
    <3>. HIDE DEF row, c, b
    <3>. QED
      BY <3>1, <3>2 DEF RowStates
  <2>4. setting.policy = "adaptive" => row.used = Never \/ now - row.used <= setting.timeout
    <3>1. setting.timeout \in Nat /\ row.used \in Int
      <4>1. rows[c][b].used \in Nat
        BY <1>1, <1>2, DramAssumption DEF RowStates, Never
      <4>. HIDE DEF row, c, b
      <4>. QED
        BY <1>2, <2>3, <4>1 DEF Settings
    <3>. HIDE DEF row
    <3>. QED
      BY <1>2, <2>1, <3>1 DEF Expired
  <2>5. now - Never <= setting.timeout
    BY <1>2, DramAssumption DEF Never, DramInv, Settings
  <2>. QED
    BY <1>1, <2>2, <2>3, <2>4, <2>5
<1>4. BusTurnsAround
  <2>. SUFFICES ASSUME setting.turnMode # "none", last'.cost > 0
                PROVE  now + last'.wait + last'.turned >= bus.free + last'.cost
    BY <1>1 DEF BusTurnsAround
  <2>1. bus.free \in Nat /\ FullCost(bus.dir, dir) \in Nat
    BY <1>1, <1>2 DEF Buses, FullCost, Settings
  <2>. HIDE DEF bus
  <2>. QED
    BY <1>1, <1>2, <2>1 DEF TurnCost
<1>. QED
  BY <1>3, <1>4

-----------------------------------------------------------------------------
LEMMA DramStepKeeps == DramInv /\ [DramNext]_dramVars => DramInv'
<1>. SUFFICES ASSUME DramInv, [DramNext]_dramVars PROVE DramInv'
  OBVIOUS
<1>1. CASE DramTick
  BY <1>1, TickKeeps
<1>2. CASE DramIdeal
  <2>1. last'.op = "ideal" /\ UNCHANGED <<setting, now, window, channels, rows, refresh>>
    BY <1>2 DEF DramIdeal, Report
  <2>2. RefreshOnTime'
    BY <2>1 DEF RefreshOnTime
  <2>. QED
    BY <2>1, <2>2 DEF DramInv, Consistent, WindowInv, WindowBudget, RefreshInv, RowsInv, Slots,
                     Interval, Deferral, SlotOf, XorNeedsPowerOfTwo
<1>3. CASE DramReset
  BY <1>3, ResetKeeps
<1>4. CASE \E t \in Transfers, dir \in {"read", "write"} : DramAccess(dir, t[1], t[2])
  <2>1. PICK t \in Transfers, dir \in {"read", "write"} : DramAccess(dir, t[1], t[2])
    BY <1>4
  <2>2. t[1] \in Nat /\ t[2] \in Nat
    BY DramAssumption
  <2>. QED
    BY <2>1, <2>2, AccessKeeps
<1>5. CASE \E c \in Clocks : SetCoreClock(c)
  BY <1>5, ClockSet
<1>6. CASE \E r \in Refreshes : SetRefresh(r)
  BY <1>6, RefreshSet
<1>7. CASE \/ \E l \in Latencies : SetLatency(l)
           \/ \E on \in BOOLEAN : SetRowModeling(on)
           \/ \E r \in RowSettings, p \in RowPenalties : SetRowPolicy(r, p)
           \/ \E m \in Mappings : SetMapping(m)
           \/ \E t \in Turnarounds : SetTurnaround(t)
           \/ \E read, write \in {BurstBytes, 2 * BurstBytes} : SetGranules(read, write)
  BY <1>7, SettersKeep
<1>8. CASE UNCHANGED dramVars
  BY <1>8 DEF dramVars, DramInv, Consistent, WindowInv, WindowBudget, RefreshInv, RowsInv, Slots,
              Interval, Deferral, SlotOf, XorNeedsPowerOfTwo, RefreshOnTime
<1>. QED
  BY <1>1, <1>2, <1>3, <1>4, <1>5, <1>6, <1>7, <1>8 DEF DramNext

\* What the invariant says of the promises.
LEMMA DramInvSound == DramInv => DramSound
<1>. SUFFICES ASSUME DramInv PROVE DramSound
  OBVIOUS
<1>1. Consistent(setting)
  BY DEF DramInv
<1>2. DramTypeOK
  <2>1. window \in WindowStates /\ window.budget + window.unstalled <= WindowBudget /\ WindowBudget \in Nat
    BY <1>1, BudgetType DEF DramInv, WindowInv, WindowStates, Consistent, WindowBudget
  <2>2. window.budget \in 0 .. WindowBudget /\ window.start \in 0 .. MaxNow /\ window.pending \in Nat
    BY <2>1 DEF WindowStates
  <2>3. \A c \in Channel : channels[c].free \in Nat /\ channels[c].dir \in {"none", "read", "write"}
    BY DEF DramInv, Buses
  <2>4. \A c \in Channel, b \in DramBank : /\ rows[c][b].open \in {NoRow} \cup Nat
                                           /\ rows[c][b].used \in 0 .. MaxNow \cup {Never}
    <3>1. \A c \in Channel, b \in DramBank : rows[c][b] \in RowStates
      BY DEF DramInv, RowsInv
    <3>. QED
      BY <3>1 DEF RowStates
  <2>5. \A b \in DramBank : refresh[b].next \in Nat /\ refresh[b].until \in Nat
    <3>1. \A b \in DramBank : refresh[b] \in SlotStates
      BY DEF DramInv, RefreshInv
    <3>. QED
      BY <3>1 DEF SlotStates
  <2>. QED
    BY <2>2, <2>3, <2>4, <2>5 DEF DramTypeOK, DramInv
<1>3. RefreshGapBounded
  BY DEF RefreshGapBounded, DramInv, RefreshInv, Deferral
<1>4. TimingsAgree
  BY <1>1 DEF TimingsAgree, Consistent
<1>5. UnstalledWithinBudget
  <2>1. window.budget \in Nat /\ window.unstalled \in Nat /\ WindowBudget \in Nat
    BY <1>1, BudgetType DEF DramInv, WindowInv, Consistent, WindowBudget
  <2>. QED
    BY <2>1 DEF DramInv, WindowInv, UnstalledWithinBudget
<1>6. MappingSpreads
  BY <1>1, Spreads
<1>. QED
  BY <1>2, <1>3, <1>4, <1>5, <1>6 DEF DramSound, DramInv

LEMMA DramHonest == DramInv /\ DramNext => RowHitsHonest /\ BusTurnsAround
<1>. SUFFICES ASSUME DramInv, DramNext PROVE RowHitsHonest /\ BusTurnsAround
  OBVIOUS
<1>1. CASE \E t \in Transfers, dir \in {"read", "write"} : DramAccess(dir, t[1], t[2])
  <2>1. PICK t \in Transfers, dir \in {"read", "write"} : DramAccess(dir, t[1], t[2])
    BY <1>1
  <2>2. t[1] \in Nat /\ t[2] \in Nat
    BY DramAssumption
  <2>. QED
    BY <2>1, <2>2, AccessHonest
<1>2. ASSUME last' = Report("tick") \/ last' = Report("set") \/ last' = Report("ideal")
      PROVE  RowHitsHonest /\ BusTurnsAround
  BY <1>2 DEF RowHitsHonest, BusTurnsAround, Report
<1>3. \/ \E t \in Transfers, dir \in {"read", "write"} : DramAccess(dir, t[1], t[2])
      \/ last' = Report("tick") \/ last' = Report("set") \/ last' = Report("ideal")
  BY DEF DramNext, DramTick, DramIdeal, DramReset, SetCoreClock, SetLatency, SetRowModeling,
         SetRowPolicy, SetMapping, SetTurnaround, SetGranules, SetRefresh, Reconfigure
<1>. QED
  BY <1>1, <1>2, <1>3

\* The DRAM of dram_model.c by itself keeps its promises, whichever of its
\* setters are called between which accesses.
THEOREM DramKeepsPromises == DramSpec => []DramSound /\ [][DramStep]_dramVars
<1>1. DramSpec => []DramInv
  BY DramInvInit, DramStepKeeps, PTL DEF DramSpec
<1>2. DramInv /\ [DramNext]_dramVars => [DramStep]_dramVars
  BY DramHonest DEF DramStep
<1>. QED
  BY <1>1, <1>2, DramInvSound, PTL DEF DramSpec

-----------------------------------------------------------------------------
(* The hierarchy over the DRAM.                                             *)

Spads == DB!Region([SpadAddr -> {0, 1}])

\* The hierarchy's clock is its DRAM's.
HierInv == DramInv /\ hierCycle = now /\ hits \in {0, 1} /\ spad \in Spads

LEMMA SpadTypes ==
    ASSUME NEW r \in Spads
    PROVE  /\ DB!ActiveData(r) \in [SpadAddr -> {0, 1}]
           /\ DB!Enable(r) \in Spads /\ DB!Swap(r) \in Spads /\ DB!Disable(r) \in Spads
           /\ \A d \in [SpadAddr -> {0, 1}] : DB!WriteActive(r, d) \in Spads
<1>. DEFINE D == [SpadAddr -> {0, 1}]
<1>1. Blank \in D
  BY DEF Blank
<1>2. /\ r.enabled \in BOOLEAN /\ r.active \in {0, 1} /\ r.dirty \in BOOLEAN
      /\ r.primary \in D /\ r.shadow \in D
      /\ r \in [enabled : BOOLEAN, active : {0, 1}, dirty : BOOLEAN, primary : D, shadow : D]
  BY DEF Spads, DB!Region
<1>. HIDE DEF D
<1>3. DB!ActiveData(r) \in D
  BY <1>2 DEF DB!ActiveData
<1>4. \A e \in BOOLEAN, d \in D : DB!Unswapped(e, d) \in
          [enabled : BOOLEAN, active : {0, 1}, dirty : BOOLEAN, primary : D, shadow : D]
  BY <1>1 DEF DB!Unswapped
<1>5. /\ DB!Enable(r) \in [enabled : BOOLEAN, active : {0, 1}, dirty : BOOLEAN, primary : D, shadow : D]
      /\ DB!Disable(r) \in [enabled : BOOLEAN, active : {0, 1}, dirty : BOOLEAN, primary : D, shadow : D]
  BY <1>2, <1>3, <1>4 DEF DB!Enable, DB!Disable, DB!SingleBuffered
<1>6. DB!Swap(r) \in [enabled : BOOLEAN, active : {0, 1}, dirty : BOOLEAN, primary : D, shadow : D]
  <2>1. 1 - r.active \in {0, 1}
    BY <1>2
  <2>2. [r EXCEPT !.active = 1 - r.active, !.dirty = FALSE] \in
           [enabled : BOOLEAN, active : {0, 1}, dirty : BOOLEAN, primary : D, shadow : D]
    BY <1>2, <2>1
  <2>. QED
    BY <1>2, <2>2 DEF DB!Swap
<1>7. \A d \in D : DB!WriteActive(r, d) \in
          [enabled : BOOLEAN, active : {0, 1}, dirty : BOOLEAN, primary : D, shadow : D]
  BY <1>2 DEF DB!WriteActive
<1>. QED
  BY <1>3, <1>5, <1>6, <1>7 DEF Spads, DB!Region, D

LEMMA SpadWrittenType ==
    ASSUME spad \in Spads, NEW addr, NEW bytes, NEW d \in {0, 1}
    PROVE  SpadWritten(addr, bytes, d) \in [SpadAddr -> {0, 1}]
<1>1. DB!ActiveData(spad) \in [SpadAddr -> {0, 1}]
  BY SpadTypes
<1>2. spad.primary \in [SpadAddr -> {0, 1}]
  BY DEF Spads, DB!Region
<1>. QED
  BY <1>1, <1>2 DEF SpadWritten

LEMMA HierInvInit == HierInit => HierInv
<1>. SUFFICES ASSUME HierInit PROVE HierInv
  OBVIOUS
<1>1. DramInv /\ now = 0
  BY DramInvInit DEF HierInit, DramInit
<1>2. spad = DB!SingleBuffered(Blank) /\ hierCycle = 0 /\ hits = 0
  BY DEF HierInit
<1>3. Blank \in [SpadAddr -> {0, 1}]
  BY DEF Blank
<1>4. spad \in Spads
  BY <1>2, <1>3 DEF Spads, DB!Region, DB!SingleBuffered, DB!Unswapped
<1>. QED
  BY <1>1, <1>2, <1>4 DEF HierInv

\* Every step of the hierarchy is one of its DRAM's or leaves it alone.
LEMMA HierDrives ==
    ASSUME HierInv, HierNext
    PROVE  [DramNext]_dramVars /\ (hierCycle' = now') /\ hits' \in {0, 1} /\ spad' \in Spads
<1>1. hierCycle = now /\ hits \in {0, 1} /\ spad \in Spads
  BY DEF HierInv
<1>2. CASE \E x \in HierAccesses : SpadRead(x[1], x[2])
  BY <1>1, <1>2 DEF SpadRead, dramVars
<1>3. CASE \E x \in HierAccesses : GbufAccess(x[1], x[2])
  <2>1. hits' \in {0, 1}
    BY <1>1, <1>3 DEF GbufAccess, Least
  <2>. QED
    BY <1>1, <1>3, <2>1 DEF GbufAccess, dramVars
<1>4. CASE \E x \in HierAccesses, d \in {0, 1} : SpadWrite(x[1], x[2], d)
  <2>1. PICK x \in HierAccesses, d \in {0, 1} : SpadWrite(x[1], x[2], d)
    BY <1>4
  <2>2. SpadWritten(x[1], x[2], d) \in [SpadAddr -> {0, 1}]
    BY <1>1, SpadWrittenType
  <2>3. spad' \in Spads
    BY <1>1, <2>1, <2>2, SpadTypes DEF SpadWrite
  <2>. QED
    BY <1>1, <2>1, <2>3 DEF SpadWrite, dramVars
<1>5. CASE \E t \in Transfers, dir \in {"read", "write"} : HierDram(dir, t[1], t[2])
  <2>1. DramNext /\ UNCHANGED <<spad, hierCycle, hits>>
    BY <1>5 DEF HierDram, DramNext
  <2>2. now' = now
    BY <1>5 DEF HierDram, DramAccess
  <2>. QED
    BY <1>1, <2>1, <2>2
<1>6. CASE RegfileAccess
  BY <1>1, <1>6 DEF RegfileAccess, dramVars
<1>7. CASE HierTick
  BY <1>1, <1>7 DEF HierTick, DramNext, DramTick
<1>8. CASE HierReset
  BY <1>1, <1>8 DEF HierReset, DramNext, DramReset
<1>9. CASE SpadDouble
  <2>1. spad' \in Spads
    BY <1>1, <1>9, SpadTypes DEF SpadDouble
  <2>. QED
    BY <1>1, <1>9, <2>1 DEF SpadDouble, dramVars
<1>. QED
  BY <1>2, <1>3, <1>4, <1>5, <1>6, <1>7, <1>8, <1>9 DEF HierNext

LEMMA HierStepKeeps == HierInv /\ [HierNext]_<<hierVars, dramVars>> => HierInv'
<1>. SUFFICES ASSUME HierInv, [HierNext]_<<hierVars, dramVars>> PROVE HierInv'
  OBVIOUS
<1>1. CASE HierNext
  BY <1>1, HierDrives, DramStepKeeps DEF HierInv
<1>2. CASE UNCHANGED <<hierVars, dramVars>>
  <2>1. DramInv'
    BY <1>2, DramStepKeeps DEF HierInv
  <2>. QED
    BY <1>2, <2>1 DEF HierInv, hierVars, dramVars
<1>. QED
  BY <1>1, <1>2

\* The bytes a write changes are those it was given, in the words it is
\* admitted to.
LEMMA SpadBytes ==
    ASSUME spad \in Spads, spad.active = 0, NEW addr \in Nat, NEW bytes \in Nat, NEW d \in {0, 1},
           SpadWrite(addr, bytes, d), NEW a \in SpadAddr
    PROVE  DB!ActiveData(spad)'[a] = IF a \in moved'.bytes THEN d ELSE DB!ActiveData(spad)[a]
<1>1. DB!ActiveData(spad) = spad.primary
  BY DEF DB!ActiveData
<1>2. spad' = [spad EXCEPT !.primary = SpadWritten(addr, bytes, d)]
  BY DEF SpadWrite, DB!WriteActive
<1>3. DB!ActiveData(spad)' = SpadWritten(addr, bytes, d)
  BY <1>2 DEF DB!ActiveData, Spads, DB!Region
<1>4. moved'.bytes = AdmittedBytes(addr, bytes, SpadSize) \cap Span(addr, bytes)
  BY DEF SpadWrite, SpadAccess
<1>. QED
  BY <1>1, <1>3, <1>4 DEF SpadWritten

LEMMA HierHonest ==
    HierInv /\ [HierNext]_<<hierVars, dramVars>> =>
        DramStep /\ [SpadWritesItsBytes /\ ClocksInStep]_<<hierVars, now>>
<1>. SUFFICES ASSUME HierInv, [HierNext]_<<hierVars, dramVars>>
              PROVE  DramStep /\ SpadWritesItsBytes /\ ClocksInStep
  OBVIOUS
<1>1. DramStep
  <2>1. [DramNext]_dramVars
    BY HierDrives DEF hierVars, dramVars
  <2>. QED
    BY <2>1, DramHonest DEF DramStep, HierInv
<1>2. SpadWritesItsBytes
  <2>1. \A x \in HierAccesses : x[1] \in Nat /\ x[2] \in Nat
    BY HierAssumption
  <2>. QED
    BY <2>1, SpadBytes DEF SpadWritesItsBytes, HierInv
<1>3. ClocksInStep
  <2>1. hierCycle = now /\ hierCycle' = now'
    BY HierStepKeeps DEF HierInv
  <2>. QED
    BY <2>1 DEF ClocksInStep
<1>. QED
  BY <1>1, <1>2, <1>3

\* For every geometry of the memories and every configuration of the DRAM,
\* whatever is read, written, ticked and reset through the hierarchy of
\* memory_hierarchy.c: the DRAM under it refreshes on time, its timings are
\* those of their sources, no window serves more than its budget unstalled,
\* and no two addresses of a mapping meet.
THEOREM HierarchySound == HierSpec => []MemorySound
<1>1. HierSpec => []HierInv
  BY HierInvInit, HierStepKeeps, PTL DEF HierSpec
<1>2. HierInv => MemorySound
  <2>1. HierInv => HierTypeOK
    BY DEF HierInv, HierTypeOK, Spads, DramInv
  <2>. QED
    BY <2>1, DramInvSound DEF HierInv, MemorySound
<1>. QED
  BY <1>1, <1>2, PTL

\* An access is told of its row and of the bus what the refreshes and the
\* accesses before it made true (explicit_row_penalty, turnaround_for), a
\* write changes the bytes it was given and no others (mem_access_impl), and
\* the hierarchy and the DRAM tick and reset together.
THEOREM HierarchySteps == HierSpec => MemorySteps
<1>1. HierSpec => []HierInv
  BY HierInvInit, HierStepKeeps, PTL DEF HierSpec
<1>. QED
  BY <1>1, HierHonest, PTL DEF HierSpec, MemorySteps


-----------------------------------------------------------------------------
(* The cluster.  Sequences are functions on the numbers up to their length. *)

IsSeq(s) == Len(s) \in Nat /\ s = [i \in 1 .. Len(s) |-> s[i]]

\* A function on the numbers up to m is a sequence of that length.
LEMMA SeqMade ==
    ASSUME NEW m \in Nat, NEW s, s = [i \in 1 .. m |-> s[i]]
    PROVE  Len(s) = m /\ IsSeq(s) /\ DOMAIN s = 1 .. m
<1>. DEFINE S == {s[i] : i \in 1 .. m}
<1>1. s \in [1 .. m -> S]
  OBVIOUS
<1>. HIDE DEF S
<1>2. s \in Seq(S)
  BY <1>1, SeqDef
<1>3. Len(s) \in Nat /\ DOMAIN s = 1 .. Len(s)
  BY <1>2, LenProperties
<1>4. DOMAIN s = 1 .. m
  BY <1>1
<1>5. Len(s) = m
  <2>1. 1 .. Len(s) = 1 .. m
    BY <1>3, <1>4
  <2>. QED
    BY <1>3, <2>1
<1>. QED
  BY <1>4, <1>5 DEF IsSeq

\* What Append leaves in place and adds.
LEMMA AppendMade ==
    ASSUME NEW s, IsSeq(s), NEW e
    PROVE  /\ IsSeq(Append(s, e)) /\ Len(Append(s, e)) = Len(s) + 1
           /\ \A i \in 1 .. Len(s) : Append(s, e)[i] = s[i]
           /\ Append(s, e)[Len(s) + 1] = e
<1>. DEFINE S == {s[i] : i \in 1 .. Len(s)} \cup {e}
<1>1. s \in [1 .. Len(s) -> S] /\ e \in S /\ Len(s) \in Nat
  BY DEF IsSeq
<1>. HIDE DEF S
<1>2. s \in Seq(S)
  BY <1>1, SeqDef
<1>3. /\ Append(s, e) \in Seq(S) /\ Len(Append(s, e)) = Len(s) + 1
      /\ \A i \in 1 .. Len(s) : Append(s, e)[i] = s[i]
      /\ Append(s, e)[Len(s) + 1] = e
  BY <1>1, <1>2, AppendProperties
<1>4. IsSeq(Append(s, e))
  BY <1>3, LenProperties DEF IsSeq
<1>. QED
  BY <1>3, <1>4

\* A write leaves a region as long as it was, and one that fits is found there.
LEMMA WrittenMade ==
    ASSUME NEW c, IsSeq(c), NEW o \in Nat, NEW d, IsSeq(d)
    PROVE  /\ IsSeq(Written(c, o, d)) /\ Len(Written(c, o, d)) = Len(c)
           /\ Fits(c, o, Len(d)) =>
                \A k \in 1 .. Len(d) : o + k \in 1 .. Len(c) /\ Written(c, o, d)[o + k] = d[k]
<1>1. DOMAIN c = 1 .. Len(c) /\ Len(c) \in Nat /\ Len(d) \in Nat
  BY DEF IsSeq
<1>2. CASE ~Fits(c, o, Len(d))
  BY <1>2 DEF Written
<1>3. CASE Fits(c, o, Len(d))
  <2>. DEFINE w == [a \in DOMAIN c |-> IF a \in o + 1 .. o + Len(d) THEN d[a - o] ELSE c[a]]
  <2>1. Written(c, o, d) = w
    BY <1>3 DEF Written
  <2>2. w = [i \in 1 .. Len(c) |-> w[i]]
    BY <1>1
  <2>3. \A k \in 1 .. Len(d) : o + k \in 1 .. Len(c) /\ w[o + k] = d[k]
    <3>. TAKE k \in 1 .. Len(d)
    <3>1. o + k \in 1 .. Len(c) /\ o + k \in o + 1 .. o + Len(d) /\ (o + k) - o = k
      BY <1>1, <1>3 DEF Fits
    <3>. QED
      BY <1>1, <3>1
  <2>. HIDE DEF w
  <2>. QED
    BY <1>1, <2>1, <2>2, <2>3, SeqMade
<1>. QED
  BY <1>2, <1>3

\* What is read is as long as asked for.
LEMMA ReadMade ==
    ASSUME NEW c, IsSeq(c), NEW o \in Nat, NEW n \in Nat, Fits(c, o, n)
    PROVE  /\ IsSeq(Read(c, o, n)) /\ Len(Read(c, o, n)) = n
           /\ \A k \in 1 .. n : Read(c, o, n)[k] = c[o + k]
<1>. DEFINE S == {c[i] : i \in 1 .. Len(c)}
            r == SubSeq(c, o + 1, o + n)
<1>1. \A i \in o + 1 .. o + n : c[i] \in S
  BY DEF IsSeq, Fits
<1>. HIDE DEF S
<1>2. /\ r \in Seq(S)
      /\ Len(r) = IF o + 1 <= o + n THEN (o + n) - (o + 1) + 1 ELSE 0
      /\ \A i \in 1 .. (o + n) - (o + 1) + 1 : r[i] = c[(o + 1) + i - 1]
  BY <1>1, SubSeqProperties
<1>3. Len(r) = n /\ \A i \in 1 .. n : r[i] = c[o + i]
  BY <1>2
<1>4. IsSeq(r)
  BY <1>2, LenProperties DEF IsSeq
<1>. QED
  BY <1>3, <1>4 DEF Read

-----------------------------------------------------------------------------
(* Where the cores of a cluster are, and how far from each other.           *)

\* A number below twice the modulus wraps at most once.
LEMMA Wrapped ==
    ASSUME NEW m \in Nat \ {0}, NEW x \in 0 .. 2 * m - 1
    PROVE  x % m = IF x < m THEN x ELSE x - m
<1>0. x \in Nat
  OBVIOUS
<1>1. x \div m \in Nat /\ x % m \in 0 .. m - 1 /\ x = m * (x \div m) + (x % m)
  BY <1>0, Division
<1>2. CASE x < m
  <2>1. m * (x \div m) + (x % m) = m * 0 + x
    BY <1>1
  <2>. QED
    BY <1>1, <1>2, <2>1, DivisionUnique
<1>3. CASE x >= m
  <2>1. m * (x \div m) + (x % m) = m * 1 + (x - m) /\ x - m \in 0 .. m - 1
    BY <1>1, <1>3
  <2>. QED
    BY <1>1, <1>3, <2>1, DivisionUnique
<1>. QED
  BY <1>2, <1>3

\* A mesh has at least one column.
LEMMA ColsType ==
    ASSUME NEW n \in Networks, n.topology = "mesh"
    PROVE  Cols(n) \in Nat \ {0} /\ Cols(n) * n.rows >= n.count
<1>. DEFINE x == n.count + n.rows - 1
            R == n.rows
<1>1. n.count \in Nat \ {0} /\ R \in Nat \ {0}
  BY DEF Networks
<1>2. x \in Nat /\ x >= R /\ n.count = x - R + 1
  BY <1>1
<1>. HIDE DEF x, R
<1>3. x \div R \in Nat /\ x % R \in 0 .. R - 1 /\ x = R * (x \div R) + (x % R)
  BY <1>1, <1>2, Division
<1>. DEFINE q == x \div R
            r == x % R
<1>. HIDE DEF q, r
<1>4. q # 0
  <2>. SUFFICES ASSUME q = 0 PROVE FALSE
    OBVIOUS
  <2>1. R * q = 0
    BY <1>1
  <2>. QED
    BY <1>1, <1>2, <1>3, <2>1 DEF q, r
<1>5. R * q = q * R /\ R * q \in Nat
  BY <1>1, <1>3 DEF q
<1>6. q * R >= x - R + 1
  BY <1>1, <1>2, <1>3, <1>5 DEF q, r
<1>. QED
  BY <1>2, <1>3, <1>4, <1>6 DEF q, Cols, x, R

\* A core of a mesh is at its row and column.
LEMMA Coordinates ==
    ASSUME NEW n \in Networks, n.topology = "mesh", NEW c \in CoreIds(n)
    PROVE  /\ Row(n, c) \in 0 .. n.rows - 1 /\ Col(n, c) \in 0 .. Cols(n) - 1
           /\ c = Cols(n) * Row(n, c) + Col(n, c)
<1>. DEFINE C == Cols(n)
<1>1. C \in Nat \ {0} /\ C * n.rows >= n.count /\ n.rows \in Nat \ {0} /\ n.count \in Nat
  BY ColsType DEF Networks
<1>2. c \in Nat /\ c < n.count
  BY <1>1 DEF CoreIds
<1>. HIDE DEF C
<1>3. c \div C \in Nat /\ c % C \in 0 .. C - 1 /\ c = C * (c \div C) + (c % C)
  BY <1>1, <1>2, Division
<1>. DEFINE q == c \div C
<1>. HIDE DEF q
<1>4. q < n.rows
  <2>. SUFFICES ASSUME q >= n.rows PROVE FALSE
    BY <1>1, <1>3 DEF q
  <2>. DEFINE k == q - n.rows
              R == n.rows
  <2>1. k \in Nat /\ q = R + k /\ R \in Nat
    BY <1>1, <1>3 DEF q
  <2>. HIDE DEF k, R
  <2>2. C * q = C * R + C * k /\ C * k >= 0
    BY <1>1, <2>1
  <2>. QED
    BY <1>1, <1>2, <1>3, <2>2 DEF q, R
<1>. QED
  BY <1>1, <1>3, <1>4 DEF q, C, Row, Col

\* The minimum and the maximum of two numbers.
LEMMA MinOfTwo == \A a, b \in Int : Min({a, b}) = IF a <= b THEN a ELSE b
<1>. TAKE a \in Int, b \in Int
<1>1. \E x \in {a, b} : \A y \in {a, b} : x <= y
  OBVIOUS
<1>2. Min({a, b}) \in {a, b} /\ \A y \in {a, b} : Min({a, b}) <= y
  BY <1>1 DEF Min
<1>. QED
  BY <1>2

LEMMA MaxOfTwo == \A a, b \in Int : Max({a, b}) = IF a >= b THEN a ELSE b
<1>. TAKE a \in Int, b \in Int
<1>1. \E x \in {a, b} : \A y \in {a, b} : x >= y
  OBVIOUS
<1>2. Max({a, b}) \in {a, b} /\ \A y \in {a, b} : Max({a, b}) >= y
  BY <1>1 DEF Max
<1>. QED
  BY <1>2

\* How far a ring goes from one core to another, one way around.
Ahead(n, s, d) == IF d >= s THEN d - s ELSE d + n.count - s

\* The cores ahead in a ring, around its end.
LEMMA AheadWraps ==
    ASSUME NEW n \in Networks, NEW s \in CoreIds(n), NEW d \in CoreIds(n)
    PROVE  (d + n.count - s) % n.count = Ahead(n, s, d) /\ Ahead(n, s, d) \in 0 .. n.count - 1
<1>1. n.count \in Nat \ {0} /\ s \in 0 .. n.count - 1 /\ d \in 0 .. n.count - 1
  BY DEF Networks, CoreIds
<1>2. d + n.count - s \in 0 .. 2 * n.count - 1
  BY <1>1
<1>. DEFINE x == d + n.count - s
            m == n.count
<1>. HIDE DEF x, m
<1>3. x % m = IF x < m THEN x ELSE x - m
  BY <1>1, <1>2, Wrapped DEF x, m
<1>4. (d + n.count - s) % n.count = x % m
  BY DEF x, m
<1>5. x = d + n.count - s /\ m = n.count
  BY DEF x, m
<1>. QED
  BY <1>1, <1>3, <1>4, <1>5 DEF Ahead

\* tu_cluster_hop_distance in a ring: the shorter way round.
LEMMA RingDistance ==
    ASSUME NEW n \in Networks, n.topology = "ring", NEW s \in CoreIds(n), NEW d \in CoreIds(n)
    PROVE  HopDistance(n, s, d) =
             IF Ahead(n, s, d) <= Ahead(n, d, s) THEN Ahead(n, s, d) ELSE Ahead(n, d, s)
<1>1. Ahead(n, s, d) \in Int /\ Ahead(n, d, s) \in Int
  BY AheadWraps DEF Networks
<1>2. Min({(d + n.count - s) % n.count, (s + n.count - d) % n.count})
        = IF Ahead(n, s, d) <= Ahead(n, d, s) THEN Ahead(n, s, d) ELSE Ahead(n, d, s)
  BY <1>1, AheadWraps, MinOfTwo
<1>3. CASE s = d
  BY <1>3 DEF HopDistance, Ahead, CoreIds
<1>4. CASE s # d
  BY <1>2, <1>4 DEF HopDistance
<1>. QED
  BY <1>3, <1>4

\* tu_cluster_hop_distance in a mesh: rows and columns apart.
LEMMA MeshDistance ==
    ASSUME NEW n \in Networks, n.topology = "mesh", NEW s \in CoreIds(n), NEW d \in CoreIds(n)
    PROVE  HopDistance(n, s, d) = Apart(Row(n, s), Row(n, d)) + Apart(Col(n, s), Col(n, d))
<1>1. /\ Row(n, s) \in 0 .. n.rows - 1 /\ Row(n, d) \in 0 .. n.rows - 1
      /\ Col(n, s) \in 0 .. Cols(n) - 1 /\ n.rows \in Nat /\ Cols(n) \in Nat
  BY Coordinates, ColsType DEF Networks
<1>2. CASE s = d
  BY <1>1, <1>2 DEF HopDistance, Apart
<1>3. CASE s # d
  BY <1>1, <1>3 DEF HopDistance
<1>. QED
  BY <1>2, <1>3

\* A distance is a number of hops, or Unreachable.
LEMMA DistanceType ==
    ASSUME NEW n \in Networks, NEW s \in CoreIds(n), NEW d \in CoreIds(n)
    PROVE  HopDistance(n, s, d) \in Nat \cup {Unreachable}
<1>1. CASE n.topology = "ring"
  BY <1>1, RingDistance, AheadWraps DEF Networks
<1>2. CASE n.topology = "mesh"
  <2>1. /\ Row(n, s) \in Nat /\ Row(n, d) \in Nat /\ Col(n, s) \in Nat /\ Col(n, d) \in Nat
    BY <1>2, Coordinates, ColsType DEF Networks
  <2>. QED
    BY <1>2, <2>1, MeshDistance DEF Apart
<1>3. CASE n.topology = "none"
  BY <1>3 DEF HopDistance
<1>. QED
  BY <1>1, <1>2, <1>3 DEF Networks

\* Serializing a message takes a number of cycles.
LEMMA SerializedType ==
    ASSUME NEW n \in Networks, n.link # 0, NEW size \in Nat
    PROVE  Serialized(n, size) \in Nat
<1>1. n.link \in Nat \ {0} /\ size + n.link - 1 \in Nat
  BY DEF Networks
<1>. QED
  BY <1>1, Division DEF Serialized

\* A transfer takes a number of cycles, or is Unreachable.
LEMMA CyclesType ==
    ASSUME NEW n \in Networks, NEW s \in CoreIds(n), NEW d \in CoreIds(n), NEW size \in Nat
    PROVE  TransferCycles(n, s, d, size) \in Nat \cup {Unreachable}
<1>. DEFINE h == HopDistance(n, s, d)
<1>1. h \in Nat \cup {Unreachable} /\ n.hop \in Nat /\ n.switching \in {"legacy", "cut", "store"}
  BY DistanceType DEF Networks
<1>. HIDE DEF h
<1>. DEFINE v == TransferCycles(n, s, d, size)
<1>0. /\ h = Unreachable => v = Unreachable
      /\ h # Unreachable /\ (h = 0 \/ size = 0) => v = 0
      /\ h # Unreachable /\ h # 0 /\ size # 0 /\ n.switching = "legacy" => v = h * n.hop
      /\ h # Unreachable /\ h # 0 /\ size # 0 /\ n.switching # "legacy" /\ n.link = 0 => v = Unreachable
      /\ h # Unreachable /\ h # 0 /\ size # 0 /\ n.switching = "cut" /\ n.link # 0
            => v = h * n.hop + Serialized(n, size)
      /\ h # Unreachable /\ h # 0 /\ size # 0 /\ n.switching = "store" /\ n.link # 0
            => v = h * (n.hop + Serialized(n, size))
  BY DEF TransferCycles, h
<1>. SUFFICES v \in Nat \cup {Unreachable}
  OBVIOUS
<1>. HIDE DEF v
<1>2. CASE h = Unreachable \/ h = 0 \/ size = 0
  BY <1>0, <1>1, <1>2 DEF Unreachable
<1>3. CASE h \in Nat /\ h # 0 /\ size # 0 /\ n.switching = "legacy"
  BY <1>0, <1>1, <1>3 DEF Unreachable
<1>4. CASE h \in Nat /\ h # 0 /\ size # 0 /\ n.switching # "legacy" /\ n.link = 0
  BY <1>0, <1>1, <1>4 DEF Unreachable
<1>5. CASE h \in Nat /\ h # 0 /\ size # 0 /\ n.switching # "legacy" /\ n.link # 0
  <2>1. Serialized(n, size) \in Nat
    BY <1>5, SerializedType
  <2>2. h * n.hop + Serialized(n, size) \in Nat /\ h * (n.hop + Serialized(n, size)) \in Nat
    BY <1>1, <1>5, <2>1
  <2>. QED
    BY <1>0, <1>1, <1>5, <2>2 DEF Unreachable
<1>. QED
  BY <1>1, <1>2, <1>3, <1>4, <1>5

-----------------------------------------------------------------------------
(* Who owns which memory, and what the cycles are for.                      *)

IsCells(c) == IsSeq(c) /\ Len(c) \in {CreatedSize, DefaultSize}
IsCore(c) ==
    /\ c = [mem |-> c.mem, cells |-> c.cells, cycles |-> c.cycles]
    /\ c.mem \in Nat /\ c.cycles \in Nat /\ IsCells(c.cells)

CyclesOf(cs) == BarTotal([i \in 1 .. Len(cs) |-> cs[i].cycles])
MemsOf(cs) == {cs[i].mem : i \in 1 .. Len(cs)}

ClusterShape ==
    /\ net \in Nets \cup {NoNet} /\ (net = NoNet => cores = <<>>)
    /\ IsSeq(cores) /\ Len(cores) <= net.count
    /\ \A i \in 1 .. Len(cores) : IsCore(cores[i])
    /\ traffic \in [messages : Nat, bytes : Nat, cycles : Nat, barriers : Nat, dropped : Nat]

\* No allocation has two owners, and what lives is what is owned.
ClusterOwners ==
    /\ allocs \in 0 .. MaxAllocs /\ legacy \in 0 .. allocs
    /\ \A i \in 1 .. Len(cores) : cores[i].mem \in 1 .. allocs /\ cores[i].mem # legacy
    /\ \A i, j \in 1 .. Len(cores) : cores[i].mem = cores[j].mem => i = j
    /\ live = MemsOf(cores) \cup ({legacy} \ {0})

\* Nothing is charged before the last core is there.
ClusterLedger ==
    net # NoNet =>
        /\ CyclesOf(cores) + traffic.dropped
             = traffic.cycles + 2 * net.hop * traffic.barriers * net.count
        /\ Len(cores) < net.count =>
             traffic = NoTraffic /\ \A i \in 1 .. Len(cores) : cores[i].cycles = 0

ClusterInv == ClusterShape /\ ClusterOwners /\ ClusterLedger

\* No cluster is created with the network of no cluster.
LEMMA NoNetApart ==
    /\ NoNet \notin Nets /\ NoNet.count = 0 /\ CoreIds(NoNet) = {}
    /\ \A n \in Nets : n \in Networks /\ n.count \in Nat \ {0} /\ n.hop \in Nat
<1>1. NoNet.count = 0
  BY DEF NoNet
<1>2. CoreIds(NoNet) = {}
  BY <1>1 DEF CoreIds
<1>3. \A n \in Nets : n \in Networks /\ n.count \in Nat \ {0} /\ n.hop \in Nat
  BY ClusterAssumption DEF Networks
<1>4. NoNet \notin Nets
  BY <1>1, <1>3
<1>. QED
  BY <1>1, <1>2, <1>3, <1>4

Changed(c, x, m) == [c EXCEPT !.cells = x, !.cycles = m]

Becomes(e, c, x, m) == IsCore(e) /\ e.mem = c.mem /\ e.cells = x /\ e.cycles = m

\* A core whose region and cycles are replaced keeps its memory.
LEMMA CoreChanged ==
    \A c, x, m : IsCore(c) /\ IsCells(x) /\ m \in Nat => Becomes(Changed(c, x, m), c, x, m)
<1>. TAKE c, x, m
<1>. HAVE IsCore(c) /\ IsCells(x) /\ m \in Nat
<1>1. c \in [mem : {c.mem}, cells : {c.cells}, cycles : {c.cycles}]
  BY DEF IsCore
<1>. DEFINE e == [c EXCEPT !.cells = x, !.cycles = m]
<1>2. e \in [mem : {c.mem}, cells : {x}, cycles : {m}]
  BY <1>1
<1>. HIDE DEF e
<1>3. e = [mem |-> e.mem, cells |-> e.cells, cycles |-> e.cycles]
  BY <1>2
<1>4. e.mem = c.mem /\ e.cells = x /\ e.cycles = m
  BY <1>2
<1>5. IsCore(e) /\ e.mem = c.mem /\ e.cells = x /\ e.cycles = m
  BY <1>3, <1>4 DEF IsCore
<1>. QED
  BY <1>5 DEF e, Changed, Becomes

\* A core just initialized: zeroed, uncharged, in an allocation of its own.
LEMMA FreshCoreMade ==
    ASSUME ClusterInv, allocs < MaxAllocs, NEW size \in {CreatedSize, DefaultSize}
    PROVE  /\ IsCore(FreshCore(size)) /\ FreshCore(size).mem = allocs + 1
           /\ FreshCore(size).cycles = 0
<1>. DEFINE cells == [a \in 1 .. size |-> 0]
<1>1. size \in Nat
  BY ClusterAssumption
<1>2. cells = [i \in 1 .. size |-> cells[i]]
  OBVIOUS
<1>. HIDE DEF cells
<1>3. IsCells(cells)
  BY <1>1, <1>2, SeqMade DEF IsCells
<1>4. allocs + 1 \in Nat
  BY ClusterAssumption DEF ClusterInv, ClusterOwners
<1>. QED
  BY <1>3, <1>4 DEF IsCore, FreshCore, Fresh, cells

\* Steps that move no memory keep its owners.
LEMMA SameOwners ==
    ASSUME ClusterInv, Len(cores') = Len(cores),
           \A i \in 1 .. Len(cores) : cores'[i].mem = cores[i].mem,
           UNCHANGED <<legacy, live, allocs>>
    PROVE  ClusterOwners'
<1>1. MemsOf(cores') = MemsOf(cores)
  BY DEF MemsOf
<1>2. MemsOf(cores)' = MemsOf(cores')
  BY DEF MemsOf
<1>. QED
  BY <1>1, <1>2 DEF ClusterInv, ClusterOwners

\* The cycles of the cores have a total.
LEMMA CyclesTotalled ==
    ASSUME NEW cs, IsSeq(cs), \A i \in 1 .. Len(cs) : cs[i].cycles \in Nat
    PROVE  /\ IsFiniteSet(1 .. Len(cs))
           /\ [i \in 1 .. Len(cs) |-> cs[i].cycles] \in [1 .. Len(cs) -> Nat]
           /\ CyclesOf(cs) \in Nat
<1>1. Len(cs) \in Int /\ 1 \in Int
  BY DEF IsSeq
<1>2. IsFiniteSet(1 .. Len(cs))
  BY ONLY <1>1, FS_Interval
<1>3. [i \in 1 .. Len(cs) |-> cs[i].cycles] \in [1 .. Len(cs) -> Nat]
  OBVIOUS
<1>. QED
  BY <1>2, <1>3, BarsFinite DEF CyclesOf

\* Cores whose regions alone are written stay what they are.
LEMMA OnlyCellsWritten ==
    ASSUME ClusterInv, IsSeq(cores'), Len(cores') = Len(cores),
           \A i \in 1 .. Len(cores) :
               /\ IsCore(cores'[i]) /\ cores'[i].mem = cores[i].mem
               /\ cores'[i].cycles = cores[i].cycles,
           UNCHANGED <<net, legacy, live, allocs>>, net # NoNet, Len(cores) = net.count,
           traffic' \in [messages : Nat, bytes : Nat, cycles : Nat, barriers : Nat, dropped : Nat],
           traffic'.cycles = traffic.cycles, traffic'.barriers = traffic.barriers,
           traffic'.dropped = traffic.dropped
    PROVE  ClusterInv'
<1>1. ClusterOwners'
  BY SameOwners
<1>2. CyclesOf(cores)' = CyclesOf(cores)
  <2>1. [i \in 1 .. Len(cores') |-> cores'[i].cycles] = [i \in 1 .. Len(cores) |-> cores[i].cycles]
    OBVIOUS
  <2>. QED
    BY <2>1 DEF CyclesOf
<1>3. ClusterShape'
  BY DEF ClusterInv, ClusterShape
<1>4. net.count \in Nat
  BY NoNetApart DEF ClusterInv, ClusterShape
<1>5. ClusterLedger'
  BY <1>2, <1>4 DEF ClusterInv, ClusterLedger
<1>. QED
  BY <1>1, <1>3, <1>5 DEF ClusterInv

\* tu_core_create_with_id keeps the invariant.
LEMMA AddCore ==
    ASSUME ClusterInv, NEW c, IsCore(c), c.mem = allocs + 1, c.cycles = 0,
           net # NoNet, Len(cores) < net.count, allocs < MaxAllocs, allocs' = Fresh,
           live' = (live \ {legacy}) \cup {Fresh}, legacy' = 0,
           cores' = Append(cores, c), UNCHANGED <<net, traffic>>
    PROVE  ClusterInv'
<1>. DEFINE L == Len(cores)
<1>1. /\ IsSeq(cores) /\ L \in Nat /\ net.count \in Nat \ {0}
      /\ allocs \in Nat /\ MaxAllocs \in Nat
  BY NoNetApart, ClusterAssumption DEF ClusterInv, ClusterShape, ClusterOwners, IsSeq
<1>2. /\ IsSeq(cores') /\ Len(cores') = L + 1
      /\ \A i \in 1 .. L : cores'[i] = cores[i]
      /\ cores'[L + 1] = c
  BY <1>1, AppendMade
<1>3. \A i \in 1 .. L + 1 : IsCore(cores'[i])
  BY <1>1, <1>2 DEF ClusterInv, ClusterShape
<1>4. ClusterShape'
  BY <1>1, <1>2, <1>3 DEF ClusterInv, ClusterShape
<1>5. MemsOf(cores') = MemsOf(cores) \cup {allocs + 1}
  <2>1. \A i \in 1 .. L + 1 : i \in 1 .. L \/ i = L + 1
    BY <1>1
  <2>2. \A i \in 1 .. L : i \in 1 .. L + 1
    BY <1>1
  <2>3. L + 1 \in 1 .. L + 1
    BY <1>1
  <2>. QED
    BY <1>2, <2>1, <2>2, <2>3 DEF MemsOf
<1>6. ClusterOwners'
  <2>1. \A i \in 1 .. L : cores[i].mem \in 1 .. allocs /\ cores[i].mem # legacy
    BY DEF ClusterInv, ClusterOwners
  <2>2. legacy \notin MemsOf(cores)
    BY <2>1 DEF MemsOf
  <2>3. live' = MemsOf(cores') \cup ({0} \ {0})
    BY <2>2, <1>5 DEF ClusterInv, ClusterOwners, Fresh
  <2>4. allocs' \in 0 .. MaxAllocs /\ legacy' \in 0 .. allocs'
    BY <1>1 DEF Fresh
  <2>5. \A i \in 1 .. L + 1 : cores'[i].mem \in 1 .. allocs' /\ cores'[i].mem # 0
    BY <1>1, <1>2, <2>1 DEF Fresh
  <2>6. \A i, j \in 1 .. L + 1 : cores'[i].mem = cores'[j].mem => i = j
    <3>. SUFFICES ASSUME NEW i \in 1 .. L + 1, NEW j \in 1 .. L + 1, cores'[i].mem = cores'[j].mem
                  PROVE  i = j
      OBVIOUS
    <3>1. CASE i \in 1 .. L /\ j \in 1 .. L
      BY <3>1, <1>2 DEF ClusterInv, ClusterOwners
    <3>2. CASE i = L + 1 /\ j \in 1 .. L
      BY <3>2, <1>1, <1>2, <2>1
    <3>3. CASE i \in 1 .. L /\ j = L + 1
      BY <3>3, <1>1, <1>2, <2>1
    <3>. QED
      BY <1>1, <3>1, <3>2, <3>3
  <2>7. MemsOf(cores') = MemsOf(cores)'
    BY DEF MemsOf
  <2>. QED
    BY <1>2, <2>3, <2>4, <2>5, <2>6, <2>7 DEF ClusterOwners
<1>7. ClusterLedger'
  <2>1. traffic = NoTraffic /\ \A i \in 1 .. L : cores[i].cycles = 0
    BY DEF ClusterInv, ClusterLedger
  <2>2. \A i \in 1 .. L + 1 : cores'[i].cycles = 0
    BY <1>1, <1>2, <2>1
  <2>3. CyclesOf(cores') = 0
    <3>. DEFINE f == [i \in 1 .. Len(cores') |-> cores'[i].cycles]
    <3>1. \A i \in DOMAIN f : f[i] = 0
      BY <1>2, <2>2
    <3>. QED
      BY <3>1, TotalNone DEF CyclesOf
  <2>4. CyclesOf(cores)' = CyclesOf(cores')
    BY DEF CyclesOf
  <2>5. CyclesOf(cores') + NoTraffic.dropped = NoTraffic.cycles + 2 * net.hop * NoTraffic.barriers * net.count
    BY <1>1, <2>3, NoNetApart DEF NoTraffic, ClusterInv, ClusterShape
  <2>. QED
    BY <1>2, <2>1, <2>2, <2>4, <2>5 DEF ClusterLedger
<1>. QED
  BY <1>4, <1>6, <1>7 DEF ClusterInv

\* A cluster that is given up leaves the memory of the global state alone.
LEMMA NoCores ==
    ASSUME ClusterInv, net' = NoNet, cores' = <<>>,
           live' = live \ {CoreAt(i).mem : i \in 0 .. Len(cores) - 1},
           UNCHANGED <<legacy, traffic, allocs>>
    PROVE  ClusterInv'
<1>1. Len(cores') = 0 /\ IsSeq(cores')
  <2>1. Len(<<>>) = 0 /\ DOMAIN <<>> = {} /\ {} = 1 .. 0
    OBVIOUS
  <2>. QED
    BY <2>1 DEF IsSeq
<1>2. {CoreAt(i).mem : i \in 0 .. Len(cores) - 1} = MemsOf(cores)
  <2>1. Len(cores) \in Nat
    BY DEF ClusterInv, ClusterShape, IsSeq
  <2>2. \A i \in 0 .. Len(cores) - 1 : i + 1 \in 1 .. Len(cores)
    BY <2>1
  <2>3. \A i \in 1 .. Len(cores) : i - 1 \in 0 .. Len(cores) - 1 /\ (i - 1) + 1 = i
    BY <2>1
  <2>. QED
    BY <2>2, <2>3 DEF MemsOf, CoreAt
<1>3. live' = {legacy} \ {0}
  <2>1. legacy \notin MemsOf(cores)
    BY DEF ClusterInv, ClusterOwners, MemsOf
  <2>. QED
    BY <1>2, <2>1 DEF ClusterInv, ClusterOwners
<1>4. MemsOf(cores)' = {}
  BY <1>1 DEF MemsOf
<1>5. ClusterShape'
  BY <1>1, NoNetApart DEF ClusterInv, ClusterShape
<1>6. ClusterOwners'
  <2>1. 1 .. Len(cores') = {}
    BY <1>1
  <2>2. live' = MemsOf(cores)' \cup ({legacy'} \ {0})
    BY <1>3, <1>4
  <2>. QED
    BY <2>1, <2>2 DEF ClusterInv, ClusterOwners
<1>. QED
  BY <1>5, <1>6 DEF ClusterInv, ClusterLedger

\* tu_core_init of a core keeps the invariant: its cycles are lost, and counted.
LEMMA ReinitKeeps ==
    ASSUME ClusterInv, NEW c \in CoreIds(net), ReinitCore(c)
    PROVE  ClusterInv'
<1>. DEFINE L == Len(cores)
            k == c + 1
            new == FreshCore(DefaultSize)
<1>0. net # NoNet /\ L = net.count /\ allocs < MaxAllocs
  BY DEF ReinitCore, Complete
<1>1. /\ IsSeq(cores) /\ L \in Nat /\ net.count \in Nat \ {0} /\ k \in 1 .. L /\ c + 1 = k
      /\ allocs \in Nat /\ MaxAllocs \in Nat /\ net \in Networks
  BY <1>0, NoNetApart, ClusterAssumption DEF ClusterInv, ClusterShape, ClusterOwners, IsSeq, CoreIds
<1>2. IsCore(new) /\ new.mem = allocs + 1 /\ new.cycles = 0
  BY <1>0, FreshCoreMade
<1>. HIDE DEF new, k
<1>3. cores' = [cores EXCEPT ![k] = new] /\ CoreAt(c) = cores[k]
  BY <1>1 DEF ReinitCore, CoreAt, new
<1>4. cores = [i \in 1 .. L |-> cores[i]]
  BY <1>1 DEF IsSeq
<1>5. \A i \in 1 .. L : cores'[i] = IF i = k THEN new ELSE cores[i]
  BY <1>1, <1>3, <1>4
<1>6. IsSeq(cores') /\ Len(cores') = L
  <2>1. cores' = [i \in 1 .. L |-> cores'[i]]
    BY <1>3, <1>4
  <2>. QED
    BY <1>1, <2>1, SeqMade
<1>7. \A i \in 1 .. L : /\ IsCore(cores[i]) /\ cores[i].cycles \in Nat
                        /\ cores[i].mem \in 1 .. allocs /\ cores[i].mem # legacy
  BY DEF ClusterInv, ClusterShape, ClusterOwners, IsCore
<1>8. /\ traffic' = [traffic EXCEPT !.dropped = @ + cores[k].cycles]
      /\ net' = net /\ legacy' = 0 /\ allocs' = allocs + 1
      /\ live' = (live \ {cores[k].mem, legacy}) \cup {allocs + 1}
  BY <1>3 DEF ReinitCore, Fresh
<1>9. ClusterShape'
  <2>1. \A i \in 1 .. L : IsCore(cores'[i])
    BY <1>2, <1>5, <1>7
  <2>2. traffic' \in [messages : Nat, bytes : Nat, cycles : Nat, barriers : Nat, dropped : Nat]
    <3>. DEFINE m == cores[k].cycles
                T == [messages : Nat, bytes : Nat, cycles : Nat, barriers : Nat, dropped : Nat]
    <3>1. m \in Nat /\ traffic \in T
      BY <1>1, <1>7 DEF ClusterInv, ClusterShape
    <3>2. traffic' = [traffic EXCEPT !.dropped = @ + m]
      BY <1>8
    <3>. HIDE DEF m
    <3>. QED
      BY <3>1, <3>2
  <2>. QED
    BY <1>0, <1>6, <1>8, <2>1, <2>2 DEF ClusterInv, ClusterShape
<1>10. ClusterOwners'
  <2>1. MemsOf(cores') = (MemsOf(cores) \ {cores[k].mem}) \cup {allocs + 1}
    <3>1. \A i \in 1 .. L : i # k => cores[i].mem # cores[k].mem /\ cores'[i].mem = cores[i].mem
      BY <1>1, <1>5 DEF ClusterInv, ClusterOwners
    <3>2. cores'[k].mem = allocs + 1
      BY <1>1, <1>2, <1>5
    <3>. QED
      BY <1>1, <1>6, <3>1, <3>2 DEF MemsOf
  <2>2. legacy \notin MemsOf(cores)
    BY <1>7 DEF MemsOf
  <2>3. live' = MemsOf(cores') \cup ({0} \ {0})
    BY <2>1, <2>2, <1>8 DEF ClusterInv, ClusterOwners
  <2>4. \A i \in 1 .. L : cores'[i].mem \in 1 .. allocs + 1 /\ cores'[i].mem # 0
    BY <1>1, <1>2, <1>5, <1>7
  <2>5. \A i, j \in 1 .. L : cores'[i].mem = cores'[j].mem => i = j
    <3>. SUFFICES ASSUME NEW i \in 1 .. L, NEW j \in 1 .. L, cores'[i].mem = cores'[j].mem
                  PROVE  i = j
      OBVIOUS
    <3>1. CASE i # k /\ j # k
      BY <3>1, <1>5 DEF ClusterInv, ClusterOwners
    <3>2. CASE i = k /\ j # k
      BY <3>2, <1>1, <1>2, <1>5, <1>7
    <3>3. CASE i # k /\ j = k
      BY <3>3, <1>1, <1>2, <1>5, <1>7
    <3>. QED
      BY <3>1, <3>2, <3>3
  <2>6. MemsOf(cores') = MemsOf(cores)'
    BY DEF MemsOf
  <2>7. allocs' \in 0 .. MaxAllocs /\ legacy' \in 0 .. allocs'
    BY <1>0, <1>1, <1>8
  <2>. QED
    BY <1>6, <1>8, <2>3, <2>4, <2>5, <2>6, <2>7 DEF ClusterOwners
<1>11. ClusterLedger'
  <2>. DEFINE f == [i \in 1 .. L |-> cores[i].cycles]
              g == [i \in 1 .. L |-> cores'[i].cycles]
  <2>1. f \in [1 .. L -> Nat] /\ f[k] = cores[k].cycles
    BY <1>1, <1>7
  <2>0. IsFiniteSet(1 .. L)
    BY <1>1, FS_Interval
  <2>2. g = [f EXCEPT ![k] = 0]
    BY <1>2, <1>5
  <2>3. CyclesOf(cores)' = BarTotal(g) /\ CyclesOf(cores) = BarTotal(f)
    BY <1>6 DEF CyclesOf
  <2>. HIDE DEF f, g
  <2>4. BarTotal(g) = BarTotal(f) - f[k] + 0 /\ BarTotal(f) \in Nat
    <3>1. k \in 1 .. L /\ 0 \in Nat
      BY <1>1
    <3>. DEFINE S == 1 .. L
    <3>. HIDE DEF S
    <3>2. IsFiniteSet(S) /\ f \in [S -> Nat] /\ k \in S
      BY <2>0, <2>1, <3>1 DEF S
    <3>3. BarTotal([f EXCEPT ![k] = 0]) = BarTotal(f) - f[k] + 0 /\ BarTotal(f) \in Nat
      BY <3>1, <3>2, TotalChanged
    <3>. QED
      BY <2>2, <3>3
  <2>5. /\ traffic'.dropped = traffic.dropped + f[k] /\ traffic'.cycles = traffic.cycles
        /\ traffic'.barriers = traffic.barriers /\ traffic.dropped \in Nat
    BY <1>8, <2>1 DEF ClusterInv, ClusterShape
  <2>6. CyclesOf(cores)' + traffic'.dropped = CyclesOf(cores) + traffic.dropped
    BY <1>1, <2>1, <2>3, <2>4, <2>5
  <2>. QED
    BY <1>0, <1>6, <1>8, <2>5, <2>6 DEF ClusterInv, ClusterLedger
<1>. QED
  BY <1>9, <1>10, <1>11 DEF ClusterInv

\* A core whose region is written in place.
Rewritten(core, o, d) == [core EXCEPT !.cells = Written(@, o, d)]

\* A core whose region is written in place keeps all the rest.
LEMMA RewrittenMade ==
    \A c, o, d : IsCore(c) /\ o \in Nat /\ IsSeq(d) =>
           /\ IsCore(Rewritten(c, o, d)) /\ Rewritten(c, o, d).mem = c.mem
           /\ Rewritten(c, o, d).cycles = c.cycles
           /\ Rewritten(c, o, d).cells = Written(c.cells, o, d)
<1>. TAKE c, o, d
<1>. HAVE IsCore(c) /\ o \in Nat /\ IsSeq(d)
<1>1. c \in [mem : {c.mem}, cells : {c.cells}, cycles : {c.cycles}]
  BY DEF IsCore
<1>. DEFINE x == Written(c.cells, o, d)
            e == [c EXCEPT !.cells = x]
<1>2. IsCells(x)
  BY WrittenMade DEF IsCore, IsCells
<1>3. Rewritten(c, o, d) = e
  BY DEF Rewritten
<1>. HIDE DEF x
<1>4. e \in [mem : {c.mem}, cells : {x}, cycles : {c.cycles}]
  BY <1>1
<1>. HIDE DEF e
<1>5. e = [mem |-> e.mem, cells |-> e.cells, cycles |-> e.cycles]
  BY <1>4
<1>6. e.mem = c.mem /\ e.cells = x /\ e.cycles = c.cycles
  BY <1>4
<1>7. IsCore(e)
  BY <1>2, <1>5, <1>6 DEF IsCore
<1>. QED
  BY <1>3, <1>6, <1>7 DEF x

\* Cores some of whose regions are written, all with the same data.
Stored(o, d, S) ==
    cores' = [i \in DOMAIN cores |-> IF i \in S THEN Rewritten(cores[i], o, d) ELSE cores[i]]

\* Writing regions of cores keeps the invariant.
LEMMA AllRewritten ==
    ASSUME ClusterInv, Complete, UNCHANGED <<net, legacy, live, allocs>>,
           traffic' \in [messages : Nat, bytes : Nat, cycles : Nat, barriers : Nat, dropped : Nat],
           traffic'.cycles = traffic.cycles, traffic'.barriers = traffic.barriers,
           traffic'.dropped = traffic.dropped,
           NEW o \in Nat, NEW d, IsSeq(d), NEW S, Stored(o, d, S)
    PROVE  ClusterInv'
<1>0. cores' = [i \in DOMAIN cores |-> IF i \in S THEN Rewritten(cores[i], o, d) ELSE cores[i]]
  BY DEF Stored
<1>1. IsSeq(cores) /\ Len(cores) \in Nat /\ DOMAIN cores = 1 .. Len(cores)
  BY DEF ClusterInv, ClusterShape, IsSeq
<1>2. \A i \in 1 .. Len(cores) : cores'[i] = IF i \in S THEN Rewritten(cores[i], o, d) ELSE cores[i]
  BY <1>0, <1>1
<1>3. IsSeq(cores') /\ Len(cores') = Len(cores)
  <2>1. cores' = [i \in 1 .. Len(cores) |-> cores'[i]]
    BY <1>0, <1>1
  <2>. QED
    BY <1>1, <2>1, SeqMade
<1>4. \A i \in 1 .. Len(cores) :
         /\ IsCore(cores'[i]) /\ cores'[i].mem = cores[i].mem
         /\ cores'[i].cycles = cores[i].cycles
  <2>. TAKE i \in 1 .. Len(cores)
  <2>1. IsCore(cores[i])
    BY DEF ClusterInv, ClusterShape
  <2>2. /\ IsCore(Rewritten(cores[i], o, d)) /\ Rewritten(cores[i], o, d).mem = cores[i].mem
        /\ Rewritten(cores[i], o, d).cycles = cores[i].cycles
    BY <2>1, RewrittenMade
  <2>3. cores'[i] = Rewritten(cores[i], o, d) \/ cores'[i] = cores[i]
    BY <1>2
  <2>. QED
    BY <2>1, <2>2, <2>3
<1>. QED
  BY <1>3, <1>4, OnlyCellsWritten DEF Complete

\* Statistics that do not change.
LEMMA TrafficSame ==
    ASSUME ClusterInv, UNCHANGED traffic
    PROVE  /\ traffic' \in [messages : Nat, bytes : Nat, cycles : Nat, barriers : Nat, dropped : Nat]
           /\ traffic'.cycles = traffic.cycles /\ traffic'.barriers = traffic.barriers
           /\ traffic'.dropped = traffic.dropped
BY DEF ClusterInv, ClusterShape

\* The cores of a complete cluster, by number.
LEMMA CompleteShape ==
    ASSUME ClusterInv, Complete
    PROVE  /\ net \in Networks /\ net # NoNet /\ Len(cores) = net.count /\ net.count \in Nat \ {0}
           /\ DOMAIN cores = 1 .. net.count /\ IsSeq(cores)
           /\ CoreIds(net) = 0 .. net.count - 1
           /\ \A c \in CoreIds(net) : c + 1 \in 1 .. net.count /\ IsCore(cores[c + 1]) /\ IsCore(CoreAt(c))
<1>1. net \in Nets /\ Len(cores) = net.count /\ net # NoNet /\ IsSeq(cores)
  BY DEF Complete, ClusterInv, ClusterShape
<1>2. net \in Networks /\ net.count \in Nat \ {0} /\ CoreIds(net) = 0 .. net.count - 1
  BY <1>1, NoNetApart DEF CoreIds
<1>3. DOMAIN cores = 1 .. net.count
  BY <1>1 DEF IsSeq
<1>4. \A c \in CoreIds(net) : c + 1 \in 1 .. net.count
  BY <1>2
<1>5. \A c \in CoreIds(net) : IsCore(cores[c + 1])
  BY <1>1, <1>4 DEF ClusterInv, ClusterShape
<1>. QED
  BY <1>1, <1>2, <1>3, <1>4, <1>5 DEF CoreAt

\* A single value is a sequence.
LEMMA OneStored == \A v : IsSeq(<<v>>) /\ Len(<<v>>) = 1
<1>. TAKE v
<1>1. <<v>> = [i \in 1 .. 1 |-> <<v>>[i]]
  OBVIOUS
<1>. QED
  BY <1>1, SeqMade

\* Programs keep the invariant, refused ones too.
LEMMA ExecuteKeeps ==
    ASSUME ClusterInv, NEW c \in CoreIds(net), NEW a \in Nat, NEW v, Execute(c, a, v)
    PROVE  ClusterInv'
<1>1. Complete /\ cores' = [cores EXCEPT ![c + 1].cells = Written(@, a, <<v>>)]
      /\ UNCHANGED <<net, legacy, live, traffic, allocs>>
  BY DEF Execute
<1>2. c + 1 \in DOMAIN cores /\ DOMAIN cores = 1 .. Len(cores)
  BY <1>1, CompleteShape
<1>3. Stored(a, <<v>>, {c + 1})
  BY <1>1, <1>2 DEF Rewritten, Stored
<1>. QED
  BY <1>1, <1>3, OneStored, TrafficSame, AllRewritten

LEMMA SpmdKeeps ==
    ASSUME ClusterInv, NEW refused \in SUBSET CoreIds(net), NEW a \in Nat, NEW v,
           SpmdExecute(refused, a, v)
    PROVE  ClusterInv'
<1>. DEFINE S == {i \in 1 .. Len(cores) : i - 1 \notin refused}
<1>1. /\ Complete /\ UNCHANGED <<net, legacy, live, traffic, allocs>>
      /\ cores' = [i \in DOMAIN cores |->
                    IF i - 1 \in refused THEN cores[i]
                    ELSE [cores[i] EXCEPT !.cells = Written(@, a, <<v>>)]]
  BY DEF SpmdExecute
<1>2. DOMAIN cores = 1 .. Len(cores)
  BY <1>1, CompleteShape
<1>3. Stored(a, <<v>>, S)
  BY <1>1, <1>2 DEF Rewritten, Stored
<1>. HIDE DEF S
<1>. QED
  BY <1>1, <1>3, OneStored, TrafficSame, AllRewritten

\* The sum of the parts, position by position.
LEMMA SumMade ==
    ASSUME NEW p, NEW w, w[3] \in Nat
    PROVE  /\ IsSeq(SumOf(p, w)) /\ Len(SumOf(p, w)) = w[3]
           /\ \A k \in 1 .. w[3] : SumOf(p, w)[k] = SumFunction([c \in CoreIds(net) |-> p[c][k]])
<1>. DEFINE s == SumOf(p, w)
<1>1. \A k \in 1 .. w[3] : s[k] = SumFunction([c \in CoreIds(net) |-> p[c][k]])
  BY DEF SumOf
<1>2. s = [k \in 1 .. w[3] |-> s[k]]
  BY DEF SumOf
<1>. HIDE DEF s
<1>3. Len(s) = w[3] /\ IsSeq(s)
  BY <1>2, SeqMade
<1>. QED
  BY <1>1, <1>3 DEF s

\* The windows of transfers are not empty.
LEMMA WindowsType ==
    \A w \in Windows : w[1] \in Nat /\ w[2] \in Nat /\ w[3] \in Nat \ {0}
BY ClusterAssumption

\* tu_cluster_allreduce_sum_f32 keeps the invariant.
LEMMA AllReduceKeeps ==
    ASSUME ClusterInv, NEW w \in Windows, AllReduce(w)
    PROVE  ClusterInv'
<1>1. /\ Complete /\ UNCHANGED <<net, legacy, live, allocs>>
      /\ traffic' = [traffic EXCEPT !.messages = @ + net.count - 1,
                                    !.bytes = @ + w[3] * (net.count - 1)]
  BY DEF AllReduce
<1>2. PICK p \in Parts(w) :
        cores' = [i \in DOMAIN cores |-> [cores[i] EXCEPT !.cells = Written(@, w[2], SumOf(p, w))]]
  BY DEF AllReduce
<1>3. w[2] \in Nat /\ w[3] \in Nat
  BY WindowsType
<1>. DEFINE d == SumOf(p, w)
            S == 1 .. Len(cores)
<1>4. IsSeq(d)
  BY <1>3, SumMade
<1>5. DOMAIN cores = S /\ net.count \in Nat \ {0}
  BY <1>1, CompleteShape
<1>. HIDE DEF d
<1>6. Stored(w[2], d, S)
  BY <1>2, <1>5 DEF Rewritten, Stored, d
<1>7. /\ traffic' \in [messages : Nat, bytes : Nat, cycles : Nat, barriers : Nat, dropped : Nat]
      /\ traffic'.cycles = traffic.cycles /\ traffic'.barriers = traffic.barriers
      /\ traffic'.dropped = traffic.dropped
  <2>1. traffic \in [messages : Nat, bytes : Nat, cycles : Nat, barriers : Nat, dropped : Nat]
    BY DEF ClusterInv, ClusterShape
  <2>. DEFINE k == net.count
              z == w[3]
  <2>2. k \in Nat \ {0} /\ z \in Nat
    BY <1>3, <1>5
  <2>3. traffic' = [traffic EXCEPT !.messages = @ + k - 1, !.bytes = @ + z * (k - 1)]
    BY <1>1
  <2>. HIDE DEF k, z
  <2>4. \A m \in Nat : m + k - 1 \in Nat /\ m + z * (k - 1) \in Nat
    BY <2>2
  <2>. QED
    BY <2>1, <2>3, <2>4
<1>. HIDE DEF S
<1>. QED
  BY <1>1, <1>3, <1>4, <1>6, <1>7, AllRewritten

\* tu_init and tu_shutdown keep the invariant.
LEMMA LegacyInitKeeps == ClusterInv /\ LegacyInit => ClusterInv'
<1>. SUFFICES ASSUME ClusterInv, LegacyInit PROVE ClusterInv'
  OBVIOUS
<1>1. /\ allocs < MaxAllocs /\ allocs' = allocs + 1 /\ legacy' = allocs + 1
      /\ live' = (live \ {legacy}) \cup {allocs + 1} /\ UNCHANGED <<net, cores, traffic>>
  BY DEF LegacyInit, Fresh
<1>2. allocs \in Nat /\ MaxAllocs \in Nat
  BY ClusterAssumption DEF ClusterInv, ClusterOwners
<1>3. ClusterShape' /\ ClusterLedger'
  BY <1>1 DEF ClusterInv, ClusterShape, ClusterLedger
<1>4. MemsOf(cores)' = MemsOf(cores) /\ legacy \notin MemsOf(cores)
  BY <1>1 DEF MemsOf, ClusterInv, ClusterOwners
<1>5. live' = MemsOf(cores)' \cup ({legacy'} \ {0})
  BY <1>1, <1>2, <1>4 DEF ClusterInv, ClusterOwners
<1>6. ClusterOwners'
  BY <1>1, <1>2, <1>5 DEF ClusterInv, ClusterOwners
<1>. QED
  BY <1>3, <1>6 DEF ClusterInv

LEMMA LegacyShutdownKeeps == ClusterInv /\ LegacyShutdown => ClusterInv'
<1>. SUFFICES ASSUME ClusterInv, LegacyShutdown PROVE ClusterInv'
  OBVIOUS
<1>1. /\ legacy' = 0 /\ live' = live \ {legacy} /\ UNCHANGED <<net, cores, traffic, allocs>>
  BY DEF LegacyShutdown
<1>2. allocs \in Nat /\ MaxAllocs \in Nat
  BY ClusterAssumption DEF ClusterInv, ClusterOwners
<1>3. ClusterShape' /\ ClusterLedger'
  BY <1>1 DEF ClusterInv, ClusterShape, ClusterLedger
<1>4. MemsOf(cores)' = MemsOf(cores) /\ legacy \notin MemsOf(cores)
  BY <1>1 DEF MemsOf, ClusterInv, ClusterOwners
<1>5. live' = MemsOf(cores)' \cup ({legacy'} \ {0})
  BY <1>1, <1>2, <1>4 DEF ClusterInv, ClusterOwners
<1>6. ClusterOwners'
  BY <1>1, <1>2, <1>5 DEF ClusterInv, ClusterOwners
<1>. QED
  BY <1>3, <1>6 DEF ClusterInv

\* tu_cluster_create keeps the invariant.
LEMMA CreateKeeps ==
    ASSUME ClusterInv, NEW n \in Nets, CreateCluster(n)
    PROVE  ClusterInv'
<1>1. /\ net = NoNet /\ net' = n /\ cores' = <<>> /\ traffic' = NoTraffic
      /\ UNCHANGED <<legacy, live, allocs>>
  BY DEF CreateCluster
<1>2. cores' = cores
  BY <1>1 DEF ClusterInv, ClusterShape
<1>3. n \in Networks /\ n.count \in Nat \ {0} /\ n # NoNet /\ n.hop \in Nat
  BY NoNetApart
<1>4. Len(cores) = 0 /\ 1 .. Len(cores) = {}
  BY <1>1, <1>2
<1>5. ClusterShape'
  <2>1. NoTraffic \in [messages : Nat, bytes : Nat, cycles : Nat, barriers : Nat, dropped : Nat]
    BY DEF NoTraffic
  <2>. QED
    BY <1>1, <1>2, <1>3, <1>4, <2>1 DEF ClusterInv, ClusterShape
<1>6. ClusterOwners'
  BY <1>1, <1>2, SameOwners
<1>7. ClusterLedger'
  <2>1. CyclesOf(cores)' = 0
    <3>. DEFINE f == [i \in 1 .. Len(cores') |-> cores'[i].cycles]
    <3>1. \A i \in DOMAIN f : f[i] = 0
      BY <1>2, <1>4
    <3>. QED
      BY <3>1, TotalNone DEF CyclesOf
  <2>2. 0 + NoTraffic.dropped = NoTraffic.cycles + 2 * n.hop * NoTraffic.barriers * n.count
    BY <1>3 DEF NoTraffic
  <2>. QED
    BY <1>1, <1>2, <1>4, <2>1, <2>2 DEF ClusterLedger
<1>. QED
  BY <1>5, <1>6, <1>7 DEF ClusterInv

\* A product of three, one of them incremented.
LEMMA Thrice ==
    \A x, y, k \in Nat : /\ 2 * x * y * k \in Nat /\ x * y * k \in Nat
                        /\ x * (y + 1) * k = x * y * k + k * x
<1>. TAKE x \in Nat, y \in Nat, k \in Nat
<1>. DEFINE p == x * y
<1>1. p \in Nat /\ 2 * x * y = 2 * p /\ x * (y + 1) = p + x
  OBVIOUS
<1>. HIDE DEF p
<1>2. \A q \in Nat : q * k \in Nat
  OBVIOUS
<1>3. 2 * p \in Nat /\ (p + x) * k = p * k + k * x
  BY <1>1
<1>4. x * y * k = p * k
  BY DEF p
<1>5. (2 * p) * k \in Nat /\ p * k \in Nat
  BY <1>1, <1>2, <1>3
<1>6. 2 * x * y * k = (2 * p) * k /\ x * (y + 1) * k = (p + x) * k
  BY <1>1
<1>. QED
  BY <1>3, <1>4, <1>5, <1>6

\* A core charged with cycles is a core.
LEMMA CoreCharged ==
    \A c, m : IsCore(c) /\ m \in Nat =>
        LET e == [c EXCEPT !.cycles = m]
        IN  IsCore(e) /\ e.mem = c.mem /\ e.cells = c.cells /\ e.cycles = m
<1>. TAKE c, m
<1>. HAVE IsCore(c) /\ m \in Nat
<1>1. c \in [mem : {c.mem}, cells : {c.cells}, cycles : {c.cycles}] /\ IsCells(c.cells)
  BY DEF IsCore
<1>. DEFINE e == [c EXCEPT !.cycles = m]
<1>2. e \in [mem : {c.mem}, cells : {c.cells}, cycles : {m}]
  BY <1>1
<1>. HIDE DEF e
<1>3. e = [mem |-> e.mem, cells |-> e.cells, cycles |-> e.cycles]
  BY <1>2
<1>4. e.mem = c.mem /\ e.cells = c.cells /\ e.cycles = m
  BY <1>2
<1>5. IsCore(e) /\ e.mem = c.mem /\ e.cells = c.cells /\ e.cycles = m
  BY <1>1, <1>3, <1>4 DEF IsCore
<1>. QED
  BY <1>5 DEF e

\* Charging the cores adds what each is charged.
LEMMA CyclesAdded ==
    \A cs, ds, g :
        /\ IsSeq(cs) /\ Len(ds) = Len(cs) /\ g \in [1 .. Len(cs) -> Nat]
        /\ \A i \in 1 .. Len(cs) : cs[i].cycles \in Nat /\ ds[i].cycles = cs[i].cycles + g[i]
        => CyclesOf(ds) = CyclesOf(cs) + BarTotal(g)
<1>. TAKE cs, ds, g
<1>. HAVE /\ IsSeq(cs) /\ Len(ds) = Len(cs) /\ g \in [1 .. Len(cs) -> Nat]
          /\ \A i \in 1 .. Len(cs) : cs[i].cycles \in Nat /\ ds[i].cycles = cs[i].cycles + g[i]
<1>. DEFINE S == 1 .. Len(cs)
            f == [i \in S |-> cs[i].cycles]
            h == [i \in S |-> ds[i].cycles]
<1>0. Len(cs) \in Nat
  BY DEF IsSeq
<1>1. IsFiniteSet(S)
  BY <1>0, FS_Interval
<1>2. f \in [S -> Nat] /\ g \in [S -> Nat]
  OBVIOUS
<1>3. CyclesOf(cs) = BarTotal(f) /\ CyclesOf(ds) = BarTotal(h)
  BY DEF CyclesOf
<1>4. h \in [S -> Nat] /\ \A i \in S : h[i] = f[i] + g[i]
  OBVIOUS
<1>. HIDE DEF f, h, S
<1>. QED
  BY ONLY <1>1, <1>2, <1>3, <1>4, TotalAdded

\* Cores each charged with cycles that the statistics count too.
LEMMA AllCharged ==
    ASSUME ClusterInv, Complete, UNCHANGED <<net, legacy, live, allocs>>,
           NEW g \in [1 .. Len(cores) -> Nat], IsSeq(cores'), Len(cores') = Len(cores),
           \A i \in 1 .. Len(cores) :
               /\ IsCore(cores'[i]) /\ cores'[i].mem = cores[i].mem
               /\ cores'[i].cycles = cores[i].cycles + g[i],
           traffic' \in [messages : Nat, bytes : Nat, cycles : Nat, barriers : Nat, dropped : Nat],
           traffic'.dropped = traffic.dropped,
           traffic'.cycles + 2 * net.hop * traffic'.barriers * net.count
               = traffic.cycles + 2 * net.hop * traffic.barriers * net.count + BarTotal(g)
    PROVE  ClusterInv'
<1>1. ClusterOwners'
  BY SameOwners
<1>2. CyclesOf(cores)' = CyclesOf(cores) + BarTotal(g)
  <2>1. \A i \in 1 .. Len(cores) : cores[i].cycles \in Nat
    BY DEF ClusterInv, ClusterShape, IsCore
  <2>2. IsSeq(cores)
    BY DEF ClusterInv, ClusterShape
  <2>3. /\ Len(cores') = Len(cores) /\ g \in [1 .. Len(cores) -> Nat]
        /\ \A i \in 1 .. Len(cores) :
              cores[i].cycles \in Nat /\ cores'[i].cycles = cores[i].cycles + g[i]
    BY <2>1
  <2>4. CyclesOf(cores') = CyclesOf(cores) + BarTotal(g)
    BY ONLY <2>2, <2>3, CyclesAdded
  <2>. QED
    BY <2>4 DEF CyclesOf
<1>3. ClusterShape'
  BY DEF ClusterInv, ClusterShape, Complete
<1>4. CyclesOf(cores) \in Nat /\ BarTotal(g) \in Nat
  <2>1. \A i \in 1 .. Len(cores) : cores[i].cycles \in Nat
    BY DEF ClusterInv, ClusterShape, IsCore
  <2>2. IsSeq(cores)
    BY DEF ClusterInv, ClusterShape
  <2>3. CyclesOf(cores) \in Nat /\ IsFiniteSet(1 .. Len(cores))
    BY <2>1, <2>2, CyclesTotalled
  <2>. QED
    BY <2>3, BarsFinite
<1>5. ClusterLedger'
  <2>. DEFINE a == 2 * net.hop * traffic.barriers * net.count
              b == 2 * net.hop * traffic'.barriers * net.count
  <2>1. /\ traffic.dropped \in Nat /\ traffic.cycles \in Nat /\ traffic.barriers \in Nat
        /\ traffic'.cycles \in Nat /\ traffic'.barriers \in Nat
        /\ net.hop \in Nat /\ net.count \in Nat /\ net # NoNet /\ Len(cores) = net.count
    BY NoNetApart DEF ClusterInv, ClusterShape, Complete
  <2>2. a \in Nat /\ b \in Nat
    BY <2>1, Thrice
  <2>3. CyclesOf(cores) + traffic.dropped = traffic.cycles + a
    BY <2>1 DEF ClusterInv, ClusterLedger
  <2>4. traffic'.cycles + b = traffic.cycles + a + BarTotal(g)
    OBVIOUS
  <2>5. ClusterLedger' <=> (CyclesOf(cores)' + traffic'.dropped = traffic'.cycles + b)
    BY <2>1 DEF ClusterLedger
  <2>. HIDE DEF a, b
  <2>. QED
    BY <1>2, <1>4, <2>1, <2>2, <2>3, <2>4, <2>5
<1>. QED
  BY <1>1, <1>3, <1>5 DEF ClusterInv

\* tu_cluster_barrier keeps the invariant: two hops for every core.
LEMMA BarrierKeeps == ClusterInv /\ Barrier => ClusterInv'
<1>. SUFFICES ASSUME ClusterInv, Barrier PROVE ClusterInv'
  OBVIOUS
<1>. DEFINE z == 2 * net.hop
            S == 1 .. Len(cores)
            g == [i \in S |-> z]
            B == traffic.barriers
            N == net.count
<1>1. /\ Complete /\ UNCHANGED <<net, legacy, live, allocs>>
      /\ cores' = [i \in DOMAIN cores |-> [cores[i] EXCEPT !.cycles = @ + 2 * net.hop]]
      /\ traffic' = [traffic EXCEPT !.barriers = @ + 1]
  BY DEF Barrier
<1>2. IsSeq(cores) /\ DOMAIN cores = S /\ Len(cores) = N /\ N \in Nat /\ net.hop \in Nat
  BY <1>1, CompleteShape DEF Networks
<1>3. z \in Nat /\ g \in [S -> Nat]
  BY <1>2
<1>4. IsSeq(cores') /\ Len(cores') = Len(cores)
  <2>1. cores' = [i \in 1 .. Len(cores) |-> cores'[i]]
    BY <1>1, <1>2
  <2>. QED
    BY <1>2, <2>1, SeqMade
<1>5. \A i \in S : /\ IsCore(cores'[i]) /\ cores'[i].mem = cores[i].mem
                   /\ cores'[i].cycles = cores[i].cycles + g[i]
  <2>. TAKE i \in S
  <2>. DEFINE c == cores[i]
              e == [c EXCEPT !.cycles = c.cycles + z]
  <2>1. IsCore(c)
    BY DEF ClusterInv, ClusterShape
  <2>2. c.cycles + z \in Nat /\ IsCells(c.cells)
    BY <1>3, <2>1 DEF IsCore
  <2>3. cores'[i] = [c EXCEPT !.cycles = c.cycles + z]
    BY <1>1, <1>2
  <2>4. g[i] = z
    OBVIOUS
  <2>. HIDE DEF c, z, g
  <2>6. IsCore(e) /\ e.mem = c.mem /\ e.cycles = c.cycles + z
    BY <2>1, <2>2, CoreCharged
  <2>7. IsCore(cores'[i]) /\ cores'[i].mem = c.mem /\ cores'[i].cycles = c.cycles + g[i]
    BY <2>3, <2>4, <2>6
  <2>. QED
    BY <2>7 DEF c
<1>6. traffic \in [messages : Nat, bytes : Nat, cycles : Nat, barriers : Nat, dropped : Nat]
  BY DEF ClusterInv, ClusterShape
<1>7. /\ traffic' \in [messages : Nat, bytes : Nat, cycles : Nat, barriers : Nat, dropped : Nat]
      /\ traffic'.dropped = traffic.dropped /\ traffic'.cycles = traffic.cycles
      /\ traffic'.barriers = B + 1 /\ B \in Nat /\ traffic.cycles \in Nat
  BY <1>1, <1>6
<1>8. BarTotal(g) = N * z
  <2>1. IsFiniteSet(S) /\ Cardinality(S) = N
    BY <1>2, FS_Interval
  <2>. HIDE DEF z, S, N
  <2>. QED
    BY <1>3, <2>1, TotalConstant
<1>9. z * (B + 1) * N = z * B * N + N * z /\ z * B * N \in Nat
  <2>. HIDE DEF z, B, N
  <2>. QED
    BY <1>2, <1>3, <1>7, Thrice
<1>10. traffic'.cycles + 2 * net.hop * traffic'.barriers * net.count
         = traffic.cycles + 2 * net.hop * traffic.barriers * net.count + BarTotal(g)
  <2>1. 2 * net.hop * traffic'.barriers * net.count = z * (B + 1) * N
    BY <1>7
  <2>2. 2 * net.hop * traffic.barriers * net.count = z * B * N /\ N * z \in Nat
    BY <1>2, <1>3
  <2>. HIDE DEF z, B, N
  <2>. QED
    BY <1>7, <1>8, <1>9, <2>1, <2>2
<1>. HIDE DEF g
<1>. QED
  BY <1>1, <1>3, <1>4, <1>5, <1>7, <1>10, AllCharged

\* A core that has received what a transfer carries.
LEMMA ReceivedMade ==
    \A c, o, d, m : IsCore(c) /\ o \in Nat /\ IsSeq(d) /\ m \in Nat =>
        Becomes(Changed(c, Written(c.cells, o, d), m), c, Written(c.cells, o, d), m)
<1>. TAKE c, o, d, m
<1>. HAVE IsCore(c) /\ o \in Nat /\ IsSeq(d) /\ m \in Nat
<1>. DEFINE x == Written(c.cells, o, d)
<1>1. IsCells(x)
  BY WrittenMade DEF IsCore, IsCells
<1>. HIDE DEF x
<1>2. Becomes(Changed(c, x, m), c, x, m)
  BY <1>1, CoreChanged
<1>. QED
  BY <1>2 DEF x

\* Transfers from one core to several keep the invariant.
LEMMA SentKeeps ==
    ASSUME ClusterInv, Complete, NEW src \in CoreIds(net), NEW dsts \in SUBSET CoreIds(net),
           NEW w \in Windows, \A d \in dsts : Sendable(src, d, w), Sent(src, dsts, w)
    PROVE  ClusterInv'
<1>. DEFINE N == net.count
            S == 1 .. Len(cores)
            data == Read(CoreAt(src).cells, w[1], w[3])
            t(d) == TransferCycles(net, src, d, w[3])
            g == [i \in S |-> IF i - 1 \in dsts THEN t(i - 1) ELSE 0]
            h == [d \in dsts |-> t(d)]
            p == [d \in dsts |-> d + 1]
<1>1. /\ net \in Networks /\ Len(cores) = N /\ N \in Nat \ {0} /\ DOMAIN cores = S /\ IsSeq(cores)
      /\ CoreIds(net) = 0 .. N - 1
      /\ \A c \in CoreIds(net) : IsCore(CoreAt(c))
      /\ \A i \in S : IsCore(cores[i])
  <2>1. \A i \in S : IsCore(cores[i])
    BY DEF ClusterInv, ClusterShape
  <2>. QED
    BY <2>1, CompleteShape
<1>2. /\ cores' = [i \in DOMAIN cores |->
                     IF i - 1 \in dsts THEN Received(cores[i], src, i - 1, w) ELSE cores[i]]
      /\ traffic' = [traffic EXCEPT
                      !.messages = @ + Cardinality(dsts),
                      !.bytes = @ + Cardinality(dsts) * w[3],
                      !.cycles = @ + SumFunction(h)]
      /\ UNCHANGED <<net, legacy, live, allocs>>
  BY DEF Sent
<1>3. w[1] \in Nat /\ w[2] \in Nat /\ w[3] \in Nat
  BY WindowsType
<1>4. \A d \in dsts : d \in CoreIds(net) /\ t(d) \in Nat
  <2>. SUFFICES ASSUME NEW d \in dsts PROVE t(d) \in Nat
    OBVIOUS
  <2>1. Sendable(src, d, w) /\ d \in CoreIds(net)
    OBVIOUS
  <2>2. t(d) # Unreachable
    BY <2>1 DEF Sendable
  <2>3. t(d) \in Nat \cup {Unreachable}
    BY <1>1, <1>3, <2>1, CyclesType
  <2>. QED
    BY <2>2, <2>3
<1>5. dsts # {} => IsSeq(data)
  <2>. SUFFICES ASSUME NEW d \in dsts PROVE IsSeq(data)
    OBVIOUS
  <2>1. Fits(CoreAt(src).cells, w[1], w[3])
    BY DEF Sendable
  <2>2. IsSeq(CoreAt(src).cells)
    BY <1>1 DEF IsCore, IsCells
  <2>. QED
    BY <1>3, <2>1, <2>2, ReadMade
<1>. HIDE DEF t
<1>6. g \in [S -> Nat] /\ h \in [dsts -> Nat]
  BY <1>4
<1>7. IsFiniteSet(S) /\ IsFiniteSet(dsts) /\ Cardinality(dsts) \in Nat
  <2>1. IsFiniteSet(S)
    BY <1>1, FS_Interval
  <2>2. IsFiniteSet(CoreIds(net))
    BY <1>1, FS_Interval
  <2>3. IsFiniteSet(dsts)
    BY <2>2, FS_Subset
  <2>. QED
    BY <2>1, <2>3, FS_CardinalityType
<1>8. BarTotal(g) = BarTotal(h)
  <2>1. p \in [dsts -> S] /\ \A a, b \in dsts : p[a] = p[b] => a = b
    BY <1>1
  <2>2. p \in Injection(dsts, S)
    <3>. HIDE DEF p, S
    <3>. QED
      BY <2>1 DEF Injection, IsInjective
  <2>3. \A d \in dsts : g[p[d]] = h[d]
    BY <1>1
  <2>4. \A i \in S : (\A d \in dsts : p[d] # i) => g[i] = 0
    BY <1>1
  <2>. HIDE DEF g, h, p, S
  <2>. QED
    BY ONLY <1>6, <1>7, <2>2, <2>3, <2>4, TotalMoved
<1>9. SumFunction(h) = BarTotal(g) /\ BarTotal(g) \in Nat
  <2>. HIDE DEF g, h, S
  <2>. QED
    BY ONLY <1>6, <1>7, <1>8, SumIsBarTotal, BarsFinite
<1>10. IsSeq(cores') /\ Len(cores') = Len(cores)
  <2>1. cores' = [i \in 1 .. Len(cores) |-> cores'[i]]
    BY <1>1, <1>2
  <2>. QED
    BY <1>1, <2>1, SeqMade
<1>11. \A i \in S : /\ IsCore(cores'[i]) /\ cores'[i].mem = cores[i].mem
                    /\ cores'[i].cycles = cores[i].cycles + g[i]
  <2>. TAKE i \in S
  <2>1. IsCore(cores[i])
    BY <1>1
  <2>2. CASE i - 1 \in dsts
    <3>1. cores'[i] = [cores[i] EXCEPT !.cells = Written(@, w[2], data), !.cycles = @ + t(i - 1)]
      BY <1>1, <1>2, <2>2 DEF Received, t
    <3>2. IsSeq(data) /\ t(i - 1) \in Nat /\ g[i] = t(i - 1) /\ w[2] \in Nat
      BY <1>3, <1>4, <1>5, <2>2
    <3>. DEFINE core == cores[i]
                spent == t(i - 1)
                at == w[2]
                total == core.cycles + spent
                new == Changed(core, Written(core.cells, at, data), total)
    <3>3. cores'[i] = new /\ g[i] = spent
      BY <3>1, <3>2 DEF Changed
    <3>4. IsCore(core) /\ at \in Nat /\ IsSeq(data) /\ total \in Nat
      BY <2>1, <3>2 DEF IsCore
    <3>. HIDE DEF data, g, core, spent, at, total
    <3>5. Becomes(new, core, Written(core.cells, at, data), total)
      BY <3>4, ReceivedMade
    <3>. HIDE DEF new
    <3>6. IsCore(cores'[i]) /\ cores'[i].mem = core.mem /\ cores'[i].cycles = core.cycles + g[i]
      BY <3>3, <3>5 DEF total, Becomes
    <3>. QED
      BY <3>6 DEF core
  <2>3. CASE i - 1 \notin dsts
    <3>1. cores'[i] = cores[i] /\ g[i] = 0
      BY <1>1, <1>2, <2>3
    <3>. HIDE DEF g
    <3>. QED
      BY <2>1, <3>1 DEF IsCore
  <2>. QED
    BY <2>2, <2>3
<1>12. traffic \in [messages : Nat, bytes : Nat, cycles : Nat, barriers : Nat, dropped : Nat]
  BY DEF ClusterInv, ClusterShape
<1>13. /\ traffic' \in [messages : Nat, bytes : Nat, cycles : Nat, barriers : Nat, dropped : Nat]
       /\ traffic'.dropped = traffic.dropped /\ traffic'.barriers = traffic.barriers
       /\ traffic'.cycles = traffic.cycles + BarTotal(g)
       /\ traffic.cycles \in Nat /\ traffic.barriers \in Nat
  <2>. DEFINE a == Cardinality(dsts)
              b == a * w[3]
              z == BarTotal(g)
  <2>1. a \in Nat /\ b \in Nat /\ z \in Nat
    BY <1>3, <1>7, <1>9
  <2>2. traffic' = [traffic EXCEPT !.messages = @ + a, !.bytes = @ + b, !.cycles = @ + z]
    BY <1>2, <1>9
  <2>. HIDE DEF a, b, z
  <2>3. /\ traffic' \in [messages : Nat, bytes : Nat, cycles : Nat, barriers : Nat, dropped : Nat]
        /\ traffic'.dropped = traffic.dropped /\ traffic'.barriers = traffic.barriers
        /\ traffic'.cycles = traffic.cycles + z /\ traffic.cycles \in Nat /\ traffic.barriers \in Nat
    <3>. DEFINE m == traffic.messages
                y == traffic.bytes
                s == traffic.cycles
                u == traffic.barriers
                v == traffic.dropped
                e == [traffic EXCEPT !.messages = @ + a, !.bytes = @ + b, !.cycles = @ + z]
    <3>1. /\ m \in Nat /\ y \in Nat /\ s \in Nat /\ u \in Nat /\ v \in Nat
          /\ traffic \in [messages : {m}, bytes : {y}, cycles : {s}, barriers : {u}, dropped : {v}]
      BY <1>12
    <3>2. e \in [messages : {m + a}, bytes : {y + b}, cycles : {s + z}, barriers : {u}, dropped : {v}]
      BY <3>1
    <3>3. traffic' = e
      BY <2>2
    <3>. HIDE DEF e
    <3>4. /\ traffic' \in [messages : {m + a}, bytes : {y + b}, cycles : {s + z}, barriers : {u}, dropped : {v}]
          /\ m + a \in Nat /\ y + b \in Nat /\ s + z \in Nat
      BY <2>1, <3>1, <3>2, <3>3
    <3>. HIDE DEF m, y, s, u, v
    <3>5. /\ traffic' \in [messages : Nat, bytes : Nat, cycles : Nat, barriers : Nat, dropped : Nat]
          /\ traffic'.dropped = v /\ traffic'.barriers = u /\ traffic'.cycles = s + z
      BY <3>1, <3>4
    <3>. QED
      BY <3>1, <3>5 DEF s, u, v
  <2>. QED
    BY <2>3 DEF z
<1>14. traffic'.cycles + 2 * net.hop * traffic'.barriers * net.count
         = traffic.cycles + 2 * net.hop * traffic.barriers * net.count + BarTotal(g)
  <2>. DEFINE z == 2 * net.hop * traffic.barriers * net.count
  <2>1. net.hop \in Nat
    BY <1>1 DEF Networks
  <2>2. z \in Nat
    BY <1>1, <1>13, <2>1, Thrice
  <2>3. 2 * net.hop * traffic'.barriers * net.count = z
    BY <1>13
  <2>. HIDE DEF z, g
  <2>4. traffic'.cycles + z = traffic.cycles + z + BarTotal(g)
    BY <1>9, <1>13, <2>2
  <2>. QED
    BY <2>3, <2>4 DEF z
<1>. HIDE DEF g
<1>. QED
  BY <1>2, <1>6, <1>10, <1>11, <1>13, <1>14, AllCharged

\* tu_cluster_send and tu_cluster_broadcast keep the invariant.
LEMMA SendKeeps ==
    ASSUME ClusterInv, NEW src \in CoreIds(net), NEW dst \in CoreIds(net), NEW w \in Windows,
           Send(src, dst, w)
    PROVE  ClusterInv'
<1>. DEFINE dsts == IF Sendable(src, dst, w) THEN {dst} ELSE {}
<1>1. Complete /\ Sent(src, dsts, w)
  BY DEF Send
<1>2. dsts \in SUBSET CoreIds(net) /\ \A d \in dsts : Sendable(src, d, w)
  OBVIOUS
<1>. HIDE DEF dsts
<1>. QED
  BY <1>1, <1>2, SentKeeps

LEMMA BroadcastKeeps ==
    ASSUME ClusterInv, NEW src \in CoreIds(net), NEW w \in Windows, Broadcast(src, w)
    PROVE  ClusterInv'
<1>1. Complete /\ Sent(src, Reached(src, w), w)
  BY DEF Broadcast
<1>2. /\ Reached(src, w) \in SUBSET CoreIds(net)
      /\ \A d \in Reached(src, w) : Sendable(src, d, w)
  <2>1. \A d \in CoreIds(net) : d <= d
    BY DEF CoreIds
  <2>. QED
    BY <2>1 DEF Reached, Others
<1>. QED
  BY <1>1, <1>2, SentKeeps

\* The invariant behind the theorems on the cluster: its cores have their
\* shape, each allocation of tu_core.c one owner, and the statistics of
\* tu_cluster.c and the cycles of the cores agree.
THEOREM ClusterInvariant == ClusterSpec => []ClusterInv
<1>1. ClusterInit => ClusterInv
  <2>. SUFFICES ASSUME ClusterInit PROVE ClusterInv
    OBVIOUS
  <2>1. Len(<<>>) = 0 /\ IsSeq(<<>>) /\ 1 .. Len(<<>>) = {}
    <3>1. Len(<<>>) = 0 /\ DOMAIN <<>> = {} /\ {} = 1 .. 0
      OBVIOUS
    <3>. QED
      BY <3>1 DEF IsSeq
  <2>2. net = NoNet /\ cores = <<>> /\ traffic = NoTraffic /\ legacy = 0 /\ live = {} /\ allocs = 0
    BY DEF ClusterInit
  <2>3. ClusterShape
    BY <2>1, <2>2, NoNetApart DEF ClusterShape, NoTraffic
  <2>4. MemsOf(cores) = {}
    BY <2>1, <2>2 DEF MemsOf
  <2>5. ClusterOwners
    BY <2>1, <2>2, <2>4, ClusterAssumption DEF ClusterOwners
  <2>. QED
    BY <2>2, <2>3, <2>5 DEF ClusterInv, ClusterLedger
<1>2. ClusterInv /\ [ClusterNext]_clusterVars => ClusterInv'
  <2>. SUFFICES ASSUME ClusterInv, [ClusterNext]_clusterVars PROVE ClusterInv'
    OBVIOUS
  <2>1. CASE LegacyInit
    BY <2>1, LegacyInitKeeps
  <2>2. CASE LegacyShutdown
    BY <2>2, LegacyShutdownKeeps
  <2>3. CASE CreateCore
    <3>1. CreatedSize \in {CreatedSize, DefaultSize} /\ allocs < MaxAllocs
      BY <2>3 DEF CreateCore
    <3>2. /\ IsCore(FreshCore(CreatedSize)) /\ FreshCore(CreatedSize).mem = allocs + 1
          /\ FreshCore(CreatedSize).cycles = 0
      BY <3>1, FreshCoreMade
    <3>. DEFINE core == FreshCore(CreatedSize)
    <3>3. /\ net # NoNet /\ Len(cores) < net.count /\ allocs' = Fresh
          /\ live' = (live \ {legacy}) \cup {Fresh} /\ legacy' = 0
          /\ cores' = Append(cores, core) /\ UNCHANGED <<net, traffic>>
      BY <2>3 DEF CreateCore
    <3>. HIDE DEF core
    <3>4. IsCore(core) /\ core.mem = allocs + 1 /\ core.cycles = 0
      BY <3>2 DEF core
    <3>. QED
      BY <3>1, <3>3, <3>4, AddCore
  <2>4. CASE CreateFails
    BY <2>4, NoCores DEF CreateFails
  <2>5. CASE DestroyCluster
    BY <2>5, NoCores DEF DestroyCluster
  <2>6. CASE Barrier
    BY <2>6, BarrierKeeps
  <2>7. CASE \E n \in Nets : CreateCluster(n)
    BY <2>7, CreateKeeps
  <2>8. ASSUME NEW c \in CoreIds(net), ReinitCore(c) PROVE ClusterInv'
    BY <2>8, ReinitKeeps
  <2>9. ASSUME NEW c \in CoreIds(net), NEW a \in 0 .. CreatedSize - 1, NEW v \in Values,
               Execute(c, a, v)
        PROVE  ClusterInv'
    <3>1. a \in Nat
      BY ClusterAssumption
    <3>. QED
      BY <2>9, <3>1, ExecuteKeeps
  <2>10. ASSUME NEW refused \in SUBSET CoreIds(net), NEW a \in {0}, NEW v \in Values,
                SpmdExecute(refused, a, v)
         PROVE  ClusterInv'
    <3>1. a \in Nat
      OBVIOUS
    <3>. QED
      BY <2>10, <3>1, SpmdKeeps
  <2>11. CASE \E src, dst \in CoreIds(net), w \in Windows : Send(src, dst, w)
    BY <2>11, SendKeeps
  <2>12. CASE \E src \in CoreIds(net), w \in Windows : Broadcast(src, w)
    BY <2>12, BroadcastKeeps
  <2>13. CASE \E w \in Windows : AllReduce(w)
    BY <2>13, AllReduceKeeps
  <2>14. CASE UNCHANGED clusterVars
    <3>1. UNCHANGED <<net, cores, legacy, live, traffic, allocs>>
      BY <2>14 DEF clusterVars
    <3>2. ClusterShape' /\ ClusterOwners' /\ ClusterLedger'
      BY <3>1 DEF ClusterInv, ClusterShape, ClusterOwners, ClusterLedger, CyclesOf, MemsOf
    <3>. QED
      BY <3>2 DEF ClusterInv
  <2>. QED
    BY <2>1, <2>2, <2>3, <2>4, <2>5, <2>6, <2>7, <2>8, <2>9, <2>10, <2>11, <2>12, <2>13, <2>14
    DEF ClusterNext
<1>. QED
  BY <1>1, <1>2, PTL DEF ClusterSpec

\* There are as many allocations of cores as cores.
LEMMA MemsCounted ==
    ASSUME ClusterInv
    PROVE  IsFiniteSet(MemsOf(cores)) /\ Cardinality(MemsOf(cores)) = Len(cores)
<1>. DEFINE S == 1 .. Len(cores)
            M == MemsOf(cores)
            p == [i \in S |-> cores[i].mem]
<1>1. Len(cores) \in Nat
  BY DEF ClusterInv, ClusterShape, IsSeq
<1>2. IsFiniteSet(S) /\ Cardinality(S) = Len(cores)
  <2>. DEFINE m == Len(cores)
  <2>1. m \in Nat /\ 1 \in Int /\ m \in Int
    BY <1>1
  <2>. HIDE DEF m
  <2>2. IsFiniteSet(1 .. m) /\ Cardinality(1 .. m) = m
    BY <2>1, FS_Interval
  <2>. QED
    BY <2>2 DEF m
<1>3. p \in [S -> M] /\ \A m \in M : \E i \in S : p[i] = m
  BY DEF MemsOf
<1>4. \A i, j \in S : p[i] = p[j] => i = j
  BY DEF ClusterInv, ClusterOwners
<1>. HIDE DEF p, S, M
<1>5. ExistsBijection(S, M)
  BY <1>3, <1>4 DEF ExistsBijection, Bijection, Injection, Surjection, IsInjective
<1>6. IsFiniteSet(M) /\ Cardinality(M) = Cardinality(S)
  BY <1>2, <1>5, FS_Bijection
<1>. QED
  BY <1>2, <1>6 DEF M

\* What the invariant says of the owners, in numbers.
LEMMA OwnedOnce == ClusterInv => MemoryOwnedOnce
<1>. SUFFICES ASSUME ClusterInv PROVE MemoryOwnedOnce
  OBVIOUS
<1>. DEFINE M == MemsOf(cores)
            held == {CoreAt(i).mem : i \in 0 .. Len(cores) - 1} \cup ({legacy} \ {0})
<1>1. held = M \cup ({legacy} \ {0})
  <2>1. Len(cores) \in Nat
    BY DEF ClusterInv, ClusterShape, IsSeq
  <2>2. \A i \in 0 .. Len(cores) - 1 : i + 1 \in 1 .. Len(cores)
    BY <2>1
  <2>3. \A i \in 1 .. Len(cores) : i - 1 \in 0 .. Len(cores) - 1 /\ (i - 1) + 1 = i
    BY <2>1
  <2>4. {CoreAt(i).mem : i \in 0 .. Len(cores) - 1} = M
    BY <2>2, <2>3 DEF MemsOf, CoreAt
  <2>. QED
    BY <2>4
<1>2. live = held
  BY <1>1 DEF ClusterInv, ClusterOwners
<1>3. legacy \notin M
  BY DEF MemsOf, ClusterInv, ClusterOwners
<1>4. IsFiniteSet(M) /\ Cardinality(M) = Len(cores) /\ Len(cores) \in Nat
  BY MemsCounted DEF ClusterInv, ClusterShape, IsSeq
<1>. HIDE DEF held, M
<1>5. Cardinality(held) = Len(cores) + (IF legacy = 0 THEN 0 ELSE 1)
  <2>1. CASE legacy = 0
    <3>1. held = M
      BY <1>1, <2>1
    <3>. QED
      BY <1>4, <2>1, <3>1
  <2>2. CASE legacy # 0
    <3>1. held = M \cup {legacy}
      BY <1>1, <2>2
    <3>2. Cardinality(M \cup {legacy}) = Cardinality(M) + 1
      BY <1>3, <1>4, FS_AddElement
    <3>. QED
      BY <1>4, <2>2, <3>1, <3>2
  <2>. QED
    BY <2>1, <2>2
<1>. QED
  BY <1>2, <1>5 DEF MemoryOwnedOnce, held

\* What the invariant says of the cycles, in the library's sum.
LEMMA Charged == ClusterInv => CyclesAccounted
<1>. SUFFICES ASSUME ClusterInv, Complete
              PROVE  SumFunction([i \in DOMAIN cores |-> cores[i].cycles]) + traffic.dropped
                       = traffic.cycles + 2 * net.hop * traffic.barriers * net.count
  BY DEF CyclesAccounted
<1>. DEFINE S == 1 .. Len(cores)
            f == [i \in S |-> cores[i].cycles]
<1>1. IsSeq(cores) /\ DOMAIN cores = S /\ \A i \in S : cores[i].cycles \in Nat
  BY DEF ClusterInv, ClusterShape, IsCore, IsSeq
<1>2. IsFiniteSet(S) /\ f \in [S -> Nat]
  BY <1>1, CyclesTotalled
<1>3. CyclesOf(cores) = BarTotal(f) /\ [i \in DOMAIN cores |-> cores[i].cycles] = f
  BY <1>1 DEF CyclesOf
<1>. HIDE DEF S, f
<1>4. SumFunction(f) = BarTotal(f)
  BY <1>2, SumIsBarTotal
<1>. QED
  BY <1>3, <1>4 DEF ClusterInv, ClusterLedger, Complete

\* The invariant is about values of these types.
LEMMA ClusterTyped == ClusterInv => ClusterTypeOK
<1>. SUFFICES ASSUME ClusterInv PROVE ClusterTypeOK
  OBVIOUS
<1>1. DOMAIN cores = 1 .. Len(cores) /\ allocs \in Nat /\ MaxAllocs \in Nat /\ allocs <= MaxAllocs
  BY ClusterAssumption DEF ClusterInv, ClusterShape, ClusterOwners, IsSeq
<1>2. \A m \in 1 .. allocs : m \in 1 .. MaxAllocs
  BY <1>1
<1>3. \A i \in DOMAIN cores : /\ cores[i].mem \in 1 .. MaxAllocs /\ cores[i].cycles \in Nat
                              /\ Len(cores[i].cells) \in {CreatedSize, DefaultSize}
  BY <1>1, <1>2 DEF ClusterInv, ClusterShape, ClusterOwners, IsCore, IsCells
<1>4. legacy \in 0 .. MaxAllocs
  BY <1>1 DEF ClusterInv, ClusterOwners
<1>5. live \subseteq 1 .. MaxAllocs
  BY <1>1, <1>2, <1>4 DEF ClusterInv, ClusterOwners, MemsOf
<1>. QED
  BY <1>3, <1>4, <1>5 DEF ClusterTypeOK, ClusterInv, ClusterShape

-----------------------------------------------------------------------------
(* The links of a mesh join the cores one row or one column apart.         *)

\* The core at a row and a column.
LEMMA AtRowAndCol ==
    \A n, r, c : n \in Networks /\ n.topology = "mesh" /\ r \in Nat /\ c \in 0 .. Cols(n) - 1 =>
        Row(n, Cols(n) * r + c) = r /\ Col(n, Cols(n) * r + c) = c
<1>. TAKE n, r, c
<1>. HAVE n \in Networks /\ n.topology = "mesh" /\ r \in Nat /\ c \in 0 .. Cols(n) - 1
<1>. DEFINE C == Cols(n)
            x == C * r + c
<1>1. C \in Nat \ {0} /\ c \in 0 .. C - 1
  BY ColsType
<1>. HIDE DEF C
<1>2. x \in Nat
  BY <1>1
<1>3. x \div C \in Nat /\ x % C \in 0 .. C - 1 /\ x = C * (x \div C) + (x % C)
  BY <1>1, <1>2, Division
<1>4. C * (x \div C) + (x % C) = C * r + c
  BY <1>3
<1>. DEFINE q == x \div C
            m == x % C
<1>5. q \in Nat /\ m \in 0 .. C - 1 /\ C * q + m = C * r + c
  BY <1>3, <1>4
<1>. HIDE DEF q, m
<1>6. q = r /\ m = c
  BY <1>1, <1>5, DivisionUnique
<1>. QED
  BY <1>6 DEF q, m, C, Row, Col

Beside(n, d, e) ==
    \/ Col(n, e) = Col(n, d) /\ Row(n, e) \in {Row(n, d) - 1, Row(n, d) + 1}
    \/ Row(n, e) = Row(n, d) /\ Col(n, e) \in {Col(n, d) - 1, Col(n, d) + 1}

\* tu_cluster_neighbors in a mesh: a row or a column apart.
LEMMA MeshLinks ==
    \A n, d : n \in Networks /\ n.topology = "mesh" /\ d \in CoreIds(n) =>
        Neighbors(n, d) = {e \in CoreIds(n) : Beside(n, d, e)}
<1>. TAKE n, d
<1>. HAVE n \in Networks /\ n.topology = "mesh" /\ d \in CoreIds(n)
<1>. DEFINE C == Cols(n)
            R == Row(n, d)
            K == Col(n, d)
            Q == C * R
            N == n.count
            T == n.rows
<1>1. C \in Nat \ {0} /\ N \in Nat \ {0} /\ T \in Nat \ {0} /\ CoreIds(n) = 0 .. N - 1
  BY ColsType DEF CoreIds, Networks
<1>2. R \in 0 .. T - 1 /\ K \in 0 .. C - 1 /\ d = Q + K /\ d \in 0 .. N - 1
  BY <1>1, Coordinates
<1>3. Neighbors(n, d) =
            (IF R > 0 THEN {d - C} ELSE {})
            \cup (IF R + 1 < T /\ d + C < N THEN {d + C} ELSE {})
            \cup (IF K > 0 THEN {d - 1} ELSE {})
            \cup (IF K + 1 < C /\ d + 1 < N /\ Row(n, d + 1) = R THEN {d + 1} ELSE {})
  BY DEF Neighbors
<1>4. \A e \in CoreIds(n) :
         /\ Row(n, e) \in 0 .. T - 1 /\ Col(n, e) \in 0 .. C - 1
         /\ e = C * Row(n, e) + Col(n, e)
  BY Coordinates
<1>5. \A r, c : r \in Nat /\ c \in 0 .. C - 1 => Row(n, C * r + c) = r /\ Col(n, C * r + c) = c
  BY AtRowAndCol
<1>6. /\ Q \in Nat /\ C * (R + 1) = Q + C
      /\ R > 0 => C * (R - 1) = Q - C /\ Q - C \in Nat
  <2>. DEFINE r == R - 1
  <2>. HIDE DEF C, R
  <2>1. Q \in Nat /\ C * (R + 1) = Q + C /\ C * (R - 1) = Q - C
    BY <1>1, <1>2
  <2>2. R > 0 => R - 1 \in Nat
    BY <1>2
  <2>3. R > 0 => C * (R - 1) \in Nat
    BY <1>1, <2>2
  <2>. QED
    BY <2>1, <2>3
<1>. DEFINE B(e) == \/ Col(n, e) = K /\ Row(n, e) \in {R - 1, R + 1}
                    \/ Row(n, e) = R /\ Col(n, e) \in {K - 1, K + 1}
<1>7. \A e : Beside(n, d, e) <=> B(e)
  BY DEF Beside
<1>. HIDE DEF C, R, K, N, T
<1>8. R > 0 => d - C \in CoreIds(n) /\ B(d - C)
  <2>. SUFFICES ASSUME R > 0 PROVE d - C \in CoreIds(n) /\ B(d - C)
    OBVIOUS
  <2>1. d - C = C * (R - 1) + K /\ R - 1 \in Nat
    BY <1>1, <1>2, <1>6
  <2>2. Row(n, d - C) = R - 1 /\ Col(n, d - C) = K
    BY <1>2, <1>5, <2>1
  <2>3. d - C \in 0 .. N - 1
    <3>. HIDE DEF Q
    <3>. QED
      BY <1>1, <1>2, <1>6
  <2>. QED
    BY <1>1, <2>2, <2>3
<1>9. d + C < N => d + C \in CoreIds(n) /\ B(d + C)
  <2>. SUFFICES ASSUME d + C < N PROVE d + C \in CoreIds(n) /\ B(d + C)
    OBVIOUS
  <2>1. d + C = C * (R + 1) + K /\ R + 1 \in Nat
    BY <1>1, <1>2, <1>6
  <2>2. Row(n, d + C) = R + 1 /\ Col(n, d + C) = K
    BY <1>2, <1>5, <2>1
  <2>. QED
    BY <1>1, <1>2, <2>2
<1>10. K > 0 => d - 1 \in CoreIds(n) /\ B(d - 1)
  <2>. SUFFICES ASSUME K > 0 PROVE d - 1 \in CoreIds(n) /\ B(d - 1)
    OBVIOUS
  <2>1. d - 1 = C * R + (K - 1) /\ K - 1 \in 0 .. C - 1 /\ R \in Nat /\ d - 1 \in 0 .. N - 1
    <3>. HIDE DEF Q
    <3>1. d - 1 = Q + (K - 1) /\ K - 1 \in 0 .. C - 1 /\ R \in Nat /\ d - 1 \in 0 .. N - 1
      BY <1>1, <1>2, <1>6
    <3>. QED
      BY <3>1 DEF Q
  <2>2. Row(n, d - 1) = R /\ Col(n, d - 1) = K - 1
    BY <1>5, <2>1
  <2>. QED
    BY <1>1, <2>1, <2>2
<1>11. K + 1 < C /\ d + 1 < N => d + 1 \in CoreIds(n) /\ B(d + 1) /\ Row(n, d + 1) = R
  <2>. SUFFICES ASSUME K + 1 < C, d + 1 < N
                PROVE d + 1 \in CoreIds(n) /\ B(d + 1) /\ Row(n, d + 1) = R
    OBVIOUS
  <2>1. d + 1 = C * R + (K + 1) /\ K + 1 \in 0 .. C - 1 /\ R \in Nat
    <3>. HIDE DEF Q
    <3>1. d + 1 = Q + (K + 1) /\ K + 1 \in 0 .. C - 1 /\ R \in Nat
      BY <1>1, <1>2, <1>6
    <3>. QED
      BY <3>1 DEF Q
  <2>2. Row(n, d + 1) = R /\ Col(n, d + 1) = K + 1
    BY <1>5, <2>1
  <2>. QED
    BY <1>1, <1>2, <2>2
<1>12. ASSUME NEW e \in CoreIds(n), B(e) PROVE e \in Neighbors(n, d)
  <2>. DEFINE r == Row(n, e)
              k == Col(n, e)
  <2>1. r \in 0 .. T - 1 /\ k \in 0 .. C - 1 /\ e = C * r + k /\ e \in 0 .. N - 1
    BY <1>1, <1>4
  <2>2. B(e) <=> (k = K /\ r \in {R - 1, R + 1}) \/ (r = R /\ k \in {K - 1, K + 1})
    OBVIOUS
  <2>. HIDE DEF r, k
  <2>3. CASE k = K /\ r = R - 1
    <3>1. R > 0 /\ C * r = Q - C
      BY <1>2, <1>6, <2>1, <2>3
    <3>. HIDE DEF Q
    <3>2. e = d - C
      BY <1>1, <1>2, <1>6, <2>1, <2>3, <3>1
    <3>. QED
      BY <1>3, <3>1, <3>2
  <2>4. CASE k = K /\ r = R + 1
    <3>1. R + 1 < T /\ C * r = Q + C
      BY <1>1, <1>2, <1>6, <2>1, <2>4
    <3>. HIDE DEF Q
    <3>2. e = d + C /\ d + C < N
      BY <1>1, <1>2, <1>6, <2>1, <2>4, <3>1
    <3>. QED
      BY <1>3, <3>1, <3>2
  <2>5. CASE r = R /\ k = K - 1
    <3>1. C * r = Q
      BY <2>5
    <3>. HIDE DEF Q
    <3>2. e = d - 1 /\ K > 0
      BY <1>1, <1>2, <1>6, <2>1, <2>5, <3>1
    <3>. QED
      BY <1>3, <3>2
  <2>6. CASE r = R /\ k = K + 1
    <3>1. C * r = Q
      BY <2>6
    <3>. HIDE DEF Q
    <3>2. e = d + 1 /\ K + 1 < C /\ d + 1 < N
      BY <1>1, <1>2, <1>6, <2>1, <2>6, <3>1
    <3>. QED
      BY <1>3, <1>11, <3>2
  <2>. QED
    BY <1>12, <2>2, <2>3, <2>4, <2>5, <2>6
<1>13. ASSUME NEW e \in Neighbors(n, d) PROVE e \in CoreIds(n) /\ B(e)
  <2>. HIDE DEF B
  <2>. QED
    BY <1>3, <1>8, <1>9, <1>10, <1>11
<1>. HIDE DEF B
<1>. QED
  BY <1>7, <1>12, <1>13

-----------------------------------------------------------------------------
(* A hop distance is the length of a shortest path: one link changes it by   *)
(* one at most, and every core away has a core one link closer beside it.   *)

Nearer(n, s, d) ==
    LET h == HopDistance(n, s, d)
    IN  /\ (h = 0) <=> (d = s)
        /\ h # Unreachable =>
              /\ h \in 0 .. n.count
              /\ \A e \in Neighbors(n, d) : /\ e \in CoreIds(n)
                                            /\ HopDistance(n, s, e) # Unreachable
                                            /\ HopDistance(n, s, e) <= h + 1
        /\ h # Unreachable /\ h # 0 =>
              \E e \in CoreIds(n) : d \in Neighbors(n, e) /\ HopDistance(n, s, e) = h - 1

\* tu_cluster_neighbors in a ring: one ahead or one behind.
LEMMA RingLinks ==
    \A n, c : n \in Networks /\ n.topology = "ring" /\ c \in CoreIds(n) =>
        Neighbors(n, c) = {IF c = 0 THEN n.count - 1 ELSE c - 1,
                           IF c = n.count - 1 THEN 0 ELSE c + 1} \ {c}
<1>. TAKE n, c
<1>. HAVE n \in Networks /\ n.topology = "ring" /\ c \in CoreIds(n)
<1>. DEFINE N == n.count
<1>1. N \in Nat \ {0} /\ c \in 0 .. N - 1
  BY DEF Networks, CoreIds
<1>2. Neighbors(n, c) = {(c + N - 1) % N, (c + 1) % N} \ {c}
  BY DEF Neighbors
<1>. HIDE DEF N
<1>3. c + N - 1 \in 0 .. 2 * N - 1 /\ c + 1 \in 0 .. 2 * N - 1
  BY <1>1
<1>4. (c + N - 1) % N = IF c = 0 THEN N - 1 ELSE c - 1
  <2>. DEFINE x == c + N - 1
  <2>. HIDE DEF x
  <2>1. x % N = IF x < N THEN x ELSE x - N
    BY <1>1, <1>3, Wrapped DEF x
  <2>. QED
    BY <1>1, <2>1 DEF x
<1>5. (c + 1) % N = IF c = N - 1 THEN 0 ELSE c + 1
  <2>. DEFINE x == c + 1
  <2>. HIDE DEF x
  <2>1. x % N = IF x < N THEN x ELSE x - N
    BY <1>1, <1>3, Wrapped DEF x
  <2>. QED
    BY <1>1, <2>1 DEF x
<1>. QED
  BY <1>2, <1>4, <1>5 DEF N

\* In a ring a core away has a link to one nearer, and none to one nearer by two.
LEMMA RingNearer ==
    ASSUME NEW n \in Networks, n.topology = "ring", NEW s \in CoreIds(n), NEW d \in CoreIds(n)
    PROVE  Nearer(n, s, d)
<1>. DEFINE N == n.count
            h(e) == HopDistance(n, s, e)
            A(e) == IF e >= s THEN e - s ELSE e + N - s
            B(e) == IF s >= e THEN s - e ELSE s + N - e
            prev(e) == IF e = 0 THEN N - 1 ELSE e - 1
            following(e) == IF e = N - 1 THEN 0 ELSE e + 1
<1>1. N \in Nat \ {0} /\ s \in 0 .. N - 1 /\ d \in 0 .. N - 1 /\ CoreIds(n) = 0 .. N - 1
  BY DEF Networks, CoreIds
<1>2. \A e \in CoreIds(n) : h(e) = IF A(e) <= B(e) THEN A(e) ELSE B(e)
  BY RingDistance DEF Ahead
<1>3. \A e \in CoreIds(n) : Neighbors(n, e) = {prev(e), following(e)} \ {e}
  BY RingLinks
<1>4. Nearer(n, s, d) <=>
        /\ (h(d) = 0) <=> (d = s)
        /\ h(d) # Unreachable =>
              /\ h(d) \in 0 .. N
              /\ \A e \in Neighbors(n, d) : e \in CoreIds(n) /\ h(e) # Unreachable /\ h(e) <= h(d) + 1
        /\ h(d) # Unreachable /\ h(d) # 0 =>
              \E e \in CoreIds(n) : d \in Neighbors(n, e) /\ h(e) = h(d) - 1
  BY DEF Nearer
<1>. HIDE DEF N, h
<1>5. \A e \in CoreIds(n) : /\ h(e) \in 0 .. N - 1 /\ prev(e) \in CoreIds(n) /\ following(e) \in CoreIds(n)
                            /\ (h(e) = 0) <=> (e = s)
  BY <1>1, <1>2
<1>6. \A e \in CoreIds(n) : h(prev(e)) <= h(e) + 1 /\ h(following(e)) <= h(e) + 1
  <2>. SUFFICES ASSUME NEW e \in CoreIds(n) PROVE h(prev(e)) <= h(e) + 1 /\ h(following(e)) <= h(e) + 1
    OBVIOUS
  <2>. DEFINE p == prev(e)
              q == following(e)
  <2>1. e \in 0 .. N - 1 /\ p \in 0 .. N - 1 /\ q \in 0 .. N - 1
    BY <1>1
  <2>2. p = e - 1 \/ (e = 0 /\ p = N - 1)
    OBVIOUS
  <2>3. q = e + 1 \/ (e = N - 1 /\ q = 0)
    OBVIOUS
  <2>4. /\ h(e) = IF A(e) <= B(e) THEN A(e) ELSE B(e)
        /\ h(p) = IF A(p) <= B(p) THEN A(p) ELSE B(p)
        /\ h(q) = IF A(q) <= B(q) THEN A(q) ELSE B(q)
    BY <1>1, <1>2, <2>1
  <2>. HIDE DEF p, q
  <2>5. h(p) <= h(e) + 1
    BY <1>1, <2>1, <2>2, <2>4
  <2>6. h(q) <= h(e) + 1
    BY <1>1, <2>1, <2>3, <2>4
  <2>. QED
    BY <2>5, <2>6 DEF p, q
<1>7. d # s => \E e \in CoreIds(n) : d \in Neighbors(n, e) /\ h(e) = h(d) - 1
  <2>. SUFFICES ASSUME d # s PROVE \E e \in CoreIds(n) : d \in Neighbors(n, e) /\ h(e) = h(d) - 1
    OBVIOUS
  <2>1. CASE A(d) <= B(d)
    <3>. DEFINE e == prev(d)
    <3>1. e \in CoreIds(n) /\ following(e) = d /\ e # d
      BY <1>1
    <3>2. h(e) = h(d) - 1
      BY <1>1, <1>2, <2>1, <3>1
    <3>3. d \in Neighbors(n, e)
      BY <1>3, <3>1
    <3>. QED
      BY <3>1, <3>2, <3>3
  <2>2. CASE A(d) > B(d)
    <3>. DEFINE e == following(d)
    <3>1. e \in CoreIds(n) /\ prev(e) = d /\ e # d
      BY <1>1
    <3>2. h(e) = h(d) - 1
      BY <1>1, <1>2, <2>2, <3>1
    <3>3. d \in Neighbors(n, e)
      BY <1>3, <3>1
    <3>. QED
      BY <3>1, <3>2, <3>3
  <2>. QED
    BY <1>1, <2>1, <2>2
<1>8. \A e \in Neighbors(n, d) : e \in CoreIds(n) /\ h(e) # Unreachable /\ h(e) <= h(d) + 1
  <2>1. \A e \in Neighbors(n, d) : e = prev(d) \/ e = following(d)
    BY <1>3
  <2>2. prev(d) \in CoreIds(n) /\ following(d) \in CoreIds(n)
    BY <1>5
  <2>3. \A e \in CoreIds(n) : h(e) # Unreachable
    BY <1>1, <1>5 DEF Unreachable
  <2>. QED
    BY <1>6, <2>1, <2>2, <2>3
<1>9. h(d) \in 0 .. N /\ ((h(d) = 0) <=> (d = s))
  BY <1>1, <1>5
<1>. QED
  BY <1>4, <1>7, <1>8, <1>9

\* Without links there is nothing to be near.
LEMMA NoneNearer ==
    ASSUME NEW n \in Networks, n.topology = "none", NEW s \in CoreIds(n), NEW d \in CoreIds(n)
    PROVE  Nearer(n, s, d)
<1>1. /\ HopDistance(n, s, d) = IF s = d THEN 0 ELSE Unreachable
      /\ Neighbors(n, d) = {} /\ n.count \in Nat
  BY DEF HopDistance, Neighbors, Networks
<1>. QED
  BY <1>1 DEF Nearer, Unreachable

\* A way along a row and a column has no more cores than the rectangle they span.
LEMMA Rectangle ==
    \A a, b \in Nat : a > 0 /\ b > 0 => a + b - 1 <= a * b
<1>. TAKE a \in Nat, b \in Nat
<1>. HAVE a > 0 /\ b > 0
<1>. DEFINE x == a - 1
            y == b - 1
<1>1. x \in Nat /\ y \in Nat /\ a = x + 1 /\ b = y + 1
  OBVIOUS
<1>. HIDE DEF x, y
<1>2. x * y \in Nat /\ (x + 1) * (y + 1) = x * y + x + y + 1
  BY <1>1
<1>. QED
  BY <1>1, <1>2

\* One step towards a number shortens the way by one.
LEMMA ApartCloser ==
    \A x, y \in Nat : /\ Apart(x, y) \in Nat /\ (Apart(x, y) = 0 <=> x = y)
                      /\ Apart(x, y) = Apart(y, x)
                      /\ y > x => Apart(x, y - 1) = Apart(x, y) - 1
                      /\ y < x => Apart(x, y + 1) = Apart(x, y) - 1
BY DEF Apart

\* In a mesh too, complete or not.
LEMMA MeshNearer ==
    ASSUME NEW n \in Networks, n.topology = "mesh", NEW s \in CoreIds(n), NEW d \in CoreIds(n)
    PROVE  Nearer(n, s, d)
<1>. DEFINE N == n.count
            T == n.rows
            C == Cols(n)
            r(e) == Row(n, e)
            k(e) == Col(n, e)
            h(e) == HopDistance(n, s, e)
<1>1. /\ N \in Nat \ {0} /\ C \in Nat \ {0} /\ CoreIds(n) = 0 .. N - 1
      /\ s \in 0 .. N - 1 /\ d \in 0 .. N - 1
  BY ColsType DEF Networks, CoreIds
<1>2. \A e \in CoreIds(n) : r(e) \in 0 .. T - 1 /\ k(e) \in 0 .. C - 1 /\ e = C * r(e) + k(e)
  BY Coordinates
<1>3. \A e \in CoreIds(n) : h(e) = Apart(r(s), r(e)) + Apart(k(s), k(e))
  BY MeshDistance
<1>4. \A e \in CoreIds(n) : Neighbors(n, e) = {x \in CoreIds(n) : Beside(n, e, x)}
  BY MeshLinks
<1>5. \A e, x : Beside(n, e, x) <=> \/ k(x) = k(e) /\ r(x) \in {r(e) - 1, r(e) + 1}
                                    \/ r(x) = r(e) /\ k(x) \in {k(e) - 1, k(e) + 1}
  BY DEF Beside
<1>6. \A a, b : a \in Nat /\ b \in 0 .. C - 1 => r(C * a + b) = a /\ k(C * a + b) = b
  BY AtRowAndCol
<1>7. Nearer(n, s, d) <=>
        /\ (h(d) = 0) <=> (d = s)
        /\ h(d) # Unreachable =>
              /\ h(d) \in 0 .. N
              /\ \A e \in Neighbors(n, d) : e \in CoreIds(n) /\ h(e) # Unreachable /\ h(e) <= h(d) + 1
        /\ h(d) # Unreachable /\ h(d) # 0 =>
              \E e \in CoreIds(n) : d \in Neighbors(n, e) /\ h(e) = h(d) - 1
  BY DEF Nearer
<1>8. T \in Nat
  BY DEF Networks
<1>. HIDE DEF N, T, C, r, k, h
<1>9. \A e \in CoreIds(n) : h(e) \in Nat /\ r(e) \in Nat /\ k(e) \in Nat
  <2>1. \A x : (x \in 0 .. T - 1 => x \in Nat) /\ (x \in 0 .. C - 1 => x \in Nat)
    BY <1>1, <1>8
  <2>2. \A e \in CoreIds(n) : r(e) \in Nat /\ k(e) \in Nat
    BY <1>2, <2>1
  <2>3. s \in CoreIds(n)
    OBVIOUS
  <2>4. \A a, b, c, e \in Nat : Apart(a, b) + Apart(c, e) \in Nat
    BY DEF Apart
  <2>5. \A e \in CoreIds(n) : h(e) \in Nat
    <3>. TAKE e \in CoreIds(n)
    <3>1. r(s) \in Nat /\ k(s) \in Nat /\ r(e) \in Nat /\ k(e) \in Nat
      BY <2>2, <2>3
    <3>2. Apart(r(s), r(e)) + Apart(k(s), k(e)) \in Nat
      BY <2>4, <3>1
    <3>. QED
      BY <1>3, <3>2
  <2>. QED
    BY <2>2, <2>5
<1>10. (h(d) = 0) <=> (d = s)
  <2>1. h(d) = 0 <=> r(s) = r(d) /\ k(s) = k(d)
    BY <1>3, <1>9 DEF Apart
  <2>. QED
    BY <1>2, <2>1
<1>11. h(d) <= N
  <2>. DEFINE a == r(s)
              b == r(d)
  <2>1. a \in Nat /\ b \in Nat /\ k(s) \in 0 .. C - 1 /\ k(d) \in 0 .. C - 1
        /\ s = C * a + k(s) /\ d = C * b + k(d) /\ h(d) = Apart(a, b) + Apart(k(s), k(d))
    BY <1>2, <1>3, <1>9
  <2>. HIDE DEF a, b
  <2>2. CASE a = b
    <3>1. C * a = C * b /\ C * a \in Nat
      BY <1>1, <2>1, <2>2
    <3>. QED
      BY <1>1, <2>1, <2>2, <3>1 DEF Apart
  <2>3. ASSUME NEW u \in Nat, NEW v \in Nat, u > v, NEW x \in 0 .. C - 1, C * u + x < N,
               NEW y \in 0 .. C - 1
        PROVE  (u - v) + Apart(x, y) <= N
    <3>. DEFINE w == u - v
    <3>1. w \in Nat /\ w > 0 /\ u = v + w
      BY <2>3
    <3>. HIDE DEF w
    <3>2. C * u = C * v + C * w /\ C * v \in Nat
      BY <1>1, <3>1
    <3>3. C + w - 1 <= C * w /\ C * w \in Nat
      BY <1>1, <3>1, Rectangle
    <3>4. Apart(x, y) \in 0 .. C - 1
      BY <1>1 DEF Apart
    <3>5. u - v = w
      BY DEF w
    <3>. QED
      BY <1>1, <2>3, <3>1, <3>2, <3>3, <3>4, <3>5
  <2>4. CASE a > b
    <3>0. C * a + k(s) < N
      BY <1>1, <2>1
    <3>1. (a - b) + Apart(k(s), k(d)) <= N
      BY <2>1, <2>3, <2>4, <3>0
    <3>. QED
      BY <2>1, <2>4, <3>1 DEF Apart
  <2>5. CASE a < b
    <3>0. C * b + k(d) < N
      BY <1>1, <2>1
    <3>1. (b - a) + Apart(k(d), k(s)) <= N
      BY <2>1, <2>3, <2>5, <3>0
    <3>2. Apart(k(d), k(s)) = Apart(k(s), k(d))
      BY <1>1, <2>1 DEF Apart
    <3>. QED
      BY <2>1, <2>5, <3>1, <3>2 DEF Apart
  <2>. QED
    BY <2>1, <2>2, <2>4, <2>5
<1>12. \A e \in Neighbors(n, d) : e \in CoreIds(n) /\ h(e) # Unreachable /\ h(e) <= h(d) + 1
  <2>. SUFFICES ASSUME NEW e \in Neighbors(n, d)
                PROVE  e \in CoreIds(n) /\ h(e) # Unreachable /\ h(e) <= h(d) + 1
    OBVIOUS
  <2>1. e \in CoreIds(n) /\ Beside(n, d, e)
    BY <1>4
  <2>2. \/ k(e) = k(d) /\ r(e) \in {r(d) - 1, r(d) + 1}
        \/ r(e) = r(d) /\ k(e) \in {k(d) - 1, k(d) + 1}
    BY <1>5, <2>1
  <2>3. h(e) <= h(d) + 1
    BY <1>3, <1>9, <2>1, <2>2 DEF Apart
  <2>. QED
    BY <1>9, <2>1, <2>3 DEF Unreachable
<1>13. ASSUME NEW e \in CoreIds(n), Beside(n, e, d), h(e) = h(d) - 1
       PROVE  \E x \in CoreIds(n) : d \in Neighbors(n, x) /\ h(x) = h(d) - 1
  BY <1>4, <1>13
<1>14. ASSUME h(d) # 0
       PROVE  \E e \in CoreIds(n) : d \in Neighbors(n, e) /\ h(e) = h(d) - 1
  <2>. DEFINE R == r(d)
              K == k(d)
              Q == C * R
  <2>1. /\ R \in Nat /\ K \in 0 .. C - 1 /\ d = Q + K /\ Q \in Nat
        /\ r(s) \in Nat /\ k(s) \in 0 .. C - 1 /\ s = C * r(s) + k(s)
    <3>1. R \in Nat /\ K \in 0 .. C - 1 /\ d = Q + K
      BY <1>2, <1>9
    <3>2. Q \in Nat
      BY <1>1, <3>1
    <3>3. r(s) \in Nat /\ k(s) \in 0 .. C - 1 /\ s = C * r(s) + k(s)
      BY <1>2, <1>9
    <3>. QED
      BY <3>1, <3>2, <3>3
  <2>2. C * (R + 1) = Q + C /\ C * (R - 1) = Q - C
    <3>. HIDE DEF R
    <3>. QED
      BY <1>1, <2>1
  <2>. HIDE DEF R, K
  <2>3. ASSUME NEW e, e \in CoreIds(n), NEW a \in Nat, NEW b \in 0 .. C - 1, e = C * a + b,
               \/ K = b /\ (R = a - 1 \/ R = a + 1)
               \/ R = a /\ (K = b - 1 \/ K = b + 1),
               Apart(r(s), a) + Apart(k(s), b) = (Apart(r(s), R) + Apart(k(s), K)) - 1
        PROVE  \E x \in CoreIds(n) : d \in Neighbors(n, x) /\ h(x) = h(d) - 1
    <3>1. r(e) = a /\ k(e) = b
      BY <1>6, <2>3
    <3>2. Beside(n, e, d)
      BY <1>5, <2>3, <3>1 DEF R, K
    <3>3. h(e) = h(d) - 1
      <4>1. h(e) = Apart(r(s), a) + Apart(k(s), b)
        BY <1>3, <2>3, <3>1
      <4>2. h(d) = Apart(r(s), R) + Apart(k(s), K)
        BY <1>3 DEF R, K
      <4>3. Apart(r(s), a) + Apart(k(s), b) = (Apart(r(s), R) + Apart(k(s), K)) - 1
        BY <2>3
      <4>. QED
        BY ONLY <4>1, <4>2, <4>3
    <3>. QED
      BY <1>13, <2>3, <3>2, <3>3
  <2>0. /\ K \in Nat /\ k(s) \in Nat /\ Apart(r(s), R) \in Nat /\ Apart(k(s), K) \in Nat
        /\ K + 1 \in Nat /\ R + 1 \in Nat
    <3>1. K \in Nat /\ k(s) \in Nat
      BY <1>1, <2>1
    <3>. QED
      BY <2>1, <3>1, ApartCloser
  <2>4. CASE R > r(s)
    <3>. DEFINE e == C * (R - 1) + K
    <3>1. R - 1 \in Nat /\ C * (R - 1) \in Nat
      <4>1. R - 1 \in Nat
        BY <2>1, <2>4
      <4>. QED
        BY <4>1, <1>1
    <3>2. e \in CoreIds(n)
      <4>. HIDE DEF Q
      <4>. QED
        BY <1>1, <2>1, <2>2, <3>1
    <3>3. Apart(r(s), R - 1) + Apart(k(s), K) = (Apart(r(s), R) + Apart(k(s), K)) - 1
      <4>1. Apart(r(s), R - 1) = Apart(r(s), R) - 1
        BY <2>1, <2>4, ApartCloser
      <4>. QED
        BY <2>0, <4>1
    <3>4. R = (R - 1) + 1
      BY <2>1
    <3>. HIDE DEF Q
    <3>. QED
      BY <2>1, <2>3, <3>1, <3>2, <3>3, <3>4
  <2>5. CASE R < r(s) /\ d + C < N
    <3>. DEFINE e == C * (R + 1) + K
    <3>1. R + 1 \in Nat
      BY <2>1
    <3>2. e \in CoreIds(n)
      <4>. HIDE DEF Q
      <4>. QED
        BY <1>1, <2>1, <2>2, <2>5
    <3>3. Apart(r(s), R + 1) + Apart(k(s), K) = (Apart(r(s), R) + Apart(k(s), K)) - 1
      <4>1. Apart(r(s), R + 1) = Apart(r(s), R) - 1
        BY <2>1, <2>5, ApartCloser
      <4>. QED
        BY <2>0, <4>1
    <3>4. R = (R + 1) - 1
      BY <2>1
    <3>. HIDE DEF Q
    <3>. QED
      BY <2>1, <2>3, <3>1, <3>2, <3>3, <3>4
  <2>6. ASSUME K > 0, k(s) < K
        PROVE  \E x \in CoreIds(n) : d \in Neighbors(n, x) /\ h(x) = h(d) - 1
    <3>. DEFINE e == C * R + (K - 1)
    <3>1. K - 1 \in 0 .. C - 1 /\ e \in CoreIds(n)
      BY <1>1, <2>1, <2>6
    <3>2. Apart(r(s), R) + Apart(k(s), K - 1) = (Apart(r(s), R) + Apart(k(s), K)) - 1
      <4>1. Apart(k(s), K - 1) = Apart(k(s), K) - 1
        BY <2>0, <2>6, ApartCloser
      <4>. QED
        BY <2>0, <4>1
    <3>3. K = (K - 1) + 1
      BY <1>1, <2>1
    <3>. HIDE DEF Q
    <3>. QED
      BY <2>1, <2>3, <3>1, <3>2, <3>3
  <2>7. CASE R < r(s) /\ d + C >= N
    <3>. DEFINE w == r(s) - R - 1
    <3>1. w \in Nat /\ r(s) = R + 1 + w
      BY <2>1, <2>7
    <3>. HIDE DEF w
    <3>2. C * r(s) = Q + C + C * w /\ C * w \in Nat
      <4>1. C * (R + 1 + w) = C * R + C + C * w /\ C * w \in Nat
        BY <1>1, <2>1, <3>1
      <4>. QED
        BY <3>1, <4>1
    <3>. HIDE DEF Q
    <3>3. k(s) < K
      BY <1>1, <2>1, <2>7, <3>2
    <3>4. K > 0
      BY <1>1, <2>1, <3>3
    <3>. QED
      BY <2>6, <3>3, <3>4
  <2>8. CASE R = r(s) /\ K > k(s)
    <3>1. K > 0
      BY <1>1, <2>1, <2>8
    <3>. QED
      BY <2>6, <2>8, <3>1
  <2>9. CASE R = r(s) /\ K < k(s)
    <3>. DEFINE e == C * R + (K + 1)
    <3>1. K + 1 \in 0 .. C - 1
      BY <1>1, <2>1, <2>9
    <3>2. e \in CoreIds(n)
      <4>1. s = Q + k(s)
        BY <2>1, <2>9
      <4>2. e = Q + (K + 1)
        OBVIOUS
      <4>3. Q \in Nat /\ k(s) \in Nat /\ K \in Nat /\ N \in Nat /\ s < N
        BY <1>1, <2>0, <2>1
      <4>. HIDE DEF Q, e
      <4>4. e \in Nat /\ e <= s
        BY <2>9, <4>1, <4>2, <4>3
      <4>. QED
        BY <1>1, <4>3, <4>4
    <3>3. Apart(r(s), R) + Apart(k(s), K + 1) = (Apart(r(s), R) + Apart(k(s), K)) - 1
      <4>1. Apart(k(s), K + 1) = Apart(k(s), K) - 1
        BY <2>0, <2>9, ApartCloser
      <4>. QED
        BY <2>0, <4>1
    <3>4. K = (K + 1) - 1
      BY <1>1, <2>1
    <3>. HIDE DEF Q
    <3>. QED
      BY <2>1, <2>3, <3>1, <3>2, <3>3, <3>4
  <2>10. ~(R = r(s) /\ K = k(s))
    <3>1. h(d) = Apart(r(s), R) + Apart(k(s), K)
      BY <1>3 DEF R, K
    <3>. QED
      BY <1>1, <1>14, <2>1, <3>1 DEF Apart
  <2>. QED
    BY <1>1, <2>1, <2>4, <2>5, <2>7, <2>8, <2>9, <2>10
<1>15. h(d) \in 0 .. N
  BY <1>1, <1>9, <1>11
<1>. QED
  BY <1>7, <1>10, <1>12, <1>14, <1>15

\* Distances drop by one along some link and by no more along any.
LEMMA AllNearer == \A n \in Networks : \A s, d \in CoreIds(n) : Nearer(n, s, d)
<1>. TAKE n \in Networks
<1>. TAKE s, d \in CoreIds(n)
<1>1. n.topology \in {"ring", "mesh", "none"}
  BY DEF Networks
<1>. QED
  BY <1>1, RingNearer, MeshNearer, NoneNearer

\* The recursion of WithinOf; it has one solution, the cores up to a distance.
GrowsFrom(W, n, c) ==
    W = [k \in Nat |-> IF k = 0 THEN {c}
                       ELSE LET near == W[k - 1]
                            IN  near \cup UNION {Neighbors(n, d) : d \in near}]

\* The cores within k links are those its recursion determines.
LEMMA WithinUnfolds == \A n, c : WithinOf(n, c) = CHOOSE W : GrowsFrom(W, n, c)
BY DEF WithinOf, GrowsFrom

\* The cores within k links are those at most k hops away.
LEMMA WithinIsBall ==
    ASSUME NEW n \in Networks, NEW s \in CoreIds(n), NEW k \in Nat
    PROVE  WithinOf(n, s)[k]
             = {d \in CoreIds(n) : HopDistance(n, s, d) # Unreachable /\ HopDistance(n, s, d) <= k}
<1>. DEFINE h(d) == HopDistance(n, s, d)
            G == [i \in Nat |-> {d \in CoreIds(n) : h(d) # Unreachable /\ h(d) <= i}]
            W == WithinOf(n, s)
<1>1. \A d \in CoreIds(n) : Nearer(n, s, d)
  BY AllNearer
<1>2. \A d \in CoreIds(n) :
        /\ (h(d) = 0) <=> (d = s)
        /\ h(d) # Unreachable =>
              /\ h(d) \in 0 .. n.count
              /\ \A e \in Neighbors(n, d) : e \in CoreIds(n) /\ h(e) # Unreachable /\ h(e) <= h(d) + 1
        /\ h(d) # Unreachable /\ h(d) # 0 =>
              \E e \in CoreIds(n) : d \in Neighbors(n, e) /\ h(e) = h(d) - 1
  BY <1>1 DEF Nearer
<1>3. n.count \in Nat /\ \A d \in CoreIds(n) : h(d) # Unreachable => h(d) \in Nat
  <2>1. n.count \in Nat
    BY DEF Networks
  <2>. HIDE DEF h
  <2>. QED
    BY <1>2, <2>1
<1>. HIDE DEF h
<1>4. G[0] = {s}
  <2>1. h(s) = 0 /\ 0 # Unreachable
    BY <1>2 DEF Unreachable
  <2>2. \A d \in CoreIds(n) : h(d) # Unreachable /\ h(d) <= 0 => d = s
    BY <1>2, <1>3
  <2>. QED
    BY <2>1, <2>2
<1>5. ASSUME NEW i \in Nat
      PROVE  G[i + 1] = G[i] \cup UNION {Neighbors(n, d) : d \in G[i]}
  <2>1. ASSUME NEW d \in G[i] PROVE d \in G[i + 1]
    BY <1>3
  <2>2. ASSUME NEW d \in G[i], NEW e \in Neighbors(n, d) PROVE e \in G[i + 1]
    <3>1. d \in CoreIds(n) /\ h(d) # Unreachable /\ h(d) <= i
      OBVIOUS
    <3>2. e \in CoreIds(n) /\ h(e) # Unreachable /\ h(e) <= h(d) + 1
      BY <1>2, <3>1
    <3>3. h(d) \in Nat /\ h(e) \in Nat
      BY <1>3, <3>1, <3>2
    <3>4. h(e) <= i + 1
      BY <3>1, <3>2, <3>3
    <3>. QED
      BY <3>2, <3>4
  <2>3. ASSUME NEW d \in G[i + 1], d \notin G[i]
        PROVE  \E e \in G[i] : d \in Neighbors(n, e)
    <3>1. d \in CoreIds(n) /\ h(d) # Unreachable /\ h(d) = i + 1
      BY <1>3, <2>3
    <3>2. PICK e \in CoreIds(n) : d \in Neighbors(n, e) /\ h(e) = h(d) - 1
      BY <1>2, <3>1
    <3>3. h(e) = i /\ h(e) # Unreachable
      BY <3>1, <3>2 DEF Unreachable
    <3>. QED
      BY <3>2, <3>3
  <2>. HIDE DEF G
  <2>. QED
    BY <2>1, <2>2, <2>3
<1>6. GrowsFrom(G, n, s)
  <2>. DEFINE F == [i \in Nat |-> IF i = 0 THEN {s}
                                  ELSE G[i - 1] \cup UNION {Neighbors(n, d) : d \in G[i - 1]}]
  <2>1. ASSUME NEW i \in Nat PROVE G[i] = F[i]
    <3>1. CASE i = 0
      BY <1>4, <3>1
    <3>2. CASE i # 0
      <4>1. i - 1 \in Nat /\ (i - 1) + 1 = i
        BY <3>2
      <4>2. G[(i - 1) + 1] = G[i - 1] \cup UNION {Neighbors(n, d) : d \in G[i - 1]}
        BY <1>5, <4>1
      <4>3. F[i] = G[i - 1] \cup UNION {Neighbors(n, d) : d \in G[i - 1]}
        BY <3>2
      <4>. QED
        BY <4>1, <4>2, <4>3
    <3>. QED
      BY <3>1, <3>2
  <2>2. G = [i \in Nat |-> G[i]]
    OBVIOUS
  <2>. HIDE DEF G
  <2>3. G = F
    BY <2>1, <2>2
  <2>. QED
    BY <2>3 DEF GrowsFrom
<1>. HIDE DEF G
<1>7. GrowsFrom(W, n, s)
  BY <1>6, WithinUnfolds
<1>8. /\ W[0] = {s}
      /\ \A i \in Nat : W[i + 1] = W[i] \cup UNION {Neighbors(n, d) : d \in W[i]}
  <2>. HIDE DEF W
  <2>1. \A i \in Nat : W[i] = IF i = 0 THEN {s}
                              ELSE W[i - 1] \cup UNION {Neighbors(n, d) : d \in W[i - 1]}
    BY <1>7 DEF GrowsFrom
  <2>2. \A i \in Nat : i + 1 \in Nat /\ i + 1 # 0 /\ (i + 1) - 1 = i
    OBVIOUS
  <2>. QED
    BY <2>1, <2>2
<1>. HIDE DEF W
<1>. DEFINE T == {i \in Nat : W[i] = G[i]}
<1>9. T = Nat
  <2>1. 0 \in T
    BY <1>4, <1>8
  <2>2. \A i \in T : i + 1 \in T
    <3>. SUFFICES ASSUME NEW i \in T PROVE i + 1 \in T
      OBVIOUS
    <3>1. i \in Nat /\ W[i] = G[i]
      OBVIOUS
    <3>2. W[i + 1] = G[i] \cup UNION {Neighbors(n, d) : d \in G[i]}
      BY <1>8, <3>1
    <3>3. W[i + 1] = G[i + 1]
      BY <1>5, <3>1, <3>2
    <3>. QED
      BY <3>1, <3>3
  <2>3. T \in SUBSET Nat
    OBVIOUS
  <2>. HIDE DEF T
  <2>. QED
    BY <2>1, <2>2, <2>3, InductionOnNaturals
<1>10. W[k] = G[k]
  BY <1>9
<1>. QED
  BY <1>10 DEF G, W, h

\* tu_cluster_hop_distance is the length of a shortest path.
LEMMA Shortest == ClusterInv => HopsAreShortest
<1>. SUFFICES ASSUME ClusterInv, JustCreated, NEW s \in CoreIds(net), NEW d \in CoreIds(net)
              PROVE  HopDistance(net, s, d) =
                       (IF d \in WithinOf(net, s)[net.count]
                        THEN Min({k \in 0 .. net.count : d \in WithinOf(net, s)[k]})
                        ELSE Unreachable)
  BY DEF HopsAreShortest
<1>. DEFINE h == HopDistance(net, s, d)
            N == net.count
            K == {k \in 0 .. N : d \in WithinOf(net, s)[k]}
<1>1. net \in Networks /\ N \in Nat
  BY NoNetApart DEF ClusterInv, ClusterShape, JustCreated
<1>2. \A k \in Nat : WithinOf(net, s)[k]
             = {e \in CoreIds(net) : HopDistance(net, s, e) # Unreachable /\ HopDistance(net, s, e) <= k}
  BY <1>1, WithinIsBall
<1>3. h # Unreachable => h \in 0 .. N
  <2>1. Nearer(net, s, d)
    BY <1>1, AllNearer
  <2>. QED
    BY <2>1 DEF Nearer
<1>4. \A k \in Nat : d \in WithinOf(net, s)[k] <=> h # Unreachable /\ h <= k
  BY <1>2
<1>. HIDE DEF h, N
<1>5. CASE h = Unreachable
  <2>1. d \notin WithinOf(net, s)[N]
    BY <1>1, <1>4, <1>5
  <2>. QED
    BY <1>5, <2>1 DEF h, N
<1>6. CASE h # Unreachable
  <2>1. h \in 0 .. N
    BY <1>3, <1>6
  <2>2. d \in WithinOf(net, s)[N]
    BY <1>1, <1>4, <1>6, <2>1
  <2>3. h \in K /\ \A k \in K : h <= k
    <3>1. \A k \in 0 .. N : k \in Nat
      BY <1>1
    <3>. QED
      BY <1>4, <1>6, <2>1, <3>1
  <2>4. K \subseteq Int
    BY <1>1
  <2>. HIDE DEF K
  <2>5. Min(K) \in K /\ \A k \in K : Min(K) <= k
    BY <2>3 DEF Min
  <2>6. Min(K) = h
    <3>1. Min(K) \in Int /\ h \in Int /\ Min(K) <= h /\ h <= Min(K)
      BY <2>3, <2>4, <2>5
    <3>. QED
      BY <3>1
  <2>. QED
    BY <2>2, <2>6 DEF h, N, K
<1>. QED
  BY <1>5, <1>6

-----------------------------------------------------------------------------
(* Routes.                                                                  *)

GoesAlong(n, r, s, d) ==
    /\ r[1] = s /\ r[Len(r)] = d /\ Len(r) = HopDistance(n, s, d) + 1
    /\ \A k \in 1 .. Len(r) - 1 : r[k + 1] \in Neighbors(n, r[k])

\* A route with a core in it is a route.
LEMMA NotEmpty == \A r : IsSeq(r) /\ Len(r) >= 1 => r # NoRoute
<1>1. Len(<<>>) = 0
  OBVIOUS
<1>. QED
  BY <1>1 DEF NoRoute

\* add_route_service in a ring.
LEMMA RingRouted ==
    ASSUME NEW n \in Networks, n.topology = "ring", NEW s \in CoreIds(n), NEW d \in CoreIds(n)
    PROVE  /\ RingRoute(n, s, d) # NoRoute
           /\ GoesAlong(n, RingRoute(n, s, d), s, d) /\ IsSeq(RingRoute(n, s, d))
<1>. DEFINE N == n.count
            f == Ahead(n, s, d)
            b == Ahead(n, d, s)
            r == RingRoute(n, s, d)
            prev(e) == IF e = 0 THEN N - 1 ELSE e - 1
            following(e) == IF e = N - 1 THEN 0 ELSE e + 1
<1>1. /\ N \in Nat \ {0} /\ s \in 0 .. N - 1 /\ d \in 0 .. N - 1 /\ CoreIds(n) = 0 .. N - 1
      /\ f \in 0 .. N - 1 /\ b \in 0 .. N - 1
      /\ f = (IF d >= s THEN d - s ELSE d + N - s) /\ b = (IF s >= d THEN s - d ELSE s + N - d)
  BY AheadWraps DEF Networks, CoreIds, Ahead
<1>2. r = IF f <= b THEN [k \in 1 .. f + 1 |-> (s + k - 1) % N]
          ELSE [k \in 1 .. b + 1 |-> (s + N - (k - 1)) % N]
  BY AheadWraps DEF RingRoute
<1>3. HopDistance(n, s, d) = IF f <= b THEN f ELSE b
  BY RingDistance
<1>4. \A e \in CoreIds(n) : Neighbors(n, e) = {prev(e), following(e)} \ {e}
  BY RingLinks
<1>5. ASSUME NEW x \in 0 .. 2 * N - 1 PROVE x % N = IF x < N THEN x ELSE x - N
  BY <1>1, Wrapped
<1>. SUFFICES r # NoRoute /\ IsSeq(r) /\ r[1] = s /\ r[Len(r)] = d /\ Len(r) = HopDistance(n, s, d) + 1
              /\ \A k \in 1 .. Len(r) - 1 : r[k + 1] \in Neighbors(n, r[k])
  BY DEF GoesAlong
<1>. HIDE DEF N, f, b, r
<1>6. CASE f <= b
  <2>. DEFINE at(k) == IF s + k - 1 < N THEN s + k - 1 ELSE s + k - 1 - N
  <2>1. f + 1 \in Nat /\ \A k \in 1 .. f + 1 : s + k - 1 \in 0 .. 2 * N - 1
    BY <1>1
  <2>2. r = [k \in 1 .. f + 1 |-> (s + k - 1) % N]
    BY <1>2, <1>6
  <2>3. r = [k \in 1 .. f + 1 |-> r[k]]
    BY <2>2
  <2>4. Len(r) = f + 1 /\ IsSeq(r)
    BY <2>1, <2>3, SeqMade
  <2>5. \A k \in 1 .. f + 1 : r[k] = at(k)
    <3>. TAKE k \in 1 .. f + 1
    <3>. DEFINE x == s + k - 1
    <3>1. x \in 0 .. 2 * N - 1 /\ r[k] = x % N
      BY <2>1, <2>2
    <3>. HIDE DEF x
    <3>2. r[k] = IF x < N THEN x ELSE x - N
      BY <1>5, <3>1
    <3>. QED
      BY <1>1, <3>2 DEF x
  <2>6. r[1] = s /\ r[f + 1] = d
    BY <1>1, <2>5
  <2>7. \A k \in 1 .. f : r[k + 1] \in Neighbors(n, r[k])
    <3>. TAKE k \in 1 .. f
    <3>1. r[k] = at(k) /\ r[k + 1] = at(k + 1)
      BY <1>1, <2>5
    <3>2. at(k) \in CoreIds(n) /\ at(k + 1) = following(at(k)) /\ at(k + 1) # at(k)
      BY <1>1
    <3>. QED
      BY <1>4, <3>1, <3>2
  <2>. QED
    BY <1>1, <1>3, <1>6, <2>4, <2>6, <2>7, NotEmpty
<1>7. CASE f > b
  <2>. DEFINE at(k) == IF s + N - (k - 1) < N THEN s + N - (k - 1) ELSE s - (k - 1)
  <2>1. b + 1 \in Nat /\ \A k \in 1 .. b + 1 : s + N - (k - 1) \in 0 .. 2 * N - 1
    BY <1>1
  <2>2. r = [k \in 1 .. b + 1 |-> (s + N - (k - 1)) % N]
    BY <1>1, <1>2, <1>7
  <2>3. r = [k \in 1 .. b + 1 |-> r[k]]
    BY <2>2
  <2>4. Len(r) = b + 1 /\ IsSeq(r)
    BY <2>1, <2>3, SeqMade
  <2>5. \A k \in 1 .. b + 1 : r[k] = at(k)
    <3>. TAKE k \in 1 .. b + 1
    <3>. DEFINE x == s + N - (k - 1)
    <3>1. x \in 0 .. 2 * N - 1 /\ r[k] = x % N
      BY <2>1, <2>2
    <3>. HIDE DEF x
    <3>2. r[k] = IF x < N THEN x ELSE x - N
      BY <1>5, <3>1
    <3>. QED
      BY <1>1, <3>2 DEF x
  <2>6. r[1] = s /\ r[b + 1] = d
    BY <1>1, <2>5
  <2>7. \A k \in 1 .. b : r[k + 1] \in Neighbors(n, r[k])
    <3>. TAKE k \in 1 .. b
    <3>1. r[k] = at(k) /\ r[k + 1] = at(k + 1)
      BY <1>1, <2>5
    <3>2. at(k) \in CoreIds(n) /\ at(k + 1) = prev(at(k)) /\ at(k + 1) # at(k)
      BY <1>1
    <3>. QED
      BY <1>4, <3>1, <3>2
  <2>. QED
    BY <1>1, <1>3, <1>7, <2>4, <2>6, <2>7, NotEmpty
<1>. QED
  BY <1>1, <1>6, <1>7

\* A sequence and the tail of another.
LEMMA JoinMade ==
    \A p, q : IsSeq(p) /\ IsSeq(q) /\ Len(q) >= 1 =>
        /\ IsSeq(p \o Tail(q)) /\ Len(p \o Tail(q)) = Len(p) + (Len(q) - 1)
        /\ \A k \in 1 .. Len(p) : (p \o Tail(q))[k] = p[k]
        /\ \A k \in 1 .. Len(q) - 1 : (p \o Tail(q))[Len(p) + k] = q[k + 1]
<1>. TAKE p, q
<1>. HAVE IsSeq(p) /\ IsSeq(q) /\ Len(q) >= 1
<1>. DEFINE S == {p[i] : i \in 1 .. Len(p)} \cup {q[i] : i \in 1 .. Len(q)}
            t == Tail(q)
            r == p \o t
<1>1. Len(p) \in Nat /\ Len(q) \in Nat \ {0}
  BY DEF IsSeq
<1>2. p \in [1 .. Len(p) -> S] /\ q \in [1 .. Len(q) -> S]
  BY DEF IsSeq
<1>. HIDE DEF S
<1>3. p \in Seq(S) /\ q \in Seq(S)
  BY <1>1, <1>2, SeqDef
<1>4. q # <<>>
  BY NotEmpty DEF NoRoute
<1>5. t \in Seq(S) /\ Len(t) = Len(q) - 1 /\ \A i \in 1 .. Len(t) : t[i] = q[i + 1]
  BY <1>3, <1>4, HeadTailProperties
<1>. HIDE DEF t
<1>6. /\ r \in Seq(S) /\ Len(r) = Len(p) + Len(t)
      /\ \A i \in 1 .. Len(p) + Len(t) : r[i] = IF i <= Len(p) THEN p[i] ELSE t[i - Len(p)]
  BY <1>3, <1>5, ConcatProperties
<1>7. IsSeq(r)
  BY <1>6, LenProperties DEF IsSeq
<1>. HIDE DEF r
<1>8. \A k \in 1 .. Len(p) : r[k] = p[k]
  BY <1>1, <1>5, <1>6
<1>9. \A k \in 1 .. Len(q) - 1 : r[Len(p) + k] = q[k + 1]
  <2>. TAKE k \in 1 .. Len(q) - 1
  <2>1. Len(p) + k \in 1 .. Len(p) + Len(t) /\ ~(Len(p) + k <= Len(p)) /\ (Len(p) + k) - Len(p) = k
        /\ k \in 1 .. Len(t)
    BY <1>1, <1>5
  <2>. QED
    BY <1>5, <1>6, <2>1
<1>. QED
  BY <1>5, <1>6, <1>7, <1>8, <1>9 DEF r, t

\* A walk of m links over the places of a mesh, those of its last row included
\* that hold no core.
InMesh(n, x) == x \in Nat /\ Row(n, x) \in 0 .. n.rows - 1 /\ Col(n, x) \in 0 .. Cols(n) - 1
Walk(n, r, from, to, m) ==
    /\ IsSeq(r) /\ m \in Nat /\ Len(r) = m + 1 /\ r[1] = from /\ r[m + 1] = to
    /\ \A k \in 1 .. m + 1 : InMesh(n, r[k])
    /\ \A k \in 1 .. m : Beside(n, r[k], r[k + 1])

\* Two walks joined where they meet are one.
LEMMA WalksJoin ==
    \A n, p, q, x, y, z, a, b : Walk(n, p, x, y, a) /\ Walk(n, q, y, z, b)
        => Walk(n, p \o Tail(q), x, z, a + b)
<1>. TAKE n, p, q, x, y, z, a, b
<1>. HAVE Walk(n, p, x, y, a) /\ Walk(n, q, y, z, b)
<1>. DEFINE r == p \o Tail(q)
<1>1. /\ IsSeq(p) /\ a \in Nat /\ Len(p) = a + 1 /\ p[1] = x /\ p[a + 1] = y
      /\ \A k \in 1 .. a + 1 : InMesh(n, p[k])
      /\ \A k \in 1 .. a : Beside(n, p[k], p[k + 1])
  BY DEF Walk
<1>2. /\ IsSeq(q) /\ b \in Nat /\ Len(q) = b + 1 /\ q[1] = y /\ q[b + 1] = z
      /\ \A k \in 1 .. b + 1 : InMesh(n, q[k])
      /\ \A k \in 1 .. b : Beside(n, q[k], q[k + 1])
  BY DEF Walk
<1>3. /\ IsSeq(r) /\ Len(r) = (a + 1) + ((b + 1) - 1)
      /\ \A k \in 1 .. a + 1 : r[k] = p[k]
      /\ \A k \in 1 .. (b + 1) - 1 : r[(a + 1) + k] = q[k + 1]
  <2>1. Len(q) >= 1
    BY <1>2
  <2>2. /\ IsSeq(r) /\ Len(r) = Len(p) + (Len(q) - 1)
        /\ \A k \in 1 .. Len(p) : r[k] = p[k]
        /\ \A k \in 1 .. Len(q) - 1 : r[Len(p) + k] = q[k + 1]
    BY <1>1, <1>2, <2>1, JoinMade
  <2>. QED
    BY <1>1, <1>2, <2>2
<1>. HIDE DEF r
<1>4. Len(r) = a + b + 1 /\ a + b \in Nat
  BY <1>1, <1>2, <1>3
<1>5. \A k \in a + 1 .. a + b + 1 : k - a \in 1 .. b + 1 /\ r[k] = q[k - a]
  <2>. TAKE k \in a + 1 .. a + b + 1
  <2>1. k \in Int /\ k - a \in 1 .. b + 1
    BY <1>1, <1>2
  <2>2. CASE k = a + 1
    BY <1>1, <1>2, <1>3, <2>1, <2>2
  <2>3. CASE k # a + 1
    <3>. DEFINE j == k - (a + 1)
    <3>1. j \in 1 .. (b + 1) - 1 /\ (a + 1) + j = k /\ j + 1 = k - a
      BY <1>1, <1>2, <2>1, <2>3
    <3>. QED
      BY <1>3, <2>1, <3>1
  <2>. QED
    BY <2>2, <2>3
<1>6. \A k \in 1 .. a + b + 1 : InMesh(n, r[k])
  <2>. TAKE k \in 1 .. a + b + 1
  <2>1. k \in 1 .. a + 1 \/ k \in a + 1 .. a + b + 1
    BY <1>1, <1>2
  <2>. QED
    BY <1>1, <1>2, <1>3, <1>5, <2>1
<1>7. \A k \in 1 .. a + b : Beside(n, r[k], r[k + 1])
  <2>. TAKE k \in 1 .. a + b
  <2>1. CASE k <= a
    <3>1. k \in 1 .. a /\ k \in 1 .. a + 1 /\ k + 1 \in 1 .. a + 1
      BY <1>1, <1>2, <2>1
    <3>. QED
      BY <1>1, <1>3, <3>1
  <2>2. CASE k > a
    <3>1. /\ k \in a + 1 .. a + b + 1 /\ k + 1 \in a + 1 .. a + b + 1
          /\ k - a \in 1 .. b /\ (k + 1) - a = (k - a) + 1
      BY <1>1, <1>2, <2>2
    <3>2. r[k] = q[k - a] /\ r[k + 1] = q[(k - a) + 1]
      BY <1>5, <3>1
    <3>. QED
      BY <1>2, <3>1, <3>2
  <2>. QED
    BY <1>1, <1>2, <2>1, <2>2
<1>8. r[1] = x /\ r[a + b + 1] = z
  <2>1. 1 \in 1 .. a + 1 /\ a + b + 1 \in a + 1 .. a + b + 1 /\ (a + b + 1) - a = b + 1
    BY <1>1, <1>2
  <2>. QED
    BY <1>1, <1>2, <1>3, <1>5, <2>1
<1>. QED
  BY <1>3, <1>4, <1>6, <1>7, <1>8 DEF Walk, r

Straight(L, x, y, step, m) ==
    /\ IsSeq(L) /\ Len(L) = m + 1
    /\ \A k \in 1 .. m + 1 : L[k] = x + (IF x <= y THEN 1 ELSE -1) * step * (k - 1)

\* A straight line of a mesh has a core for each step.
LEMMA LineMade ==
    \A x, y, step, m : x \in Nat /\ y \in Nat /\ step \in Nat \ {0} /\ m \in Nat /\ Apart(x, y) = step * m
        => Straight(Line(x, y, step), x, y, step, m)
<1>. TAKE x, y, step, m
<1>. HAVE x \in Nat /\ y \in Nat /\ step \in Nat \ {0} /\ m \in Nat /\ Apart(x, y) = step * m
<1>. DEFINE z == step * m
            L == Line(x, y, step)
<1>1. z \in Nat /\ z = step * m + 0
  OBVIOUS
<1>2. z \div step = m
  <2>. DEFINE q == z \div step
              e == z % step
  <2>1. q \in Nat /\ e \in 0 .. step - 1 /\ z = step * q + e
    BY <1>1, Division
  <2>2. 0 \in 0 .. step - 1 /\ step * q + e = step * m + 0
    BY <1>1, <2>1
  <2>. HIDE DEF q, e
  <2>3. q = m
    BY <2>1, <2>2, DivisionUnique
  <2>. QED
    BY <2>3 DEF q
<1>3. Apart(x, y) \div step + 1 = m + 1 /\ m + 1 \in Nat
  BY <1>2
<1>4. L = [k \in 1 .. m + 1 |-> x + (IF x <= y THEN 1 ELSE -1) * step * (k - 1)]
  BY <1>3 DEF Line
<1>5. L = [k \in 1 .. m + 1 |-> L[k]]
  BY <1>4
<1>. HIDE DEF L
<1>6. IsSeq(L) /\ Len(L) = m + 1
  BY <1>3, <1>5, SeqMade
<1>. QED
  BY <1>4, <1>6 DEF L, Straight

\* A line along a row is a walk.
LEMMA RowLine ==
    \A n, r, c, e : /\ n \in Networks /\ n.topology = "mesh" /\ r \in 0 .. n.rows - 1
                    /\ c \in 0 .. Cols(n) - 1 /\ e \in 0 .. Cols(n) - 1
        => Walk(n, Line(Cols(n) * r + c, Cols(n) * r + e, 1), Cols(n) * r + c, Cols(n) * r + e, Apart(c, e))
<1>. TAKE n, r, c, e
<1>. HAVE /\ n \in Networks /\ n.topology = "mesh" /\ r \in 0 .. n.rows - 1
          /\ c \in 0 .. Cols(n) - 1 /\ e \in 0 .. Cols(n) - 1
<1>. DEFINE C == Cols(n)
            T == n.rows
            Q == C * r
            m == Apart(c, e)
            x == Q + c
            y == Q + e
            L == Line(x, y, 1)
            at(k) == IF c <= e THEN c + (k - 1) ELSE c - (k - 1)
<1>1. /\ C \in Nat \ {0} /\ T \in Nat /\ r \in 0 .. T - 1 /\ c \in 0 .. C - 1 /\ e \in 0 .. C - 1
      /\ r \in Nat /\ c \in Nat /\ e \in Nat
  <2>1. C \in Nat \ {0} /\ T \in Nat /\ r \in 0 .. T - 1 /\ c \in 0 .. C - 1 /\ e \in 0 .. C - 1
    BY ColsType DEF Networks
  <2>. HIDE DEF C, T
  <2>. QED
    BY <2>1
<1>2. \A j \in 0 .. C - 1 : Row(n, Q + j) = r /\ Col(n, Q + j) = j
  BY <1>1, AtRowAndCol
<1>. HIDE DEF C, T
<1>3. Q \in Nat
  BY <1>1
<1>. HIDE DEF Q
<1>4. m \in Nat /\ x \in Nat /\ y \in Nat /\ Apart(x, y) = m /\ (x <= y <=> c <= e)
  BY <1>1, <1>3 DEF Apart
<1>5. Apart(x, y) = 1 * m
  BY <1>4
<1>6. /\ IsSeq(L) /\ Len(L) = m + 1
      /\ \A k \in 1 .. m + 1 : L[k] = x + (IF x <= y THEN 1 ELSE -1) * 1 * (k - 1)
  <2>. HIDE DEF x, y, m
  <2>1. 1 \in Nat \ {0}
    OBVIOUS
  <2>2. Straight(L, x, y, 1, m)
    BY <1>4, <1>5, <2>1, LineMade
  <2>. HIDE DEF L
  <2>. QED
    BY <2>2 DEF Straight
<1>7. \A k \in 1 .. m + 1 : at(k) \in 0 .. C - 1 /\ L[k] = Q + at(k)
  <2>. HIDE DEF L
  <2>. QED
    BY <1>1, <1>3, <1>4, <1>6 DEF Apart
<1>8. \A k \in 1 .. m + 1 : L[k] \in Nat /\ Row(n, L[k]) = r /\ Col(n, L[k]) = at(k)
  <2>. TAKE k \in 1 .. m + 1
  <2>1. at(k) \in 0 .. C - 1 /\ L[k] = Q + at(k)
    BY <1>7
  <2>2. Q + at(k) \in Nat
    <3>. HIDE DEF at
    <3>. QED
      BY <1>1, <1>3, <2>1
  <2>. HIDE DEF at, L
  <2>. QED
    BY <1>2, <2>1, <2>2
<1>9. \A k \in 1 .. m + 1 : InMesh(n, L[k])
  <2>. HIDE DEF at, L, m
  <2>. QED
    BY <1>1, <1>7, <1>8 DEF InMesh, C, T
<1>10. \A k \in 1 .. m : Beside(n, L[k], L[k + 1])
  <2>. TAKE k \in 1 .. m
  <2>1. k \in 1 .. m + 1 /\ k + 1 \in 1 .. m + 1 /\ at(k + 1) \in {at(k) - 1, at(k) + 1}
    BY <1>1, <1>4
  <2>. HIDE DEF at, L, m
  <2>. QED
    BY <1>8, <2>1 DEF Beside
<1>11. L[1] = x /\ L[m + 1] = y
  <2>1. 1 \in 1 .. m + 1 /\ m + 1 \in 1 .. m + 1 /\ at(1) = c /\ at(m + 1) = e
    BY <1>1, <1>4 DEF Apart
  <2>. HIDE DEF at, L, m
  <2>. QED
    BY <1>7, <2>1
<1>12. Walk(n, L, x, y, m)
  <2>. HIDE DEF L, x, y, m
  <2>. QED
    BY <1>4, <1>6, <1>9, <1>10, <1>11 DEF Walk
<1>. QED
  BY <1>12 DEF Q, C

\* A line along a column is a walk.
LEMMA ColLine ==
    \A n, r, t, c : /\ n \in Networks /\ n.topology = "mesh" /\ r \in 0 .. n.rows - 1
                    /\ t \in 0 .. n.rows - 1 /\ c \in 0 .. Cols(n) - 1
        => Walk(n, Line(Cols(n) * r + c, Cols(n) * t + c, Cols(n)),
             Cols(n) * r + c, Cols(n) * t + c, Apart(r, t))
<1>. TAKE n, r, t, c
<1>. HAVE /\ n \in Networks /\ n.topology = "mesh" /\ r \in 0 .. n.rows - 1
          /\ t \in 0 .. n.rows - 1 /\ c \in 0 .. Cols(n) - 1
<1>. DEFINE C == Cols(n)
            T == n.rows
            m == Apart(r, t)
            x == C * r + c
            y == C * t + c
            L == Line(x, y, C)
            at(k) == IF r <= t THEN r + (k - 1) ELSE r - (k - 1)
<1>1. /\ C \in Nat \ {0} /\ T \in Nat /\ r \in 0 .. T - 1 /\ t \in 0 .. T - 1 /\ c \in 0 .. C - 1
      /\ r \in Nat /\ t \in Nat /\ c \in Nat /\ C * r \in Nat /\ C * t \in Nat
  <2>1. C \in Nat \ {0} /\ T \in Nat /\ r \in 0 .. T - 1 /\ t \in 0 .. T - 1 /\ c \in 0 .. C - 1
    BY ColsType DEF Networks
  <2>. HIDE DEF C, T
  <2>. QED
    BY <2>1
<1>2. \A j \in Nat : Row(n, C * j + c) = j /\ Col(n, C * j + c) = c
  BY <1>1, AtRowAndCol
<1>. HIDE DEF C, T
<1>3. \A j \in Nat : C * j \in Nat
  BY <1>1
<1>4. m \in Nat /\ x \in Nat /\ y \in Nat /\ (x <= y <=> r <= t) /\ Apart(x, y) = C * m
  <2>1. CASE r <= t
    <3>. DEFINE w == t - r
    <3>1. w \in Nat /\ t = r + w
      BY <1>1, <2>1
    <3>. HIDE DEF w
    <3>2. C * t = C * r + C * w /\ C * w \in Nat
      BY <1>1, <3>1
    <3>3. m = w
      BY <1>1, <3>1 DEF Apart
    <3>. HIDE DEF m
    <3>4. y = x + C * w /\ x \in Nat /\ y \in Nat
      BY <1>1, <3>2
    <3>. HIDE DEF x, y
    <3>5. x <= y /\ Apart(x, y) = C * w
      BY <3>2, <3>4 DEF Apart
    <3>. QED
      BY <2>1, <3>1, <3>3, <3>4, <3>5
  <2>2. CASE r > t
    <3>. DEFINE w == r - t
    <3>1. w \in Nat \ {0} /\ r = t + w
      BY <1>1, <2>2
    <3>. HIDE DEF w
    <3>2. C * r = C * t + C * w /\ C * w \in Nat /\ C * w > 0
      BY <1>1, <3>1
    <3>3. m = w
      BY <1>1, <2>2, <3>1 DEF Apart
    <3>. HIDE DEF m
    <3>4. x = y + C * w /\ x \in Nat /\ y \in Nat
      BY <1>1, <3>2
    <3>. HIDE DEF x, y
    <3>5. ~(x <= y) /\ Apart(x, y) = C * w
      BY <3>2, <3>4 DEF Apart
    <3>6. ~(r <= t)
      BY <1>1, <2>2
    <3>. QED
      BY <3>1, <3>3, <3>4, <3>5, <3>6
  <2>. QED
    BY <1>1, <2>1, <2>2
<1>6. /\ IsSeq(L) /\ Len(L) = m + 1
      /\ \A k \in 1 .. m + 1 : L[k] = x + (IF x <= y THEN 1 ELSE -1) * C * (k - 1)
  <2>. HIDE DEF x, y, m
  <2>1. Straight(L, x, y, C, m)
    BY <1>1, <1>4, LineMade
  <2>. HIDE DEF L
  <2>. QED
    BY <2>1 DEF Straight
<1>7. \A k \in 1 .. m + 1 : at(k) \in 0 .. T - 1 /\ at(k) \in Nat /\ L[k] = C * at(k) + c
  <2>. TAKE k \in 1 .. m + 1
  <2>. DEFINE j == k - 1
  <2>1. k \in 1 .. m + 1 /\ j \in Nat /\ j <= m
    BY <1>4
  <2>2. at(k) \in 0 .. T - 1 /\ at(k) \in Nat
    BY <1>1, <2>1 DEF Apart
  <2>3. CASE r <= t
    <3>1. L[k] = x + 1 * C * j /\ at(k) = r + j
      BY <1>4, <1>6, <2>1, <2>3
    <3>. HIDE DEF j
    <3>2. 1 * C * j = C * j /\ C * (r + j) = C * r + C * j /\ C * j \in Nat
      BY <1>1, <2>1
    <3>. HIDE DEF at, L
    <3>. QED
      BY <1>1, <2>2, <3>1, <3>2
  <2>4. CASE ~(r <= t)
    <3>1. L[k] = x + (-1) * C * j /\ at(k) = r - j
      BY <1>4, <1>6, <2>1, <2>4
    <3>. HIDE DEF j
    <3>2. (-1) * C * j = 0 - C * j /\ C * (r - j) = C * r - C * j /\ C * j \in Nat
      BY <1>1, <2>1
    <3>. HIDE DEF at, L
    <3>. QED
      BY <1>1, <2>2, <3>1, <3>2
  <2>. QED
    BY <2>3, <2>4
<1>8. \A k \in 1 .. m + 1 : L[k] \in Nat /\ Row(n, L[k]) = at(k) /\ Col(n, L[k]) = c
  <2>. TAKE k \in 1 .. m + 1
  <2>1. at(k) \in Nat /\ L[k] = C * at(k) + c
    BY <1>7
  <2>. HIDE DEF at, L
  <2>2. C * at(k) + c \in Nat
    BY <1>1, <1>3, <2>1
  <2>. QED
    BY <1>2, <2>1, <2>2
<1>9. \A k \in 1 .. m + 1 : InMesh(n, L[k])
  <2>. HIDE DEF at, L, m
  <2>. QED
    BY <1>1, <1>7, <1>8 DEF InMesh, C, T
<1>10. \A k \in 1 .. m : Beside(n, L[k], L[k + 1])
  <2>. TAKE k \in 1 .. m
  <2>1. k \in 1 .. m + 1 /\ k + 1 \in 1 .. m + 1 /\ at(k + 1) \in {at(k) - 1, at(k) + 1}
    BY <1>1, <1>4
  <2>. HIDE DEF at, L, m
  <2>. QED
    BY <1>8, <2>1 DEF Beside
<1>11. L[1] = x /\ L[m + 1] = y
  <2>1. 1 \in 1 .. m + 1 /\ m + 1 \in 1 .. m + 1 /\ at(1) = r /\ at(m + 1) = t
    BY <1>1, <1>4 DEF Apart
  <2>. HIDE DEF at, L, m
  <2>. QED
    BY <1>7, <2>1
<1>12. Walk(n, L, x, y, m)
  <2>. HIDE DEF L, x, y, m
  <2>. QED
    BY <1>4, <1>6, <1>9, <1>10, <1>11 DEF Walk
<1>. QED
  BY <1>12 DEF C

\* add_route_service in a mesh, by xy or yx.
LEMMA MeshRouted ==
    ASSUME NEW n \in Networks, n.topology = "mesh", NEW s \in CoreIds(n), NEW d \in CoreIds(n)
    PROVE  \/ MeshRoute(n, s, d) = NoRoute /\ n.count # n.rows * Cols(n)
           \/ /\ MeshRoute(n, s, d) # NoRoute /\ IsSeq(MeshRoute(n, s, d))
              /\ GoesAlong(n, MeshRoute(n, s, d), s, d)
<1>. DEFINE N == n.count
            T == n.rows
            C == Cols(n)
            a == Apart(Row(n, s), Row(n, d))
            b == Apart(Col(n, s), Col(n, d))
            m == a + b
            corner == IF n.routing = "xy" THEN Row(n, s) * C + Col(n, d)
                      ELSE Row(n, d) * C + Col(n, s)
            route == IF n.routing = "xy" THEN Line(s, corner, 1) \o Tail(Line(corner, d, C))
                     ELSE Line(s, corner, C) \o Tail(Line(corner, d, 1))
<1>1. /\ C \in Nat \ {0} /\ N \in Nat \ {0} /\ T \in Nat /\ CoreIds(n) = 0 .. N - 1
      /\ s \in 0 .. N - 1 /\ d \in 0 .. N - 1
  BY ColsType DEF Networks, CoreIds
<1>2. /\ Row(n, s) \in 0 .. T - 1 /\ Col(n, s) \in 0 .. C - 1 /\ s = C * Row(n, s) + Col(n, s)
      /\ Row(n, d) \in 0 .. T - 1 /\ Col(n, d) \in 0 .. C - 1 /\ d = C * Row(n, d) + Col(n, d)
  BY Coordinates
<1>3. HopDistance(n, s, d) = m
  BY MeshDistance
<1>4. Row(n, s) * C = C * Row(n, s) /\ Row(n, d) * C = C * Row(n, d)
  <2>1. Row(n, s) \in Nat /\ Row(n, d) \in Nat
    BY <1>1, <1>2
  <2>. HIDE DEF C
  <2>. QED
    BY <1>1, <2>1
<1>5. MeshRoute(n, s, d) = IF \A k \in 2 .. Len(route) : route[k] < N THEN route ELSE NoRoute
  BY DEF MeshRoute
<1>6. Walk(n, route, s, d, m)
  <2>1. CASE n.routing = "xy"
    <3>1. /\ s = C * Row(n, s) + Col(n, s) /\ corner = C * Row(n, s) + Col(n, d)
          /\ d = C * Row(n, d) + Col(n, d)
      BY <1>2, <1>4, <2>1
    <3>2. route = Line(s, corner, 1) \o Tail(Line(corner, d, C))
      BY <2>1
    <3>. HIDE DEF corner, route
    <3>3. Walk(n, Line(s, corner, 1), s, corner, b)
      <4>1. Walk(n, Line(C * Row(n, s) + Col(n, s), C * Row(n, s) + Col(n, d), 1),
                 C * Row(n, s) + Col(n, s), C * Row(n, s) + Col(n, d), b)
        BY <1>2, RowLine
      <4>. QED
        BY <3>1, <4>1
    <3>4. Walk(n, Line(corner, d, C), corner, d, a)
      <4>1. Walk(n, Line(C * Row(n, s) + Col(n, d), C * Row(n, d) + Col(n, d), C),
                 C * Row(n, s) + Col(n, d), C * Row(n, d) + Col(n, d), a)
        BY <1>2, ColLine
      <4>. QED
        BY <3>1, <4>1
    <3>5. Walk(n, route, s, d, b + a)
      BY <3>2, <3>3, <3>4, WalksJoin
    <3>6. b + a = m
      BY <3>3, <3>4 DEF Walk
    <3>. QED
      BY <3>5, <3>6
  <2>2. CASE n.routing # "xy"
    <3>1. /\ s = C * Row(n, s) + Col(n, s) /\ corner = C * Row(n, d) + Col(n, s)
          /\ d = C * Row(n, d) + Col(n, d)
      BY <1>2, <1>4, <2>2
    <3>2. route = Line(s, corner, C) \o Tail(Line(corner, d, 1))
      BY <2>2
    <3>. HIDE DEF corner, route
    <3>3. Walk(n, Line(s, corner, C), s, corner, a)
      <4>1. Walk(n, Line(C * Row(n, s) + Col(n, s), C * Row(n, d) + Col(n, s), C),
                 C * Row(n, s) + Col(n, s), C * Row(n, d) + Col(n, s), a)
        BY <1>2, ColLine
      <4>. QED
        BY <3>1, <4>1
    <3>4. Walk(n, Line(corner, d, 1), corner, d, b)
      <4>1. Walk(n, Line(C * Row(n, d) + Col(n, s), C * Row(n, d) + Col(n, d), 1),
                 C * Row(n, d) + Col(n, s), C * Row(n, d) + Col(n, d), b)
        BY <1>2, RowLine
      <4>. QED
        BY <3>1, <4>1
    <3>. QED
      BY <3>2, <3>3, <3>4, WalksJoin
  <2>. QED
    BY <2>1, <2>2
<1>. HIDE DEF route
<1>7. /\ IsSeq(route) /\ m \in Nat /\ Len(route) = m + 1 /\ route[1] = s /\ route[m + 1] = d
      /\ \A k \in 1 .. m + 1 : InMesh(n, route[k])
      /\ \A k \in 1 .. m : Beside(n, route[k], route[k + 1])
  <2>. HIDE DEF m
  <2>. QED
    BY <1>6 DEF Walk
<1>. HIDE DEF m
<1>8. route # NoRoute
  BY <1>7, NotEmpty
<1>9. CASE \A k \in 2 .. Len(route) : route[k] < N
  <2>1. \A k \in 1 .. m + 1 : route[k] \in CoreIds(n)
    <3>. TAKE k \in 1 .. m + 1
    <3>1. k = 1 \/ k \in 2 .. Len(route)
      BY <1>7
    <3>2. route[k] \in Nat
      BY <1>7 DEF InMesh
    <3>3. CASE k = 1
      BY <1>7, <3>3
    <3>4. CASE k \in 2 .. Len(route)
      <4>1. route[k] < N
        BY <1>9, <3>4
      <4>. QED
        BY <1>1, <3>2, <4>1
    <3>. QED
      BY <3>1, <3>3, <3>4
  <2>2. \A k \in 1 .. Len(route) - 1 : route[k + 1] \in Neighbors(n, route[k])
    <3>. TAKE k \in 1 .. Len(route) - 1
    <3>1. k \in 1 .. m /\ k \in 1 .. m + 1 /\ k + 1 \in 1 .. m + 1
      BY <1>7
    <3>2. route[k] \in CoreIds(n) /\ route[k + 1] \in CoreIds(n) /\ Beside(n, route[k], route[k + 1])
      BY <1>7, <2>1, <3>1
    <3>. QED
      BY <3>2, MeshLinks
  <2>3. MeshRoute(n, s, d) = route
    BY <1>5, <1>9
  <2>4. GoesAlong(n, route, s, d)
    BY <1>3, <1>7, <2>2 DEF GoesAlong
  <2>. QED
    BY <1>7, <1>8, <2>3, <2>4
<1>10. CASE ~\A k \in 2 .. Len(route) : route[k] < N
  <2>1. PICK k \in 2 .. Len(route) : ~(route[k] < N)
    BY <1>10
  <2>2. k \in 1 .. m + 1
    BY <1>7
  <2>. DEFINE x == route[k]
              r == Row(n, x)
              c == Col(n, x)
  <2>3. x \in Nat /\ r \in 0 .. T - 1 /\ c \in 0 .. C - 1 /\ x = C * r + c
    <3>1. x \in Nat /\ r \in 0 .. T - 1 /\ c \in 0 .. C - 1
      BY <1>7, <2>2 DEF InMesh
    <3>2. x = C * r + c
      <4>. HIDE DEF x
      <4>1. x = C * (x \div C) + (x % C)
        BY <1>1, <3>1, Division
      <4>. QED
        BY <4>1 DEF Row, Col
    <3>. QED
      BY <3>1, <3>2
  <2>4. x < C * T
    <3>. DEFINE w == T - 1 - r
    <3>. HIDE DEF x, r, c, C, T
    <3>1. r \in Nat /\ w \in Nat /\ T = r + w + 1
      BY <1>1, <2>3
    <3>. HIDE DEF w
    <3>2. C * T = C * r + C * w + C /\ C * r \in Nat /\ C * w \in Nat
      <4>1. C * (r + w + 1) = C * r + C * w + C /\ C * r \in Nat /\ C * w \in Nat
        BY <1>1, <3>1
      <4>. QED
        BY <3>1, <4>1
    <3>. QED
      BY <1>1, <2>3, <3>2
  <2>5. T * C = C * T /\ C * T \in Nat
    <3>. HIDE DEF C, T
    <3>. QED
      BY <1>1
  <2>6. N # T * C
    <3>. HIDE DEF x, C, T, N
    <3>. QED
      BY <1>1, <2>1, <2>3, <2>4, <2>5 DEF x
  <2>. QED
    BY <1>5, <1>10, <2>6
<1>. QED
  BY <1>9, <1>10

\* Where an estimate finds a route, it goes along links, in as few as there are.
LEMMA Routed ==
    \A n \in Networks : \A s, d \in CoreIds(n) :
        \/ Route(n, s, d) = NoRoute /\ (n.topology = "none" \/ n.count # n.rows * Cols(n))
        \/ Route(n, s, d) # NoRoute /\ IsSeq(Route(n, s, d)) /\ GoesAlong(n, Route(n, s, d), s, d)
<1>. TAKE n \in Networks
<1>. TAKE s, d \in CoreIds(n)
<1>1. CASE n.topology = "ring"
  <2>1. Route(n, s, d) = RingRoute(n, s, d)
    BY <1>1 DEF Route
  <2>. QED
    BY <1>1, <2>1, RingRouted
<1>2. CASE n.topology = "mesh"
  <2>1. Route(n, s, d) = MeshRoute(n, s, d)
    BY <1>2 DEF Route
  <2>. QED
    BY <1>2, <2>1, MeshRouted
<1>3. CASE n.topology = "none"
  <2>1. Route(n, s, d) = IF s = d THEN <<s>> ELSE NoRoute
    BY <1>3 DEF Route
  <2>2. IsSeq(<<s>>) /\ Len(<<s>>) = 1 /\ <<s>>[1] = s
    BY OneStored
  <2>3. <<s>> # NoRoute
    BY <2>2, NotEmpty
  <2>4. GoesAlong(n, <<s>>, s, s)
    <3>1. HopDistance(n, s, s) = 0
      BY DEF HopDistance
    <3>2. 1 .. Len(<<s>>) - 1 = {}
      BY <2>2
    <3>. QED
      BY <2>2, <3>1, <3>2 DEF GoesAlong
  <2>. QED
    BY <1>3, <2>1, <2>2, <2>3, <2>4
<1>. QED
  BY <1>1, <1>2, <1>3 DEF Networks

\* What the invariant's networks say of the routes.
LEMMA RoutesFollow == ClusterInv => RoutesFollowLinks
<1>. SUFFICES ASSUME ClusterInv, JustCreated, NEW s \in CoreIds(net), NEW d \in CoreIds(net)
              PROVE  LET r == Route(net, s, d)
                     IN  IF r = NoRoute
                         THEN net.topology = "none" \/ net.count # net.rows * Cols(net)
                         ELSE /\ r[1] = s /\ r[Len(r)] = d /\ Len(r) = HopDistance(net, s, d) + 1
                              /\ \A k \in 1 .. Len(r) - 1 : r[k + 1] \in Neighbors(net, r[k])
  BY DEF RoutesFollowLinks
<1>1. net \in Networks
  BY NoNetApart DEF ClusterInv, ClusterShape, JustCreated
<1>. DEFINE r == Route(net, s, d)
<1>2. \/ r = NoRoute /\ (net.topology = "none" \/ net.count # net.rows * Cols(net))
      \/ r # NoRoute /\ IsSeq(r) /\ GoesAlong(net, r, s, d)
  BY <1>1, Routed
<1>. HIDE DEF r
<1>. QED
  BY <1>2 DEF GoesAlong, r

-----------------------------------------------------------------------------
(* Messages that share the links.                                           *)

\* A bounded set of numbers has its maximum.
LEMMA BoundedMax ==
    ASSUME NEW S \in SUBSET Nat, S # {}, NEW B \in Nat, \A x \in S : x <= B
    PROVE  Max(S) \in S /\ \A y \in S : y <= Max(S)
<1>. DEFINE T == {m \in Nat : \A x \in S : x <= m}
<1>1. T \in SUBSET Nat /\ T # {}
  OBVIOUS
<1>2. PICK m \in T : \A k \in T : m <= k
  BY <1>1, LeastNatural
<1>3. m \in S
  <2>. SUFFICES ASSUME m \notin S PROVE FALSE
    OBVIOUS
  <2>1. PICK y \in S : TRUE
    OBVIOUS
  <2>2. \A x \in S : x <= m - 1
    OBVIOUS
  <2>3. m - 1 \in Nat
    BY <2>1
  <2>4. m - 1 \in T
    BY <2>2, <2>3
  <2>. QED
    BY <1>2, <2>3, <2>4
<1>4. \E x \in S : \A y \in S : x >= y
  BY <1>3
<1>. QED
  BY <1>4 DEF Max

\* The sum of two.
LEMMA SumOfPair ==
    \A f : f \in [1 .. 2 -> Nat] => SumFunction(f) = f[1] + f[2]
<1>. TAKE f
<1>. HAVE f \in [1 .. 2 -> Nat]
<1>. DEFINE S == 1 .. 2
            g == [i \in S \ {1} |-> f[i]]
            e == [i \in (S \ {1}) \ {2} |-> g[i]]
<1>1. IsFiniteSet(S) /\ f \in [S -> Nat] /\ 1 \in S
  <2>1. 1 \in Int /\ 2 \in Int
    OBVIOUS
  <2>2. IsFiniteSet(1 .. 2)
    BY <2>1, FS_Interval
  <2>. QED
    BY <2>2
<1>2. IsFiniteSet(S \ {1}) /\ g \in [S \ {1} -> Nat] /\ 2 \in S \ {1} /\ g[2] = f[2]
  BY <1>1, FS_Subset
<1>3. (S \ {1}) \ {2} = {}
  OBVIOUS
<1>4. \A i \in DOMAIN e : e[i] = 0
  BY <1>3
<1>. HIDE DEF S
<1>5. BarTotal(f) = f[1] + BarTotal(g)
  BY <1>1, TotalSplit
<1>. HIDE DEF g
<1>6. BarTotal(g) = g[2] + BarTotal(e)
  BY <1>2, TotalSplit
<1>. HIDE DEF e
<1>7. BarTotal(e) = 0
  BY <1>4, TotalNone
<1>8. SumFunction(f) = BarTotal(f)
  BY <1>1, SumIsBarTotal
<1>9. f[1] \in Nat /\ f[2] \in Nat
  BY <1>1 DEF S
<1>. QED
  BY <1>2, <1>5, <1>6, <1>7, <1>8, <1>9

\* What a message asks of a link.
Weight(n, m, l) == IF l \in LinksOf(n, m) THEN Service(n, m) ELSE 0

\* A message pays for its hops and for every link it uses.
LEMMA MessageCovers ==
    ASSUME NEW n \in Networks, NEW m, m[1] \in CoreIds(n), m[2] \in CoreIds(n), m[3] \in Nat \ {0},
           TransferCycles(n, m[1], m[2], m[3]) # Unreachable, Route(n, m[1], m[2]) # NoRoute
    PROVE  /\ HopDistance(n, m[1], m[2]) \in Nat /\ HopDistance(n, m[1], m[2]) * n.hop \in Nat
           /\ TransferCycles(n, m[1], m[2], m[3]) \in Nat
           /\ \A l : /\ Weight(n, m, l) \in Nat
                     /\ HopDistance(n, m[1], m[2]) * n.hop + Weight(n, m, l)
                          <= TransferCycles(n, m[1], m[2], m[3])
<1>. DEFINE h == HopDistance(n, m[1], m[2])
            z == m[3]
            t == TransferCycles(n, m[1], m[2], z)
            r == Route(n, m[1], m[2])
            S == Serialized(n, z)
            g == n.hop
<1>1. h \in Nat \cup {Unreachable} /\ g \in Nat /\ n.switching \in {"legacy", "cut", "store"}
  BY DistanceType DEF Networks
<1>2. h # Unreachable
  BY DEF TransferCycles
<1>3. h \in Nat
  BY <1>1, <1>2
<1>4. r # NoRoute /\ GoesAlong(n, r, m[1], m[2])
  BY Routed
<1>5. Len(r) = h + 1
  BY <1>4 DEF GoesAlong
<1>6. h = 0 => LinksOf(n, m) = {}
  BY <1>5 DEF LinksOf
<1>7. n.link # 0 => S \in Nat
  BY SerializedType
<1>8. /\ h = 0 => t = 0
      /\ h # 0 /\ n.switching = "legacy" => t = h * g
      /\ h # 0 /\ n.switching # "legacy" => n.link # 0
      /\ h # 0 /\ n.switching = "cut" => t = h * g + S
      /\ h # 0 /\ n.switching = "store" => t = h * (g + S)
  BY <1>2 DEF TransferCycles
<1>9. Service(n, m) = IF n.switching = "legacy" THEN 0 ELSE S
  BY DEF Service
<1>10. \A l : Weight(n, m, l) = 0 \/ (h # 0 /\ Weight(n, m, l) = Service(n, m))
  BY <1>6 DEF Weight
<1>. HIDE DEF h, t, r, S, g, z
<1>11. h * g \in Nat
  BY <1>1, <1>3
<1>12. CASE h = 0
  <2>1. h * g = 0 /\ t = 0 /\ \A l : Weight(n, m, l) = 0
    BY <1>1, <1>8, <1>10, <1>12
  <2>. QED
    BY <1>3, <2>1 DEF h, t, g, z
<1>13. CASE h # 0 /\ n.switching = "legacy"
  <2>1. t = h * g /\ \A l : Weight(n, m, l) = 0
    BY <1>8, <1>9, <1>10, <1>13
  <2>2. h * g + 0 <= t /\ t \in Nat
    BY <1>11, <2>1
  <2>. QED
    BY <1>3, <1>11, <2>1, <2>2 DEF h, t, g, z
<1>14. CASE h # 0 /\ n.switching # "legacy"
  <2>1. S \in Nat /\ \A l : Weight(n, m, l) = 0 \/ Weight(n, m, l) = S
    BY <1>7, <1>8, <1>9, <1>10, <1>14
  <2>2. h * g + S <= t /\ t \in Nat
    <3>1. CASE n.switching = "cut"
      BY <1>8, <1>11, <1>14, <2>1, <3>1
    <3>2. CASE n.switching = "store"
      <4>. DEFINE j == h - 1
      <4>1. j \in Nat /\ h = j + 1
        BY <1>3, <1>14
      <4>2. h * (g + S) = h * g + h * S
        BY <1>1, <1>3, <2>1
      <4>. HIDE DEF j
      <4>3. h * S = j * S + S /\ j * S \in Nat
        <5>1. (j + 1) * S = j * S + S /\ j * S \in Nat
          BY <2>1, <4>1
        <5>. QED
          BY <4>1, <5>1
      <4>4. t = h * (g + S)
        BY <1>8, <1>14, <3>2
      <4>. QED
        BY <1>11, <2>1, <4>2, <4>3, <4>4
    <3>. QED
      BY <1>1, <1>14, <3>1, <3>2
  <2>3. h * g + 0 <= t
    BY <1>11, <2>1, <2>2
  <2>4. \A l : Weight(n, m, l) \in Nat /\ h * g + Weight(n, m, l) <= t
    <3>. TAKE l
    <3>1. CASE Weight(n, m, l) = 0
      BY <2>3, <3>1
    <3>2. CASE Weight(n, m, l) = S
      BY <2>1, <2>2, <3>2
    <3>. QED
      BY <2>1, <3>1, <3>2
  <2>. QED
    BY <1>3, <1>11, <2>2, <2>4 DEF h, t, g, z
<1>. QED
  BY <1>12, <1>13, <1>14

\* Messages sent together: no faster than the slowest alone, no slower than one
\* after the other.
LEMMA TogetherBounded ==
    \A n \in Networks : \A a, b \in CoreIds(n) \X CoreIds(n) \X (Nat \ {0}) :
        Estimable(n, <<a, b>>) =>
            /\ TrafficCycles(n, <<a, b>>) >= Isolated(n, <<a, b>>)
            /\ TrafficCycles(n, <<a, b>>) <= Isolated(n, <<a>>) + Isolated(n, <<b>>)
<1>. TAKE n \in Networks
<1>. TAKE a, b \in CoreIds(n) \X CoreIds(n) \X (Nat \ {0})
<1>. HAVE Estimable(n, <<a, b>>)
<1>. DEFINE M == <<a, b>>
            ta == TransferCycles(n, a[1], a[2], a[3])
            tb == TransferCycles(n, b[1], b[2], b[3])
            ha == HopDistance(n, a[1], a[2]) * n.hop
            hb == HopDistance(n, b[1], b[2]) * n.hop
<1>1. /\ DOMAIN M = 1 .. 2 /\ M[1] = a /\ M[2] = b
      /\ DOMAIN <<a>> = {1} /\ <<a>>[1] = a /\ DOMAIN <<b>> = {1} /\ <<b>>[1] = b
  OBVIOUS
<1>2. /\ a[1] \in CoreIds(n) /\ a[2] \in CoreIds(n) /\ a[3] \in Nat \ {0}
      /\ b[1] \in CoreIds(n) /\ b[2] \in CoreIds(n) /\ b[3] \in Nat \ {0}
  OBVIOUS
<1>3. \A i \in 1 .. 2 : /\ TransferCycles(n, M[i][1], M[i][2], M[i][3]) # Unreachable
                        /\ Route(n, M[i][1], M[i][2]) # NoRoute
  BY <1>1 DEF Estimable
<1>4. /\ ta # Unreachable /\ Route(n, a[1], a[2]) # NoRoute
      /\ tb # Unreachable /\ Route(n, b[1], b[2]) # NoRoute
  <2>1. 1 \in 1 .. 2 /\ 2 \in 1 .. 2
    OBVIOUS
  <2>. QED
    BY <1>1, <1>3, <2>1
<1>5. ha \in Nat /\ ta \in Nat /\ \A l : Weight(n, a, l) \in Nat /\ ha + Weight(n, a, l) <= ta
  BY <1>2, <1>4, MessageCovers
<1>6. hb \in Nat /\ tb \in Nat /\ \A l : Weight(n, b, l) \in Nat /\ hb + Weight(n, b, l) <= tb
  BY <1>2, <1>4, MessageCovers
<1>7. Isolated(n, M) = Max({ta, tb}) /\ Isolated(n, <<a>>) = Max({ta}) /\ Isolated(n, <<b>>) = Max({tb})
  <2>1. {TransferCycles(n, M[i][1], M[i][2], M[i][3]) : i \in DOMAIN M} = {ta, tb}
    BY <1>1
  <2>2. {TransferCycles(n, <<a>>[i][1], <<a>>[i][2], <<a>>[i][3]) : i \in DOMAIN <<a>>} = {ta}
    BY <1>1
  <2>3. {TransferCycles(n, <<b>>[i][1], <<b>>[i][2], <<b>>[i][3]) : i \in DOMAIN <<b>>} = {tb}
    BY <1>1
  <2>. QED
    BY <2>1, <2>2, <2>3 DEF Isolated
<1>. DEFINE links == [i \in DOMAIN M |-> LinksOf(n, M[i])]
            load(l) == SumFunction([i \in DOMAIN M |-> IF l \in links[i] THEN Service(n, M[i]) ELSE 0])
            L == {load(l) : l \in UNION Range(links)} \cup {0}
            H == {HopDistance(n, M[i][1], M[i][2]) * n.hop : i \in DOMAIN M}
<1>8. Bottleneck(n, M) = Max(L)
  BY DEF Bottleneck
<1>9. H = {ha, hb}
  BY <1>1
<1>10. TrafficCycles(n, M) = IF n.shared THEN Max({Isolated(n, M), Bottleneck(n, M) + Max(H)})
                             ELSE Isolated(n, M)
  BY DEF TrafficCycles
<1>11. \A l : load(l) = Weight(n, a, l) + Weight(n, b, l)
  <2>. TAKE l
  <2>. DEFINE f == [i \in DOMAIN M |-> IF l \in links[i] THEN Service(n, M[i]) ELSE 0]
  <2>1. f = [i \in 1 .. 2 |-> Weight(n, M[i], l)]
    <3>1. \A i \in 1 .. 2 : links[i] = LinksOf(n, M[i])
      BY <1>1
    <3>. HIDE DEF links
    <3>. QED
      BY <1>1, <3>1 DEF Weight
  <2>2. f[1] = Weight(n, a, l) /\ f[2] = Weight(n, b, l)
    BY <1>1, <2>1
  <2>3. f \in [1 .. 2 -> Nat]
    <3>1. \A i \in 1 .. 2 : M[i] = a \/ M[i] = b
      BY <1>1
    <3>2. \A i \in 1 .. 2 : Weight(n, M[i], l) \in Nat
      BY <1>5, <1>6, <3>1
    <3>. QED
      BY <2>1, <3>2
  <2>. HIDE DEF f
  <2>4. SumFunction(f) = f[1] + f[2]
    BY <2>3, SumOfPair
  <2>. QED
    BY <2>2, <2>4 DEF f
<1>. HIDE DEF links, load, ta, tb, ha, hb, M
<1>12. \A x \in L : x \in Nat /\ x + ha <= ta + tb /\ x + hb <= ta + tb
  <2>. TAKE x \in L
  <2>1. x = 0 \/ \E l : x = load(l)
    OBVIOUS
  <2>2. CASE x = 0
    <3>1. PICK l : l = 0
      OBVIOUS
    <3>2. Weight(n, a, l) \in Nat /\ ha + Weight(n, a, l) <= ta
      BY <1>5
    <3>3. Weight(n, b, l) \in Nat /\ hb + Weight(n, b, l) <= tb
      BY <1>6
    <3>. QED
      BY <1>5, <1>6, <2>2, <3>2, <3>3
  <2>3. CASE \E l : x = load(l)
    <3>1. PICK l : x = load(l)
      BY <2>3
    <3>2. Weight(n, a, l) \in Nat /\ ha + Weight(n, a, l) <= ta
      BY <1>5
    <3>3. Weight(n, b, l) \in Nat /\ hb + Weight(n, b, l) <= tb
      BY <1>6
    <3>4. x = Weight(n, a, l) + Weight(n, b, l)
      BY <1>11, <3>1
    <3>. QED
      BY <1>5, <1>6, <3>2, <3>3, <3>4
  <2>. QED
    BY <2>1, <2>2, <2>3
<1>13. Max(L) \in L
  <2>1. L \in SUBSET Nat /\ L # {}
    BY <1>12
  <2>2. ta + tb \in Nat /\ \A x \in L : x <= ta + tb
    BY <1>5, <1>6, <1>12
  <2>. HIDE DEF L
  <2>. QED
    BY <2>1, <2>2, BoundedMax
<1>14. Max(H) \in {ha, hb}
  <2>. HIDE DEF H
  <2>1. ha \in Int /\ hb \in Int
    BY <1>5, <1>6
  <2>2. Max({ha, hb}) \in {ha, hb}
    BY <2>1, MaxOfTwo
  <2>. QED
    BY <1>9, <2>2
<1>. DEFINE Bn == Max(L) + Max(H)
            I == Max({ta, tb})
<1>15. Bn \in Nat /\ Bn <= ta + tb
  <2>1. Max(L) \in Nat /\ Max(L) + ha <= ta + tb /\ Max(L) + hb <= ta + tb
    BY <1>12, <1>13
  <2>. HIDE DEF L, H
  <2>. QED
    BY <1>5, <1>6, <1>14, <2>1
<1>16. I \in Nat /\ I <= ta + tb
  BY <1>5, <1>6, MaxOfTwo
<1>17. Isolated(n, <<a>>) = ta /\ Isolated(n, <<b>>) = tb
  <2>1. \A t \in Nat : Max({t}) = t
    <3>. TAKE t \in Nat
    <3>1. {t} = {t, t}
      OBVIOUS
    <3>. QED
      BY <3>1, MaxOfTwo
  <2>. QED
    BY <1>5, <1>6, <1>7, <2>1
<1>18. TrafficCycles(n, M) = IF n.shared THEN Max({I, Bn}) ELSE I
  BY <1>7, <1>8, <1>10
<1>. HIDE DEF L, H, Bn, I
<1>19. Max({I, Bn}) \in {I, Bn} /\ Max({I, Bn}) >= I
  BY <1>15, <1>16, MaxOfTwo
<1>20. TrafficCycles(n, M) >= I /\ TrafficCycles(n, M) <= ta + tb
  <2>1. CASE n.shared
    <3>1. TrafficCycles(n, M) = Max({I, Bn})
      BY <1>18, <2>1
    <3>. QED
      BY <1>15, <1>16, <1>19, <3>1
  <2>2. CASE ~n.shared
    <3>1. TrafficCycles(n, M) = I
      BY <1>18, <2>2
    <3>. QED
      BY <1>16, <3>1
  <2>. QED
    BY <2>1, <2>2
<1>21. Isolated(n, M) = I
  BY <1>7 DEF I
<1>. QED
  BY <1>17, <1>20, <1>21 DEF M

\* The same of the messages of any size the program sends.
LEMMA TrafficFits == ClusterInv => TrafficBounded
<1>. HAVE ClusterInv
<1>. SUFFICES ASSUME JustCreated
              PROVE  LET Messages == CoreIds(net) \X CoreIds(net) \X TrafficSizes
                     IN  \A a, b \in Messages :
                           Estimable(net, <<a, b>>) =>
                             /\ TrafficCycles(net, <<a, b>>) >= Isolated(net, <<a, b>>)
                             /\ TrafficCycles(net, <<a, b>>)
                                  <= Isolated(net, <<a>>) + Isolated(net, <<b>>)
  BY DEF TrafficBounded
<1>1. net \in Networks
  BY NoNetApart DEF ClusterInv, ClusterShape, JustCreated
<1>2. \A m \in CoreIds(net) \X CoreIds(net) \X TrafficSizes :
         m \in CoreIds(net) \X CoreIds(net) \X (Nat \ {0})
  BY ClusterAssumption
<1>. QED
  BY <1>1, <1>2, TogetherBounded

-----------------------------------------------------------------------------
(* Collectives.                                                             *)

\* No other call says it is a collective.
LEMMA OnlyCollectives ==
    [ClusterNext]_clusterVars /\ netCalls' # netCalls =>
        \/ netLast'.op \notin {"broadcast", "allreduce"}
        \/ \E src \in CoreIds(net), w \in Windows : Broadcast(src, w)
        \/ \E w \in Windows : AllReduce(w)
<1>. SUFFICES ASSUME [ClusterNext]_clusterVars, netCalls' # netCalls,
                     ~\E src \in CoreIds(net), w \in Windows : Broadcast(src, w),
                     ~\E w \in Windows : AllReduce(w)
              PROVE  netLast'.op \notin {"broadcast", "allreduce"}
  OBVIOUS
<1>1. \A op, rc : Call(op, rc) => netLast'.op = op
  BY DEF Call, Said
<1>2. ASSUME NEW n, CreateCluster(n) PROVE netLast'.op \notin {"broadcast", "allreduce"}
  <2>1. Call("create", 0)
    BY <1>2 DEF CreateCluster
  <2>. QED
    BY <1>1, <2>1
<1>3. ASSUME NEW c, NEW a, NEW v, Execute(c, a, v)
      PROVE  netLast'.op \notin {"broadcast", "allreduce"}
  <2>1. Call("execute", 0)
    BY <1>3 DEF Execute
  <2>. QED
    BY <1>1, <2>1
<1>4. ASSUME NEW refused, NEW a, NEW v, SpmdExecute(refused, a, v)
      PROVE  netLast'.op \notin {"broadcast", "allreduce"}
  <2>1. Call("spmd", IF refused = {} THEN 0 ELSE -1)
    BY <1>4 DEF SpmdExecute
  <2>2. netLast'.op = "spmd"
    BY <1>1, <2>1
  <2>. QED
    BY <2>2
<1>5. ASSUME NEW src, NEW dst, NEW w, Send(src, dst, w)
      PROVE  netLast'.op \notin {"broadcast", "allreduce"}
  <2>1. Call("send", IF Sendable(src, dst, w) THEN 0 ELSE -1)
    BY <1>5 DEF Send
  <2>2. netLast'.op = "send"
    BY <1>1, <2>1
  <2>. QED
    BY <2>2
<1>6. CASE Barrier
  <2>1. Call("barrier", 0)
    BY <1>6 DEF Barrier
  <2>. QED
    BY <1>1, <2>1
<1>7. ASSUME NEW c, ReinitCore(c) PROVE FALSE
  BY <1>7 DEF ReinitCore
<1>8. ~LegacyInit /\ ~LegacyShutdown /\ ~CreateCore /\ ~CreateFails /\ ~DestroyCluster
      /\ ~UNCHANGED clusterVars
  BY DEF LegacyInit, LegacyShutdown, CreateCore, CreateFails, DestroyCluster, clusterVars
<1>. QED
  BY <1>2, <1>3, <1>4, <1>5, <1>6, <1>7, <1>8 DEF ClusterNext

\* What is written is read back.
LEMMA ReadBack ==
    ASSUME NEW c, IsSeq(c), NEW o \in Nat, NEW d, IsSeq(d), Fits(c, o, Len(d))
    PROVE  Read(Written(c, o, d), o, Len(d)) = d
<1>. DEFINE x == Written(c, o, d)
            n == Len(d)
            r == Read(x, o, n)
<1>1. n \in Nat /\ d = [i \in 1 .. n |-> d[i]]
  BY DEF IsSeq
<1>2. IsSeq(x) /\ Len(x) = Len(c) /\ \A k \in 1 .. n : x[o + k] = d[k]
  BY WrittenMade
<1>. HIDE DEF n
<1>3. Fits(x, o, n)
  BY <1>2 DEF Fits, n
<1>. HIDE DEF x
<1>4. IsSeq(r) /\ Len(r) = n /\ \A k \in 1 .. n : r[k] = x[o + k]
  BY <1>1, <1>2, <1>3, ReadMade
<1>. HIDE DEF r
<1>5. r = [i \in 1 .. n |-> r[i]]
  BY <1>4 DEF IsSeq
<1>6. \A i \in 1 .. n : r[i] = d[i]
  BY <1>2, <1>4
<1>7. r = d
  BY <1>1, <1>5, <1>6
<1>. QED
  BY <1>7 DEF r, x, n

\* A core that a transfer reached holds what its source held.
LEMMA ReachedHolds ==
    ASSUME ClusterInv, Complete, NEW src \in CoreIds(net), NEW dsts \in SUBSET CoreIds(net),
           NEW w \in Windows, Sent(src, dsts, w), NEW d \in dsts, Sendable(src, d, w)
    PROVE  /\ Fits(CoreAt(d).cells, w[2], w[3])
           /\ Read(cores'[d + 1].cells, w[2], w[3]) = Read(CoreAt(src).cells, w[1], w[3])
<1>. DEFINE data == Read(CoreAt(src).cells, w[1], w[3])
            core == cores[d + 1]
            m == core.cycles + TransferCycles(net, src, d, w[3])
<1>1. /\ net \in Networks /\ DOMAIN cores = 1 .. net.count /\ d \in CoreIds(net)
      /\ d + 1 \in 1 .. net.count /\ (d + 1) - 1 = d /\ IsCore(core) /\ IsCore(CoreAt(src))
      /\ CoreAt(d) = core
  <2>1. d \in CoreIds(net)
    OBVIOUS
  <2>2. d \in Int
    BY <2>1, CompleteShape
  <2>. QED
    BY <2>1, <2>2, CompleteShape DEF CoreAt
<1>2. w[1] \in Nat /\ w[2] \in Nat /\ w[3] \in Nat
  BY WindowsType
<1>3. /\ Fits(CoreAt(src).cells, w[1], w[3]) /\ Fits(core.cells, w[2], w[3])
      /\ TransferCycles(net, src, d, w[3]) # Unreachable
  BY <1>1 DEF Sendable
<1>4. IsSeq(data) /\ Len(data) = w[3] /\ IsSeq(core.cells)
  <2>1. IsSeq(CoreAt(src).cells) /\ IsSeq(core.cells)
    BY <1>1 DEF IsCore, IsCells
  <2>. QED
    BY <1>2, <1>3, <2>1, ReadMade
<1>5. m \in Nat
  <2>1. TransferCycles(net, src, d, w[3]) \in Nat
    BY <1>1, <1>2, <1>3, CyclesType
  <2>2. core.cycles \in Nat
    BY <1>1 DEF IsCore
  <2>. QED
    BY <2>1, <2>2
<1>6. cores'[d + 1] = Received(core, src, d, w)
  BY <1>1 DEF Sent
<1>7. Received(core, src, d, w) = Changed(core, Written(core.cells, w[2], data), m)
  BY DEF Received, Changed
<1>. HIDE DEF data, core, m
<1>8. Becomes(Changed(core, Written(core.cells, w[2], data), m), core, Written(core.cells, w[2], data), m)
  BY <1>1, <1>2, <1>4, <1>5, ReceivedMade
<1>9. cores'[d + 1].cells = Written(core.cells, w[2], data)
  BY <1>6, <1>7, <1>8 DEF Becomes
<1>10. Read(Written(core.cells, w[2], data), w[2], w[3]) = data
  BY <1>2, <1>3, <1>4, ReadBack
<1>. QED
  BY <1>1, <1>3, <1>9, <1>10 DEF data

\* tu_cluster_broadcast delivers when it reports success.
LEMMA BroadcastReaches ==
    ASSUME ClusterInv, NEW src \in CoreIds(net), NEW w \in Windows, Broadcast(src, w)
    PROVE  BroadcastDelivers
<1>1. /\ Complete /\ Sent(src, Reached(src, w), w)
      /\ netLast' = [op |-> "broadcast", src |-> src, window |-> w,
                     rc |-> IF Reached(src, w) = Others(src) THEN 0 ELSE -1]
  BY DEF Broadcast
<1>2. netLast'.src = src /\ netLast'.window = w
  BY <1>1
<1>3. netLast'.rc = 0 => Reached(src, w) = Others(src)
  BY <1>1
<1>. DEFINE data == Read(CoreAt(src).cells, w[1], w[3])
            got == {d \in Others(src) : /\ Fits(CoreAt(d).cells, w[2], w[3])
                                        /\ Read(cores'[d + 1].cells, w[2], w[3]) = data}
<1>4. ASSUME netLast'.rc = 0 PROVE got = Others(src)
  <2>1. ASSUME NEW d \in Others(src)
        PROVE  Fits(CoreAt(d).cells, w[2], w[3]) /\ Read(cores'[d + 1].cells, w[2], w[3]) = data
    <3>1. Reached(src, w) \in SUBSET CoreIds(net) /\ d \in Reached(src, w)
      BY <1>3, <1>4, <2>1 DEF Reached, Others
    <3>2. d <= d
      <4>1. d \in Int
        BY <1>1, <2>1, CompleteShape DEF Others
      <4>. QED
        BY <4>1
    <3>3. Sendable(src, d, w)
      BY <3>1, <3>2 DEF Reached
    <3>. QED
      BY <1>1, <3>1, <3>3, ReachedHolds
  <2>. QED
    BY <2>1
<1>. HIDE DEF got
<1>5. netLast'.rc = 0 => got = Others(src)
  BY <1>4
<1>. QED
  BY <1>2, <1>5 DEF BroadcastDelivers, got

\* tu_cluster_allreduce_sum_f32 sums when every window fits.
LEMMA AllReduceReaches ==
    ASSUME ClusterInv, NEW w \in Windows, AllReduce(w)
    PROVE  AllReduceSums
<1>. DEFINE before == [c \in CoreIds(net) |-> Read(CoreAt(c).cells, w[1], w[3])]
<1>1. Complete /\ netLast'.window = w
  BY DEF AllReduce
<1>2. PICK p \in Parts(w) :
        cores' = [i \in DOMAIN cores |-> [cores[i] EXCEPT !.cells = Written(@, w[2], SumOf(p, w))]]
  BY DEF AllReduce
<1>3. w[1] \in Nat /\ w[2] \in Nat /\ w[3] \in Nat
  BY WindowsType
<1>. DEFINE s == SumOf(p, w)
<1>4. IsSeq(s) /\ Len(s) = w[3]
      /\ \A k \in 1 .. w[3] : s[k] = SumFunction([c \in CoreIds(net) |-> p[c][k]])
  BY <1>3, SumMade
<1>. HIDE DEF s
<1>5. ASSUME \A c \in CoreIds(net) : /\ Fits(CoreAt(c).cells, w[1], w[3])
                                     /\ Fits(CoreAt(c).cells, w[2], w[3])
      PROVE  \A c \in CoreIds(net) : \A k \in 1 .. w[3] :
                cores'[c + 1].cells[w[2] + k] = SumFunction([e \in CoreIds(net) |-> before[e][k]])
  <2>1. p = before
    <3>1. \A c \in CoreIds(net) : p[c] = Read(CoreAt(c).cells, w[1], w[3])
      <4>. TAKE c \in CoreIds(net)
      <4>1. p[c] \in Summands(c, w)
        BY <1>2 DEF Parts
      <4>2. Summands(c, w) = {Read(CoreAt(c).cells, w[1], w[3])}
        BY <1>5 DEF Summands
      <4>. QED
        BY <4>1, <4>2
    <3>2. p = [c \in CoreIds(net) |-> p[c]]
      BY <1>2 DEF Parts
    <3>. QED
      BY <3>1, <3>2
  <2>. HIDE DEF before
  <2>2. \A c \in CoreIds(net) : \A k \in 1 .. w[3] : cores'[c + 1].cells[w[2] + k] = s[k]
    <3>. TAKE c \in CoreIds(net)
    <3>. DEFINE core == cores[c + 1]
    <3>1. c + 1 \in DOMAIN cores /\ IsCore(core) /\ CoreAt(c) = core
      BY <1>1, CompleteShape DEF CoreAt
    <3>2. cores'[c + 1] = Rewritten(core, w[2], s)
      BY <1>2, <3>1 DEF Rewritten, s
    <3>3. Fits(core.cells, w[2], w[3]) /\ IsSeq(core.cells)
      BY <1>5, <3>1 DEF IsCore, IsCells
    <3>. HIDE DEF core
    <3>4. cores'[c + 1].cells = Written(core.cells, w[2], s)
      BY <1>3, <1>4, <3>1, <3>2, RewrittenMade
    <3>5. \A k \in 1 .. w[3] : Written(core.cells, w[2], s)[w[2] + k] = s[k]
      BY <1>3, <1>4, <3>3, WrittenMade
    <3>. QED
      BY <3>4, <3>5
  <2>3. \A k \in 1 .. w[3] : s[k] = SumFunction([c \in CoreIds(net) |-> before[c][k]])
    BY <1>4, <2>1
  <2>. QED
    BY <2>2, <2>3
<1>. HIDE DEF before
<1>6. (\A c \in CoreIds(net) : /\ Fits(CoreAt(c).cells, w[1], w[3])
                               /\ Fits(CoreAt(c).cells, w[2], w[3]))
      => \A c \in CoreIds(net) : \A k \in 1 .. w[3] :
            cores'[c + 1].cells[w[2] + k] = SumFunction([e \in CoreIds(net) |-> before[e][k]])
  BY <1>5
<1>. QED
  BY <1>1, <1>6 DEF AllReduceSums, before

\* No step claims a delivery it has not made.
LEMMA CollectiveStep ==
    ClusterInv /\ [ClusterNext]_clusterVars => BroadcastDelivers /\ AllReduceSums
<1>. SUFFICES ASSUME ClusterInv, [ClusterNext]_clusterVars
              PROVE  BroadcastDelivers /\ AllReduceSums
  OBVIOUS
<1>1. CASE netCalls' = netCalls \/ netLast'.op \notin {"broadcast", "allreduce"}
  BY <1>1 DEF BroadcastDelivers, AllReduceSums
<1>2. ASSUME NEW src \in CoreIds(net), NEW w \in Windows, Broadcast(src, w)
      PROVE  BroadcastDelivers /\ AllReduceSums
  <2>1. netLast'.op = "broadcast"
    BY <1>2 DEF Broadcast
  <2>2. AllReduceSums
    BY <2>1 DEF AllReduceSums
  <2>. QED
    BY <1>2, <2>2, BroadcastReaches
<1>3. ASSUME NEW w \in Windows, AllReduce(w)
      PROVE  BroadcastDelivers /\ AllReduceSums
  <2>1. netLast'.op = "allreduce"
    BY <1>3 DEF AllReduce
  <2>2. BroadcastDelivers
    BY <2>1 DEF BroadcastDelivers
  <2>. QED
    BY <1>3, <2>2, AllReduceReaches
<1>. QED
  BY <1>1, <1>2, <1>3, OnlyCollectives

\* For every network a cluster can be created with, whatever is created, run,
\* sent, reduced and destroyed: every core owns its memory alone and none is
\* lost (tu_core.c), the distance is that of a shortest path and a route goes
\* along links in as many hops (tu_cluster.c), messages together take at least
\* as long as the slowest and at most as long as one after the other, and the
\* cycles of the cores are those of the transfers and barriers.
THEOREM ClusterIsSound == ClusterSpec => []ClusterSound
<1>1. ClusterInv => ClusterSound
  BY ClusterTyped, OwnedOnce, Shortest, RoutesFollow, TrafficFits, Charged DEF ClusterSound
<1>. QED
  BY <1>1, ClusterInvariant, PTL

\* A broadcast that reports success left the data of its source in every other
\* core, and an all-reduce whose windows fit left the sum of what the cores
\* held before in all of them (tu_cluster_broadcast, tu_cluster_allreduce_sum_f32).
THEOREM CollectivesReachAll == ClusterSpec => CollectivesDeliver
<1>1. ClusterInv /\ [ClusterNext]_clusterVars => [BroadcastDelivers /\ AllReduceSums]_clusterVars
  BY CollectiveStep
<1>. QED
  BY <1>1, ClusterInvariant, PTL DEF ClusterSpec, CollectivesDeliver

-----------------------------------------------------------------------------
(* The register allocator.  Lists in ascending order. *)

\* A strictly ascending list of the members of S.
Lists(list, S) ==
    /\ list \in [1 .. Cardinality(S) -> S]
    /\ \A i, j \in 1 .. Cardinality(S) : i < j => list[i] < list[j]
    /\ \A p \in S : \E i \in 1 .. Cardinality(S) : list[i] = p

\* The member with i - 1 below it is the i-th.
LEMMA AscendingLists ==
    ASSUME NEW S \in SUBSET Int, IsFiniteSet(S)
    PROVE  Cardinality(S) \in Nat /\ Lists(Ascending(S), S)
<1>. DEFINE n == Cardinality(S)
            Below(p) == {q \in S : q < p}
            rank(p) == Cardinality(Below(p))
            f == [p \in S |-> rank(p) + 1]
            T == 1 .. n
            a == Ascending(S)
<1>1. n \in Nat
  BY FS_CardinalityType
<1>2. ASSUME NEW p \in S PROVE IsFiniteSet(Below(p)) /\ rank(p) \in Nat /\ rank(p) < n
  <2>1. Below(p) \in SUBSET S /\ Below(p) # S
    OBVIOUS
  <2>. DEFINE B == Below(p)
  <2>2. B \in SUBSET S /\ B # S
    BY <2>1
  <2>. HIDE DEF B
  <2>3. IsFiniteSet(B) /\ Cardinality(B) <= n /\ Cardinality(B) # n
    BY <2>2, FS_Subset
  <2>4. Cardinality(B) \in Nat
    BY <2>3, FS_CardinalityType
  <2>. HIDE DEF n
  <2>5. Cardinality(B) < n
    BY <1>1, <2>3, <2>4
  <2>. QED
    BY <2>3, <2>4, <2>5 DEF B
<1>3. ASSUME NEW p \in S, NEW q \in S, p < q PROVE rank(p) < rank(q)
  <2>. DEFINE B == Below(p)
              C == Below(q)
  <2>1. B \in SUBSET C /\ B # C
    <3>1. p \in C /\ p \notin B
      BY <1>3
    <3>2. \A x \in B : x \in C
      BY <1>3
    <3>. QED
      BY <3>1, <3>2
  <2>2. IsFiniteSet(C) /\ Cardinality(B) \in Nat /\ Cardinality(C) \in Nat
    BY <1>2
  <2>. HIDE DEF B, C
  <2>3. Cardinality(B) <= Cardinality(C) /\ Cardinality(B) # Cardinality(C)
    BY <2>1, <2>2, FS_Subset
  <2>4. Cardinality(B) < Cardinality(C)
    BY <2>2, <2>3
  <2>. QED
    BY <2>4 DEF B, C
<1>4. \A i \in T : a[i] = CHOOSE p \in S : rank(p) = i - 1
  BY DEF Ascending, InOrder
<1>16. DOMAIN a = T
  BY DEF Ascending, InOrder
<1>17. a = [i \in DOMAIN a |-> a[i]]
  <2>. DEFINE below == [p \in S |-> {q \in S : q < p}]
              c(i) == CHOOSE p \in S : Cardinality(below[p]) = i - 1
  <2>1. a = [i \in 1 .. Cardinality(S) |-> c(i)]
    BY Zenon DEF Ascending, InOrder
  <2>. HIDE DEF c, a, T
  <2>. QED
    BY <2>1
<1>15. \A p \in S : p \in Int /\ rank(p) \in Nat /\ rank(p) < n
  BY <1>2
<1>. HIDE DEF rank, n, a
<1>14. a = [i \in T |-> a[i]]
  BY <1>16, <1>17
<1>6. IsFiniteSet(T) /\ Cardinality(T) = n
  <2>1. 1 \in Int /\ n \in Int
    BY <1>1
  <2>2. IsFiniteSet(1 .. n) /\ Cardinality(1 .. n) = IF 1 > n THEN 0 ELSE n - 1 + 1
    BY <2>1, FS_Interval
  <2>. QED
    BY <1>1, <2>2
<1>7. f \in Injection(S, T)
  <2>1. f \in [S -> T]
    BY <1>1, <1>15
  <2>2. ASSUME NEW p \in S, NEW q \in S, f[p] = f[q] PROVE p = q
    <3>1. rank(p) = rank(q)
      BY <2>2, <1>15
    <3>2. p \in Int /\ q \in Int /\ rank(p) \in Nat /\ rank(q) \in Nat
      BY <1>15
    <3>. QED
      BY <1>3, <3>1, <3>2
  <2>. QED
    BY <2>1, <2>2 DEF Injection, IsInjective
<1>8. f \in Surjection(S, T)
  <2>. HIDE DEF f, T
  <2>1. Cardinality(S) = Cardinality(T)
    BY <1>6 DEF n
  <2>. QED
    BY <1>6, <1>7, <2>1, FS_Injection
<1>9. \A i \in T : \E p \in S : rank(p) + 1 = i
  BY <1>8 DEF Surjection
<1>10. ASSUME NEW i \in T PROVE a[i] \in S /\ rank(a[i]) = i - 1
  <2>1. \E p \in S : rank(p) = i - 1
    BY <1>1, <1>15, <1>9
  <2>. QED
    BY <1>4, <2>1
<1>11. ASSUME NEW i \in T, NEW j \in T, i < j PROVE a[i] < a[j]
  <2>1. a[i] \in S /\ a[j] \in S /\ rank(a[i]) = i - 1 /\ rank(a[j]) = j - 1
    BY <1>10
  <2>2. a[i] \in Int /\ a[j] \in Int /\ i \in Int /\ j \in Int
    <3>1. i \in Int /\ j \in Int
      BY <1>1
    <3>2. a[i] \in Int /\ a[j] \in Int
      BY <1>15, <2>1
    <3>. QED
      BY <3>1, <3>2
  <2>3. ~ (a[j] < a[i])
    <3>. SUFFICES ASSUME a[j] < a[i] PROVE FALSE
      OBVIOUS
    <3>1. rank(a[j]) < rank(a[i])
      BY <1>3, <2>1
    <3>. QED
      BY <1>11, <2>1, <2>2, <3>1
  <2>4. a[i] # a[j]
    <3>. SUFFICES ASSUME a[i] = a[j] PROVE FALSE
      OBVIOUS
    <3>1. i - 1 = j - 1
      BY <2>1
    <3>. QED
      BY <1>11, <2>2, <3>1
  <2>. QED
    BY <2>2, <2>3, <2>4
<1>12. ASSUME NEW p \in S PROVE \E i \in T : a[i] = p
  <2>. DEFINE i == rank(p) + 1
  <2>1. i \in T /\ i - 1 = rank(p)
    BY <1>1, <1>15
  <2>2. a[i] \in S /\ rank(a[i]) = rank(p)
    BY <1>10, <2>1
  <2>. HIDE DEF i
  <2>3. a[i] \in Int /\ p \in Int /\ rank(p) \in Nat
    BY <1>15, <2>2
  <2>5. ASSUME NEW q \in S, rank(q) = rank(p) PROVE ~ (q < p) /\ ~ (p < q)
    <3>1. rank(q) \in Nat /\ rank(p) \in Nat
      BY <1>15
    <3>2. ~ (rank(q) < rank(p)) /\ ~ (rank(p) < rank(q))
      BY <2>5, <3>1
    <3>. QED
      BY <1>3, <3>2
  <2>4. ~ (a[i] < p) /\ ~ (p < a[i])
    BY <2>2, <2>5
  <2>. QED
    BY <2>1, <2>3, <2>4
<1>13. a \in [T -> S]
  BY <1>10, <1>14
<1>. QED
  BY <1>1, <1>11, <1>12, <1>13 DEF Lists, a, n

-----------------------------------------------------------------------------
(* Virtual registers, found instruction by instruction. *)

Register(n) ==
    [region : Regions, size : 0 .. WordModulus - 1, def : -1 .. n - 1, last : 0 .. n - 1,
     spilled : BOOLEAN, count : Nat, offset : {0, Unplaced}]

\* The registers of one region are defined one after the other, each after the
\* last use of those before it; n instructions are looked at.
Ranges(vs, n) ==
    /\ vs \in Seq(Register(n)) /\ Len(vs) <= MaxVregs
    /\ \A p \in DOMAIN vs : vs[p].def <= vs[p].last
    /\ \A p, q \in DOMAIN vs : p < q /\ vs[p].region = vs[q].region =>
          /\ vs[p].def <= vs[q].def
          /\ vs[q].def >= 0 => vs[p].def < vs[q].def
          /\ vs[p].def >= 0 => vs[p].last < vs[q].def

\* Before colouring.
Untouched(vs) == \A p \in DOMAIN vs : ~vs[p].spilled /\ vs[p].offset = Unplaced

\* A register is of the region its definition writes.
Origins(vs, code) ==
    \A p \in DOMAIN vs : vs[p].def >= 0 =>
        /\ Defines(code[vs[p].def + 1]) # <<>>
        /\ vs[p].region = Defines(code[vs[p].def + 1])[1].region

Earlier(vs, r, i) == {p \in DOMAIN vs : vs[p].region = r /\ vs[p].def \in 0 .. i - 1}
Redefined(vs, r, i) == \E p \in DOMAIN vs : vs[p].region = r /\ vs[p].def = i

\* What instruction i reads of region r stays alive until then.
ReadKept(vs, r, i) ==
    Earlier(vs, r, i) # {} /\ ~Redefined(vs, r, i) => vs[Max(Earlier(vs, r, i))].last >= i

ReadsKept(vs, code, n) ==
    \A i \in 0 .. n - 1 : \A k \in DOMAIN Uses(code[i + 1]) :
        ReadKept(vs, Uses(code[i + 1])[k].region, i)

\* ws has the registers of vs, used longer, and more that none of the first m
\* instructions define.
Prolongs(vs, ws, m) ==
    /\ DOMAIN vs \subseteq DOMAIN ws
    /\ \A p \in DOMAIN vs : ws[p].region = vs[p].region /\ ws[p].def = vs[p].def
                            /\ ws[p].last >= vs[p].last
    /\ \A p \in DOMAIN ws \ DOMAIN vs : ws[p].def \notin 0 .. m - 1

\* What the analysis has found out from n instructions.
Found(vs, code, n) == Ranges(vs, n) /\ Untouched(vs) /\ Origins(vs, code)

AnOperand(o) == o.region \in Regions /\ o.size \in 0 .. WordModulus - 1

\* Sizes are unsigned 32-bit numbers.
LEMMA OperandSize ==
    ASSUME NEW r \in Regions, NEW start, NEW size \in Int
    PROVE  AnOperand(Operand(r, start, size)) /\ Operand(r, start, size).region = r
<1>1. WordModulus \in Nat /\ WordModulus > 0
  BY LivenessAssumption
<1>2. size % WordModulus \in 0 .. WordModulus - 1
  BY <1>1
<1>. QED
  BY <1>2 DEF Operand, AnOperand

\* At most one definition and two uses, all of them operands; a product writes O.
LEMMA Operands ==
    ASSUME NEW instr \in Instruction
    PROVE  /\ Defines(instr) # <<>> => AnOperand(Defines(instr)[1])
           /\ instr.op = "MMA" => Defines(instr) # <<>> /\ Defines(instr)[1].region = "O"
           /\ DOMAIN Uses(instr) \subseteq {1, 2}
           /\ \A k \in DOMAIN Uses(instr) : AnOperand(Uses(instr)[k])
           /\ instr.op = "MMA" => /\ DOMAIN Uses(instr) = {1, 2}
                                  /\ Uses(instr)[1].region = "W" /\ Uses(instr)[2].region = "A"
<1>1. /\ HalfModulus \in Int /\ WordModulus \in Int
      /\ instr.dim0 \in Int /\ instr.dim1 \in Int /\ instr.dim2 \in Int
      /\ instr.immLow \in Int /\ instr.immHigh \in Int
      /\ instr.op \in Families /\ instr.region \in Regions
  BY LivenessAssumption DEF Instruction
<1>2. /\ instr.dim0 * instr.dim1 * 4 \in Int
      /\ instr.dim2 * instr.dim1 * 2 \in Int
      /\ instr.dim1 * 4 \in Int /\ WordModulus - 1 \in Int
  BY <1>1
<1>3. "O" \in Regions /\ "W" \in Regions /\ "A" \in Regions
  BY DEF Regions
<1>4. AnOperand(Transfer(instr))
  <2>1. (IF instr.dim1 = 0 THEN 1 ELSE instr.dim1) \in Int
    BY <1>1
  <2>. QED
    BY <1>1, <2>1, OperandSize DEF Transfer
<1>5. /\ \A x : AnOperand(Operand("O", x, instr.dim0 * instr.dim1 * 4))
                /\ Operand("O", x, instr.dim0 * instr.dim1 * 4).region = "O"
      /\ \A x : AnOperand(Operand("O", x, instr.dim1 * 4))
      /\ \A x : AnOperand(Operand("A", x, instr.dim1 * 4))
      /\ \A x : AnOperand(Operand("O", x, WordModulus - 1))
      /\ \A x : AnOperand(Operand("O", x, HalfModulus))
  BY <1>1, <1>2, <1>3, OperandSize
<1>6. \A x : /\ AnOperand(Operand("W", x, instr.dim2 * instr.dim1 * 2))
             /\ Operand("W", x, instr.dim2 * instr.dim1 * 2).region = "W"
             /\ AnOperand(Operand("A", x, instr.dim2 * instr.dim1 * 2))
             /\ Operand("A", x, instr.dim2 * instr.dim1 * 2).region = "A"
  BY <1>2, <1>3, OperandSize
<1>7. Defines(instr) # <<>> => AnOperand(Defines(instr)[1])
  BY <1>1, <1>4, <1>5 DEF Defines, Families
<1>8. instr.op = "MMA" => Defines(instr) # <<>> /\ Defines(instr)[1].region = "O"
  BY <1>5 DEF Defines
<1>9. instr.op = "MMA" => /\ DOMAIN Uses(instr) = {1, 2}
                          /\ Uses(instr)[1].region = "W" /\ Uses(instr)[2].region = "A"
  BY <1>6 DEF Uses
<1>10. DOMAIN Uses(instr) \subseteq {1, 2}
  BY <1>1 DEF Uses, Families
<1>11. \A k \in DOMAIN Uses(instr) : AnOperand(Uses(instr)[k])
  BY <1>1, <1>4, <1>5, <1>6 DEF Uses, Families
<1>. QED
  BY <1>7, <1>8, <1>9, <1>10, <1>11

\* A register found for an operand is one.
LEMMA NewRegister ==
    ASSUME NEW o, AnOperand(o), NEW n \in Nat, NEW i \in 0 .. n - 1, NEW d \in -1 .. n - 1
    PROVE  NewVreg(o, d, i) \in Register(n)
BY DEF AnOperand, NewVreg, Register

\* What is in the registers of a sequence of them.
LEMMA RegisterFields ==
    ASSUME NEW n \in Nat, NEW vs \in Seq(Register(n))
    PROVE  /\ Len(vs) \in Nat /\ DOMAIN vs = 1 .. Len(vs)
           /\ \A p \in DOMAIN vs :
                 /\ p \in Nat /\ vs[p] \in Register(n)
                 /\ vs[p].region \in Regions /\ vs[p].size \in 0 .. WordModulus - 1
                 /\ vs[p].def \in Int /\ -1 <= vs[p].def /\ vs[p].def < n
                 /\ vs[p].last \in Int /\ 0 <= vs[p].last /\ vs[p].last < n
                 /\ vs[p].spilled \in BOOLEAN /\ vs[p].count \in Nat
                 /\ vs[p].offset \in {0, Unplaced}
<1>1. Len(vs) \in Nat /\ DOMAIN vs = 1 .. Len(vs)
  OBVIOUS
<1>2. ASSUME NEW p \in DOMAIN vs PROVE vs[p] \in Register(n) /\ p \in Nat
  BY <1>1
<1>3. ASSUME NEW v \in Register(n)
      PROVE  /\ v.region \in Regions /\ v.size \in 0 .. WordModulus - 1
             /\ v.def \in Int /\ -1 <= v.def /\ v.def < n
             /\ v.last \in Int /\ 0 <= v.last /\ v.last < n
             /\ v.spilled \in BOOLEAN /\ v.count \in Nat
             /\ v.offset \in {0, Unplaced}
  BY DEF Register
<1>. QED
  BY <1>1, <1>2, <1>3

\* A register no instruction before the n-th defines is found last, whether
\* there is room for it or not.
LEMMA RegisterAdded ==
    ASSUME NEW code, NEW n \in Nat, NEW vs, Found(vs, code, n), NEW v \in Register(n),
           ~v.spilled, v.offset = Unplaced, v.def <= v.last,
           \A p \in DOMAIN vs : vs[p].region = v.region =>
               /\ vs[p].def <= v.def
               /\ v.def >= 0 => vs[p].def < v.def
               /\ vs[p].def >= 0 => vs[p].last < v.def,
           v.def >= 0 => /\ Defines(code[v.def + 1]) # <<>>
                         /\ v.region = Defines(code[v.def + 1])[1].region
    PROVE  /\ Found(AddVreg(vs, v), code, n)
           /\ \A m \in Nat : v.def \notin 0 .. m - 1 => Prolongs(vs, AddVreg(vs, v), m)
<1>. DEFINE ws == AddVreg(vs, v)
<1>. DEFINE L == Len(vs)
<1>1. vs \in Seq(Register(n)) /\ Len(vs) <= MaxVregs /\ MaxVregs \in Nat /\ L \in Nat
  BY LivenessAssumption DEF Found, Ranges
<1>2. CASE ~ (L < MaxVregs)
  <2>1. ws = vs
    BY <1>2 DEF AddVreg
  <2>2. Prolongs(vs, vs, 0) /\ \A m \in Nat : Prolongs(vs, vs, m)
    <3>1. \A p \in DOMAIN vs : vs[p].last \in Int
      BY <1>1, RegisterFields
    <3>2. \A p \in DOMAIN vs : vs[p].last >= vs[p].last
      BY <3>1
    <3>. QED
      BY <3>2 DEF Prolongs
  <2>. QED
    BY <2>1, <2>2
<1>3. CASE L < MaxVregs
  <2>1. ws = Append(vs, v)
    BY <1>3 DEF AddVreg
  <2>2. /\ ws \in Seq(Register(n)) /\ Len(ws) = L + 1 /\ Len(ws) <= MaxVregs
        /\ DOMAIN vs = 1 .. L /\ DOMAIN ws = 1 .. L + 1
        /\ \A p \in 1 .. L : ws[p] = vs[p]
        /\ ws[L + 1] = v
    BY <1>1, <1>3, <2>1
  <2>. HIDE DEF ws, L
  <2>3. \A p \in DOMAIN ws : p \in DOMAIN vs \/ p = L + 1
    BY <1>1, <2>2
  <2>4. \A p \in DOMAIN ws : ws[p].def <= ws[p].last
    BY <2>2, <2>3 DEF Found, Ranges
  <2>5. ASSUME NEW p \in DOMAIN ws, NEW q \in DOMAIN ws, p < q, ws[p].region = ws[q].region
        PROVE  /\ ws[p].def <= ws[q].def
               /\ ws[q].def >= 0 => ws[p].def < ws[q].def
               /\ ws[p].def >= 0 => ws[p].last < ws[q].def
    <3>1. p \in DOMAIN vs /\ ws[p] = vs[p]
      BY <1>1, <2>2, <2>5
    <3>2. CASE q \in DOMAIN vs
      <4>1. ws[q] = vs[q]
        BY <2>2, <3>2
      <4>. QED
        BY <2>5, <3>1, <3>2, <4>1 DEF Found, Ranges
    <3>3. CASE q = L + 1
      <4>1. ws[q] = v
        BY <2>2, <3>3
      <4>. QED
        BY <2>5, <3>1, <4>1
    <3>. QED
      BY <2>3, <3>2, <3>3
  <2>6. Ranges(ws, n)
    BY <2>2, <2>4, <2>5 DEF Ranges
  <2>7. Untouched(ws)
    BY <2>2, <2>3 DEF Found, Untouched
  <2>8. Origins(ws, code)
    BY <2>2, <2>3 DEF Found, Origins
  <2>9. ASSUME NEW m \in Nat, v.def \notin 0 .. m - 1 PROVE Prolongs(vs, ws, m)
    <3>1. DOMAIN vs \subseteq DOMAIN ws
      BY <1>1, <2>2
    <3>2. \A p \in DOMAIN vs : vs[p].last \in Int /\ ws[p] = vs[p]
      BY <1>1, <2>2, RegisterFields
    <3>3. \A p \in DOMAIN ws \ DOMAIN vs : ws[p] = v
      BY <2>2, <2>3
    <3>. QED
      BY <2>9, <3>1, <3>2, <3>3 DEF Prolongs
  <2>. QED
    BY <2>6, <2>7, <2>8, <2>9 DEF Found, ws
<1>. QED
  BY <1>1, <1>2, <1>3

\* Wider bounds.
LEMMA FoundLater ==
    ASSUME NEW code, NEW n \in Nat, NEW vs, Found(vs, code, n)
    PROVE  Found(vs, code, n + 1)
<1>1. Register(n) \subseteq Register(n + 1)
  <2>1. -1 .. n - 1 \subseteq -1 .. (n + 1) - 1 /\ 0 .. n - 1 \subseteq 0 .. (n + 1) - 1
    OBVIOUS
  <2>. QED
    BY <2>1 DEF Register
<1>2. vs \in Seq(Register(n + 1))
  BY <1>1 DEF Found, Ranges
<1>. QED
  BY <1>2 DEF Found, Ranges

\* The definition of an instruction keeps what was found.
LEMMA DefinitionAdded ==
    ASSUME NEW code, NEW n \in Nat, NEW vs, Found(vs, code, n), code[n + 1] \in Instruction
    PROVE  /\ Found(AddDefinition(vs, code[n + 1], n), code, n + 1)
           /\ Prolongs(vs, AddDefinition(vs, code[n + 1], n), n)
<1>. DEFINE instr == code[n + 1]
<1>1. Found(vs, code, n + 1) /\ n + 1 \in Nat
  BY FoundLater
<1>2. CASE Defines(instr) = <<>>
  <2>1. AddDefinition(vs, instr, n) = vs
    BY <1>2 DEF AddDefinition
  <2>2. Prolongs(vs, vs, n)
    <3>1. \A p \in DOMAIN vs : vs[p].last \in Int
      BY RegisterFields DEF Found, Ranges
    <3>2. \A p \in DOMAIN vs : vs[p].last >= vs[p].last
      BY <3>1
    <3>. QED
      BY <3>2 DEF Prolongs
  <2>. QED
    BY <1>1, <2>1, <2>2
<1>3. CASE Defines(instr) # <<>>
  <2>. DEFINE o == Defines(instr)[1]
              v == NewVreg(o, n, n)
  <2>1. AnOperand(o)
    BY <1>3, Operands
  <2>2. v \in Register(n + 1)
    <3>1. n \in 0 .. (n + 1) - 1 /\ n \in -1 .. (n + 1) - 1
      OBVIOUS
    <3>. HIDE DEF o
    <3>. QED
      BY <1>1, <2>1, <3>1, NewRegister
  <2>3. ~v.spilled /\ v.offset = Unplaced /\ v.def = n /\ v.last = n /\ v.region = o.region
    BY DEF NewVreg
  <2>4. \A p \in DOMAIN vs : vs[p].def \in Int /\ vs[p].last \in Int /\ vs[p].def < n /\ vs[p].last < n
    BY RegisterFields DEF Found, Ranges
  <2>5. AddDefinition(vs, instr, n) = AddVreg(vs, v)
    BY <1>3 DEF AddDefinition
  <2>6. n \notin 0 .. n - 1 /\ v.def + 1 = n + 1
    BY <2>3
  <2>. HIDE DEF v
  <2>7. v.def <= v.last
    BY <2>3
  <2>8. \A p \in DOMAIN vs : vs[p].region = v.region =>
               /\ vs[p].def <= v.def
               /\ v.def >= 0 => vs[p].def < v.def
               /\ vs[p].def >= 0 => vs[p].last < v.def
    BY <2>3, <2>4
  <2>9. v.def >= 0 => /\ Defines(code[v.def + 1]) # <<>>
                      /\ v.region = Defines(code[v.def + 1])[1].region
    BY <1>3, <2>3, <2>6
  <2>10. /\ Found(AddVreg(vs, v), code, n + 1)
         /\ \A m \in Nat : v.def \notin 0 .. m - 1 => Prolongs(vs, AddVreg(vs, v), m)
    BY <1>1, <2>2, <2>3, <2>7, <2>8, <2>9, RegisterAdded
  <2>. QED
    BY <2>3, <2>5, <2>6, <2>10
<1>. QED
  BY <1>2, <1>3

\* The greater of two integers, which the provers do not choose themselves.
LEMMA GreaterOfTwo ==
    ASSUME NEW a \in Int, NEW b \in Int
    PROVE  Max({a, b}) = IF a >= b THEN a ELSE b
<1>. DEFINE S == {a, b}
<1>1. S \in SUBSET Int /\ S # {}
  OBVIOUS
<1>2. PICK c \in Int, d \in Int : \A x \in S : c <= x /\ x <= d
  <2>1. CASE a <= b
    <3>1. \A x \in S : a <= x /\ x <= b
      BY <2>1
    <3>. QED
      BY <3>1
  <2>2. CASE b <= a
    <3>1. \A x \in S : b <= x /\ x <= a
      BY <2>2
    <3>. QED
      BY <3>1
  <2>. QED
    BY <2>1, <2>2
<1>. HIDE DEF S
<1>3. Max(S) \in S /\ Max(S) \in Int /\ \A y \in S : y <= Max(S)
  BY <1>1, <1>2, GreatestMember
<1>. DEFINE m == Max(S)
<1>4. m \in S /\ \A y \in S : y <= m
  BY <1>3
<1>. HIDE DEF m
<1>5. (m = a \/ m = b) /\ a <= m /\ b <= m
  BY <1>4 DEF S
<1>6. m = IF a >= b THEN a ELSE b
  BY <1>5
<1>. QED
  BY <1>6 DEF m, S

\* The lesser of two.
LEMMA LesserOfTwo ==
    ASSUME NEW a \in Int, NEW b \in Int
    PROVE  Min({a, b}) = IF a <= b THEN a ELSE b
<1>. DEFINE S == {a, b}
<1>1. S \in SUBSET Int /\ S # {}
  OBVIOUS
<1>2. PICK c \in Int : \A x \in S : c <= x
  <2>1. CASE a <= b
    <3>1. \A x \in S : a <= x
      BY <2>1
    <3>. QED
      BY <3>1
  <2>2. CASE b <= a
    <3>1. \A x \in S : b <= x
      BY <2>2
    <3>. QED
      BY <3>1
  <2>. QED
    BY <2>1, <2>2
<1>. HIDE DEF S
<1>3. Min(S) \in S /\ Min(S) \in Int /\ \A y \in S : Min(S) <= y
  BY <1>1, <1>2, LeastMember
<1>. DEFINE m == Min(S)
<1>4. m \in S /\ \A y \in S : m <= y
  BY <1>3
<1>. HIDE DEF m
<1>5. (m = a \/ m = b) /\ m <= a /\ m <= b
  BY <1>4 DEF S
<1>6. m = IF a <= b THEN a ELSE b
  BY <1>5
<1>. QED
  BY <1>6 DEF m, S

\* Positions in a sequence have a greatest.
LEMMA LastPosition ==
    ASSUME NEW n \in Nat, NEW P \in SUBSET (1 .. n), P # {}
    PROVE  Max(P) \in P /\ \A q \in P : q <= Max(P)
<1>1. P \in SUBSET Int /\ \A x \in P : 1 <= x /\ x <= n
  OBVIOUS
<1>2. 1 \in Int /\ n \in Int
  OBVIOUS
<1>. QED
  BY <1>1, <1>2, GreatestMember

\* The greatest member is the only one of its kind.
LEMMA GreatestIs ==
    ASSUME NEW n \in Nat, NEW P \in SUBSET (1 .. n), NEW m \in P, \A q \in P : q <= m
    PROVE  Max(P) = m
<1>1. Max(P) \in P /\ \A q \in P : q <= Max(P)
  BY LastPosition
<1>. DEFINE x == Max(P)
<1>. HIDE DEF x
<1>2. x \in P /\ \A q \in P : q <= x
  BY <1>1 DEF x
<1>3. x \in Int /\ m \in Int /\ x <= m /\ m <= x
  BY <1>2
<1>. QED
  BY <1>3 DEF x

\* A use prolongs the newest definition of its region, and is kept alive by it.
LEMMA UseAdded ==
    ASSUME NEW code, NEW n \in Nat, NEW vs, Found(vs, code, n + 1), NEW o, AnOperand(o)
    PROVE  /\ Found(AddUse(vs, o, n), code, n + 1)
           /\ Prolongs(vs, AddUse(vs, o, n), n + 1)
           /\ ReadKept(AddUse(vs, o, n), o.region, n)
<1>. DEFINE owners == Owners(vs, o.region, n)
            ws == AddUse(vs, o, n)
            L == Len(vs)
<1>1. /\ vs \in Seq(Register(n + 1)) /\ n + 1 \in Nat /\ L \in Nat /\ DOMAIN vs = 1 .. L
      /\ \A p \in DOMAIN vs :
            /\ p \in Nat /\ vs[p] \in Register(n + 1)
            /\ vs[p].def \in Int /\ -1 <= vs[p].def /\ vs[p].def < n + 1
            /\ vs[p].last \in Int /\ 0 <= vs[p].last /\ vs[p].last < n + 1
  <2>1. vs \in Seq(Register(n + 1)) /\ n + 1 \in Nat
    BY DEF Found, Ranges
  <2>. QED
    BY <2>1, RegisterFields
<1>2. CASE owners = {}
  <2>. DEFINE v == NewVreg(o, -1, n)
  <2>1. ws = AddVreg(vs, v)
    BY <1>2 DEF AddUse
  <2>2. v \in Register(n + 1)
    <3>1. n \in 0 .. (n + 1) - 1 /\ -1 \in -1 .. (n + 1) - 1
      OBVIOUS
    <3>. QED
      BY <1>1, <3>1, NewRegister
  <2>3. ~v.spilled /\ v.offset = Unplaced /\ v.def = -1 /\ v.last = n /\ v.region = o.region
    BY DEF NewVreg
  <2>4. \A p \in DOMAIN vs : vs[p].region = o.region => vs[p].def < 0
    BY <1>1, <1>2 DEF Owners
  <2>. HIDE DEF v, ws
  <2>5. \A p \in DOMAIN vs : vs[p].region = v.region =>
               /\ vs[p].def <= v.def
               /\ v.def >= 0 => vs[p].def < v.def
               /\ vs[p].def >= 0 => vs[p].last < v.def
    BY <1>1, <2>3, <2>4
  <2>6. v.def <= v.last /\ ~ (v.def >= 0)
    BY <2>3
  <2>7. /\ Found(AddVreg(vs, v), code, n + 1)
        /\ \A m \in Nat : v.def \notin 0 .. m - 1 => Prolongs(vs, AddVreg(vs, v), m)
    BY <1>1, <2>2, <2>3, <2>5, <2>6, RegisterAdded
  <2>8. v.def \notin 0 .. (n + 1) - 1
    BY <2>3
  <2>9. Found(ws, code, n + 1) /\ Prolongs(vs, ws, n + 1)
    BY <1>1, <2>1, <2>7, <2>8
  <2>10. Earlier(ws, o.region, n) = {}
    <3>. SUFFICES ASSUME NEW p \in DOMAIN ws, ws[p].region = o.region, ws[p].def \in 0 .. n - 1
                  PROVE  FALSE
      BY DEF Earlier
    <3>1. CASE p \in DOMAIN vs
      BY <1>1, <2>4, <2>9, <3>1 DEF Prolongs
    <3>2. CASE p \notin DOMAIN vs
      <4>1. ws[p].def \notin 0 .. (n + 1) - 1
        BY <2>9, <3>2 DEF Prolongs
      <4>. QED
        BY <4>1
    <3>. QED
      BY <3>1, <3>2
  <2>. QED
    BY <2>9, <2>10 DEF ReadKept, ws
<1>3. CASE owners # {}
  <2>. DEFINE m == Max(owners)
  <2>1. owners \in SUBSET (1 .. L)
    BY <1>1 DEF Owners
  <2>2. m \in owners /\ \A q \in owners : q <= m
    BY <1>1, <1>3, <2>1, LastPosition
  <2>3. m \in DOMAIN vs /\ vs[m].region = o.region /\ vs[m].def >= 0
    BY <2>2 DEF Owners
  <2>4. Max({vs[m].last, n}) = n
    <3>1. vs[m].last \in Int /\ vs[m].last < n + 1 /\ n \in Int
      BY <1>1, <2>3
    <3>. DEFINE a == vs[m].last
    <3>2. Max({a, n}) = IF a >= n THEN a ELSE n
      BY <3>1, GreaterOfTwo
    <3>. QED
      BY <3>1, <3>2
  <2>5. ws = [vs EXCEPT ![m].last = Max({vs[m].last, n}), ![m].count = vs[m].count + 1]
    BY <1>3 DEF AddUse
  <2>. HIDE DEF m, owners, ws, L
  <2>. DEFINE v == [vs[m] EXCEPT !.last = n, !.count = vs[m].count + 1]
  <2>6. ws = [vs EXCEPT ![m] = v]
    BY <1>1, <2>3, <2>4, <2>5 DEF Register
  <2>7. v \in Register(n + 1)
    <3>1. vs[m] \in Register(n + 1)
      BY <1>1, <2>3
    <3>2. n \in 0 .. (n + 1) - 1
      OBVIOUS
    <3>3. vs[m].count + 1 \in Nat
      BY <3>1 DEF Register
    <3>. QED
      BY <3>1, <3>2, <3>3 DEF Register
  <2>8. /\ v.region = o.region /\ v.def = vs[m].def /\ v.last = n
        /\ v.spilled = vs[m].spilled /\ v.offset = vs[m].offset
    BY <1>1, <2>3 DEF Register
  <2>. HIDE DEF v
  <2>9. /\ ws \in Seq(Register(n + 1)) /\ DOMAIN ws = DOMAIN vs /\ Len(ws) = Len(vs)
        /\ ws[m] = v /\ \A p \in DOMAIN vs : p # m => ws[p] = vs[p]
    BY <1>1, <2>3, <2>6, <2>7
  <2>10. \A p \in DOMAIN vs : /\ ws[p].region = vs[p].region /\ ws[p].def = vs[p].def
                              /\ ws[p].spilled = vs[p].spilled /\ ws[p].offset = vs[p].offset
                              /\ p # m => ws[p].last = vs[p].last
                              /\ p = m => ws[p].last = n
    BY <2>3, <2>8, <2>9
  <2>11. ASSUME NEW p \in DOMAIN vs, NEW q \in DOMAIN vs, p < q, vs[p].region = vs[q].region
         PROVE  /\ ws[p].def <= ws[q].def
                /\ ws[q].def >= 0 => ws[p].def < ws[q].def
                /\ ws[p].def >= 0 => ws[p].last < ws[q].def
    <3>1. /\ vs[p].def <= vs[q].def
          /\ vs[q].def >= 0 => vs[p].def < vs[q].def
          /\ vs[p].def >= 0 => vs[p].last < vs[q].def
      BY <2>11 DEF Found, Ranges
    <3>2. p = m => FALSE
      <4>. SUFFICES ASSUME p = m PROVE FALSE
        OBVIOUS
      <4>1. vs[q].def >= 0 /\ vs[q].region = o.region
        BY <1>1, <2>3, <2>11, <3>1
      <4>2. q \in owners
        BY <4>1 DEF owners, Owners
      <4>. QED
        BY <1>1, <2>2, <2>11, <4>2
    <3>. QED
      BY <2>10, <3>1, <3>2
  <2>12. \A p \in DOMAIN vs : ws[p].def <= ws[p].last
    <3>1. \A p \in DOMAIN vs : vs[p].def <= vs[p].last
      BY DEF Found, Ranges
    <3>. QED
      BY <1>1, <2>10, <3>1
  <2>13. Ranges(ws, n + 1)
    BY <2>9, <2>10, <2>11, <2>12 DEF Found, Ranges
  <2>14. Untouched(ws) /\ Origins(ws, code)
    BY <2>9, <2>10 DEF Found, Untouched, Origins
  <2>15. Prolongs(vs, ws, n + 1)
    BY <1>1, <2>9, <2>10 DEF Prolongs
  <2>16. ReadKept(ws, o.region, n)
    <3>. SUFFICES ASSUME ~Redefined(ws, o.region, n)
                  PROVE  ws[Max(Earlier(ws, o.region, n))].last >= n
      BY DEF ReadKept
    <3>. DEFINE E == Earlier(ws, o.region, n)
    <3>1. E \in SUBSET (1 .. L)
      BY <1>1, <2>9 DEF Earlier
    <3>2. \A q \in E : q <= m
      <4>. SUFFICES ASSUME NEW q \in E PROVE q <= m
        OBVIOUS
      <4>1. q \in DOMAIN vs /\ vs[q].region = o.region /\ vs[q].def >= 0
        BY <1>1, <2>9, <2>10 DEF Earlier
      <4>. QED
        BY <2>2, <4>1 DEF owners, Owners
    <3>3. m \in E
      <4>1. ws[m].region = o.region /\ ws[m].def >= 0 /\ ws[m].def < n + 1 /\ ws[m].def \in Int
        BY <1>1, <2>3, <2>10
      <4>2. ws[m].def # n
        BY <2>3, <2>9, <4>1 DEF Redefined
      <4>. QED
        BY <2>3, <2>9, <4>1, <4>2 DEF Earlier
    <3>. HIDE DEF E
    <3>4. Max(E) = m
      BY <1>1, <3>1, <3>2, <3>3, GreatestIs
    <3>5. ws[m].last = n
      BY <2>3, <2>10
    <3>. QED
      BY <3>4, <3>5 DEF E
  <2>. QED
    BY <2>13, <2>14, <2>15, <2>16 DEF Found, ws
<1>. QED
  BY <1>2, <1>3

\* A read stays kept alive when ranges only get longer.
LEMMA KeptProlonged ==
    ASSUME NEW n \in Nat, NEW vs \in Seq(Register(n)), NEW ws \in Seq(Register(n)),
           NEW m \in Nat, Prolongs(vs, ws, m), NEW i \in 0 .. m, NEW r, ReadKept(vs, r, i)
    PROVE  ReadKept(ws, r, i)
<1>1. Earlier(ws, r, i) = Earlier(vs, r, i)
  <2>1. ASSUME NEW p \in Earlier(ws, r, i) PROVE p \in Earlier(vs, r, i)
    <3>1. p \in DOMAIN ws /\ ws[p].region = r /\ ws[p].def \in 0 .. i - 1
      BY <2>1 DEF Earlier
    <3>2. ws[p].def \in 0 .. m - 1
      BY <3>1
    <3>. QED
      BY <3>1, <3>2 DEF Earlier, Prolongs
  <2>2. ASSUME NEW p \in Earlier(vs, r, i) PROVE p \in Earlier(ws, r, i)
    BY <2>2 DEF Earlier, Prolongs
  <2>. QED
    BY <2>1, <2>2
<1>2. Redefined(vs, r, i) => Redefined(ws, r, i)
  BY DEF Redefined, Prolongs
<1>. DEFINE E == Earlier(vs, r, i)
<1>. SUFFICES ASSUME E # {}, ~Redefined(vs, r, i) PROVE ws[Max(E)].last >= i
  BY <1>1, <1>2 DEF ReadKept
<1>3. vs[Max(E)].last >= i
  BY DEF ReadKept
<1>4. Max(E) \in E
  <2>1. E \in SUBSET (1 .. Len(vs)) /\ Len(vs) \in Nat
    BY DEF Earlier
  <2>. HIDE DEF E
  <2>. QED
    BY <2>1, LastPosition
<1>. DEFINE x == Max(E)
<1>5. x \in DOMAIN vs
  BY <1>4 DEF Earlier
<1>. HIDE DEF x
<1>6. ws[x].last >= vs[x].last /\ x \in DOMAIN ws
  BY <1>5 DEF Prolongs
<1>7. ws[x].last \in Int /\ vs[x].last \in Int
  BY <1>5, <1>6, RegisterFields
<1>8. vs[x].last >= i
  BY <1>3 DEF x
<1>9. ws[x].last >= i
  BY <1>6, <1>7, <1>8
<1>. QED
  BY <1>9 DEF x

\* The same for the k-th use, if there is one.
LEMMA UseAtAdded ==
    ASSUME NEW code, NEW n \in Nat, NEW vs, Found(vs, code, n + 1), NEW instr \in Instruction, NEW k
    PROVE  /\ Found(AddUseAt(vs, instr, k, n), code, n + 1)
           /\ Prolongs(vs, AddUseAt(vs, instr, k, n), n + 1)
           /\ k \in DOMAIN Uses(instr) => ReadKept(AddUseAt(vs, instr, k, n), Uses(instr)[k].region, n)
<1>1. CASE k \in DOMAIN Uses(instr)
  <2>1. AnOperand(Uses(instr)[k])
    BY <1>1, Operands
  <2>2. AddUseAt(vs, instr, k, n) = AddUse(vs, Uses(instr)[k], n)
    BY <1>1 DEF AddUseAt
  <2>. QED
    BY <2>1, <2>2, UseAdded
<1>2. CASE k \notin DOMAIN Uses(instr)
  <2>1. AddUseAt(vs, instr, k, n) = vs
    BY <1>2 DEF AddUseAt
  <2>2. \A p \in DOMAIN vs : vs[p].last \in Int
    <3>1. n + 1 \in Nat
      OBVIOUS
    <3>. QED
      BY <3>1, RegisterFields DEF Found, Ranges
  <2>3. \A p \in DOMAIN vs : vs[p].last >= vs[p].last
    BY <2>2
  <2>. QED
    BY <1>2, <2>1, <2>3 DEF Prolongs
<1>. QED
  BY <1>1, <1>2

\* One more instruction analyzed keeps what the analysis has found.
LEMMA InstructionAnalyzed ==
    ASSUME NEW code, NEW n \in Nat, NEW vs, Found(vs, code, n), ReadsKept(vs, code, n),
           code[n + 1] \in Instruction
    PROVE  /\ Found(Analyzed(vs, code[n + 1], n), code, n + 1)
           /\ ReadsKept(Analyzed(vs, code[n + 1], n), code, n + 1)
<1>. DEFINE instr == code[n + 1]
            a == AddDefinition(vs, instr, n)
            b == AddUseAt(a, instr, 1, n)
            c == AddUseAt(b, instr, 2, n)
<1>1. Found(a, code, n + 1) /\ Prolongs(vs, a, n)
  BY DefinitionAdded
<1>2. /\ Found(b, code, n + 1) /\ Prolongs(a, b, n + 1)
      /\ 1 \in DOMAIN Uses(instr) => ReadKept(b, Uses(instr)[1].region, n)
  <2>. HIDE DEF a
  <2>. QED
    BY <1>1, UseAtAdded
<1>3. /\ Found(c, code, n + 1) /\ Prolongs(b, c, n + 1)
      /\ 2 \in DOMAIN Uses(instr) => ReadKept(c, Uses(instr)[2].region, n)
  <2>. HIDE DEF a, b
  <2>. QED
    BY <1>2, UseAtAdded
<1>4. Analyzed(vs, instr, n) = c
  BY DEF Analyzed
<1>. HIDE DEF a, b, c
<1>5. /\ n + 1 \in Nat /\ vs \in Seq(Register(n + 1)) /\ a \in Seq(Register(n + 1))
      /\ b \in Seq(Register(n + 1)) /\ c \in Seq(Register(n + 1))
  <2>1. Found(vs, code, n + 1)
    BY FoundLater
  <2>. QED
    BY <1>1, <1>2, <1>3, <2>1 DEF Found, Ranges
<1>6. ASSUME NEW i \in 0 .. (n + 1) - 1, NEW k \in DOMAIN Uses(code[i + 1])
      PROVE  ReadKept(c, Uses(code[i + 1])[k].region, i)
  <2>. DEFINE r == Uses(code[i + 1])[k].region
  <2>1. i \in 0 .. n /\ i \in 0 .. (n + 1)
    OBVIOUS
  <2>2. CASE i < n
    <3>1. i \in 0 .. n - 1
      BY <2>2
    <3>2. ReadKept(vs, r, i)
      BY <3>1 DEF ReadsKept
    <3>. HIDE DEF r
    <3>3. ReadKept(a, r, i)
      BY <1>1, <1>5, <2>1, <3>2, KeptProlonged
    <3>4. ReadKept(b, r, i)
      BY <1>2, <1>5, <2>1, <3>3, KeptProlonged
    <3>5. ReadKept(c, r, i)
      BY <1>3, <1>5, <2>1, <3>4, KeptProlonged
    <3>. QED
      BY <3>5 DEF r
  <2>3. CASE i = n
    <3>1. k \in {1, 2}
      BY <2>3, Operands
    <3>2. CASE k = 2
      BY <1>3, <2>3, <3>2
    <3>3. CASE k = 1
      <4>1. ReadKept(b, r, i)
        BY <1>2, <2>3, <3>3
      <4>. HIDE DEF r
      <4>2. ReadKept(c, r, i)
        BY <1>3, <1>5, <2>1, <4>1, KeptProlonged
      <4>. QED
        BY <4>2 DEF r
    <3>. QED
      BY <3>1, <3>2, <3>3
  <2>. QED
    BY <2>1, <2>2, <2>3
<1>. QED
  BY <1>3, <1>4, <1>6 DEF ReadsKept

-----------------------------------------------------------------------------
(* The allocator's invariant. *)

\* Instructions looked at.
Looked == IF livePc = "analyze" THEN next ELSE Len(liveCode)

OfRegion(r) == {p \in DOMAIN vregs : vregs[p].region = r}

\* Colouring has dealt with register p, and gave it a place that fits.
Dealt(vs, p) == vs[p].def >= 0 => vs[p].offset # Unplaced \/ vs[p].spilled
FitsAlone(vs, p) == vs[p].def >= 0 /\ vs[p].offset # Unplaced => vs[p].size <= Room(vs[p].region)

AllocTypes ==
    /\ liveCode \in Seq(LiveInstrs) /\ Len(liveCode) <= MaxLength
    /\ liveConfig \in LiveConfigs
    /\ livePc \in {"analyze", "sort", "color", "apply", "allocated"}
    /\ next \in Nat
    /\ livePc \in {"analyze", "apply"} => next <= Len(liveCode)
    /\ livePc = "sort" => next = 1
    /\ livePc = "color" => next >= 1
    /\ spills \in [num : Nat, bytes : 0 .. WordModulus - 1]

AllocRanges ==
    /\ Ranges(vregs, Looked) /\ Origins(vregs, liveCode)
    /\ ReadsKept(vregs, liveCode, Looked)
    /\ livePc = "analyze" => Untouched(vregs)

AllocLists ==
    /\ conflicts = [r \in Regions |-> {}]
    /\ livePc = "analyze" => order = [r \in Regions |-> <<>>]
    /\ livePc # "analyze" => \A r \in Regions : Lists(order[r], OfRegion(r))

AllocPlaces ==
    /\ liveConfig.spilling =>
          /\ \A p \in DOMAIN vregs : FitsAlone(vregs, p)
          /\ livePc = "color" =>
                \A k \in 1 .. next - 1 : k \in DOMAIN Places =>
                    Dealt(vregs, order[Places[k][1]][Places[k][2]])
          /\ Colored => \A p \in DOMAIN vregs : Dealt(vregs, p)
    /\ Cardinality(Spilled) <= spills.num

AllocUsage ==
    /\ usage \in [Regions -> 0 .. WordModulus - 1] /\ peak \in [Regions -> 0 .. WordModulus - 1]
    /\ liveConfig.spilling => \A r \in Regions : usage[r] <= Room(r) /\ peak[r] <= Room(r)

AllocInv == AllocTypes /\ AllocRanges /\ AllocLists /\ AllocPlaces /\ AllocUsage

\* No more instructions are looked at than there are.
LEMMA LooksAt ==
    ASSUME AllocTypes
    PROVE  Looked \in Nat /\ Looked <= Len(liveCode) /\ Len(liveCode) \in Nat
BY DEF AllocTypes, Looked

\* The fields of the virtual registers.
LEMMA VregFields ==
    ASSUME AllocTypes, AllocRanges
    PROVE  /\ vregs \in Seq(Register(Looked))
           /\ Len(vregs) \in Nat /\ DOMAIN vregs = 1 .. Len(vregs)
           /\ \A p \in DOMAIN vregs :
                 /\ p \in Nat /\ vregs[p] \in Register(Looked)
                 /\ vregs[p].region \in Regions /\ vregs[p].size \in 0 .. WordModulus - 1
                 /\ vregs[p].def \in Int /\ -1 <= vregs[p].def /\ vregs[p].def < Looked
                 /\ vregs[p].last \in Int /\ 0 <= vregs[p].last /\ vregs[p].last < Looked
                 /\ vregs[p].spilled \in BOOLEAN /\ vregs[p].count \in Nat
                 /\ vregs[p].offset \in {0, Unplaced}
<1>1. Looked \in Nat /\ vregs \in Seq(Register(Looked))
  BY LooksAt DEF AllocRanges, Ranges
<1>. HIDE DEF Looked
<1>. QED
  BY <1>1, RegisterFields

\* Room is an unsigned number, whatever the margin.
LEMMA RoomIsWord ==
    ASSUME AllocTypes, NEW r \in Regions
    PROVE  Room(r) \in 0 .. WordModulus - 1
<1>1. liveConfig \in LiveConfig /\ WordModulus \in Nat /\ WordModulus > 0
  BY LivenessAssumption DEF AllocTypes
<1>2. liveConfig.capacity[r] - liveConfig.margin \in Int
  BY <1>1 DEF LiveConfig
<1>. QED
  BY <1>1, <1>2 DEF Room

\* 0 is a place and not the sign of having none.
LEMMA PlaceZero == Unplaced # 0 /\ Unplaced \in 0 .. WordModulus - 1 /\ 0 \in 0 .. WordModulus - 1
BY LivenessAssumption DEF Unplaced

\* The list of a region: places and registers.
LEMMA ListedRegisters ==
    ASSUME AllocInv, livePc # "analyze", NEW r \in Regions
    PROVE  /\ Cardinality(OfRegion(r)) \in Nat
           /\ order[r] \in Seq(DOMAIN vregs) /\ Len(order[r]) = Cardinality(OfRegion(r))
           /\ DOMAIN order[r] = 1 .. Len(order[r])
           /\ \A i \in DOMAIN order[r] : order[r][i] \in DOMAIN vregs /\ vregs[order[r][i]].region = r
           /\ \A p \in OfRegion(r) : \E i \in DOMAIN order[r] : order[r][i] = p
           /\ \A i, j \in DOMAIN order[r] : i < j => order[r][i] < order[r][j]
<1>. DEFINE S == OfRegion(r)
            n == Cardinality(S)
            list == order[r]
<1>1. Lists(list, S)
  BY DEF AllocInv, AllocLists
<1>2. S \in SUBSET DOMAIN vregs /\ \A p \in S : vregs[p].region = r
  BY DEF OfRegion
<1>3. IsFiniteSet(S)
  <2>1. DOMAIN vregs = 1 .. Len(vregs) /\ Len(vregs) \in Nat
    BY VregFields DEF AllocInv
  <2>2. IsFiniteSet(1 .. Len(vregs))
    <3>1. 1 \in Int /\ Len(vregs) \in Int
      BY <2>1
    <3>. QED
      BY <3>1, FS_Interval
  <2>. QED
    BY <1>2, <2>1, <2>2, FS_Subset
<1>4. n \in Nat
  BY <1>3, FS_CardinalityType
<1>. HIDE DEF n, S, list
<1>5. list \in [1 .. n -> S]
  BY <1>1 DEF Lists, n
<1>6. list \in Seq(S) /\ Len(list) = n /\ DOMAIN list = 1 .. n
  BY <1>4, <1>5
<1>7. list \in Seq(DOMAIN vregs)
  BY <1>2, <1>6
<1>8. \A i \in 1 .. n : list[i] \in S
  BY <1>5
<1>9. \A p \in S : \E i \in 1 .. n : list[i] = p
  BY <1>1 DEF Lists, n
<1>10. \A i, j \in 1 .. n : i < j => list[i] < list[j]
  BY <1>1 DEF Lists, n
<1>11. \A i \in DOMAIN list : list[i] \in DOMAIN vregs /\ vregs[list[i]].region = r
  BY <1>2, <1>6, <1>8
<1>. QED
  BY <1>4, <1>6, <1>7, <1>9, <1>10, <1>11 DEF list, n, S

\* The search accepts 0 if anything.
LEMMA FreeFromZero ==
    ASSUME AllocInv, livePc # "analyze", NEW r \in Regions, NEW i \in DOMAIN order[r],
           NEW step \in {1, 4, 16}, FreeOffsets(r, i, step) # {}
    PROVE  0 \in FreeOffsets(r, i, step) /\ vregs[order[r][i]].size <= Room(r)
<1>. DEFINE size == vregs[order[r][i]].size
            room == Room(r)
<1>1. room \in 0 .. WordModulus - 1 /\ WordModulus \in Nat
  BY RoomIsWord, LivenessAssumption DEF AllocInv
<1>2. size \in 0 .. WordModulus - 1
  BY ListedRegisters, VregFields DEF AllocInv
<1>. HIDE DEF size, room
<1>3. PICK offset \in 0 .. room : offset + size <= room
  BY DEF FreeOffsets, size, room
<1>4. size <= room /\ 0 \in 0 .. room /\ 0 + size <= room
  BY <1>1, <1>2, <1>3
<1>5. ~PhysicalConflict(r, i, 0)
  BY DEF PhysicalConflict, AllocInv, AllocLists
<1>6. 0 % step = 0
  BY SMT
<1>. QED
  BY <1>4, <1>5, <1>6 DEF FreeOffsets, size, room

\* So the lowest free offset is 0.
LEMMA OffsetZero ==
    ASSUME AllocInv, livePc # "analyze", NEW r \in Regions, NEW i \in DOMAIN order[r],
           Offsets(r, i) # {}
    PROVE  Min(Offsets(r, i)) = 0 /\ vregs[order[r][i]].size <= Room(r)
<1>1. liveConfig.step \in {1, 4, 16} /\ 1 \in {1, 4, 16}
  BY LivenessAssumption DEF AllocInv, AllocTypes, LiveConfig
<1>2. \E step \in {1, 4, 16} : Offsets(r, i) = FreeOffsets(r, i, step)
  BY <1>1 DEF Offsets
<1>3. PICK step \in {1, 4, 16} : Offsets(r, i) = FreeOffsets(r, i, step)
  BY <1>2
<1>. DEFINE F == FreeOffsets(r, i, step)
<1>4. 0 \in F /\ vregs[order[r][i]].size <= Room(r)
  BY <1>3, FreeFromZero
<1>5. F \in SUBSET Int /\ \A x \in F : 0 <= x
  BY RoomIsWord DEF FreeOffsets, AllocInv
<1>. HIDE DEF F
<1>6. Min(F) \in F /\ Min(F) \in Int /\ \A y \in F : Min(F) <= y
  <2>1. 0 \in Int /\ F # {}
    BY <1>4
  <2>. QED
    BY <1>5, <2>1, LeastMember
<1>7. Min(F) <= 0 /\ 0 <= Min(F)
  BY <1>4, <1>5, <1>6
<1>. DEFINE m == Min(F)
<1>8. m \in Int /\ m <= 0 /\ 0 <= m
  BY <1>6, <1>7
<1>. HIDE DEF m
<1>9. m = 0
  BY <1>8
<1>. QED
  BY <1>3, <1>4, <1>9 DEF F, m

\* Every register of every list has its place among those coloured.
LEMMA PlacesInOrder ==
    ASSUME AllocInv, livePc # "analyze"
    PROVE  /\ Len(Places) \in Nat /\ DOMAIN Places = 1 .. Len(Places)
           /\ \A k \in DOMAIN Places : Places[k][1] \in Regions
                                       /\ Places[k][2] \in DOMAIN order[Places[k][1]]
           /\ \A r \in Regions : \A i \in DOMAIN order[r] : \E k \in DOMAIN Places : Places[k] = <<r, i>>
<1>. DEFINE Pairs == {x \in Regions \X Nat : x[2] \in DOMAIN order[x[1]]}
            w == PlacesIn("W")
            a == PlacesIn("A")
            o == PlacesIn("O")
            all == w \o a \o o
<1>1. ASSUME NEW r \in Regions
      PROVE  /\ PlacesIn(r) \in Seq(Pairs)
             /\ \A i \in DOMAIN order[r] : i \in DOMAIN PlacesIn(r) /\ PlacesIn(r)[i] = <<r, i>>
  <2>1. Len(order[r]) \in Nat /\ DOMAIN order[r] = 1 .. Len(order[r])
    BY ListedRegisters
  <2>2. \A i \in 1 .. Len(order[r]) : <<r, i>> \in Pairs
    BY <2>1
  <2>. HIDE DEF Pairs
  <2>. QED
    BY <2>1, <2>2 DEF PlacesIn
<1>2. "W" \in Regions /\ "A" \in Regions /\ "O" \in Regions
      /\ \A r \in Regions : r = "W" \/ r = "A" \/ r = "O"
  BY DEF Regions
<1>3. w \in Seq(Pairs) /\ a \in Seq(Pairs) /\ o \in Seq(Pairs)
  BY <1>1, <1>2
<1>4. /\ \A i \in DOMAIN order["W"] : i \in DOMAIN w /\ w[i] = <<"W", i>>
      /\ \A i \in DOMAIN order["A"] : i \in DOMAIN a /\ a[i] = <<"A", i>>
      /\ \A i \in DOMAIN order["O"] : i \in DOMAIN o /\ o[i] = <<"O", i>>
  BY <1>1, <1>2
<1>5. Places = all
  BY DEF Places
<1>. HIDE DEF w, a, o, Pairs
<1>6. all \in Seq(Pairs)
  BY <1>3
<1>7. \A i \in DOMAIN w : i \in DOMAIN all /\ all[i] = w[i]
  BY <1>3
<1>8. \A i \in DOMAIN a : i + Len(w) \in DOMAIN all /\ all[i + Len(w)] = a[i]
  BY <1>3
<1>9. \A i \in DOMAIN o : i + (Len(w) + Len(a)) \in DOMAIN all /\ all[i + (Len(w) + Len(a))] = o[i]
  BY <1>3
<1>. HIDE DEF all
<1>10. Len(all) \in Nat /\ DOMAIN all = 1 .. Len(all)
  BY <1>6
<1>11. \A k \in DOMAIN all : all[k] \in Pairs
  BY <1>6, <1>10
<1>12. \A k \in DOMAIN all : all[k][1] \in Regions /\ all[k][2] \in DOMAIN order[all[k][1]]
  BY <1>11 DEF Pairs
<1>13. ASSUME NEW r \in Regions, NEW i \in DOMAIN order[r] PROVE \E k \in DOMAIN all : all[k] = <<r, i>>
  <2>1. CASE r = "W"
    BY <1>4, <1>7, <2>1
  <2>2. CASE r = "A"
    BY <1>4, <1>8, <2>2
  <2>3. CASE r = "O"
    BY <1>4, <1>9, <2>3
  <2>. QED
    BY <1>2, <2>1, <2>2, <2>3
<1>. QED
  BY <1>5, <1>10, <1>12, <1>13

\* Scores can be compared.
LEMMA ScoresAreIntegers ==
    ASSUME AllocInv, NEW p \in DOMAIN vregs
    PROVE  Score(p) \in Int
<1>1. /\ p \in Int /\ vregs[p].last \in Int /\ vregs[p].size \in Int /\ vregs[p].count \in Int
  BY VregFields DEF AllocInv
<1>2. WordModulus \in Int
  BY LivenessAssumption
<1>. DEFINE l == vregs[p].last
            s == vregs[p].size
            c == vregs[p].count
<1>. HIDE DEF l, s, c
<1>3. WordModulus - 1 - p \in Int /\ WordModulus - 1 - l \in Int /\ s \in Int /\ WordModulus - 1 - c \in Int
  BY <1>1, <1>2 DEF l, s, c
<1>. QED
  BY <1>3 DEF Score, l, s, c

\* A victim is always found, the first of the list when none is open.
LEMMA VictimIsRegister ==
    ASSUME AllocInv, livePc # "analyze", NEW r \in Regions, DOMAIN order[r] # {}
    PROVE  Victim(r) \in DOMAIN vregs
<1>. DEFINE D == DOMAIN order[r]
            open == {i \in D : /\ ~vregs[order[r][i]].spilled
                               /\ vregs[order[r][i]].offset = Unplaced
                               /\ Score(order[r][i]) > 0}
            best == {i \in open : \A j \in open : Score(order[r][j]) <= Score(order[r][i])}
<1>1. /\ Len(order[r]) \in Nat /\ D = 1 .. Len(order[r])
      /\ \A i \in D : order[r][i] \in DOMAIN vregs
  BY ListedRegisters
<1>2. Victim(r) = order[r][IF open = {} THEN 1 ELSE Min(best)]
  BY DEF Victim
<1>3. CASE open = {}
  <2>1. 1 \in D
    BY <1>1
  <2>. QED
    BY <1>1, <1>2, <1>3, <2>1
<1>4. CASE open # {}
  <2>. DEFINE V == {Score(order[r][i]) : i \in open}
  <2>1. V \in SUBSET Int /\ V # {}
    BY <1>1, <1>4, ScoresAreIntegers
  <2>2. IsFiniteSet(V)
    <3>1. IsFiniteSet(1 .. Len(order[r]))
      <4>1. 1 \in Int /\ Len(order[r]) \in Int
        BY <1>1
      <4>. QED
        BY <4>1, FS_Interval
    <3>2. open \in SUBSET (1 .. Len(order[r]))
      BY <1>1
    <3>. HIDE DEF open
    <3>3. IsFiniteSet(open)
      BY <3>1, <3>2, FS_Subset
    <3>. DEFINE f == [i \in open |-> Score(order[r][i])]
    <3>4. f \in Surjection(open, V)
      BY DEF Surjection
    <3>. HIDE DEF f, V
    <3>. QED
      BY <3>3, <3>4, FS_Surjection
  <2>3. PICK a \in Int, b \in Int : \A x \in V : a <= x /\ x <= b
    <3>. HIDE DEF V
    <3>. QED
      BY <2>1, <2>2, FiniteBounds
  <2>4. Max(V) \in V /\ \A y \in V : y <= Max(V)
    <3>. HIDE DEF V
    <3>. QED
      BY <2>1, <2>3, GreatestMember
  <2>5. best # {}
    <3>1. PICK i \in open : Score(order[r][i]) = Max(V)
      BY <2>4
    <3>2. \A j \in open : Score(order[r][j]) \in V
      OBVIOUS
    <3>3. \A j \in open : Score(order[r][j]) <= Score(order[r][i])
      BY <2>4, <3>1, <3>2
    <3>. QED
      BY <3>3
  <2>6. best \in SUBSET Int /\ \A i \in best : 1 <= i
    BY <1>1
  <2>7. Min(best) \in best
    <3>1. 1 \in Int
      OBVIOUS
    <3>. HIDE DEF best
    <3>. QED
      BY <2>5, <2>6, <3>1, LeastMember
  <2>. DEFINE m == Min(best)
  <2>8. m \in D
    BY <2>7
  <2>. HIDE DEF m, best
  <2>. QED
    BY <1>1, <1>2, <1>4, <2>8 DEF m
<1>. QED
  BY <1>3, <1>4

\* The bytes of spilled registers add up to a natural.
LEMMA SpilledBytes ==
    ASSUME AllocInv, NEW s \in Seq(DOMAIN vregs)
    PROVE  SumFunction([k \in DOMAIN s |-> vregs[s[k]].size]) \in Nat
<1>. DEFINE T == DOMAIN s
            f == [k \in T |-> vregs[s[k]].size]
<1>1. IsFiniteSet(T)
  <2>1. T = 1 .. Len(s) /\ 1 \in Int /\ Len(s) \in Int
    OBVIOUS
  <2>. HIDE DEF T
  <2>2. IsFiniteSet(1 .. Len(s))
    BY <2>1, FS_Interval
  <2>. QED
    BY <2>1, <2>2
<1>2. f \in [T -> Nat]
  <2>1. \A k \in T : s[k] \in DOMAIN vregs
    OBVIOUS
  <2>2. \A p \in DOMAIN vregs : vregs[p].size \in Nat
    BY VregFields DEF AllocInv
  <2>. QED
    BY <2>1, <2>2
<1>. HIDE DEF f, T
<1>3. SumFunction(f) = BarTotal(f) /\ BarTotal(f) \in Nat
  BY <1>1, <1>2, SumIsBarTotal, BarsFinite
<1>. QED
  BY <1>3 DEF f, T

\* The next register is among those spilled, and each is counted.
LEMMA Victims ==
    ASSUME NEW S, NEW w \in S, NEW p \in S
    PROVE  /\ ToSpill(w, p) \in Seq(S) /\ Len(ToSpill(w, p)) \in Nat
           /\ p \in ToSet(ToSpill(w, p))
           /\ IsFiniteSet(ToSet(ToSpill(w, p)))
           /\ Cardinality(ToSet(ToSpill(w, p))) <= Len(ToSpill(w, p))
<1>. DEFINE s == ToSpill(w, p)
            T == ToSet(s)
<1>1. CASE vregs[w].spilled
  <2>1. s = <<p>>
    BY <1>1 DEF ToSpill
  <2>2. T = {p}
    BY <2>1 DEF ToSet
  <2>3. IsFiniteSet({p}) /\ Cardinality({p}) = 1
    BY FS_Singleton
  <2>. HIDE DEF s, T
  <2>4. s \in Seq(S) /\ Len(s) = 1
    BY <2>1
  <2>. QED
    BY <2>2, <2>3, <2>4 DEF s, T
<1>2. CASE ~vregs[w].spilled
  <2>1. s = <<w, p>>
    BY <1>2 DEF ToSpill
  <2>2. T = {w, p}
    BY <2>1 DEF ToSet
  <2>3. IsFiniteSet({w, p}) /\ Cardinality({w, p}) <= 2
    <3>1. IsFiniteSet({w}) /\ Cardinality({w}) = 1
      BY FS_Singleton
    <3>2. {w, p} = {w} \cup {p}
      OBVIOUS
    <3>3. IsFiniteSet({w} \cup {p})
          /\ Cardinality({w} \cup {p}) = IF p \in {w} THEN Cardinality({w}) ELSE Cardinality({w}) + 1
      BY <3>1, FS_AddElement
    <3>. QED
      BY <3>1, <3>2, <3>3
  <2>. HIDE DEF s, T
  <2>4. s \in Seq(S) /\ Len(s) = 2
    BY <2>1
  <2>. QED
    BY <2>2, <2>3, <2>4 DEF s, T
<1>. QED
  BY <1>1, <1>2

\* Places and spills move no live range.
LEMMA SameRegisters ==
    ASSUME NEW code, NEW n \in Nat, NEW vs, Ranges(vs, n), Origins(vs, code), ReadsKept(vs, code, n),
           NEW ws \in Seq(Register(n)), DOMAIN ws = DOMAIN vs,
           \A p \in DOMAIN vs : ws[p].region = vs[p].region /\ ws[p].def = vs[p].def
                                /\ ws[p].last = vs[p].last
    PROVE  Ranges(ws, n) /\ Origins(ws, code) /\ ReadsKept(ws, code, n)
<1>1. Len(ws) = Len(vs) /\ vs \in Seq(Register(n))
  <2>1. Len(vs) \in Nat /\ Len(ws) \in Nat /\ DOMAIN vs = 1 .. Len(vs) /\ DOMAIN ws = 1 .. Len(ws)
    BY DEF Ranges
  <2>. QED
    BY <2>1 DEF Ranges
<1>2. Ranges(ws, n)
  BY <1>1 DEF Ranges
<1>3. Origins(ws, code)
  BY DEF Origins
<1>4. Prolongs(vs, ws, n)
  <2>1. \A p \in DOMAIN vs : vs[p].last \in Int
    BY <1>1, RegisterFields
  <2>. QED
    BY <2>1 DEF Prolongs
<1>5. ASSUME NEW i \in 0 .. n - 1, NEW k \in DOMAIN Uses(code[i + 1])
      PROVE  ReadKept(ws, Uses(code[i + 1])[k].region, i)
  <2>. DEFINE r == Uses(code[i + 1])[k].region
  <2>1. ReadKept(vs, r, i)
    BY DEF ReadsKept
  <2>3. i \in 0 .. n
    OBVIOUS
  <2>. HIDE DEF r
  <2>2. ReadKept(ws, r, i)
    BY <1>1, <1>4, <2>1, <2>3, KeptProlonged
  <2>. QED
    BY <2>2 DEF r
<1>. QED
  BY <1>2, <1>3, <1>5 DEF ReadsKept

\* Nothing is found, placed or spilled at the start.
LEMMA AllocStarts == LiveInit => AllocInv
<1>. SUFFICES ASSUME LiveInit PROVE AllocInv
  OBVIOUS
<1>1. MaxVregs \in Nat /\ MaxLength \in Nat /\ WordModulus \in Nat /\ WordModulus > 0
      /\ 0 \in 0 .. WordModulus - 1
  BY LivenessAssumption
<1>2. liveCode \in Seq(LiveInstrs) /\ Len(liveCode) \in Nat /\ Len(liveCode) <= MaxLength
  <2>1. PICK n \in 1 .. MaxLength : liveCode \in [1 .. n -> LiveInstrs]
    BY DEF LiveInit
  <2>2. n \in Nat
    BY <1>1
  <2>. QED
    BY <1>1, <2>1, <2>2
<1>3. AllocTypes
  BY <1>1, <1>2 DEF LiveInit, AllocTypes
<1>4. AllocRanges
  <2>1. Looked = 0 /\ vregs = <<>>
    BY DEF LiveInit, Looked
  <2>2. Ranges(<<>>, 0)
    BY <1>1 DEF Ranges
  <2>3. Origins(<<>>, liveCode) /\ Untouched(<<>>)
    BY DEF Origins, Untouched
  <2>4. ReadsKept(<<>>, liveCode, 0)
    BY DEF ReadsKept
  <2>. QED
    BY <2>1, <2>2, <2>3, <2>4 DEF AllocRanges
<1>5. AllocLists
  BY DEF LiveInit, AllocLists
<1>6. AllocPlaces
  <2>1. vregs = <<>> /\ livePc = "analyze" /\ spills.num = 0
    BY DEF LiveInit
  <2>2. Spilled = {}
    BY <2>1 DEF Spilled
  <2>3. Cardinality(Spilled) = 0
    BY <2>2, FS_EmptySet
  <2>. QED
    BY <2>1, <2>3 DEF AllocPlaces, Colored, FitsAlone, Dealt
<1>7. AllocUsage
  <2>1. \A r \in Regions : 0 <= Room(r)
    BY <1>3, RoomIsWord
  <2>2. usage = [r \in Regions |-> 0] /\ peak = [r \in Regions |-> 0]
    BY DEF LiveInit
  <2>. QED
    BY <1>1, <2>1, <2>2 DEF AllocUsage
<1>. QED
  BY <1>3, <1>4, <1>5, <1>6, <1>7 DEF AllocInv

\* tu_live_analyze, one instruction.
LEMMA AnalyzeKeepsAlloc == AllocInv /\ LiveAnalyze => AllocInv'
<1>. SUFFICES ASSUME AllocInv, LiveAnalyze PROVE AllocInv'
  OBVIOUS
<1>1. /\ livePc = "analyze" /\ livePc' = livePc /\ next < Len(liveCode) /\ next' = next + 1
      /\ vregs' = Analyzed(vregs, liveCode[next + 1], next)
      /\ liveCode' = liveCode /\ liveConfig' = liveConfig /\ order' = order
      /\ conflicts' = conflicts /\ spills' = spills /\ usage' = usage /\ peak' = peak
  BY DEF LiveAnalyze, InstrAt
<1>2. liveCode \in Seq(LiveInstrs) /\ next \in Nat /\ Len(liveCode) \in Nat
  BY DEF AllocInv, AllocTypes
<1>3. AllocTypes'
  BY <1>1, <1>2 DEF AllocInv, AllocTypes
<1>4. Looked = next /\ Looked' = next + 1
  BY <1>1 DEF Looked
<1>5. liveCode[next + 1] \in Instruction
  <2>1. next + 1 \in 1 .. Len(liveCode)
    BY <1>1, <1>2
  <2>2. liveCode[next + 1] \in LiveInstrs
    BY <1>2, <2>1
  <2>. QED
    BY <2>2, LivenessAssumption
<1>6. Found(vregs, liveCode, next) /\ ReadsKept(vregs, liveCode, next)
  BY <1>1, <1>4 DEF AllocInv, AllocRanges, Found
<1>7. Found(vregs', liveCode, next + 1) /\ ReadsKept(vregs', liveCode, next + 1)
  BY <1>1, <1>2, <1>5, <1>6, InstructionAnalyzed
<1>8. AllocRanges'
  BY <1>1, <1>4, <1>7 DEF AllocRanges, Found
<1>9. AllocLists'
  BY <1>1 DEF AllocInv, AllocLists
<1>10. AllocPlaces'
  <2>1. Untouched(vregs')
    BY <1>7 DEF Found
  <2>2. Spilled' = {} /\ \A p \in DOMAIN vregs' : FitsAlone(vregs, p)'
    BY <2>1 DEF Untouched, Spilled, FitsAlone
  <2>3. Cardinality(Spilled') = 0 /\ spills'.num \in Nat
    BY <1>1, <2>2, FS_EmptySet DEF AllocInv, AllocTypes
  <2>4. Cardinality(Spilled') <= spills'.num
    BY <2>3
  <2>. QED
    BY <1>1, <2>2, <2>4 DEF AllocPlaces, Colored
<1>11. AllocUsage'
  BY <1>1 DEF AllocInv, AllocUsage, Room
<1>. QED
  BY <1>3, <1>8, <1>9, <1>10, <1>11 DEF AllocInv

\* Registers of a region, listed in any way, never meet.
LEMMA ListsNeverMeet ==
    ASSUME NEW n \in Nat, NEW vs, Ranges(vs, n), NEW r, NEW S, NEW list, Lists(list, S),
           Cardinality(S) \in Nat, \A p \in S : p \in DOMAIN vs /\ vs[p].region = r
    PROVE  {c \in (DOMAIN list) \X (DOMAIN list) :
               c[1] # c[2] /\ RangesMeet(vs[list[c[1]]], vs[list[c[2]]])} = {}
<1>. DEFINE D == 1 .. Cardinality(S)
<1>1. DOMAIN list = D /\ \A i \in D : list[i] \in S
  BY DEF Lists
<1>2. \A i, j \in D : i < j => list[i] < list[j]
  BY DEF Lists
<1>3. D \subseteq Int
  OBVIOUS
<1>. HIDE DEF D
<1>4. ASSUME NEW p \in S, NEW q \in S, p < q PROVE ~RangesMeet(vs[p], vs[q]) /\ ~RangesMeet(vs[q], vs[p])
  <2>1. p \in DOMAIN vs /\ q \in DOMAIN vs /\ vs[p].region = vs[q].region
    OBVIOUS
  <2>2. vs[p].def >= 0 => vs[p].last < vs[q].def
    BY <1>4, <2>1 DEF Ranges
  <2>3. vs[p].last \in Int /\ vs[q].def \in Int
    BY <2>1, RegisterFields DEF Ranges
  <2>4. vs[p].def >= 0 => ~ (vs[q].def <= vs[p].last)
    BY <2>2, <2>3
  <2>. QED
    BY <2>4 DEF RangesMeet
<1>5. ASSUME NEW i \in D, NEW j \in D, i # j PROVE ~RangesMeet(vs[list[i]], vs[list[j]])
  <2>1. i < j \/ j < i
    BY <1>3, <1>5
  <2>. QED
    BY <1>1, <1>2, <1>4, <2>1
<1>. QED
  BY <1>1, <1>5

\* Sorting by definition is sorting by number.
LEMMA SortedByNumber ==
    ASSUME NEW n \in Nat, NEW vs, Ranges(vs, n), NEW r, NEW S \in SUBSET DOMAIN vs,
           \A p \in S : vs[p].region = r
    PROVE  InOrder(S, [p \in S |-> {q \in S : \/ vs[q].def < vs[p].def
                                              \/ vs[q].def = vs[p].def /\ q < p}])
           = Ascending(S)
<1>. DEFINE sorted(p) == {q \in S : \/ vs[q].def < vs[p].def
                                    \/ vs[q].def = vs[p].def /\ q < p}
            below(p) == {q \in S : q < p}
<1>1. \A p \in S : p \in Int /\ vs[p].def \in Int
  BY RegisterFields DEF Ranges
<1>2. ASSUME NEW p \in S, NEW q \in S, p < q PROVE vs[p].def <= vs[q].def
  BY <1>2 DEF Ranges
<1>3. ASSUME NEW p \in S, NEW q \in S
      PROVE  (vs[q].def < vs[p].def \/ (vs[q].def = vs[p].def /\ q < p)) <=> q < p
  <2>1. p \in Int /\ q \in Int /\ vs[p].def \in Int /\ vs[q].def \in Int
    BY <1>1
  <2>2. q < p => vs[q].def <= vs[p].def
    BY <1>2
  <2>3. p < q => vs[p].def <= vs[q].def
    BY <1>2
  <2>. QED
    BY <2>1, <2>2, <2>3
<1>4. ASSUME NEW p \in S PROVE sorted(p) = below(p)
  BY <1>3
<1>. HIDE DEF sorted, below
<1>5. [p \in S |-> sorted(p)] = [p \in S |-> below(p)]
  BY <1>4
<1>6. InOrder(S, [p \in S |-> sorted(p)]) = InOrder(S, [p \in S |-> below(p)])
  BY <1>5
<1>. QED
  BY <1>6 DEF Ascending, sorted, below

\* The registers of a region are finitely many.
LEMMA RegionFinite ==
    ASSUME AllocInv, NEW r
    PROVE  /\ OfRegion(r) \in SUBSET Int /\ OfRegion(r) \in SUBSET DOMAIN vregs
           /\ IsFiniteSet(OfRegion(r)) /\ Cardinality(OfRegion(r)) \in Nat
           /\ \A p \in OfRegion(r) : p \in DOMAIN vregs /\ vregs[p].region = r
<1>1. DOMAIN vregs = 1 .. Len(vregs) /\ Len(vregs) \in Nat
  BY VregFields DEF AllocInv
<1>2. /\ OfRegion(r) \in SUBSET (1 .. Len(vregs))
      /\ \A p \in OfRegion(r) : p \in DOMAIN vregs /\ vregs[p].region = r
  BY <1>1 DEF OfRegion
<1>3. IsFiniteSet(1 .. Len(vregs))
  <2>1. 1 \in Int /\ Len(vregs) \in Int
    BY <1>1
  <2>. QED
    BY <2>1, FS_Interval
<1>4. IsFiniteSet(OfRegion(r))
  BY <1>2, <1>3, FS_Subset
<1>5. Cardinality(OfRegion(r)) \in Nat
  BY <1>4, FS_CardinalityType
<1>. QED
  BY <1>1, <1>2, <1>4, <1>5

\* tu_live_build_interference: the lists, and a matrix that is empty.
LEMMA BuildKeepsAlloc == AllocInv /\ LiveBuild => AllocInv'
<1>. SUFFICES ASSUME AllocInv, LiveBuild PROVE AllocInv'
  OBVIOUS
<1>. DEFINE listed == [r \in Regions |-> Ascending({p \in DOMAIN vregs : vregs[p].region = r})]
<1>1. /\ livePc = "analyze" /\ livePc' = "sort" /\ next = Len(liveCode) /\ next' = 1
      /\ order' = listed
      /\ conflicts' = [r \in Regions |->
             {c \in (DOMAIN listed[r]) \X (DOMAIN listed[r]) :
                 c[1] # c[2] /\ RangesMeet(vregs[listed[r][c[1]]], vregs[listed[r][c[2]]])}]
      /\ vregs' = vregs /\ liveCode' = liveCode /\ liveConfig' = liveConfig
      /\ spills' = spills /\ usage' = usage /\ peak' = peak
  BY DEF LiveBuild
<1>2. AllocTypes'
  BY <1>1 DEF AllocInv, AllocTypes
<1>3. Looked = next /\ Looked' = Looked
  BY <1>1 DEF Looked
<1>4. AllocRanges'
  BY <1>1, <1>3 DEF AllocInv, AllocRanges
<1>5. \A r \in Regions : listed[r] = Ascending(OfRegion(r))
  BY DEF OfRegion
<1>. HIDE DEF listed
<1>6. \A r \in Regions : Lists(listed[r], OfRegion(r))
  BY <1>5, RegionFinite, AscendingLists
<1>7. ASSUME NEW r \in Regions
      PROVE  {c \in (DOMAIN listed[r]) \X (DOMAIN listed[r]) :
                 c[1] # c[2] /\ RangesMeet(vregs[listed[r][c[1]]], vregs[listed[r][c[2]]])} = {}
  <2>1. Looked \in Nat /\ Ranges(vregs, Looked)
    BY LooksAt DEF AllocInv, AllocRanges
  <2>2. Lists(listed[r], OfRegion(r)) /\ Cardinality(OfRegion(r)) \in Nat
        /\ \A p \in OfRegion(r) : p \in DOMAIN vregs /\ vregs[p].region = r
    BY <1>6, RegionFinite
  <2>. HIDE DEF Looked
  <2>. QED
    BY <2>1, <2>2, ListsNeverMeet
<1>8. conflicts' = [r \in Regions |-> {}]
  BY <1>1, <1>7
<1>9. AllocLists'
  <2>1. \A r \in Regions : Lists(order'[r], OfRegion(r)')
    BY <1>1, <1>6 DEF OfRegion
  <2>. QED
    BY <1>1, <1>8, <2>1 DEF AllocLists
<1>10. AllocPlaces'
  <2>1. Spilled' = Spilled
    BY <1>1 DEF Spilled
  <2>. QED
    BY <1>1, <2>1 DEF AllocInv, AllocPlaces, Colored, FitsAlone, Dealt, Room
<1>11. AllocUsage'
  BY <1>1 DEF AllocInv, AllocUsage, Room
<1>. QED
  BY <1>2, <1>4, <1>9, <1>10, <1>11 DEF AllocInv

\* The sort of tu_live_color leaves every list as it is.
LEMMA SortKeepsAlloc == AllocInv /\ LiveSort => AllocInv'
<1>. SUFFICES ASSUME AllocInv, LiveSort PROVE AllocInv'
  OBVIOUS
<1>1. /\ livePc = "sort" /\ livePc' = "color" /\ next' = next
      /\ order' = [r \in Regions |->
                    InOrder(ToSet(order[r]), [p \in ToSet(order[r]) |->
                        {q \in ToSet(order[r]) :
                            \/ vregs[q].def < vregs[p].def
                            \/ vregs[q].def = vregs[p].def /\ q < p}])]
      /\ vregs' = vregs /\ liveCode' = liveCode /\ liveConfig' = liveConfig
      /\ conflicts' = conflicts /\ spills' = spills /\ usage' = usage /\ peak' = peak
  BY DEF LiveSort
<1>2. AllocTypes'
  BY <1>1 DEF AllocInv, AllocTypes
<1>3. Looked' = Looked
  BY <1>1 DEF Looked
<1>4. AllocRanges'
  BY <1>1, <1>3 DEF AllocInv, AllocRanges
<1>5. ASSUME NEW r \in Regions PROVE Lists(order'[r], OfRegion(r))
  <2>. DEFINE S == ToSet(order[r])
  <2>1. S = OfRegion(r)
    <3>1. \A i \in DOMAIN order[r] : order[r][i] \in OfRegion(r)
      BY <1>1, ListedRegisters DEF OfRegion
    <3>2. \A p \in OfRegion(r) : \E i \in DOMAIN order[r] : order[r][i] = p
      BY <1>1, ListedRegisters
    <3>. QED
      BY <3>1, <3>2 DEF ToSet
  <2>2. order'[r] = InOrder(S, [p \in S |-> {q \in S : \/ vregs[q].def < vregs[p].def
                                                       \/ vregs[q].def = vregs[p].def /\ q < p}])
    BY <1>1
  <2>3. Looked \in Nat /\ Ranges(vregs, Looked)
    BY LooksAt DEF AllocInv, AllocRanges
  <2>. HIDE DEF S, Looked
  <2>4. S \in SUBSET DOMAIN vregs /\ \A p \in S : vregs[p].region = r
    BY <2>1, RegionFinite
  <2>5. order'[r] = Ascending(S)
    BY <2>2, <2>3, <2>4, SortedByNumber
  <2>6. Lists(Ascending(S), S)
    BY <2>1, RegionFinite, AscendingLists
  <2>. QED
    BY <2>1, <2>5, <2>6
<1>6. AllocLists'
  <2>1. \A r \in Regions : Lists(order'[r], OfRegion(r)')
    BY <1>1, <1>5 DEF OfRegion
  <2>. QED
    BY <1>1, <2>1 DEF AllocInv, AllocLists
<1>7. AllocPlaces'
  <2>1. Spilled' = Spilled
    BY <1>1 DEF Spilled
  <2>2. next' = 1 /\ 1 .. next' - 1 = {}
    BY <1>1 DEF AllocInv, AllocTypes
  <2>. QED
    BY <1>1, <2>1, <2>2 DEF AllocInv, AllocPlaces, Colored, FitsAlone, Dealt, Room
<1>8. AllocUsage'
  BY <1>1 DEF AllocInv, AllocUsage, Room
<1>. QED
  BY <1>2, <1>4, <1>6, <1>7, <1>8 DEF AllocInv

\* The register at the next place.
LEMMA NextRegister ==
    ASSUME AllocInv, ColorNext
    PROVE  /\ next \in DOMAIN Places /\ livePc # "analyze"
           /\ Places[next][1] \in Regions
           /\ Places[next][2] \in DOMAIN order[Places[next][1]]
           /\ order[Places[next][1]][Places[next][2]] \in DOMAIN vregs
           /\ vregs[order[Places[next][1]][Places[next][2]]].region = Places[next][1]
<1>1. livePc = "color" /\ next <= Len(Places) /\ next \in Nat /\ next >= 1
  BY DEF ColorNext, AllocInv, AllocTypes
<1>2. next \in DOMAIN Places
  BY <1>1, PlacesInOrder
<1>3. Places[next][1] \in Regions /\ Places[next][2] \in DOMAIN order[Places[next][1]]
  BY <1>1, <1>2, PlacesInOrder
<1>. QED
  BY <1>1, <1>2, <1>3, ListedRegisters

\* A colouring step that moves no live range, deals with the next register and
\* takes no place away keeps the invariant.
LEMMA ColorKeepsAlloc ==
    ASSUME AllocInv, ColorNext, NEW vs \in Seq(Register(Looked)), ColorPlace(vs),
           DOMAIN vs = DOMAIN vregs,
           \A q \in DOMAIN vregs : vs[q].region = vregs[q].region /\ vs[q].def = vregs[q].def
                                   /\ vs[q].last = vregs[q].last /\ vs[q].size = vregs[q].size,
           liveConfig.spilling =>
              /\ \A q \in DOMAIN vregs : Dealt(vregs, q) => Dealt(vs, q)
              /\ Dealt(vs, order[Places[next][1]][Places[next][2]])
              /\ \A q \in DOMAIN vregs : FitsAlone(vs, q),
           Cardinality(Spilled') <= spills'.num,
           spills' \in [num : Nat, bytes : 0 .. WordModulus - 1]
    PROVE  AllocInv'
<1>1. /\ livePc = "color" /\ livePc' = livePc /\ next' = next + 1
      /\ vregs' = vs /\ liveCode' = liveCode /\ liveConfig' = liveConfig /\ order' = order
      /\ conflicts' = conflicts /\ usage' = usage /\ peak' = peak
  BY DEF ColorNext, ColorPlace
<1>2. next \in Nat /\ next >= 1
  BY <1>1 DEF AllocInv, AllocTypes
<1>3. AllocTypes'
  BY <1>1, <1>2 DEF AllocInv, AllocTypes
<1>4. Looked' = Looked
  BY <1>1 DEF Looked
<1>5. Looked \in Nat
  BY LooksAt DEF AllocInv
<1>6. AllocRanges'
  <2>. DEFINE n == Looked
  <2>1. n \in Nat /\ Ranges(vregs, n) /\ Origins(vregs, liveCode) /\ ReadsKept(vregs, liveCode, n)
    BY <1>5 DEF AllocInv, AllocRanges
  <2>. HIDE DEF n
  <2>2. vs \in Seq(Register(n))
    BY DEF n
  <2>3. Ranges(vs, n) /\ Origins(vs, liveCode) /\ ReadsKept(vs, liveCode, n)
    BY <2>1, <2>2, SameRegisters
  <2>. QED
    BY <1>1, <1>4, <2>3 DEF AllocRanges, n
<1>7. AllocLists'
  <2>1. \A r \in Regions : OfRegion(r)' = OfRegion(r)
    BY <1>1 DEF OfRegion
  <2>. QED
    BY <1>1, <2>1 DEF AllocInv, AllocLists
<1>8. AllocPlaces'
  <2>1. Places' = Places
    BY <1>1 DEF Places, PlacesIn
  <2>. DEFINE at(k) == order[Places[k][1]][Places[k][2]]
  <2>2. ASSUME liveConfig.spilling, NEW k \in 1 .. next, k \in DOMAIN Places
        PROVE  Dealt(vs, at(k))
    <3>1. CASE k \in 1 .. next - 1
      <4>1. Dealt(vregs, at(k))
        BY <1>1, <2>2, <3>1 DEF AllocInv, AllocPlaces
      <4>2. at(k) \in DOMAIN vregs
        BY <1>1, <2>2, PlacesInOrder, ListedRegisters
      <4>. QED
        BY <2>2, <4>1, <4>2
    <3>2. CASE k = next
      BY <2>2, <3>2
    <3>. QED
      BY <1>2, <2>2, <3>1, <3>2
  <2>3. liveConfig.spilling => \A p \in DOMAIN vregs' : FitsAlone(vregs, p)'
    BY <1>1 DEF Room, FitsAlone
  <2>4. ~ (Colored')
    BY <1>1 DEF Colored
  <2>5. liveConfig.spilling => \A k \in 1 .. next' - 1 : k \in DOMAIN Places =>
           Dealt(vregs', at(k))
    <3>1. \A k \in 1 .. next' - 1 : k \in 1 .. next
      BY <1>1, <1>2
    <3>. QED
      BY <1>1, <2>2, <3>1
  <2>6. liveConfig.spilling => \A k \in 1 .. next' - 1 : k \in DOMAIN Places' =>
           Dealt(vregs', order'[Places'[k][1]][Places'[k][2]])
    BY <1>1, <2>1, <2>5
  <2>. QED
    BY <1>1, <2>3, <2>4, <2>6 DEF AllocPlaces
<1>9. AllocUsage'
  BY <1>1 DEF AllocInv, AllocUsage, Room
<1>. QED
  BY <1>3, <1>6, <1>7, <1>8, <1>9 DEF AllocInv

\* A register is placed at 0.
LEMMA PlaceKeepsAlloc == AllocInv /\ LivePlace => AllocInv'
<1>. SUFFICES ASSUME AllocInv, LivePlace PROVE AllocInv'
  OBVIOUS
<1>. DEFINE r == Places[next][1]
            i == Places[next][2]
            p == order[r][i]
            vs == [vregs EXCEPT ![p].offset = 0]
<1>1. ColorNext /\ spills' = spills
  BY DEF LivePlace
<1>2. livePc # "analyze" /\ r \in Regions /\ i \in DOMAIN order[r] /\ p \in DOMAIN vregs
      /\ vregs[p].region = r
  BY <1>1, NextRegister
<1>3. Offsets(r, i) # {} => Min(Offsets(r, i)) = 0 /\ vregs[p].size <= Room(r)
  <2>. HIDE DEF r, i
  <2>. QED
    BY <1>2, OffsetZero
<1>4. vregs[p].def < 0 \/ Offsets(r, i) # {} \/ ~liveConfig.spilling
  BY DEF LivePlace
<1>5. ColorPlace([vregs EXCEPT ![p].offset =
                 IF vregs[p].def >= 0 /\ Offsets(r, i) # {} THEN Min(Offsets(r, i)) ELSE 0])
  BY DEF LivePlace
<1>6. (IF vregs[p].def >= 0 /\ Offsets(r, i) # {} THEN Min(Offsets(r, i)) ELSE 0) = 0
  BY <1>3
<1>. DEFINE v == [vregs[p] EXCEPT !.offset = 0]
<1>7. ColorPlace(vs)
  BY <1>5, <1>6
<1>8. /\ vregs \in Seq(Register(Looked)) /\ vregs[p] \in Register(Looked)
      /\ vregs[p].def \in Int
  BY <1>2, VregFields DEF AllocInv
<1>. HIDE DEF r, i, p, Looked
<1>9. /\ v \in Register(Looked)
      /\ v.offset = 0 /\ v.region = vregs[p].region /\ v.def = vregs[p].def /\ v.last = vregs[p].last
      /\ v.size = vregs[p].size /\ v.spilled = vregs[p].spilled
  BY <1>8 DEF Register
<1>10. vs = [vregs EXCEPT ![p] = v]
  OBVIOUS
<1>. HIDE DEF v, vs
<1>11. /\ vs \in Seq(Register(Looked)) /\ DOMAIN vs = DOMAIN vregs /\ vs[p] = v
       /\ \A q \in DOMAIN vregs : q # p => vs[q] = vregs[q]
  BY <1>2, <1>8, <1>9, <1>10
<1>12. \A q \in DOMAIN vregs : /\ vs[q].region = vregs[q].region /\ vs[q].def = vregs[q].def
                               /\ vs[q].last = vregs[q].last /\ vs[q].size = vregs[q].size
                               /\ vs[q].spilled = vregs[q].spilled
                               /\ q # p => vs[q].offset = vregs[q].offset
                               /\ q = p => vs[q].offset = 0
  BY <1>9, <1>11
<1>13. vregs' = vs /\ liveConfig' = liveConfig /\ order' = order /\ liveCode' = liveCode
       /\ livePc' = livePc
  BY <1>7 DEF ColorPlace
<1>14. \A q \in DOMAIN vregs : Dealt(vregs, q) => Dealt(vs, q)
  BY <1>12, PlaceZero DEF Dealt
<1>15. Dealt(vs, p)
  BY <1>2, <1>12, PlaceZero DEF Dealt
<1>16. ASSUME liveConfig.spilling, NEW q \in DOMAIN vregs PROVE FitsAlone(vs, q)
  <2>1. CASE q = p
    BY <1>2, <1>3, <1>4, <1>8, <1>12, <1>16, <2>1 DEF FitsAlone
  <2>2. CASE q # p
    BY <1>12, <1>16, <2>2 DEF AllocInv, AllocPlaces, FitsAlone
  <2>. QED
    BY <2>1, <2>2
<1>17. Spilled' = Spilled
  BY <1>11, <1>12, <1>13 DEF Spilled
<1>18. Cardinality(Spilled') <= spills'.num /\ spills' \in [num : Nat, bytes : 0 .. WordModulus - 1]
  BY <1>1, <1>17 DEF AllocInv, AllocPlaces, AllocTypes
<1>19. Dealt(vs, order[Places[next][1]][Places[next][2]])
  BY <1>15 DEF p, r, i
<1>. HIDE DEF vs
<1>20. \A q \in DOMAIN vregs : vs[q].region = vregs[q].region /\ vs[q].def = vregs[q].def
                               /\ vs[q].last = vregs[q].last /\ vs[q].size = vregs[q].size
  BY <1>12
<1>. QED
  BY <1>1, <1>7, <1>11, <1>14, <1>16, <1>18, <1>19, <1>20, ColorKeepsAlloc

\* Spilled registers are finitely many.
LEMMA SpilledFinite ==
    ASSUME AllocInv
    PROVE  IsFiniteSet(Spilled) /\ Cardinality(Spilled) \in Nat /\ IsFiniteSet(DOMAIN vregs)
<1>1. DOMAIN vregs = 1 .. Len(vregs) /\ Len(vregs) \in Nat
  BY VregFields DEF AllocInv
<1>2. IsFiniteSet(1 .. Len(vregs))
  <2>1. 1 \in Int /\ Len(vregs) \in Int
    BY <1>1
  <2>. QED
    BY <2>1, FS_Interval
<1>3. Spilled \in SUBSET DOMAIN vregs
  BY DEF Spilled
<1>4. IsFiniteSet(Spilled)
  BY <1>1, <1>2, <1>3, FS_Subset
<1>. QED
  BY <1>1, <1>2, <1>4, FS_CardinalityType

\* A victim and the register itself are spilled and counted.
LEMMA SpillKeepsAlloc == AllocInv /\ LiveSpill => AllocInv'
<1>. SUFFICES ASSUME AllocInv, LiveSpill PROVE AllocInv'
  OBVIOUS
<1>. DEFINE r == Places[next][1]
            p == order[r][Places[next][2]]
            w == Victim(r)
            s == ToSpill(w, p)
            T == ToSet(s)
            vs == [q \in DOMAIN vregs |-> [vregs[q] EXCEPT !.spilled = @ \/ q \in T]]
            sum == SumFunction([k \in DOMAIN s |-> vregs[s[k]].size])
<1>1. /\ ColorNext /\ ColorPlace(vs)
      /\ spills' = [num |-> spills.num + Len(s), bytes |-> (spills.bytes + sum) % WordModulus]
  BY DEF LiveSpill
<1>2. livePc # "analyze" /\ r \in Regions /\ p \in DOMAIN vregs /\ DOMAIN order[r] # {}
  BY <1>1, NextRegister
<1>3. w \in DOMAIN vregs
  <2>. HIDE DEF r
  <2>. QED
    BY <1>2, VictimIsRegister
<1>4. /\ s \in Seq(DOMAIN vregs) /\ Len(s) \in Nat
      /\ p \in T /\ IsFiniteSet(T) /\ Cardinality(T) <= Len(s)
  <2>. HIDE DEF r, p, w
  <2>. QED
    BY <1>2, <1>3, Victims
<1>5. sum \in Nat
  <2>. HIDE DEF s
  <2>. QED
    BY <1>4, SpilledBytes
<1>6. vregs \in Seq(Register(Looked)) /\ \A q \in DOMAIN vregs : vregs[q] \in Register(Looked)
  BY VregFields DEF AllocInv
<1>. HIDE DEF r, p, w, s, T, sum, Looked
<1>7. ASSUME NEW q \in DOMAIN vregs
      PROVE  /\ vs[q] \in Register(Looked)
             /\ vs[q].region = vregs[q].region /\ vs[q].def = vregs[q].def
             /\ vs[q].last = vregs[q].last /\ vs[q].size = vregs[q].size
             /\ vs[q].offset = vregs[q].offset
             /\ vs[q].spilled = (vregs[q].spilled \/ q \in T)
  <2>1. vregs[q] \in Register(Looked)
    BY <1>6
  <2>2. vs[q] = [vregs[q] EXCEPT !.spilled = vregs[q].spilled \/ q \in T]
    OBVIOUS
  <2>. HIDE DEF vs
  <2>. DEFINE u == vregs[q]
              b == (u.spilled \/ q \in T)
  <2>3. b \in BOOLEAN /\ u \in Register(Looked) /\ vs[q] = [u EXCEPT !.spilled = b]
    BY <2>1, <2>2
  <2>. HIDE DEF u, b
  <2>4. /\ vs[q] \in Register(Looked)
        /\ vs[q].region = u.region /\ vs[q].def = u.def /\ vs[q].last = u.last
        /\ vs[q].size = u.size /\ vs[q].offset = u.offset
        /\ vs[q].spilled = b
    BY <2>3 DEF Register
  <2>. QED
    BY <2>4 DEF u, b
<1>8. DOMAIN vs = DOMAIN vregs /\ Len(vregs) \in Nat /\ DOMAIN vregs = 1 .. Len(vregs)
  BY VregFields DEF AllocInv
<1>. HIDE DEF vs
<1>9. vs \in Seq(Register(Looked))
  <2>1. vs = [q \in 1 .. Len(vregs) |-> vs[q]]
    <3>1. vs = [q \in DOMAIN vregs |-> vs[q]]
      BY DEF vs
    <3>. QED
      BY <1>8, <3>1
  <2>2. \A q \in 1 .. Len(vregs) : vs[q] \in Register(Looked)
    BY <1>7, <1>8
  <2>. QED
    BY <1>8, <2>1, <2>2
<1>10. vregs' = vs
  BY <1>1 DEF ColorPlace
<1>11. Spilled' = Spilled \cup (T \cap DOMAIN vregs)
  BY <1>7, <1>8, <1>10 DEF Spilled
<1>12. Cardinality(Spilled') <= spills.num + Len(s)
  <2>. DEFINE U == T \cap DOMAIN vregs
  <2>1. IsFiniteSet(U) /\ Cardinality(U) <= Cardinality(T)
    BY <1>4, FS_Subset
  <2>2. Cardinality(U) \in Nat /\ Cardinality(T) \in Nat
    BY <1>4, <2>1, FS_CardinalityType
  <2>. HIDE DEF U
  <2>3. IsFiniteSet(Spilled) /\ Cardinality(Spilled) \in Nat /\ Cardinality(Spilled) <= spills.num
    BY SpilledFinite DEF AllocInv, AllocPlaces
  <2>4. Cardinality(Spilled \cup U) = Cardinality(Spilled) + Cardinality(U) - Cardinality(Spilled \cap U)
    BY <2>1, <2>3, FS_Union
  <2>5. Cardinality(Spilled \cap U) \in Nat
    <3>1. IsFiniteSet(Spilled \cap U)
      BY <2>1, FS_Subset
    <3>. QED
      BY <3>1, FS_CardinalityType
  <2>6. spills.num \in Nat
    BY DEF AllocInv, AllocTypes
  <2>7. Cardinality(Spilled \cup U) <= spills.num + Len(s)
    BY <1>4, <2>1, <2>2, <2>3, <2>4, <2>5, <2>6
  <2>. QED
    BY <1>11, <2>7 DEF U
<1>13. spills' \in [num : Nat, bytes : 0 .. WordModulus - 1]
  <2>1. spills.num \in Nat /\ spills.bytes \in Nat /\ WordModulus \in Nat /\ WordModulus > 0
    <3>1. WordModulus \in Nat /\ WordModulus > 0
      BY LivenessAssumption
    <3>. QED
      BY <3>1 DEF AllocInv, AllocTypes
  <2>2. (spills.bytes + sum) % WordModulus \in 0 .. WordModulus - 1
    BY <1>5, <2>1
  <2>3. spills.num + Len(s) \in Nat
    BY <1>4, <2>1
  <2>. QED
    BY <1>1, <2>2, <2>3
<1>14. Cardinality(Spilled') <= spills'.num
  BY <1>1, <1>12
<1>15. \A q \in DOMAIN vregs : Dealt(vregs, q) => Dealt(vs, q)
  BY <1>7 DEF Dealt
<1>16. Dealt(vs, order[Places[next][1]][Places[next][2]])
  <2>1. Dealt(vs, p)
    BY <1>2, <1>4, <1>7 DEF Dealt
  <2>. QED
    BY <2>1 DEF p, r
<1>17. liveConfig.spilling => \A q \in DOMAIN vregs : FitsAlone(vs, q)
  BY <1>7 DEF AllocInv, AllocPlaces, FitsAlone
<1>18. \A q \in DOMAIN vregs : vs[q].region = vregs[q].region /\ vs[q].def = vregs[q].def
                               /\ vs[q].last = vregs[q].last /\ vs[q].size = vregs[q].size
  BY <1>7
<1>. QED
  BY <1>1, <1>8, <1>9, <1>13, <1>14, <1>15, <1>16, <1>17, <1>18, ColorKeepsAlloc

\* Colouring has come to every register when it ends.
LEMMA ColoredKeepsAlloc == AllocInv /\ LiveColored => AllocInv'
<1>. SUFFICES ASSUME AllocInv, LiveColored PROVE AllocInv'
  OBVIOUS
<1>1. /\ livePc = "color" /\ livePc' = "apply" /\ next > Len(Places) /\ next' = 0
      /\ vregs' = vregs /\ liveCode' = liveCode /\ liveConfig' = liveConfig /\ order' = order
      /\ conflicts' = conflicts /\ spills' = spills /\ usage' = usage /\ peak' = peak
  BY DEF LiveColored
<1>2. AllocTypes'
  <2>1. 0 <= Len(liveCode)
    BY DEF AllocInv, AllocTypes
  <2>. QED
    BY <1>1, <2>1 DEF AllocInv, AllocTypes
<1>3. Looked' = Looked
  BY <1>1 DEF Looked
<1>4. AllocRanges'
  BY <1>1, <1>3 DEF AllocInv, AllocRanges
<1>5. AllocLists'
  <2>1. \A r \in Regions : OfRegion(r)' = OfRegion(r)
    BY <1>1 DEF OfRegion
  <2>. QED
    BY <1>1, <2>1 DEF AllocInv, AllocLists
<1>6. AllocPlaces'
  <2>1. ASSUME liveConfig.spilling, NEW p \in DOMAIN vregs PROVE Dealt(vregs, p)
    <3>. DEFINE r == vregs[p].region
    <3>1. r \in Regions
      BY VregFields DEF AllocInv
    <3>2. p \in OfRegion(r)
      BY DEF OfRegion
    <3>. HIDE DEF r
    <3>3. PICK i \in DOMAIN order[r] : order[r][i] = p
      BY <1>1, <3>1, <3>2, ListedRegisters
    <3>4. PICK k \in DOMAIN Places : Places[k] = <<r, i>>
      BY <1>1, <3>1, <3>3, PlacesInOrder
    <3>5. k \in 1 .. next - 1
      <4>1. k \in 1 .. Len(Places) /\ Len(Places) \in Nat /\ next \in Nat
        BY <1>1, PlacesInOrder DEF AllocInv, AllocTypes
      <4>. QED
        BY <1>1, <4>1
    <3>6. Dealt(vregs, order[Places[k][1]][Places[k][2]])
      BY <1>1, <2>1, <3>5 DEF AllocInv, AllocPlaces
    <3>7. Places[k][1] = r /\ Places[k][2] = i
      BY <3>4
    <3>. QED
      BY <3>3, <3>6, <3>7
  <2>2. Spilled' = Spilled
    BY <1>1 DEF Spilled
  <2>3. liveConfig.spilling => \A p \in DOMAIN vregs : FitsAlone(vregs, p)
    BY DEF AllocInv, AllocPlaces
  <2>. QED
    BY <1>1, <2>1, <2>2, <2>3 DEF AllocInv, AllocPlaces, FitsAlone, Dealt, Room
<1>7. AllocUsage'
  BY <1>1 DEF AllocInv, AllocUsage, Room
<1>. QED
  BY <1>2, <1>4, <1>5, <1>6, <1>7 DEF AllocInv

\* The bytes in use stay words, and inside the room when registers are spilled.
LEMMA UsedBounded ==
    ASSUME AllocInv, NEW i \in Nat, NEW r \in Regions
    PROVE  /\ UsedBy(i)[r] \in 0 .. WordModulus - 1
           /\ liveConfig.spilling => UsedBy(i)[r] <= Room(r)
<1>. DEFINE P == {q \in DefAt(i) : vregs[q].region = r /\ vregs[q].offset # Unplaced}
            B == {usage[r]} \cup {(vregs[p].offset + vregs[p].size) % WordModulus : p \in P}
<1>1. UsedBy(i)[r] = Max(B)
  BY DEF UsedBy
<1>2. WordModulus \in Nat /\ WordModulus > 0 /\ Room(r) \in 0 .. WordModulus - 1
  BY RoomIsWord, LivenessAssumption DEF AllocInv
<1>3. usage[r] \in 0 .. WordModulus - 1 /\ (liveConfig.spilling => usage[r] <= Room(r))
  BY DEF AllocInv, AllocUsage
<1>4. ASSUME NEW p \in P
      PROVE  /\ (vregs[p].offset + vregs[p].size) % WordModulus \in 0 .. WordModulus - 1
             /\ liveConfig.spilling => (vregs[p].offset + vregs[p].size) % WordModulus <= Room(r)
  <2>1. p \in DOMAIN vregs /\ vregs[p].def = i /\ vregs[p].region = r /\ vregs[p].offset # Unplaced
    BY DEF DefAt
  <2>2. vregs[p].offset = 0 /\ vregs[p].size \in 0 .. WordModulus - 1
    BY <2>1, VregFields DEF AllocInv
  <2>3. liveConfig.spilling => vregs[p].size <= Room(r)
    BY <2>1 DEF AllocInv, AllocPlaces, FitsAlone
  <2>. DEFINE z == vregs[p].size
  <2>4. (0 + z) % WordModulus = z
    BY <1>2, <2>2
  <2>. QED
    BY <2>2, <2>3, <2>4
<1>5. \A x \in B : x \in 0 .. WordModulus - 1 /\ (liveConfig.spilling => x <= Room(r))
  BY <1>3, <1>4
<1>6. B # {}
  OBVIOUS
<1>. HIDE DEF B
<1>7. Max(B) \in B
  <2>1. B \in SUBSET Int /\ 0 \in Int /\ WordModulus - 1 \in Int
        /\ \A x \in B : 0 <= x /\ x <= WordModulus - 1
    BY <1>2, <1>5
  <2>. QED
    BY <1>6, <2>1, GreatestMember
<1>. QED
  BY <1>1, <1>5, <1>7

\* tu_live_apply changes usage alone, as far as the registers go.
LEMMA ApplyKeepsAlloc == AllocInv /\ LiveApply => AllocInv'
<1>. SUFFICES ASSUME AllocInv, LiveApply PROVE AllocInv'
  OBVIOUS
<1>1. /\ livePc = "apply" /\ livePc' = livePc /\ next < Len(liveCode) /\ next' = next + 1
      /\ vregs' = vregs /\ liveCode' = liveCode /\ liveConfig' = liveConfig /\ order' = order
      /\ conflicts' = conflicts /\ spills' = spills
      /\ peak' = [r \in Regions |-> Max({peak[r], UsedBy(next)[r]})]
      /\ usage' = [r \in Regions |-> IF r \in DyingAt(next) \ {"W"} THEN 0 ELSE UsedBy(next)[r]]
  BY DEF LiveApply
<1>2. next \in Nat /\ Len(liveCode) \in Nat
  BY DEF AllocInv, AllocTypes
<1>3. AllocTypes'
  BY <1>1, <1>2 DEF AllocInv, AllocTypes
<1>4. Looked' = Looked
  BY <1>1 DEF Looked
<1>5. AllocRanges'
  BY <1>1, <1>4 DEF AllocInv, AllocRanges
<1>6. AllocLists'
  <2>1. \A r \in Regions : OfRegion(r)' = OfRegion(r)
    BY <1>1 DEF OfRegion
  <2>. QED
    BY <1>1, <2>1 DEF AllocInv, AllocLists
<1>7. AllocPlaces'
  <2>1. Spilled' = Spilled
    BY <1>1 DEF Spilled
  <2>. QED
    BY <1>1, <2>1 DEF AllocInv, AllocPlaces, Colored, FitsAlone, Dealt, Room
<1>8. AllocUsage'
  <2>1. ASSUME NEW r \in Regions
        PROVE  /\ UsedBy(next)[r] \in 0 .. WordModulus - 1
               /\ liveConfig.spilling => UsedBy(next)[r] <= Room(r)
    BY <1>2, UsedBounded
  <2>2. ASSUME NEW r \in Regions
        PROVE  /\ Max({peak[r], UsedBy(next)[r]}) \in 0 .. WordModulus - 1
               /\ liveConfig.spilling => Max({peak[r], UsedBy(next)[r]}) <= Room(r)
    <3>. DEFINE x == peak[r]
                y == UsedBy(next)[r]
    <3>1. x \in 0 .. WordModulus - 1 /\ (liveConfig.spilling => x <= Room(r))
      BY DEF AllocInv, AllocUsage
    <3>2. y \in 0 .. WordModulus - 1 /\ (liveConfig.spilling => y <= Room(r))
      BY <2>1
    <3>. HIDE DEF x, y
    <3>3. WordModulus \in Nat
      BY LivenessAssumption
    <3>4. x \in Int /\ y \in Int
      BY <3>1, <3>2, <3>3
    <3>5. Max({x, y}) = IF x >= y THEN x ELSE y
      BY <3>4, GreaterOfTwo
    <3>. QED
      BY <3>1, <3>2, <3>5 DEF x, y
  <2>3. \A r \in Regions : 0 <= Room(r) /\ 0 \in 0 .. WordModulus - 1
    BY RoomIsWord, PlaceZero DEF AllocInv
  <2>4. \A r \in Regions : Room(r)' = Room(r)
    BY <1>1 DEF Room
  <2>. QED
    BY <1>1, <2>1, <2>2, <2>3, <2>4 DEF AllocUsage
<1>. QED
  BY <1>3, <1>5, <1>6, <1>7, <1>8 DEF AllocInv

\* The end, and steps of others.
LEMMA RestKeepsAlloc == AllocInv /\ (LiveEnd \/ UNCHANGED liveVars) => AllocInv'
<1>. SUFFICES ASSUME AllocInv, LiveEnd \/ UNCHANGED liveVars PROVE AllocInv'
  OBVIOUS
<1>1. /\ livePc' = livePc \/ (livePc = "apply" /\ livePc' = "allocated")
      /\ next' = next
      /\ vregs' = vregs /\ liveCode' = liveCode /\ liveConfig' = liveConfig /\ order' = order
      /\ conflicts' = conflicts /\ spills' = spills /\ usage' = usage /\ peak' = peak
  BY DEF LiveEnd, liveVars
<1>2. AllocTypes'
  BY <1>1 DEF AllocInv, AllocTypes
<1>3. Looked' = Looked /\ (livePc' = "analyze" <=> livePc = "analyze")
      /\ (livePc' = "color" <=> livePc = "color")
  BY <1>1 DEF Looked
<1>4. AllocRanges'
  BY <1>1, <1>3 DEF AllocInv, AllocRanges
<1>5. AllocLists'
  <2>1. \A r \in Regions : OfRegion(r)' = OfRegion(r)
    BY <1>1 DEF OfRegion
  <2>. QED
    BY <1>1, <1>3, <2>1 DEF AllocInv, AllocLists
<1>6. AllocPlaces'
  <2>1. Spilled' = Spilled /\ (Colored' <=> Colored) /\ Places' = Places
    BY <1>1 DEF Spilled, Colored, Places, PlacesIn
  <2>. QED
    BY <1>1, <1>3, <2>1 DEF AllocInv, AllocPlaces, FitsAlone, Dealt, Room
<1>7. AllocUsage'
  BY <1>1 DEF AllocInv, AllocUsage, Room
<1>. QED
  BY <1>2, <1>4, <1>5, <1>6, <1>7 DEF AllocInv

\* tu_live_analyze, tu_live_color and tu_live_apply keep live ranges apart, the matrix
\* empty, places at 0 and inside, and every spilled register counted.
THEOREM AllocInvariant == LiveSpec => []AllocInv
<1>1. AllocInv /\ [LiveNext]_liveVars => AllocInv'
  BY AnalyzeKeepsAlloc, BuildKeepsAlloc, SortKeepsAlloc, PlaceKeepsAlloc, SpillKeepsAlloc,
     ColoredKeepsAlloc, ApplyKeepsAlloc, RestKeepsAlloc DEF LiveNext
<1>. QED
  BY <1>1, AllocStarts, PTL DEF LiveSpec

\* The types.
LEMMA AllocIsTyped == AllocInv => LiveTypeOK
<1>. SUFFICES ASSUME AllocInv PROVE LiveTypeOK
  OBVIOUS
<1>1. Looked \in Nat /\ Looked <= MaxLength /\ MaxLength \in Nat
  <2>1. Looked \in Nat /\ Looked <= Len(liveCode) /\ Len(liveCode) \in Nat /\ Len(liveCode) <= MaxLength
    BY LooksAt DEF AllocInv, AllocTypes
  <2>. QED
    BY <2>1, LivenessAssumption
<1>2. vregs \in Seq(Register(Looked)) /\ Len(vregs) <= MaxVregs
      /\ \A p \in DOMAIN vregs : vregs[p].def <= vregs[p].last
  BY VregFields DEF AllocInv, AllocRanges, Ranges
<1>3. \A n \in Nat : n <= MaxLength => Register(n) \subseteq Vreg
  <2>. SUFFICES ASSUME NEW n \in Nat, n <= MaxLength PROVE Register(n) \subseteq Vreg
    OBVIOUS
  <2>1. -1 .. n - 1 \subseteq -1 .. MaxLength - 1 /\ 0 .. n - 1 \subseteq 0 .. MaxLength - 1
    BY <1>1
  <2>2. {0, Unplaced} \subseteq 0 .. WordModulus - 1
    BY PlaceZero
  <2>. HIDE DEF Unplaced
  <2>. QED
    BY <2>1, <2>2 DEF Register, Vreg
<1>4. vregs \in Seq(Vreg)
  <2>1. Register(Looked) \subseteq Vreg
    BY <1>1, <1>3
  <2>. HIDE DEF Looked
  <2>. QED
    BY <1>2, <2>1
<1>5. ASSUME NEW r \in Regions, NEW i \in DOMAIN order[r] PROVE vregs[order[r][i]].region = r
  <2>1. CASE livePc = "analyze"
    BY <2>1 DEF AllocInv, AllocLists
  <2>2. CASE livePc # "analyze"
    BY <2>2, ListedRegisters
  <2>. QED
    BY <2>1, <2>2
<1>. QED
  BY <1>2, <1>4, <1>5 DEF AllocInv, AllocTypes, AllocUsage, LiveTypeOK

\* No two registers of a region are alive together.
LEMMA AllocNeverMeets == AllocInv => NeverMeet
<1>. SUFFICES ASSUME AllocInv PROVE NeverMeet
  OBVIOUS
<1>1. ASSUME NEW p \in DOMAIN vregs, NEW q \in DOMAIN vregs,
             vregs[p].region = vregs[q].region, vregs[p].def < vregs[q].def, Defined(p)
      PROVE  vregs[p].last < vregs[q].def
  <2>1. p \in Nat /\ q \in Nat /\ vregs[p].def \in Int /\ vregs[q].def \in Int
    BY VregFields DEF AllocInv
  <2>2. ~ (q < p)
    <3>. SUFFICES ASSUME q < p PROVE FALSE
      OBVIOUS
    <3>1. vregs[q].def <= vregs[p].def
      BY <1>1 DEF AllocInv, AllocRanges, Ranges
    <3>. QED
      BY <1>1, <2>1, <3>1
  <2>3. p # q
    BY <1>1, <2>1
  <2>4. p < q
    BY <2>1, <2>2, <2>3
  <2>. QED
    BY <1>1, <2>4 DEF AllocInv, AllocRanges, Ranges, Defined
<1>2. \A r \in Regions : conflicts[r] = {}
  BY DEF AllocInv, AllocLists
<1>3. \A p \in DOMAIN vregs : Placed(p) => vregs[p].offset = 0
  BY VregFields DEF AllocInv, Placed
<1>. QED
  BY <1>1, <1>2, <1>3 DEF NeverMeet

\* What is placed is inside the room.
LEMMA AllocPlacedInside == AllocInv => PlacedInside
<1>. SUFFICES ASSUME AllocInv, Colored, liveConfig.spilling PROVE PlacedInside
  BY DEF PlacedInside
<1>1. ASSUME NEW p \in DOMAIN vregs, Placed(p) PROVE FitsRoom(p)
  <2>. DEFINE z == vregs[p].size
              room == Room(vregs[p].region)
  <2>1. vregs[p].offset = 0 /\ z \in Int
    <3>1. vregs[p].offset \in {0, Unplaced} /\ z \in 0 .. WordModulus - 1 /\ WordModulus \in Nat
      BY VregFields, LivenessAssumption DEF AllocInv
    <3>. QED
      BY <1>1, <3>1 DEF Placed
  <2>2. z <= room
    BY <1>1 DEF AllocInv, AllocPlaces, FitsAlone, Placed, Defined
  <2>3. 0 + z <= room
    <3>. HIDE DEF z, room
    <3>. QED
      BY <2>1, <2>2
  <2>. QED
    BY <2>1, <2>3 DEF FitsRoom
<1>2. \A r \in Regions : peak[r] <= Room(r)
  BY DEF AllocInv, AllocUsage
<1>. QED
  BY <1>1, <1>2 DEF PlacedInside

\* What is read is alive.
LEMMA AllocKeepsReads == AllocInv => ReadsKeptLive
<1>. SUFFICES ASSUME AllocInv, livePc # "analyze", NEW i \in 0 .. Len(liveCode) - 1,
                     NEW k \in DOMAIN Uses(liveCode[i + 1])
              PROVE  ReadKept(vregs, Uses(liveCode[i + 1])[k].region, i)
  BY DEF ReadsKeptLive, ReadKept, Earlier, Redefined, InstrAt
<1>1. ReadsKept(vregs, liveCode, Len(liveCode))
  BY DEF AllocInv, AllocRanges, Looked
<1>. QED
  BY <1>1 DEF ReadsKept

\* The lists ascend.
LEMMA AllocSorts == AllocInv => SortKeepsPlaces
<1>. SUFFICES ASSUME AllocInv, NEW r \in Regions, NEW i \in DOMAIN order[r], NEW j \in DOMAIN order[r],
                     i < j
              PROVE  order[r][i] < order[r][j]
  BY DEF SortKeepsPlaces
<1>1. CASE livePc = "analyze"
  BY <1>1 DEF AllocInv, AllocLists
<1>2. CASE livePc # "analyze"
  BY <1>2, ListedRegisters
<1>. QED
  BY <1>1, <1>2

\* What has no place is spilled and counted.
LEMMA AllocAccounts == AllocInv => NothingUnaccounted
BY DEF AllocInv, AllocPlaces, Dealt, NothingUnaccounted, Placed, Defined

\* For every program, configuration and limit: what is read is alive, no two registers of
\* a region are alive together, and tu_live_color places or spills each definition inside
\* the room, and counts what it spills.
THEOREM PlacementIsSound == LiveSpec => []PlacementSound
<1>1. AllocInv => PlacementSound
  BY AllocIsTyped, AllocNeverMeets, AllocPlacedInside, AllocKeepsReads, AllocSorts, AllocAccounts
     DEF PlacementSound
<1>. QED
  BY <1>1, AllocInvariant, PTL

-----------------------------------------------------------------------------
(* The rewritten program. *)

Entry == [kind : {"instr"}, i : Nat, dim0 : Int, low : Int, high : Int]
         \cup [kind : {"fill", "spill"}, vreg : Int]

KeptIn(out) == {k \in DOMAIN out : out[k].kind = "instr"}

\* A fill of p right before instruction i, with only fills between.
FilledAt(out, p, i) ==
    \E f, u \in DOMAIN out :
        /\ f < u /\ out[u].kind = "instr" /\ out[u].i = i
        /\ out[f] = [kind |-> "fill", vreg |-> p]
        /\ \A k \in f .. u - 1 : out[k].kind = "fill"

\* The program with its operands shifted.
PatchedCode == [i \in 0 .. Len(liveCode) - 1 |-> Patched(i)]

\* out is what the first n instructions become.
RewrittenTo(out, n) ==
    /\ out \in Seq(Entry) /\ Len(out) <= MaxOut
    /\ \A k \in KeptIn(out) : out[k].i \in 0 .. n - 1 /\ out[k] = PatchedCode[out[k].i]
    /\ \A j, k \in KeptIn(out) : j < k => out[j].i < out[k].i
    /\ \A i \in 0 .. n - 1 : \E k \in KeptIn(out) : out[k].i = i
    /\ Len(out) < MaxOut - 1 =>
          \A p \in Spilled : \A i \in vregs[p].def + 1 .. vregs[p].last :
              i < n => FilledAt(out, p, i)

RewriteInv ==
    IF Colored
    THEN /\ RewrittenTo(output, next) /\ next <= Len(liveCode)
         /\ livePc = "allocated" => next = Len(liveCode) \/ Len(output) >= MaxOut
    ELSE output = <<>>

\* Entries of two sequences one behind the other.
LEMMA Joined ==
    ASSUME NEW S, NEW s \in Seq(S), NEW t \in Seq(S), NEW j, j = s \o t
    PROVE  /\ j \in Seq(S) /\ Len(j) = Len(s) + Len(t)
           /\ \A k \in 1 .. Len(s) : j[k] = s[k]
           /\ \A k \in 1 .. Len(t) : j[Len(s) + k] = t[k]
<1>1. s \o t \in Seq(S) /\ Len(s \o t) = Len(s) + Len(t)
  OBVIOUS
<1>2. \A k \in 1 .. Len(s) : (s \o t)[k] = s[k]
  OBVIOUS
<1>3. ASSUME NEW k \in 1 .. Len(t) PROVE (s \o t)[Len(s) + k] = t[k]
  <2>1. Len(s) \in Nat /\ Len(s) + k \in 1 .. Len(s) + Len(t) /\ Len(s) + k > Len(s)
        /\ (Len(s) + k) - Len(s) = k
    OBVIOUS
  <2>. QED
    BY <2>1
<1>. QED
  BY <1>1, <1>2, <1>3

\* res is out and then entries of this kind for the registers ps, as many as
\* leave a place for an instruction.
Appended(out, kind, ps, res) ==
    /\ res \in Seq(Entry) /\ Len(res) \in Nat /\ Len(out) \in Nat /\ Len(out) <= Len(res)
    /\ Len(out) < MaxOut => Len(res) < MaxOut
    /\ Len(out) <= MaxOut => Len(res) <= MaxOut
    /\ \A k \in 1 .. Len(out) : res[k] = out[k]
    /\ \A k \in Len(out) + 1 .. Len(res) : res[k].kind = kind
    /\ Len(res) < MaxOut - 1 =>
          \A p \in ps : \E k \in Len(out) + 1 .. Len(res) :
              res[k] = [kind |-> kind, vreg |-> p]

\* So do make_fill_instr and make_spill_instr in tu_live_apply.
LEMMA CappedAppends ==
    ASSUME NEW out \in Seq(Entry), NEW kind \in {"fill", "spill"}, NEW ps \in SUBSET Int,
           IsFiniteSet(ps), NEW res, res = Capped(out, kind, ps)
    PROVE  Appended(out, kind, ps, res)
<1>. DEFINE free == MaxOut - 1 - Len(out)
            room == Max({free, 0})
            c == Cardinality(ps)
            n == Min({c, room})
            list == Ascending(ps)
            more == [k \in 1 .. n |-> [kind |-> kind, vreg |-> list[k]]]
<1>1. MaxOut \in Nat /\ Len(out) \in Nat /\ free \in Int
  BY LivenessAssumption
<1>2. c \in Nat /\ Lists(list, ps)
  BY AscendingLists
<1>3. res = out \o more
  BY DEF Capped
<1>. DEFINE L == Len(out)
<1>. HIDE DEF list
<1>4. room = IF free >= 0 THEN free ELSE 0
  <2>. HIDE DEF free
  <2>1. free \in Int /\ 0 \in Int
    BY <1>1
  <2>. QED
    BY <2>1, GreaterOfTwo
<1>5. room \in Int
  <2>. HIDE DEF room, free
  <2>. QED
    BY <1>1, <1>4
<1>6. n = IF c <= room THEN c ELSE room
  <2>. HIDE DEF c, room
  <2>1. c \in Int /\ room \in Int
    BY <1>2, <1>5
  <2>. QED
    BY <2>1, LesserOfTwo
<1>. HIDE DEF n, room, c
<1>7. n \in Nat /\ n <= c /\ (L < MaxOut => L + n < MaxOut) /\ (L <= MaxOut => L + n <= MaxOut)
      /\ (L + n < MaxOut - 1 => n = c)
  <2>. HIDE DEF L
  <2>1. L \in Nat /\ free = MaxOut - 1 - L
    BY <1>1 DEF L
  <2>. HIDE DEF free
  <2>. QED
    BY <1>1, <1>2, <1>4, <1>5, <1>6, <2>1
<1>8. \A k \in 1 .. n : list[k] \in ps
  <2>1. \A k \in 1 .. c : list[k] \in ps
    BY <1>2 DEF Lists, c
  <2>. QED
    BY <1>2, <1>7, <2>1
<1>9. /\ more \in Seq(Entry) /\ Len(more) = n
      /\ \A k \in 1 .. n : more[k] = [kind |-> kind, vreg |-> list[k]]
  <2>1. \A k \in 1 .. n : [kind |-> kind, vreg |-> list[k]] \in Entry
    BY <1>8 DEF Entry
  <2>. HIDE DEF Entry
  <2>. QED
    BY <1>7, <2>1
<1>. HIDE DEF more, L, free, Entry
<1>10. /\ res \in Seq(Entry) /\ Len(res) = L + n
       /\ \A k \in 1 .. L : res[k] = out[k]
       /\ \A k \in 1 .. n : res[L + k] = more[k]
  <2>1. /\ res \in Seq(Entry) /\ Len(res) = Len(out) + Len(more)
        /\ \A k \in 1 .. Len(out) : res[k] = out[k]
        /\ \A k \in 1 .. Len(more) : res[Len(out) + k] = more[k]
    <3>1. out \in Seq(Entry) /\ more \in Seq(Entry)
      BY <1>9
    <3>. QED
      BY <1>3, <3>1, Joined
  <2>2. Len(more) = n /\ L = Len(out)
    BY <1>9 DEF L
  <2>. QED
    BY <2>1, <2>2
<1>11. ASSUME NEW k \in L + 1 .. Len(res) PROVE res[k].kind = kind
  <2>1. k - L \in 1 .. n /\ k = L + (k - L)
    BY <1>1, <1>7, <1>10 DEF L
  <2>2. res[k] = more[k - L]
    BY <1>10, <2>1
  <2>3. res[k] = [kind |-> kind, vreg |-> list[k - L]]
    BY <1>9, <2>1, <2>2
  <2>. QED
    BY <2>3
<1>12. ASSUME Len(res) < MaxOut - 1, NEW p \in ps
       PROVE  \E k \in L + 1 .. Len(res) : res[k] = [kind |-> kind, vreg |-> p]
  <2>1. n = c
    BY <1>7, <1>10, <1>12
  <2>2. PICK i \in 1 .. n : list[i] = p
    BY <1>2, <2>1 DEF Lists, c
  <2>3. res[L + i] = [kind |-> kind, vreg |-> p]
    BY <1>9, <1>10, <2>2
  <2>4. L + i \in L + 1 .. Len(res)
    BY <1>1, <1>7, <1>10 DEF L
  <2>. QED
    BY <2>3, <2>4
<1>. QED
  BY <1>1, <1>7, <1>10, <1>11, <1>12 DEF L, Appended

\* Half a word of an offset.
LEMMA NarrowIsInteger ==
    ASSUME NEW x \in {0, Unplaced}
    PROVE  Narrow(x) \in Int
<1>1. x \in Int /\ HalfModulus \in Nat \ {0}
  BY LivenessAssumption, PlaceZero
<1>. HIDE DEF Unplaced
<1>. QED
  BY <1>1 DEF Narrow

\* The newest register alive is one of those alive.
LEMMA AliveGreatest ==
    ASSUME AllocInv, NEW i, NEW where, LiveAt(i, where) # {}
    PROVE  Max(LiveAt(i, where)) \in LiveAt(i, where)
           /\ Max(LiveAt(i, where)) \in DOMAIN vregs
<1>. DEFINE A == LiveAt(i, where)
<1>1. A \in SUBSET (1 .. Len(vregs)) /\ Len(vregs) \in Nat /\ DOMAIN vregs = 1 .. Len(vregs)
  BY VregFields DEF LiveAt, AllocInv
<1>. HIDE DEF A
<1>2. A # {}
  BY DEF A
<1>3. Max(A) \in A
  BY <1>1, <1>2, LastPosition
<1>. QED
  BY <1>1, <1>3 DEF A

\* An operand is a number.
LEMMA OperandIsInteger ==
    ASSUME AllocInv, NEW i, NEW where, NEW own \in Int
    PROVE  OperandAt(i, where, own) \in Int
<1>1. CASE LiveAt(i, where) = {}
  BY <1>1 DEF OperandAt
<1>2. CASE LiveAt(i, where) # {}
  <2>1. vregs[Max(LiveAt(i, where))].offset \in {0, Unplaced}
    BY <1>2, AliveGreatest, VregFields DEF AllocInv
  <2>. QED
    BY <1>2, <2>1, NarrowIsInteger DEF OperandAt
<1>. QED
  BY <1>1, <1>2

\* A patched instruction is still that instruction.
LEMMA PatchedIsEntry ==
    ASSUME AllocInv, NEW i \in 0 .. Len(liveCode) - 1
    PROVE  Patched(i) \in Entry /\ Patched(i).kind = "instr" /\ Patched(i).i = i
<1>. DEFINE instr == InstrAt(i)
            own == [kind |-> "instr", i |-> i, dim0 |-> instr.dim0, low |-> instr.immLow,
                    high |-> instr.immHigh]
            at == {vregs[p].offset : p \in DefAt(i)} \ {Unplaced}
            offset == CHOOSE x \in at : TRUE
            where == Defines(instr)[1].region
            product == [own EXCEPT !.high = IF where = "O" THEN Narrow(offset) ELSE @,
                                   !.low = OperandAt(i, "A", @), !.dim0 = OperandAt(i, "W", @)]
            shifted == [own EXCEPT !.dim0 = Narrow(offset)]
            E == [kind : {"instr"}, i : Nat, dim0 : Int, low : Int, high : Int]
<1>1. instr \in Instruction
  <2>1. liveCode \in Seq(LiveInstrs) /\ i + 1 \in 1 .. Len(liveCode)
    BY DEF AllocInv, AllocTypes
  <2>2. liveCode[i + 1] \in LiveInstrs
    BY <2>1
  <2>. QED
    BY <2>2, LivenessAssumption DEF InstrAt
<1>2. instr.dim0 \in Int /\ instr.immLow \in Int /\ instr.immHigh \in Int /\ i \in Nat
  <2>1. HalfModulus \in Nat
    BY LivenessAssumption
  <2>. HIDE DEF instr
  <2>. QED
    BY <1>1, <2>1 DEF Instruction
<1>3. at # {} => Narrow(offset) \in Int
  <2>. SUFFICES ASSUME at # {} PROVE Narrow(offset) \in Int
    OBVIOUS
  <2>1. offset \in at
    BY Zenon
  <2>2. \A x \in at : x \in {0, Unplaced}
    BY VregFields DEF DefAt, AllocInv
  <2>. HIDE DEF offset, at
  <2>. QED
    BY <2>1, <2>2, NarrowIsInteger
<1>4. Patched(i) = IF at = {} THEN own
                   ELSE IF instr.op = "MMA" THEN product
                   ELSE IF instr.op = "RELU" \/ (instr.op = "LOAD" /\ where # "O") THEN shifted
                   ELSE own
  BY DEF Patched
<1>5. OperandAt(i, "A", instr.immLow) \in Int /\ OperandAt(i, "W", instr.dim0) \in Int
  BY <1>2, OperandIsInteger
<1>. HIDE DEF instr, at, offset, where
<1>6. own \in E /\ own.i = i
  BY <1>2
<1>7. at # {} => product \in E /\ product.i = i
  BY <1>2, <1>3, <1>5
<1>8. at # {} => shifted \in E /\ shifted.i = i
  BY <1>2, <1>3
<1>. HIDE DEF own, product, shifted, E
<1>9. Patched(i) \in E /\ Patched(i).i = i
  BY <1>4, <1>6, <1>7, <1>8
<1>. QED
  BY <1>9 DEF E, Entry

\* What stands before the end is filled as before.
LEMMA StaysFilled ==
    ASSUME NEW out \in Seq(Entry), NEW res \in Seq(Entry), Len(out) <= Len(res),
           \A k \in 1 .. Len(out) : res[k] = out[k], NEW p, NEW i, FilledAt(out, p, i)
    PROVE  FilledAt(res, p, i)
<1>1. PICK f \in DOMAIN out, u \in DOMAIN out :
        /\ f < u /\ out[u].kind = "instr" /\ out[u].i = i
        /\ out[f] = [kind |-> "fill", vreg |-> p]
        /\ \A k \in f .. u - 1 : out[k].kind = "fill"
  BY DEF FilledAt
<1>2. f \in 1 .. Len(out) /\ u \in 1 .. Len(out) /\ Len(out) \in Nat /\ Len(res) \in Nat
      /\ DOMAIN res = 1 .. Len(res)
  OBVIOUS
<1>. HIDE DEF Entry
<1>3. f \in DOMAIN res /\ u \in DOMAIN res /\ res[f] = out[f] /\ res[u] = out[u]
  BY <1>2
<1>4. \A k \in f .. u - 1 : res[k].kind = "fill"
  <2>. SUFFICES ASSUME NEW k \in f .. u - 1 PROVE res[k].kind = "fill"
    OBVIOUS
  <2>1. k \in 1 .. Len(out)
    BY <1>2
  <2>. QED
    BY <1>1, <2>1
<1>. QED
  BY <1>1, <1>3, <1>4 DEF FilledAt

\* One more instruction rewritten.
LEMMA OneMoreRewritten ==
    ASSUME AllocInv, livePc = "apply", NEW n \in 0 .. Len(liveCode) - 1,
           NEW out, RewrittenTo(out, n), Len(out) < MaxOut,
           NEW a, a = Capped(out, "fill", DueFills(n)),
           NEW b, b = Append(a, Patched(n)),
           NEW c, c = Capped(b, "spill", {p \in Spilled : vregs[p].last = n})
    PROVE  RewrittenTo(c, n + 1)
<1>. DEFINE dying == {p \in Spilled : vregs[p].last = n}
            due == DueFills(n)
<1>1. IsFiniteSet(Spilled) /\ Spilled \in SUBSET Int
  <2>1. Spilled \in SUBSET DOMAIN vregs
    BY DEF Spilled
  <2>. QED
    BY <2>1, SpilledFinite, VregFields DEF AllocInv
<1>2. due \in SUBSET Int /\ IsFiniteSet(due) /\ dying \in SUBSET Int /\ IsFiniteSet(dying)
  <2>1. due \in SUBSET Spilled /\ dying \in SUBSET Spilled
    BY DEF DueFills
  <2>. HIDE DEF due, dying
  <2>. QED
    BY <1>1, <2>1, FS_Subset
<1>3. out \in Seq(Entry) /\ Len(out) <= MaxOut /\ MaxOut \in Nat
  BY LivenessAssumption DEF RewrittenTo
<1>4. /\ a \in Seq(Entry) /\ Len(a) \in Nat /\ Len(out) \in Nat /\ Len(out) <= Len(a)
      /\ Len(a) < MaxOut
      /\ \A k \in 1 .. Len(out) : a[k] = out[k]
      /\ \A k \in Len(out) + 1 .. Len(a) : a[k].kind = "fill"
      /\ Len(a) < MaxOut - 1 =>
             \A p \in due : \E k \in Len(out) + 1 .. Len(a) : a[k] = [kind |-> "fill", vreg |-> p]
  <2>1. "fill" \in {"fill", "spill"}
    OBVIOUS
  <2>. HIDE DEF due
  <2>2. a = Capped(out, "fill", due)
    BY DEF due
  <2>3. Appended(out, "fill", due, a)
    BY <1>2, <1>3, <2>1, <2>2, CappedAppends
  <2>. QED
    BY <2>3 DEF Appended
<1>5. Patched(n) \in Entry /\ Patched(n).kind = "instr" /\ Patched(n).i = n
  BY PatchedIsEntry
<1>. HIDE DEF Entry
<1>6. /\ b \in Seq(Entry) /\ Len(b) = Len(a) + 1 /\ Len(b) <= MaxOut
      /\ \A k \in 1 .. Len(a) : b[k] = a[k]
      /\ b[Len(a) + 1] = Patched(n)
  BY <1>3, <1>4, <1>5
<1>7. /\ c \in Seq(Entry) /\ Len(c) \in Nat /\ Len(b) \in Nat /\ Len(b) <= Len(c)
      /\ Len(c) <= MaxOut
      /\ \A k \in 1 .. Len(b) : c[k] = b[k]
      /\ \A k \in Len(b) + 1 .. Len(c) : c[k].kind = "spill"
  <2>1. "spill" \in {"fill", "spill"}
    OBVIOUS
  <2>. HIDE DEF dying
  <2>2. c = Capped(b, "spill", dying)
    BY DEF dying
  <2>3. Appended(b, "spill", dying, c)
    BY <1>2, <1>6, <2>1, <2>2, CappedAppends
  <2>. QED
    BY <1>6, <2>3 DEF Appended
<1>. DEFINE L == Len(out)
            A == Len(a)
            C == Len(c)
<1>8. /\ L \in Nat /\ A \in Nat /\ C \in Nat /\ L <= A /\ A + 1 <= C
      /\ DOMAIN out = 1 .. L /\ DOMAIN c = 1 .. C
  BY <1>3, <1>4, <1>6, <1>7
<1>9. \A k \in 1 .. A : c[k] = a[k]
  <2>1. \A k \in 1 .. A : k \in 1 .. Len(b)
    BY <1>6, <1>8
  <2>. QED
    BY <1>6, <1>7, <2>1
<1>10. /\ \A k \in 1 .. L : c[k] = out[k]
       /\ \A k \in L + 1 .. A : c[k].kind = "fill"
       /\ c[A + 1] = Patched(n)
       /\ \A k \in A + 2 .. C : c[k].kind = "spill"
  <2>1. \A k \in 1 .. L : k \in 1 .. A
    BY <1>8
  <2>2. \A k \in L + 1 .. A : k \in 1 .. A
    BY <1>8
  <2>3. A + 1 \in 1 .. Len(b) /\ Len(b) + 1 = A + 2
    BY <1>6, <1>8
  <2>4. \A k \in 1 .. L : c[k] = out[k]
    BY <1>4, <1>9, <2>1
  <2>5. \A k \in L + 1 .. A : c[k].kind = "fill"
    BY <1>4, <1>9, <2>2
  <2>6. c[A + 1] = Patched(n)
    BY <1>6, <1>7, <2>3
  <2>7. \A k \in A + 2 .. C : c[k].kind = "spill"
    BY <1>7, <2>3
  <2>. QED
    BY <2>4, <2>5, <2>6, <2>7
<1>. HIDE DEF L, A, C
<1>11. \A k \in KeptIn(c) : (k \in KeptIn(out) /\ k <= L /\ c[k] = out[k]) \/ k = A + 1
  <2>. SUFFICES ASSUME NEW k \in DOMAIN c, c[k].kind = "instr"
                PROVE  (k \in KeptIn(out) /\ k <= L /\ c[k] = out[k]) \/ k = A + 1
    BY DEF KeptIn
  <2>1. k \in 1 .. L \/ k \in L + 1 .. A \/ k = A + 1 \/ k \in A + 2 .. C
    BY <1>8
  <2>2. CASE k \in 1 .. L
    BY <1>8, <1>10, <2>2 DEF KeptIn
  <2>. QED
    BY <1>10, <2>1, <2>2
<1>12. \A k \in KeptIn(out) : k \in KeptIn(c) /\ c[k] = out[k]
  <2>. SUFFICES ASSUME NEW k \in DOMAIN out, out[k].kind = "instr"
                PROVE  k \in DOMAIN c /\ c[k] = out[k]
    BY DEF KeptIn
  <2>. QED
    BY <1>8, <1>10
<1>13. A + 1 \in KeptIn(c) /\ c[A + 1].i = n /\ c[A + 1].kind = "instr" /\ A + 1 \in DOMAIN c
  <2>1. A + 1 \in DOMAIN c
    BY <1>8
  <2>. QED
    BY <1>5, <1>10, <2>1 DEF KeptIn
<1>14. n \in Nat
  OBVIOUS
<1>15. ASSUME NEW k \in KeptIn(c) PROVE c[k].i \in 0 .. (n + 1) - 1 /\ c[k] = PatchedCode[c[k].i]
  <2>1. CASE k \in KeptIn(out) /\ c[k] = out[k]
    <3>1. out[k].i \in 0 .. n - 1 /\ out[k] = PatchedCode[out[k].i]
      BY <2>1 DEF RewrittenTo
    <3>. QED
      BY <2>1, <3>1
  <2>2. CASE k = A + 1
    <3>1. PatchedCode[n] = Patched(n)
      BY DEF PatchedCode
    <3>. QED
      BY <1>10, <1>13, <1>14, <2>2, <3>1
  <2>. QED
    BY <1>11, <2>1, <2>2
<1>16. ASSUME NEW j \in KeptIn(c), NEW k \in KeptIn(c), j < k PROVE c[j].i < c[k].i
  <2>1. CASE k \in KeptIn(out) /\ k <= L /\ c[k] = out[k]
    <3>1. j # A + 1
      <4>1. j \in Int /\ k \in Int
        BY <1>8 DEF KeptIn
      <4>. QED
        BY <1>8, <1>16, <2>1, <4>1
    <3>2. j \in KeptIn(out) /\ c[j] = out[j]
      BY <1>11, <3>1
    <3>. QED
      BY <1>16, <2>1, <3>2 DEF RewrittenTo
  <2>2. CASE k = A + 1
    <3>1. j # A + 1
      BY <1>8, <1>16, <2>2
    <3>2. j \in KeptIn(out) /\ c[j] = out[j]
      BY <1>11, <3>1
    <3>3. out[j].i \in 0 .. n - 1
      BY <3>2 DEF RewrittenTo
    <3>. QED
      BY <1>13, <2>2, <3>2, <3>3
  <2>. QED
    BY <1>11, <2>1, <2>2
<1>17. ASSUME NEW i \in 0 .. (n + 1) - 1 PROVE \E k \in KeptIn(c) : c[k].i = i
  <2>1. CASE i = n
    BY <1>13, <2>1
  <2>2. CASE i # n
    <3>1. i \in 0 .. n - 1
      BY <2>2
    <3>2. PICK k \in KeptIn(out) : out[k].i = i
      BY <3>1 DEF RewrittenTo
    <3>. QED
      BY <1>12, <3>2
  <2>. QED
    BY <2>1, <2>2
<1>18. ASSUME C < MaxOut - 1, NEW p \in Spilled, NEW i \in vregs[p].def + 1 .. vregs[p].last, i < n + 1
       PROVE  FilledAt(c, p, i)
  <2>1. L < MaxOut - 1 /\ A < MaxOut - 1
    BY <1>3, <1>8, <1>18
  <2>2. p \in DOMAIN vregs /\ vregs[p].def \in Int /\ vregs[p].last \in Int /\ i \in Int
    <3>1. p \in DOMAIN vregs
      BY DEF Spilled
    <3>2. vregs[p].def \in Int /\ vregs[p].last \in Int
      BY <3>1, VregFields DEF AllocInv
    <3>. QED
      BY <3>1, <3>2
  <2>3. CASE i < n
    <3>1. FilledAt(out, p, i)
      BY <2>1, <2>3 DEF RewrittenTo, L
    <3>2. Len(out) <= Len(c) /\ \A k \in 1 .. Len(out) : c[k] = out[k]
      BY <1>8, <1>10 DEF L, C
    <3>. QED
      BY <1>3, <1>7, <3>1, <3>2, StaysFilled
  <2>4. CASE i = n
    <3>1. p \in due
      BY <2>2, <2>4 DEF DueFills
    <3>2. PICK f \in L + 1 .. A : a[f] = [kind |-> "fill", vreg |-> p]
      BY <1>4, <2>1, <3>1 DEF L, A
    <3>3. f \in DOMAIN c /\ f < A + 1 /\ c[f] = a[f]
      BY <1>8, <1>9
    <3>4. \A k \in f .. (A + 1) - 1 : c[k].kind = "fill"
      <4>1. \A k \in f .. (A + 1) - 1 : k \in L + 1 .. A
        BY <1>8
      <4>. QED
        BY <1>10, <4>1
    <3>5. \E ff, u \in DOMAIN c :
             /\ ff < u /\ c[u].kind = "instr" /\ c[u].i = i
             /\ c[ff] = [kind |-> "fill", vreg |-> p]
             /\ \A k \in ff .. u - 1 : c[k].kind = "fill"
      BY <1>13, <2>4, <3>2, <3>3, <3>4
    <3>. QED
      BY <3>5 DEF FilledAt
  <2>. QED
    BY <1>14, <1>18, <2>2, <2>3, <2>4
<1>. QED
  BY <1>7, <1>15, <1>16, <1>17, <1>18 DEF RewrittenTo, C

\* Rewriting changes neither the program nor what is spilled.
LEMMA SameProgram ==
    ASSUME UNCHANGED <<vregs, liveCode>>
    PROVE  PatchedCode' = PatchedCode /\ Spilled' = Spilled
<1>1. Spilled' = Spilled
  BY DEF Spilled
<1>2. PatchedCode' = PatchedCode
  BY DEF PatchedCode, Patched, InstrAt, DefAt, OperandAt, LiveAt
<1>. QED
  BY <1>1, <1>2

\* So what is rewritten stays so.
LEMMA RewrittenNext ==
    ASSUME UNCHANGED <<vregs, liveCode>>, NEW out, NEW n, RewrittenTo(out, n),
           output' = out, next' = n
    PROVE  RewrittenTo(output, next)'
<1>1. PatchedCode' = PatchedCode /\ Spilled' = Spilled
  BY SameProgram
<1>. QED
  BY <1>1 DEF RewrittenTo

\* Nothing is rewritten before colouring has ended.
LEMMA RewriteStarts == LiveInit => RewriteInv
BY DEF LiveInit, RewriteInv, Colored

\* Every step keeps what was rewritten.
LEMMA RewriteKept ==
    AllocInv /\ RewriteInv /\ [LiveNext]_liveVars => RewriteInv'
<1>. SUFFICES ASSUME AllocInv, RewriteInv, [LiveNext]_liveVars PROVE RewriteInv'
  OBVIOUS
<1>1. CASE LiveAnalyze \/ LiveBuild \/ LiveSort \/ LivePlace \/ LiveSpill
  <2>1. ~Colored /\ ~Colored' /\ output' = output
    BY <1>1 DEF LiveAnalyze, LiveBuild, LiveSort, LivePlace, LiveSpill, ColorNext, ColorPlace, Colored
  <2>. QED
    BY <2>1 DEF RewriteInv
<1>2. CASE LiveColored
  <2>1. /\ livePc = "color" /\ livePc' = "apply" /\ next' = 0 /\ output' = output
        /\ UNCHANGED <<vregs, liveCode>>
    BY <1>2 DEF LiveColored
  <2>2. output = <<>>
    BY <2>1 DEF RewriteInv, Colored
  <2>3. RewrittenTo(<<>>, 0)
    <3>1. MaxOut \in Nat /\ KeptIn(<<>>) = {}
      BY LivenessAssumption DEF KeptIn
    <3>2. ASSUME NEW p \in Spilled, NEW i \in vregs[p].def + 1 .. vregs[p].last, i < 0 PROVE FALSE
      <4>1. p \in DOMAIN vregs
        BY DEF Spilled
      <4>2. vregs[p].def \in Int /\ -1 <= vregs[p].def /\ vregs[p].last \in Int
        BY <4>1, VregFields DEF AllocInv
      <4>. QED
        BY <3>2, <4>2
    <3>. QED
      BY <3>1, <3>2 DEF RewrittenTo
  <2>4. RewrittenTo(output, next)'
    BY <2>1, <2>2, <2>3, RewrittenNext
  <2>5. 0 <= Len(liveCode)
    BY DEF AllocInv, AllocTypes
  <2>. QED
    BY <2>1, <2>4, <2>5 DEF RewriteInv, Colored
<1>3. CASE LiveApply
  <2>. DEFINE a == Capped(output, "fill", DueFills(next))
              b == Append(a, Patched(next))
              c == Capped(b, "spill", {p \in Spilled : vregs[p].last = next})
  <2>1. /\ livePc = "apply" /\ livePc' = livePc /\ next < Len(liveCode) /\ Len(output) < MaxOut
        /\ output' = c /\ next' = next + 1 /\ UNCHANGED <<vregs, liveCode>>
    BY <1>3 DEF LiveApply
  <2>2. RewrittenTo(output, next)
    BY <2>1 DEF RewriteInv, Colored
  <2>3. next \in 0 .. Len(liveCode) - 1 /\ Len(liveCode) \in Nat
    BY <2>1 DEF AllocInv, AllocTypes
  <2>4. RewrittenTo(c, next + 1)
    BY <2>1, <2>2, <2>3, OneMoreRewritten
  <2>. HIDE DEF c
  <2>5. RewrittenTo(output, next)'
    BY <2>1, <2>4, RewrittenNext
  <2>6. next' <= Len(liveCode')
    BY <2>1, <2>3
  <2>. QED
    BY <2>1, <2>5, <2>6 DEF RewriteInv, Colored
<1>4. CASE LiveEnd
  <2>1. /\ livePc = "apply" /\ livePc' = "allocated" /\ (next = Len(liveCode) \/ Len(output) >= MaxOut)
        /\ output' = output /\ next' = next /\ UNCHANGED <<vregs, liveCode>>
    BY <1>4 DEF LiveEnd
  <2>2. RewrittenTo(output, next) /\ next <= Len(liveCode)
    BY <2>1 DEF RewriteInv, Colored
  <2>3. RewrittenTo(output, next)'
    BY <2>1, <2>2, RewrittenNext
  <2>. QED
    BY <2>1, <2>2, <2>3 DEF RewriteInv, Colored
<1>5. CASE UNCHANGED liveVars
  <2>1. livePc' = livePc /\ output' = output /\ next' = next /\ UNCHANGED <<vregs, liveCode>>
    BY <1>5 DEF liveVars
  <2>2. CASE Colored
    <3>1. RewrittenTo(output, next) /\ next <= Len(liveCode)
      BY <2>2 DEF RewriteInv
    <3>2. RewrittenTo(output, next)'
      BY <2>1, <3>1, RewrittenNext
    <3>. QED
      BY <2>1, <2>2, <3>1, <3>2 DEF RewriteInv, Colored
  <2>3. CASE ~Colored
    BY <2>1, <2>3 DEF RewriteInv, Colored
  <2>. QED
    BY <2>2, <2>3
<1>. QED
  BY <1>1, <1>2, <1>3, <1>4, <1>5 DEF LiveNext

\* tu_live_apply has rewritten the instructions before next, and nothing else.
THEOREM RewriteInvariant == LiveSpec => []RewriteInv
BY AllocInvariant, RewriteStarts, RewriteKept, PTL DEF LiveSpec

\* Instructions stand in order and none is missing before the cut.
LEMMA RewriteKeepsProgram == AllocInv /\ RewriteInv => KeepsProgram
<1>. SUFFICES ASSUME AllocInv, RewriteInv PROVE KeepsProgram
  OBVIOUS
<1>. DEFINE kept == {k \in DOMAIN output : output[k].kind = "instr"}
<1>1. MaxOut \in Nat
  BY LivenessAssumption
<1>2. CASE ~Colored
  <2>1. output = <<>> /\ livePc # "allocated"
    BY <1>2 DEF RewriteInv, Colored
  <2>2. Len(output) = 0 /\ kept = {}
    BY <2>1
  <2>. QED
    BY <1>1, <2>1, <2>2 DEF KeepsProgram
<1>3. CASE Colored
  <2>1. kept = KeptIn(output)
    BY DEF KeptIn
  <2>2. /\ output \in Seq(Entry) /\ Len(output) <= MaxOut
        /\ \A k \in kept : output[k].i \in 0 .. next - 1
        /\ \A j, k \in kept : j < k => output[j].i < output[k].i
        /\ \A i \in 0 .. next - 1 : \E k \in kept : output[k].i = i
        /\ livePc = "allocated" => next = Len(liveCode) \/ Len(output) >= MaxOut
    BY <1>3, <2>1 DEF RewriteInv, RewrittenTo
  <2>3. next \in Nat /\ kept \subseteq Nat /\ Len(output) \in Nat
    BY <2>2 DEF AllocInv, AllocTypes
  <2>. HIDE DEF kept
  <2>4. ASSUME NEW k \in kept
        PROVE  output[k].i = 0 \/ \E j \in kept : j < k /\ output[j].i = output[k].i - 1
    <3>. SUFFICES ASSUME output[k].i # 0
                  PROVE  \E j \in kept : j < k /\ output[j].i = output[k].i - 1
      OBVIOUS
    <3>. DEFINE i == output[k].i
    <3>1. i \in Int /\ i - 1 \in 0 .. next - 1
      BY <2>2, <2>3
    <3>. HIDE DEF i
    <3>2. PICK j \in kept : output[j].i = i - 1
      BY <2>2, <3>1
    <3>3. j # k
      BY <3>1, <3>2 DEF i
    <3>4. ~ (k < j)
      <4>. SUFFICES ASSUME k < j PROVE FALSE
        OBVIOUS
      <4>1. i < i - 1
        BY <2>2, <3>2 DEF i
      <4>. QED
        BY <3>1, <4>1
    <3>5. j < k
      BY <2>3, <3>3, <3>4
    <3>. QED
      BY <3>2, <3>5 DEF i
  <2>5. livePc = "allocated" => \/ \A i \in 0 .. Len(liveCode) - 1 : \E k \in kept : output[k].i = i
                                \/ Len(output) = MaxOut
    BY <1>1, <2>2, <2>3
  <2>. QED
    BY <2>2, <2>4, <2>5 DEF KeepsProgram, kept
<1>. QED
  BY <1>2, <1>3

\* A spilled register is filled before each use.
LEMMA RewriteFills == AllocInv /\ RewriteInv => FilledBeforeUse
<1>. SUFFICES ASSUME AllocInv, RewriteInv, livePc = "allocated", Len(output) < MaxOut - 1,
                     NEW p \in Spilled, NEW i \in vregs[p].def + 1 .. vregs[p].last
              PROVE  FilledAt(output, p, i)
  BY DEF FilledBeforeUse, FilledAt
<1>1. RewrittenTo(output, next) /\ (next = Len(liveCode) \/ Len(output) >= MaxOut)
  BY DEF RewriteInv, Colored
<1>2. next = Len(liveCode)
  <2>1. Len(output) \in Nat /\ MaxOut \in Nat
    BY <1>1, LivenessAssumption DEF RewrittenTo
  <2>. QED
    BY <1>1, <2>1
<1>3. i < next
  <2>1. p \in DOMAIN vregs
    BY DEF Spilled
  <2>2. vregs[p].def \in Int /\ vregs[p].last \in Int /\ vregs[p].last < Looked
    BY <2>1, VregFields DEF AllocInv
  <2>3. Looked = next /\ next \in Nat
    BY <1>2 DEF Looked, AllocInv, AllocTypes
  <2>. QED
    BY <2>2, <2>3
<1>. QED
  BY <1>1, <1>3 DEF RewrittenTo

\* The newest register alive is the one a product's operand was loaded into.
LEMMA ProductOperand ==
    ASSUME AllocInv, livePc # "analyze", NEW i \in 0 .. Len(liveCode) - 1, InstrAt(i).op = "MMA",
           NEW where \in {"W", "A"}, NEW own, NEW p \in NewestBefore(where, i)
    PROVE  OperandAt(i, where, own) = Narrow(vregs[p].offset)
<1>. DEFINE E == Earlier(vregs, where, i)
            A == LiveAt(i, where)
            instr == liveCode[i + 1]
<1>1. E # {} /\ p = Max(E)
  BY DEF NewestBefore, Earlier
<1>2. DOMAIN vregs = 1 .. Len(vregs) /\ Len(vregs) \in Nat
  BY VregFields DEF AllocInv
<1>3. E \in SUBSET (1 .. Len(vregs))
  BY <1>2 DEF Earlier
<1>4. p \in E /\ \A q \in E : q <= p
  <2>. HIDE DEF E
  <2>. QED
    BY <1>1, <1>2, <1>3, LastPosition
<1>5. instr \in Instruction /\ instr.op = "MMA"
  <2>1. liveCode \in Seq(LiveInstrs) /\ i + 1 \in 1 .. Len(liveCode)
    BY DEF AllocInv, AllocTypes
  <2>2. instr \in LiveInstrs
    BY <2>1
  <2>. QED
    BY <2>2, LivenessAssumption DEF InstrAt
<1>6. /\ Defines(instr)[1].region = "O"
      /\ DOMAIN Uses(instr) = {1, 2} /\ Uses(instr)[1].region = "W" /\ Uses(instr)[2].region = "A"
  <2>. HIDE DEF instr
  <2>. QED
    BY <1>5, Operands
<1>7. ~Redefined(vregs, where, i)
  <2>. SUFFICES ASSUME NEW q \in DOMAIN vregs, vregs[q].region = where, vregs[q].def = i PROVE FALSE
    BY DEF Redefined
  <2>1. vregs[q].region = Defines(liveCode[vregs[q].def + 1])[1].region
    BY DEF AllocInv, AllocRanges, Origins
  <2>2. vregs[q].region = "O"
    BY <1>6, <2>1
  <2>. QED
    BY <2>2
<1>8. ReadKept(vregs, where, i)
  <2>1. ReadsKept(vregs, liveCode, Len(liveCode))
    BY DEF AllocInv, AllocRanges, Looked
  <2>2. \A k \in DOMAIN Uses(instr) : ReadKept(vregs, Uses(instr)[k].region, i)
    BY <2>1 DEF ReadsKept
  <2>. QED
    BY <1>6, <2>2
<1>9. vregs[p].last >= i
  BY <1>1, <1>7, <1>8 DEF ReadKept
<1>10. p \in DOMAIN vregs /\ vregs[p].region = where /\ vregs[p].def \in 0 .. i - 1
  BY <1>4 DEF Earlier
<1>11. p \in A
  <2>1. vregs[p].last \in Int
    BY <1>10, VregFields DEF AllocInv
  <2>. QED
    BY <1>9, <1>10, <2>1 DEF LiveAt
<1>12. ASSUME NEW q \in A PROVE q \in E /\ q \in 1 .. Len(vregs)
  <2>1. q \in DOMAIN vregs /\ vregs[q].region = where /\ vregs[q].def \in 0 .. i
    BY DEF LiveAt
  <2>2. vregs[q].def # i
    BY <1>7, <2>1 DEF Redefined
  <2>. QED
    BY <1>2, <2>1, <2>2 DEF Earlier
<1>13. Max(A) = p
  <2>. HIDE DEF A, E
  <2>1. A \in SUBSET (1 .. Len(vregs)) /\ \A q \in A : q <= p
    BY <1>4, <1>12
  <2>. QED
    BY <1>2, <1>11, <2>1, GreatestIs
<1>. QED
  BY <1>11, <1>13 DEF OperandAt

\* A product with a place of its own has its operands shifted.
LEMMA ProductMoved ==
    ASSUME NEW i, InstrAt(i).op = "MMA", NEW p \in DefAt(i), vregs[p].offset # Unplaced
    PROVE  /\ Patched(i).dim0 = OperandAt(i, "W", InstrAt(i).dim0)
           /\ Patched(i).low = OperandAt(i, "A", InstrAt(i).immLow)
<1>. DEFINE instr == InstrAt(i)
            at == {vregs[q].offset : q \in DefAt(i)} \ {Unplaced}
            offset == CHOOSE x \in at : TRUE
            own == [kind |-> "instr", i |-> i, dim0 |-> instr.dim0, low |-> instr.immLow,
                    high |-> instr.immHigh]
            product == [own EXCEPT !.high = IF Defines(instr)[1].region = "O" THEN Narrow(offset) ELSE @,
                                   !.low = OperandAt(i, "A", @), !.dim0 = OperandAt(i, "W", @)]
<1>1. at # {}
  OBVIOUS
<1>2. Patched(i) = product
  BY <1>1 DEF Patched
<1>. HIDE DEF at, offset, instr
<1>3. product.dim0 = OperandAt(i, "W", instr.dim0) /\ product.low = OperandAt(i, "A", instr.immLow)
  OBVIOUS
<1>. HIDE DEF product
<1>. QED
  BY <1>2, <1>3 DEF instr

\* Products read where their operands were placed.
LEMMA RewriteFollows == AllocInv /\ RewriteInv => ProductsFollow
<1>. SUFFICES ASSUME AllocInv, RewriteInv, NEW k \in DOMAIN output, output[k].kind = "instr",
                     InstrAt(output[k].i).op = "MMA", \E p \in DefAt(output[k].i) : Placed(p)
              PROVE  /\ \A p \in NewestBefore("W", output[k].i) :
                           output[k].dim0 = Narrow(vregs[p].offset)
                     /\ \A p \in NewestBefore("A", output[k].i) :
                           output[k].low = Narrow(vregs[p].offset)
  BY DEF ProductsFollow
<1>. DEFINE i == output[k].i
<1>1. Colored
  <2>. SUFFICES ASSUME ~Colored PROVE FALSE
    OBVIOUS
  <2>1. output = <<>>
    BY DEF RewriteInv
  <2>. QED
    BY <2>1
<1>2. livePc # "analyze"
  BY <1>1 DEF Colored
<1>3. RewrittenTo(output, next) /\ next <= Len(liveCode) /\ next \in Nat /\ Len(liveCode) \in Nat
  BY <1>1 DEF RewriteInv, AllocInv, AllocTypes
<1>4. i \in 0 .. next - 1 /\ output[k] = PatchedCode[i]
  BY <1>3 DEF RewrittenTo, KeptIn
<1>5. i \in 0 .. Len(liveCode) - 1
  BY <1>3, <1>4
<1>6. output[k] = Patched(i)
  BY <1>4, <1>5 DEF PatchedCode
<1>7. PICK p \in DefAt(i) : vregs[p].offset # Unplaced
  BY DEF Placed
<1>8. InstrAt(i).op = "MMA"
  OBVIOUS
<1>. HIDE DEF i
<1>9. /\ output[k].dim0 = OperandAt(i, "W", InstrAt(i).dim0)
      /\ output[k].low = OperandAt(i, "A", InstrAt(i).immLow)
  BY <1>6, <1>7, <1>8, ProductMoved
<1>10. \A q \in NewestBefore("W", i) : OperandAt(i, "W", InstrAt(i).dim0) = Narrow(vregs[q].offset)
  BY <1>2, <1>5, <1>8, ProductOperand
<1>11. \A q \in NewestBefore("A", i) : OperandAt(i, "A", InstrAt(i).immLow) = Narrow(vregs[q].offset)
  BY <1>2, <1>5, <1>8, ProductOperand
<1>. QED
  BY <1>9, <1>10, <1>11 DEF i

\* For every program, configuration and room for the result, tu_live_apply loses nothing
\* before the output is full, fills what was spilled before each use, and patch_instruction
\* has products read where their operands were placed.
THEOREM PatchesKeepTheMeaning == LiveSpec => []PatchesKeepMeaning
<1>1. AllocInv /\ RewriteInv => PatchesKeepMeaning
  BY RewriteKeepsProgram, RewriteFills, RewriteFollows DEF PatchesKeepMeaning
<1>. QED
  BY <1>1, AllocInvariant, RewriteInvariant, PTL

=============================================================================
