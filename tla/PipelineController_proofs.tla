---------------------- MODULE PipelineController_proofs ----------------------
(***************************************************************************)
(* Theorems about the tile pipeline, for every depth, every mixture of     *)
(* tiles and whatever the engine rejects: its types; that its slots, its   *)
(* count of active tiles and the engine's queues agree about which tiles   *)
(* are in flight; that its statistics' differences do not wrap; and that   *)
(* a pipeline of one slot computes on the data it loaded.                  *)
(*                                                                         *)
(* The inductive invariant of the first two adds that a channel never      *)
(* holds two descriptors of one slot: with two, issuing the first would    *)
(* leave the second waiting for a tile that has gone on.  The one of the   *)
(* statistics counts what the tiles in flight still owe to each total; the *)
(* last follows a tile's data from its load to its store.                  *)
(***************************************************************************)
EXTENDS PipelineController, DataLemmas

\* A slot is in a channel's queue once.
HeldOnce ==
    \A w \in Ways : \A k, l \in DOMAIN queued[w] : queued[w][k] = queued[w][l] => k = l

\* A call in progress has initialized the pipeline; one that is not has nothing
\* in the engine, so that its next initialization may drop the slots.
EmptyBefore == /\ pc # "idle" => initialized
               /\ ~initialized => \A w \in Ways : queued[w] = <<>>

PipelineInv == /\ TypeOK /\ request \in Request /\ EmptyBefore
               /\ CountsActive /\ HoldsOnlyAwaited /\ HeldOnce

Data == 0 .. MaxSubmissions

-----------------------------------------------------------------------------
(* The operations on the double buffer keep its type. *)

LEMMA RegionKept ==
    ASSUME NEW r \in Region(Data)
    PROVE  /\ Enable(r) \in Region(Data)
           /\ Swap(r) \in Region(Data)
           /\ NotifyShadowWrite(Swap(r)) \in Region(Data)
           /\ \A d \in Data : WriteActive(r, d) \in Region(Data)
           /\ \A d \in Data : SingleBuffered(d) \in Region(Data)
<1>1. \A e \in BOOLEAN, d \in Data : Unswapped(e, d) \in Region(Data)
  BY PipelineAssumption DEF Region, Unswapped, Data
<1>2. Enable(r) \in Region(Data)
  <2>1. r.primary \in Data
    BY DEF Region
  <2>. QED
    BY <1>1, <2>1 DEF Enable
<1>3. Swap(r) \in Region(Data)
  <2>1. [r EXCEPT !.active = 1 - r.active] \in Region(Data)
    BY DEF Region
  <2>2. [[r EXCEPT !.active = 1 - r.active] EXCEPT !.dirty = FALSE] \in Region(Data)
    BY <2>1 DEF Region
  <2>. QED
    BY <2>2 DEF Swap
<1>4. NotifyShadowWrite(Swap(r)) \in Region(Data)
  BY <1>3 DEF NotifyShadowWrite, Region
<1>5. \A d \in Data : WriteActive(r, d) \in Region(Data)
  BY DEF WriteActive, Region
<1>6. \A d \in Data : SingleBuffered(d) \in Region(Data)
  BY <1>1 DEF SingleBuffered
<1>. QED
  BY <1>2, <1>3, <1>4, <1>5, <1>6

\* Where the data of a load goes.
LEMMA LoadMovesType ==
    ASSUME NEW r \in Region(Data), NEW t \in Tile
    PROVE  LoadMoves(r, t) \in Region(Data)
<1>1. t.data \in Data
  BY DEF Tile, Data
<1>. QED
  BY <1>1, RegionKept DEF LoadMoves

LEMMA FlushedType == TypeOK => Flushed \subseteq Region(Data)
<1>. SUFFICES ASSUME TypeOK, NEW r \in Flushed PROVE r \in Region(Data)
  OBVIOUS
<1>1. region \in Region(Data)
  BY DEF TypeOK, Data
<1>2. \A k \in DOMAIN queued["load"] : slots[queued["load"][k]].data \in Data
  BY DEF TypeOK, Ways, Tile, Data
<1>. QED
  BY <1>1, <1>2, RegionKept DEF Flushed

\* What an issued descriptor makes of its tile: a load touches the load alone.
LEMMA IssueType ==
    ASSUME NEW t \in Tile
    PROVE  /\ Issue(t, "load") \in Tile /\ Issue(t, "store") \in Tile
           /\ Issue(t, "load").stage = t.stage /\ Issue(t, "load").store = t.store
           /\ Issue(t, "store").stage = t.stage /\ Issue(t, "store").load = t.load
           /\ Issue(t, "load").load = IF t.bad THEN "stuck" ELSE "completed"
           /\ Issue(t, "store").store = "completed"
           /\ \A w \in Ways : /\ Issue(t, w).data = t.data /\ Issue(t, w).cycles = t.cycles
                             /\ Issue(t, w).bad = t.bad
BY DEF Issue, Tile, DescState, Ways

\* The three outcomes of a submission: freed, queued or issued at once.
LEMMA OutcomeType ==
    ASSUME NEW t \in Tile, NEW w \in Ways, NEW out \in Outcomes(t, w)
    PROVE  /\ out.tile \in Tile /\ out.queues \in BOOLEAN
           /\ out.tile.stage = t.stage /\ out.tile.data = t.data
           /\ out.tile.cycles = t.cycles /\ out.tile.bad = t.bad
           /\ w = "load" => /\ out.tile.load \in {"freed", "queued", "stuck", "completed"}
                            /\ out.tile.load = "completed" => ~t.bad
           /\ w = "store" => out.tile.store \in {"freed", "queued", "completed"}
           /\ w = "load" => out.tile.store = t.store
           /\ w = "store" => out.tile.load = t.load
           /\ w = "load" => (out.queues <=> out.tile.load = "queued")
           /\ w = "store" => (out.queues <=> out.tile.store = "queued")
<1>1. CASE w = "load"
  <2>1. \/ out = [tile |-> [t EXCEPT !.load = "freed"], queues |-> FALSE]
        \/ out = [tile |-> [t EXCEPT !.load = "queued"], queues |-> TRUE]
        \/ out = [tile |-> Issue(t, "load"), queues |-> FALSE]
    BY <1>1 DEF Outcomes
  <2>2. \/ out.tile = [t EXCEPT !.load = "freed"] /\ out.queues = FALSE
        \/ out.tile = [t EXCEPT !.load = "queued"] /\ out.queues = TRUE
        \/ out.tile = Issue(t, "load") /\ out.queues = FALSE
    BY <2>1
  <2>4. CASE out.tile = [t EXCEPT !.load = "freed"] /\ out.queues = FALSE
    <3>1. /\ out.tile \in Tile /\ out.tile.stage = t.stage /\ out.tile.load = "freed"
          /\ out.tile.store = t.store /\ out.tile.data = t.data /\ out.tile.cycles = t.cycles
          /\ out.tile.bad = t.bad
      BY <2>4 DEF Tile, DescState
    <3>. QED
      BY <1>1, <2>4, <3>1
  <2>5. CASE out.tile = [t EXCEPT !.load = "queued"] /\ out.queues = TRUE
    <3>1. /\ out.tile \in Tile /\ out.tile.stage = t.stage /\ out.tile.load = "queued"
          /\ out.tile.store = t.store /\ out.tile.data = t.data /\ out.tile.cycles = t.cycles
          /\ out.tile.bad = t.bad
      BY <2>5 DEF Tile, DescState
    <3>. QED
      BY <1>1, <2>5, <3>1
  <2>6. CASE out.tile = Issue(t, "load") /\ out.queues = FALSE
    <3>1. /\ out.tile.data = t.data /\ out.tile.cycles = t.cycles /\ out.tile.bad = t.bad
          /\ out.tile.stage = t.stage /\ out.tile \in Tile
      BY <2>6, IssueType DEF Ways
    <3>2. out.tile.store = t.store /\ out.tile.load = (IF t.bad THEN "stuck" ELSE "completed")
      BY <2>6, IssueType
    <3>. QED
      BY <1>1, <2>6, <3>1, <3>2
  <2>. QED
    BY <2>2, <2>4, <2>5, <2>6
<1>2. CASE w = "store"
  <2>1. \/ out = [tile |-> [t EXCEPT !.store = "freed"], queues |-> FALSE]
        \/ out = [tile |-> [t EXCEPT !.store = "queued"], queues |-> TRUE]
        \/ out = [tile |-> Issue(t, "store"), queues |-> FALSE]
    BY <1>2 DEF Outcomes
  <2>2. \/ out.tile = [t EXCEPT !.store = "freed"] /\ out.queues = FALSE
        \/ out.tile = [t EXCEPT !.store = "queued"] /\ out.queues = TRUE
        \/ out.tile = Issue(t, "store") /\ out.queues = FALSE
    BY <2>1
  <2>4. CASE out.tile = [t EXCEPT !.store = "freed"] /\ out.queues = FALSE
    <3>1. /\ out.tile \in Tile /\ out.tile.stage = t.stage /\ out.tile.store = "freed"
          /\ out.tile.load = t.load /\ out.tile.data = t.data /\ out.tile.cycles = t.cycles
          /\ out.tile.bad = t.bad
      BY <2>4 DEF Tile, DescState
    <3>. QED
      BY <1>2, <2>4, <3>1
  <2>5. CASE out.tile = [t EXCEPT !.store = "queued"] /\ out.queues = TRUE
    <3>1. /\ out.tile \in Tile /\ out.tile.stage = t.stage /\ out.tile.store = "queued"
          /\ out.tile.load = t.load /\ out.tile.data = t.data /\ out.tile.cycles = t.cycles
          /\ out.tile.bad = t.bad
      BY <2>5 DEF Tile, DescState
    <3>. QED
      BY <1>2, <2>5, <3>1
  <2>6. CASE out.tile = Issue(t, "store") /\ out.queues = FALSE
    <3>1. /\ out.tile.data = t.data /\ out.tile.cycles = t.cycles /\ out.tile.bad = t.bad
          /\ out.tile.stage = t.stage /\ out.tile \in Tile
      BY <2>6, IssueType DEF Ways
    <3>2. out.tile.load = t.load /\ out.tile.store = "completed"
      BY <2>6, IssueType
    <3>. QED
      BY <1>2, <2>6, <3>1, <3>2
  <2>. QED
    BY <2>2, <2>4, <2>5, <2>6
<1>. QED
  BY <1>1, <1>2 DEF Ways

-----------------------------------------------------------------------------
(* The number of tiles in flight. *)

Flying(ss) == {i \in Slots : ss[i].stage \in {"PRELOAD", "COMPUTE", "STORE"}}

LEMMA FlyingFinite ==
    ASSUME NEW ss
    PROVE  IsFiniteSet(Flying(ss)) /\ Cardinality(Flying(ss)) \in Nat
<1>1. IsFiniteSet(Slots)
  BY PipelineAssumption, FS_Interval DEF Slots
<1>2. IsFiniteSet(Flying(ss))
  BY <1>1, FS_Subset DEF Flying
<1>. QED
  BY <1>2, FS_CardinalityType

LEMMA FlyingSame ==
    ASSUME NEW ss, NEW tt, \A i \in Slots : tt[i].stage = ss[i].stage
    PROVE  Flying(tt) = Flying(ss)
BY DEF Flying

\* A tile takes off, or lands.
LEMMA FlyingChanged ==
    ASSUME NEW ss, NEW i \in Slots, NEW t, ss \in [Slots -> Tile]
    PROVE  /\ i \notin Flying(ss) /\ t.stage \in {"PRELOAD", "COMPUTE", "STORE"}
                => Cardinality(Flying([ss EXCEPT ![i] = t])) = Cardinality(Flying(ss)) + 1
           /\ i \in Flying(ss) /\ t.stage \notin {"PRELOAD", "COMPUTE", "STORE"}
                => Cardinality(Flying([ss EXCEPT ![i] = t])) = Cardinality(Flying(ss)) - 1
           /\ i \in Flying(ss) /\ t.stage \in {"PRELOAD", "COMPUTE", "STORE"}
                => Flying([ss EXCEPT ![i] = t]) = Flying(ss)
           /\ i \in Flying(ss) => Cardinality(Flying(ss)) \in Nat \ {0}
<1>0. IsFiniteSet(Flying(ss)) /\ Cardinality(Flying(ss)) \in Nat
  BY FlyingFinite
<1>1. ASSUME i \notin Flying(ss), t.stage \in {"PRELOAD", "COMPUTE", "STORE"}
      PROVE  Cardinality(Flying([ss EXCEPT ![i] = t])) = Cardinality(Flying(ss)) + 1
  <2>1. Flying([ss EXCEPT ![i] = t]) = Flying(ss) \cup {i}
    BY <1>1 DEF Flying
  <2>. QED
    BY <1>0, <1>1, <2>1, FS_AddElement
<1>2. ASSUME i \in Flying(ss), t.stage \notin {"PRELOAD", "COMPUTE", "STORE"}
      PROVE  Cardinality(Flying([ss EXCEPT ![i] = t])) = Cardinality(Flying(ss)) - 1
  <2>1. Flying([ss EXCEPT ![i] = t]) = Flying(ss) \ {i}
    BY <1>2 DEF Flying
  <2>. QED
    BY <1>0, <1>2, <2>1, FS_RemoveElement
<1>3. ASSUME i \in Flying(ss), t.stage \in {"PRELOAD", "COMPUTE", "STORE"}
      PROVE  Flying([ss EXCEPT ![i] = t]) = Flying(ss)
  BY <1>3 DEF Flying
<1>4. ASSUME i \in Flying(ss)
      PROVE  Cardinality(Flying(ss)) \in Nat \ {0}
  BY <1>0, <1>4, FS_EmptySet
<1>. QED
  BY <1>1, <1>2, <1>3, <1>4

LEMMA CountsFlying == CountsActive <=> active_count = Cardinality(Flying(slots))
BY DEF CountsActive, Flying, InFlight

-----------------------------------------------------------------------------
(* The engine's tick: what it issues leaves its channel. *)

LEMMA TickKeeps ==
    ASSUME PipelineInv, DmaTick
    PROVE  /\ slots' \in [Slots -> Tile] /\ queued' \in [Ways -> Seq(Slots)]
           /\ region' \in Region(Data)
           /\ \A i \in Slots : slots'[i].stage = slots[i].stage
           /\ HoldsOnlyAwaited' /\ HeldOnce'
           /\ (\A w \in Ways : queued[w] = <<>>) => \A w \in Ways : queued'[w] = <<>>
<1>0. PICK W \in SUBSET {w \in Ways : queued[w] # <<>>} :
        /\ queued' = [w \in Ways |-> IF w \in W THEN Tail(queued[w]) ELSE queued[w]]
        /\ slots' = [i \in Slots |->
              LET loaded == IF "load" \in W /\ Head(queued["load"]) = i
                            THEN Issue(slots[i], "load") ELSE slots[i]
              IN  IF "store" \in W /\ Head(queued["store"]) = i
                  THEN Issue(loaded, "store") ELSE loaded]
        /\ region' = IF "load" \in W THEN LoadMoves(region, slots[Head(queued["load"])])
                     ELSE region
  BY DEF DmaTick
<1>1. slots \in [Slots -> Tile] /\ queued \in [Ways -> Seq(Slots)] /\ region \in Region(Data)
  BY DEF PipelineInv, TypeOK, Data
<1>2. \A w \in W : w \in Ways /\ queued[w] \in Seq(Slots) /\ queued[w] # <<>>
  BY <1>1
<1>3. ASSUME NEW w \in W
      PROVE  /\ Head(queued[w]) \in Slots /\ Tail(queued[w]) \in Seq(Slots)
             /\ 1 \in DOMAIN queued[w] /\ Head(queued[w]) = queued[w][1]
             /\ \A k \in DOMAIN Tail(queued[w]) :
                   k + 1 \in DOMAIN queued[w] /\ Tail(queued[w])[k] = queued[w][k + 1]
                   /\ k \in Nat \ {0}
  BY <1>2
<1>4. queued' \in [Ways -> Seq(Slots)]
  BY <1>0, <1>1, <1>3
<1>5. ASSUME NEW i \in Slots
      PROVE  /\ slots'[i] \in Tile /\ slots'[i].stage = slots[i].stage
             /\ ~("load" \in W /\ Head(queued["load"]) = i) => slots'[i].load = slots[i].load
             /\ ~("store" \in W /\ Head(queued["store"]) = i) => slots'[i].store = slots[i].store
  <2>. DEFINE loaded == IF "load" \in W /\ Head(queued["load"]) = i
                        THEN Issue(slots[i], "load") ELSE slots[i]
  <2>1. /\ loaded \in Tile /\ loaded.stage = slots[i].stage /\ loaded.store = slots[i].store
        /\ ~("load" \in W /\ Head(queued["load"]) = i) => loaded.load = slots[i].load
    BY <1>1, IssueType
  <2>2. slots'[i] = IF "store" \in W /\ Head(queued["store"]) = i
                    THEN Issue(loaded, "store") ELSE loaded
    BY <1>0
  <2>. HIDE DEF loaded
  <2>. QED
    BY <2>1, <2>2, IssueType
<1>6. slots' \in [Slots -> Tile]
  <2>1. DOMAIN slots' = Slots /\ slots' = [i \in Slots |-> slots'[i]]
    BY <1>0
  <2>. QED
    BY <1>5, <2>1
<1>7. region' \in Region(Data)
  <2>1. "load" \in W => slots[Head(queued["load"])] \in Tile
    BY <1>1, <1>3
  <2>. QED
    BY <1>0, <1>1, <2>1, LoadMovesType
\* What a channel still holds, it held behind its head.
<1>. DEFINE Was(w, k) == IF w \in W THEN k + 1 ELSE k
<1>8. \A w \in Ways : \A k \in DOMAIN queued'[w] :
        /\ Was(w, k) \in DOMAIN queued[w] /\ queued'[w][k] = queued[w][Was(w, k)]
        /\ k \in Nat /\ (w \in W => Was(w, k) # 1)
  <2>. SUFFICES ASSUME NEW w \in Ways, NEW k \in DOMAIN queued'[w]
                PROVE  /\ Was(w, k) \in DOMAIN queued[w] /\ queued'[w][k] = queued[w][Was(w, k)]
                       /\ k \in Nat /\ (w \in W => Was(w, k) # 1)
    OBVIOUS
  <2>1. CASE w \in W
    <3>1. queued'[w] = Tail(queued[w])
      BY <1>0, <2>1
    <3>2. /\ k + 1 \in DOMAIN queued[w] /\ queued'[w][k] = queued[w][k + 1]
          /\ k \in Nat \ {0}
      BY <1>3, <2>1, <3>1
    <3>. QED
      BY <2>1, <3>2
  <2>2. CASE w \notin W
    <3>1. queued'[w] = queued[w]
      BY <1>0, <2>2
    <3>2. k \in Nat
      BY <1>1, <3>1
    <3>. QED
      BY <2>2, <3>1, <3>2
  <2>. QED
    BY <2>1, <2>2
<1>9. HeldOnce'
  <2>. SUFFICES ASSUME NEW w \in Ways, NEW k \in DOMAIN queued'[w], NEW l \in DOMAIN queued'[w],
                       queued'[w][k] = queued'[w][l]
                PROVE  k = l
    BY DEF HeldOnce
  <2>1. /\ Was(w, k) \in DOMAIN queued[w] /\ Was(w, l) \in DOMAIN queued[w]
        /\ queued[w][Was(w, k)] = queued[w][Was(w, l)] /\ k \in Nat /\ l \in Nat
    BY <1>8
  <2>2. Was(w, k) = Was(w, l)
    BY <2>1 DEF PipelineInv, HeldOnce
  <2>. QED
    BY <2>1, <2>2
<1>10. HoldsOnlyAwaited'
  <2>. SUFFICES ASSUME NEW w \in Ways, NEW k \in DOMAIN queued'[w]
                PROVE  LET t == slots'[queued'[w][k]] IN
                       IF w = "load" THEN t.stage = "PRELOAD" /\ t.load = "queued"
                       ELSE t.stage = "STORE" /\ t.store = "queued"
    BY DEF HoldsOnlyAwaited
  <2>. DEFINE i == queued[w][Was(w, k)]
  <2>1. Was(w, k) \in DOMAIN queued[w] /\ queued'[w][k] = i /\ (w \in W => Was(w, k) # 1)
    BY <1>8
  <2>2. i \in Slots
    BY <1>1, <2>1
  <2>3. w \in W => Head(queued[w]) # i
    BY <1>3, <2>1 DEF PipelineInv, HeldOnce
  <2>4. IF w = "load" THEN slots[i].stage = "PRELOAD" /\ slots[i].load = "queued"
        ELSE slots[i].stage = "STORE" /\ slots[i].store = "queued"
    BY <2>1 DEF PipelineInv, HoldsOnlyAwaited
  <2>. HIDE DEF i
  <2>5. CASE w = "load"
    <3>1. slots'[i].stage = "PRELOAD" /\ slots'[i].load = "queued"
      BY <1>5, <2>2, <2>3, <2>4, <2>5
    <3>. QED
      BY <2>1, <2>5, <3>1
  <2>6. CASE w = "store"
    <3>1. slots'[i].stage = "STORE" /\ slots'[i].store = "queued"
      BY <1>5, <2>2, <2>3, <2>4, <2>6
    <3>. QED
      BY <2>1, <2>6, <3>1
  <2>. QED
    BY <2>5, <2>6 DEF Ways
<1>11. (\A w \in Ways : queued[w] = <<>>) => \A w \in Ways : queued'[w] = <<>>
  BY <1>0
<1>. QED
  BY <1>4, <1>5, <1>6, <1>7, <1>9, <1>10, <1>11

\* A submission appends a slot no queue holds.
LEMMA QueueKeeps ==
    ASSUME PipelineInv, NEW w \in Ways, NEW i \in Slots, NEW t \in Tile, NEW queues \in BOOLEAN,
           \A k \in DOMAIN queued["load"] : queued["load"][k] # i,
           \A k \in DOMAIN queued["store"] : queued["store"][k] # i,
           queued' = Queued(w, i, queues), slots' = [slots EXCEPT ![i] = t],
           queues => IF w = "load" THEN t.stage = "PRELOAD" /\ t.load = "queued"
                     ELSE t.stage = "STORE" /\ t.store = "queued"
    PROVE  /\ slots' \in [Slots -> Tile] /\ queued' \in [Ways -> Seq(Slots)]
           /\ HoldsOnlyAwaited' /\ HeldOnce'
<1>1. slots \in [Slots -> Tile] /\ queued \in [Ways -> Seq(Slots)]
  BY DEF PipelineInv, TypeOK
<1>2. queued[w] \in Seq(Slots) /\ Append(queued[w], i) \in Seq(Slots)
  BY <1>1
<1>3. queued' \in [Ways -> Seq(Slots)]
  BY <1>1, <1>2 DEF Queued
<1>4. slots' \in [Slots -> Tile]
  BY <1>1
<1>5. ASSUME NEW v \in Ways, NEW k \in DOMAIN queued'[v]
      PROVE  \/ k \in DOMAIN queued[v] /\ queued'[v][k] = queued[v][k] /\ queued[v][k] # i
             \/ v = w /\ queues /\ k = Len(queued[w]) + 1 /\ queued'[v][k] = i
  <2>1. CASE queues /\ v = w
    <3>1. queued'[v] = Append(queued[w], i)
      BY <1>1, <2>1 DEF Queued
    <3>2. \A j \in DOMAIN queued[w] : queued[w][j] # i
      BY DEF Ways
    <3>3. k \in 1 .. Len(queued[w]) + 1 /\ DOMAIN queued[w] = 1 .. Len(queued[w])
      BY <1>2, <3>1
    <3>4. CASE k = Len(queued[w]) + 1
      <4>1. queued'[v][k] = i
        BY <1>2, <3>1, <3>4
      <4>. QED
        BY <2>1, <3>4, <4>1
    <3>5. CASE k \in 1 .. Len(queued[w])
      <4>1. queued'[v][k] = queued[w][k]
        BY <1>2, <3>1, <3>5
      <4>. QED
        BY <2>1, <3>2, <3>3, <3>5, <4>1
    <3>. QED
      BY <1>2, <3>3, <3>4, <3>5
  <2>2. CASE ~(queues /\ v = w)
    <3>1. queued'[v] = queued[v]
      BY <1>1, <2>2 DEF Queued
    <3>. QED
      BY <3>1 DEF Ways
  <2>. QED
    BY <2>1, <2>2
<1>6. HeldOnce'
  <2>. SUFFICES ASSUME NEW v \in Ways, NEW k \in DOMAIN queued'[v], NEW l \in DOMAIN queued'[v],
                       queued'[v][k] = queued'[v][l]
                PROVE  k = l
    BY DEF HeldOnce
  <2>. QED
    BY <1>5 DEF PipelineInv, HeldOnce
<1>7. HoldsOnlyAwaited'
  <2>. SUFFICES ASSUME NEW v \in Ways, NEW k \in DOMAIN queued'[v]
                PROVE  LET s == slots'[queued'[v][k]] IN
                       IF v = "load" THEN s.stage = "PRELOAD" /\ s.load = "queued"
                       ELSE s.stage = "STORE" /\ s.store = "queued"
    BY DEF HoldsOnlyAwaited
  <2>1. CASE v = w /\ queues /\ queued'[v][k] = i
    BY <1>1, <2>1 DEF Ways
  <2>2. CASE k \in DOMAIN queued[v] /\ queued'[v][k] = queued[v][k] /\ queued[v][k] # i
    <3>1. queued[v][k] \in Slots
      BY <1>1, <2>2
    <3>2. slots'[queued'[v][k]] = slots[queued[v][k]]
      BY <1>1, <2>2, <3>1
    <3>. QED
      BY <2>2, <3>2 DEF PipelineInv, HoldsOnlyAwaited
  <2>. QED
    BY <1>5, <2>1, <2>2
<1>. QED
  BY <1>3, <1>4, <1>6, <1>7

-----------------------------------------------------------------------------
(* The statistics stay natural numbers. *)

LEMMA StatsType ==
    ASSUME NEW s \in [DOMAIN NoStats -> Nat], NEW n \in Nat, NEW m \in Nat
    PROVE  /\ [s EXCEPT !.sequential = @ + n] \in [DOMAIN NoStats -> Nat]
           /\ [s EXCEPT !.load = @ + n] \in [DOMAIN NoStats -> Nat]
           /\ [s EXCEPT !.store = @ + n] \in [DOMAIN NoStats -> Nat]
           /\ [s EXCEPT !.overlappedStore = @ + n] \in [DOMAIN NoStats -> Nat]
           /\ [s EXCEPT !.compute = @ + n, !.overlappedLoad = @ + m] \in [DOMAIN NoStats -> Nat]
<1>1. DOMAIN NoStats = {"compute", "load", "store", "overlappedLoad", "overlappedStore", "sequential"}
  BY DEF NoStats
<1>. DEFINE computed == [s EXCEPT !.compute = s.compute + n]
<1>2. computed \in [DOMAIN NoStats -> Nat]
  BY <1>1
<1>3. [computed EXCEPT !.overlappedLoad = computed.overlappedLoad + m] \in [DOMAIN NoStats -> Nat]
  <2>. HIDE DEF computed
  <2>. QED
    BY <1>1, <1>2
<1>. QED
  BY <1>1, <1>3

LEMMA SizeType ==
    ASSUME NEW state, NEW cycles \in Nat, NEW n \in Size(state, cycles)
    PROVE  n \in Nat
BY PipelineAssumption DEF Size

\* Time that passes moves no tile to another stage.
LEMMA LaterType ==
    ASSUME NEW ss \in [Slots -> Tile]
    PROVE  /\ Later(ss) \in [Slots -> Tile]
           /\ \A i \in Slots : /\ Later(ss)[i].stage = ss[i].stage
                              /\ Later(ss)[i].load = ss[i].load
                              /\ Later(ss)[i].store = ss[i].store
<1>1. ASSUME NEW i \in Slots
      PROVE  /\ Later(ss)[i] \in Tile /\ Later(ss)[i].stage = ss[i].stage
             /\ Later(ss)[i].load = ss[i].load /\ Later(ss)[i].store = ss[i].store
  <2>1. ss[i] \in Tile
    OBVIOUS
  <2>2. Later(ss)[i] = IF ss[i].left = 0 THEN ss[i] ELSE [ss[i] EXCEPT !.left = ss[i].left - 1]
    BY DEF Later
  <2>. QED
    BY <2>1, <2>2 DEF Tile
<1>. QED
  BY <1>1 DEF Later

\* What the tiles look like to the engine and to the count is unchanged.
LEMMA SameStages ==
    ASSUME PipelineInv, UNCHANGED <<active_count, queued>>, slots' \in [Slots -> Tile],
           \A i \in Slots : /\ slots'[i].stage = slots[i].stage
                          /\ slots'[i].load = slots[i].load
                          /\ slots'[i].store = slots[i].store
    PROVE  CountsActive' /\ HoldsOnlyAwaited' /\ HeldOnce'
<1>1. Flying(slots') = Flying(slots)
  BY FlyingSame
<1>2. CountsActive'
  BY <1>1 DEF PipelineInv, CountsActive, Flying, InFlight
<1>3. \A w \in Ways : \A k \in DOMAIN queued[w] : queued[w][k] \in Slots
  BY DEF PipelineInv, TypeOK
<1>4. HoldsOnlyAwaited'
  BY <1>3 DEF PipelineInv, HoldsOnlyAwaited
<1>. QED
  BY <1>2, <1>4 DEF PipelineInv, HeldOnce

-----------------------------------------------------------------------------
(* The calls. *)

\* A pipeline that begins again has no tiles, and the engine none of its.
LEMMA ClearedKeeps ==
    ASSUME Cleared, \A w \in Ways : queued'[w] = <<>>
    PROVE  /\ slots' \in [Slots -> Tile] /\ active_count' \in Nat
           /\ stats' \in [DOMAIN NoStats -> Nat]
           /\ processed' \in BOOLEAN /\ rejected' \in BOOLEAN
           /\ CountsActive' /\ HoldsOnlyAwaited' /\ HeldOnce'
<1>1. slots' \in [Slots -> Tile]
  BY PipelineAssumption DEF Cleared, IdleTile, Tile, DescState
<1>2. {i \in Slots : slots'[i].stage \in {"PRELOAD", "COMPUTE", "STORE"}} = {}
  BY DEF Cleared, IdleTile
<1>3. CountsActive'
  BY <1>2, FS_EmptySet DEF CountsActive, InFlight, Cleared
<1>4. stats' \in [DOMAIN NoStats -> Nat]
  BY DEF Cleared, NoStats
<1>5. \A w \in Ways : DOMAIN queued'[w] = {}
  OBVIOUS
<1>6. HoldsOnlyAwaited' /\ HeldOnce'
  BY <1>5 DEF HoldsOnlyAwaited, HeldOnce
<1>. QED
  BY <1>1, <1>3, <1>4, <1>6 DEF Cleared

LEMMA InitializeKeeps ==
    ASSUME PipelineInv, NEW c \in Configs, Initialize(c)
    PROVE  PipelineInv'
<1>1. \A w \in Ways : queued'[w] = <<>>
  BY DEF PipelineInv, EmptyBefore, Initialize
<1>2. /\ slots' \in [Slots -> Tile] /\ active_count' \in Nat
      /\ stats' \in [DOMAIN NoStats -> Nat]
      /\ processed' \in BOOLEAN /\ rejected' \in BOOLEAN
      /\ CountsActive' /\ HoldsOnlyAwaited' /\ HeldOnce'
  BY <1>1, ClearedKeeps DEF Initialize
<1>3. depth' \in 0 .. MaxDepth /\ depth' > 0
  BY PipelineAssumption DEF Initialize, Clamped
<1>4. region' \in Region(Data)
  BY FlushedType DEF Initialize, PipelineInv, TypeOK, Data
<1>5. queued' \in [Ways -> Seq(Slots)]
  BY DEF Initialize, PipelineInv, TypeOK
<1>6. initialized' = TRUE /\ loadOverlap' \in BOOLEAN /\ storeOverlap' \in BOOLEAN
  BY PipelineAssumption DEF Initialize
<1>7. UNCHANGED <<async, callVars>>
  BY DEF Initialize
<1>8. TypeOK'
  BY <1>2, <1>3, <1>4, <1>5, <1>6, <1>7 DEF PipelineInv, TypeOK, callVars, Data
<1>. QED
  BY <1>2, <1>6, <1>7, <1>8 DEF PipelineInv, EmptyBefore, callVars

LEMMA ResetKeeps ==
    ASSUME PipelineInv, NEW keep \in BOOLEAN, Reset(keep)
    PROVE  PipelineInv'
<1>1. \A w \in Ways : queued'[w] = <<>>
  BY DEF Reset
<1>2. /\ slots' \in [Slots -> Tile] /\ active_count' \in Nat
      /\ stats' \in [DOMAIN NoStats -> Nat]
      /\ processed' \in BOOLEAN /\ rejected' \in BOOLEAN
      /\ CountsActive' /\ HoldsOnlyAwaited' /\ HeldOnce'
  BY <1>1, ClearedKeeps DEF Reset
<1>3. depth' \in 0 .. MaxDepth
  BY PipelineAssumption DEF Reset, PipelineInv, TypeOK
<1>4. region' \in Region(Data)
  BY FlushedType DEF Reset, PipelineInv
<1>5. queued' \in [Ways -> Seq(Slots)]
  BY DEF Reset
<1>6. initialized' = FALSE /\ loadOverlap' \in BOOLEAN /\ storeOverlap' \in BOOLEAN
  BY DEF Reset
<1>7. pc = "idle" /\ UNCHANGED <<async, callVars>>
  BY DEF Reset
<1>8. TypeOK'
  BY <1>2, <1>3, <1>4, <1>5, <1>6, <1>7 DEF PipelineInv, TypeOK, callVars, Data
<1>. QED
  BY <1>1, <1>2, <1>6, <1>7, <1>8 DEF PipelineInv, EmptyBefore, callVars

LEMMA SubmitKeeps ==
    ASSUME PipelineInv, NEW r \in Requests, Submit(r)
    PROVE  PipelineInv'
<1>1. r \in Request /\ r.cycles \in Nat
  BY PipelineAssumption DEF Request
<1>2. OneIfNone(r.load, LoadCycles) \in Nat /\ OneIfNone(r.store, StoreCycles) \in Nat
  BY PipelineAssumption DEF OneIfNone
<1>. DEFINE n == OneIfNone(r.load, LoadCycles) + r.cycles + OneIfNone(r.store, StoreCycles)
<1>3. n \in Nat
  BY <1>1, <1>2
<1>4. stats' = [stats EXCEPT !.sequential = @ + n]
  <2>1. stats.sequential \in Nat
    BY DEF PipelineInv, TypeOK, NoStats
  <2>2. stats.sequential + OneIfNone(r.load, LoadCycles) + r.cycles + OneIfNone(r.store, StoreCycles)
          = stats.sequential + n
    BY <1>1, <1>2, <2>1
  <2>. QED
    BY <2>2 DEF Submit
<1>. HIDE DEF n
<1>5. stats' \in [DOMAIN NoStats -> Nat]
  BY <1>3, <1>4, StatsType DEF PipelineInv, TypeOK
<1>6. depth' \in 0 .. MaxDepth /\ depth' > 0 /\ initialized' = TRUE
  BY PipelineAssumption DEF Submit, PipelineInv, TypeOK
<1>7. UNCHANGED <<slots, active_count, queued>>
  BY DEF Submit
<1>8. CountsActive' /\ HoldsOnlyAwaited' /\ HeldOnce'
  BY <1>7 DEF PipelineInv, CountsActive, InFlight, HoldsOnlyAwaited, HeldOnce
<1>9. TypeOK'
  <2>1. loadOverlap' \in BOOLEAN /\ storeOverlap' \in BOOLEAN
    BY DEF Submit
  <2>2. submissions' \in 0 .. MaxSubmissions /\ rounds' \in 0 .. MaxRounds /\ pc' = "submit"
    BY PipelineAssumption DEF Submit, PipelineInv, TypeOK
  <2>3. UNCHANGED <<async, slots, active_count, processed, rejected, queued, region, caller, cursor>>
    BY DEF Submit
  <2>. QED
    BY <1>5, <1>6, <2>1, <2>2, <2>3 DEF PipelineInv, TypeOK
<1>. QED
  BY <1>1, <1>6, <1>8, <1>9 DEF Submit, PipelineInv, EmptyBefore

\* The calls that change no tile.
LEMMA BookkeepingKeeps ==
    ASSUME PipelineInv, GiveUp \/ Sync \/ SyncReturns \/ ClientAdvance \/ PassOver \/ AdvanceReturns
    PROVE  PipelineInv'
<1>1. UNCHANGED <<configVars, slots, active_count, processed, stats, rejected, queued, region, submissions>>
  BY DEF GiveUp, Sync, SyncReturns, ClientAdvance, PassOver, AdvanceReturns, NextSlot
<1>2. /\ pc \in {"idle", "submit", "sync", "tick", "advance"} /\ caller \in {"client", "submit", "sync"}
      /\ rounds \in 0 .. MaxRounds /\ cursor \in 0 .. MaxDepth /\ depth \in 0 .. MaxDepth
      /\ request \in Request /\ NoRequest \in Request /\ (pc # "idle" => initialized)
      /\ MaxRounds \in Nat /\ MaxDepth \in Nat
  BY PipelineAssumption DEF PipelineInv, TypeOK, EmptyBefore, NoRequest, Request
<1>. DEFINE Kept == /\ pc' \in {"idle", "submit", "sync", "tick", "advance"}
                    /\ caller' \in {"client", "submit", "sync"}
                    /\ rounds' \in 0 .. MaxRounds /\ cursor' \in 0 .. MaxDepth
                    /\ request' \in Request /\ (pc' # "idle" => initialized)
<1>4. Kept
  <2>1. CASE GiveUp \/ SyncReturns
    BY <1>2, <2>1 DEF GiveUp, SyncReturns
  <2>2. CASE Sync \/ ClientAdvance
    BY <1>2, <2>2 DEF Sync, ClientAdvance
  <2>3. CASE PassOver
    BY <1>2, <2>3 DEF PassOver, NextSlot
  <2>4. CASE AdvanceReturns
    BY <1>2, <2>4 DEF AdvanceReturns
  <2>. QED
    BY <2>1, <2>2, <2>3, <2>4
<1>5. TypeOK'
  BY <1>1, <1>4 DEF PipelineInv, TypeOK, configVars
<1>6. CountsActive' /\ HoldsOnlyAwaited' /\ HeldOnce'
  BY <1>1 DEF PipelineInv, CountsActive, InFlight, HoldsOnlyAwaited, HeldOnce
<1>7. EmptyBefore'
  BY <1>1, <1>4 DEF PipelineInv, EmptyBefore, configVars
<1>. QED
  BY <1>4, <1>5, <1>6, <1>7 DEF PipelineInv

\* Time passes, by a client's hand or in a round of a wait.
LEMMA ClockKeeps ==
    ASSUME PipelineInv, ClientClock \/ Round
    PROVE  PipelineInv'
<1>1. slots \in [Slots -> Tile]
  BY DEF PipelineInv, TypeOK
<1>2. /\ slots' = Later(slots)
      /\ UNCHANGED <<configVars, active_count, processed, stats, rejected, queued, region, cursor,
                     request, submissions>>
  BY DEF ClientClock, Round, callVars
<1>3. /\ slots' \in [Slots -> Tile]
      /\ \A i \in Slots : /\ slots'[i].stage = slots[i].stage
                         /\ slots'[i].load = slots[i].load
                         /\ slots'[i].store = slots[i].store
  BY <1>1, <1>2, LaterType
<1>4. CountsActive' /\ HoldsOnlyAwaited' /\ HeldOnce'
  BY <1>2, <1>3, SameStages
<1>5. /\ pc' \in {"idle", "tick"} /\ (pc' # "idle" => initialized)
      /\ caller' \in {"client", "submit", "sync"} /\ rounds' \in 0 .. MaxRounds
  BY PipelineAssumption DEF ClientClock, Round, callVars, PipelineInv, TypeOK, EmptyBefore
<1>6. TypeOK'
  BY <1>2, <1>3, <1>5 DEF PipelineInv, TypeOK, configVars
<1>7. EmptyBefore'
  BY <1>2, <1>5 DEF PipelineInv, EmptyBefore, configVars
<1>. QED
  BY <1>2, <1>4, <1>6, <1>7 DEF PipelineInv

\* The engine's tick, the pipeline's or another client's.
LEMMA TicksKeep ==
    ASSUME PipelineInv, Tick \/ EngineTick
    PROVE  PipelineInv'
<1>1. DmaTick
  BY DEF Tick, EngineTick
<1>2. UNCHANGED <<configVars, active_count, processed, stats, rejected, caller, rounds, request, submissions>>
  BY DEF Tick, EngineTick, callVars
<1>3. /\ slots' \in [Slots -> Tile] /\ queued' \in [Ways -> Seq(Slots)]
      /\ region' \in Region(Data)
      /\ \A i \in Slots : slots'[i].stage = slots[i].stage
      /\ HoldsOnlyAwaited' /\ HeldOnce'
      /\ (\A w \in Ways : queued[w] = <<>>) => \A w \in Ways : queued'[w] = <<>>
  BY <1>1, TickKeeps
<1>4. Flying(slots') = Flying(slots)
  BY <1>3, FlyingSame
<1>5. CountsActive'
  BY <1>2, <1>4 DEF PipelineInv, CountsActive, Flying, InFlight
<1>6. /\ pc' \in {"idle", "advance"} /\ cursor' \in 0 .. MaxDepth
      /\ pc' # "idle" => initialized
  BY PipelineAssumption DEF Tick, EngineTick, callVars, PipelineInv, TypeOK, EmptyBefore
<1>7. TypeOK'
  BY <1>2, <1>3, <1>6 DEF PipelineInv, TypeOK, configVars, Data
<1>8. EmptyBefore'
  BY <1>2, <1>3, <1>6 DEF PipelineInv, EmptyBefore, configVars
<1>. QED
  BY <1>2, <1>3, <1>5, <1>7, <1>8 DEF PipelineInv

\* A tile takes the lowest free slot, which no transfer is under way for.
LEMMA PlaceKeeps ==
    ASSUME PipelineInv, Place
    PROVE  PipelineInv'
<1>. DEFINE t == NewTile(request)
<1>1. PICK i \in Free, out \in IF request.load = "none" THEN {[tile |-> t, queues |-> FALSE]}
                               ELSE Outcomes(t, "load") :
         /\ slots' = [slots EXCEPT ![i] = out.tile]
         /\ queued' = Queued("load", i, out.queues)
         /\ region' = IF out.tile.load = "completed" THEN LoadMoves(region, out.tile) ELSE region
         /\ rejected' = (rejected \/ out.tile.load = "freed")
  BY DEF Place
<1>2. /\ pc = "submit" /\ pc' = "idle" /\ request' = NoRequest /\ active_count' = active_count + 1
      /\ stats' = [stats EXCEPT !.load = @ + IF request.load = "none" THEN 0 ELSE LoadCycles]
      /\ UNCHANGED <<configVars, processed, caller, cursor, rounds, submissions>>
  BY DEF Place
<1>3. i \in Slots /\ ~InFlight(i)
  BY PipelineAssumption DEF Free, Slots, PipelineInv, TypeOK
<1>4. /\ t \in Tile /\ t.stage = (IF InPlace(request) THEN "COMPUTE" ELSE "PRELOAD")
      /\ t.load = "null"
  BY DEF NewTile, Tile, DescState, PipelineInv, TypeOK, Request
<1>. HIDE DEF t
<1>5. /\ out.tile \in Tile /\ out.queues \in BOOLEAN /\ out.tile.stage = t.stage
      /\ out.queues => out.tile.load = "queued" /\ request.load # "none"
  <2>1. CASE request.load = "none"
    <3>1. out.tile = t /\ out.queues = FALSE
      BY <1>1, <2>1
    <3>. QED
      BY <1>4, <3>1
  <2>2. CASE request.load # "none"
    <3>1. out \in Outcomes(t, "load") /\ "load" \in Ways
      BY <1>1, <2>2 DEF Ways
    <3>. QED
      BY <1>4, <2>2, <3>1, OutcomeType
  <2>. QED
    BY <2>1, <2>2
<1>6. out.queues => out.tile.stage = "PRELOAD"
  BY <1>4, <1>5 DEF InPlace
<1>7. /\ \A k \in DOMAIN queued["load"] : queued["load"][k] # i
      /\ \A k \in DOMAIN queued["store"] : queued["store"][k] # i
  <2>1. "load" \in Ways /\ "store" \in Ways
    BY DEF Ways
  <2>. QED
    BY <1>3, <2>1 DEF PipelineInv, HoldsOnlyAwaited, InFlight
<1>8. /\ slots' \in [Slots -> Tile] /\ queued' \in [Ways -> Seq(Slots)]
      /\ HoldsOnlyAwaited' /\ HeldOnce'
  <2>1. "load" \in Ways
    BY DEF Ways
  <2>. QED
    BY <1>1, <1>3, <1>5, <1>6, <1>7, <2>1, QueueKeeps
<1>9. CountsActive'
  <2>1. slots \in [Slots -> Tile] /\ i \notin Flying(slots)
    BY <1>3 DEF PipelineInv, TypeOK, Flying, InFlight
  <2>2. out.tile.stage \in {"PRELOAD", "COMPUTE", "STORE"}
    BY <1>4, <1>5
  <2>3. Cardinality(Flying(slots')) = Cardinality(Flying(slots)) + 1
    BY <1>1, <1>3, <2>1, <2>2, FlyingChanged
  <2>. QED
    BY <1>2, <2>3 DEF PipelineInv, CountsActive, Flying, InFlight
<1>10. region' \in Region(Data)
  BY <1>1, <1>5, LoadMovesType DEF PipelineInv, TypeOK, Data
<1>11. stats' \in [DOMAIN NoStats -> Nat]
  <2>1. (IF request.load = "none" THEN 0 ELSE LoadCycles) \in Nat
    BY PipelineAssumption
  <2>. QED
    BY <1>2, <2>1, StatsType DEF PipelineInv, TypeOK
<1>12. rejected' \in BOOLEAN
  BY <1>1
<1>13. active_count' \in Nat
  BY <1>2 DEF PipelineInv, TypeOK
<1>14. TypeOK'
  BY <1>2, <1>8, <1>10, <1>11, <1>12, <1>13 DEF PipelineInv, TypeOK, configVars, Data
<1>15. EmptyBefore' /\ request' \in Request
  BY <1>2 DEF PipelineInv, EmptyBefore, configVars, NoRequest, Request
<1>. QED
  BY <1>8, <1>9, <1>14, <1>15 DEF PipelineInv

-----------------------------------------------------------------------------
(* The slots' turns in tu_pipeline_advance. *)

\* The slot whose turn it is, and what its next stage leaves as it was.
LEMMA VisitedSlot ==
    ASSUME PipelineInv, pc = "advance", cursor < depth
    PROVE  cursor \in Slots /\ cursor + 1 \in 0 .. MaxDepth /\ slots[cursor] \in Tile
BY PipelineAssumption DEF PipelineInv, TypeOK, Slots

\* A tile that goes on without the engine changes no queue.
LEMMA VisitQueues ==
    ASSUME PipelineInv, NEW i \in Slots, NEW t \in Tile, slots' = [slots EXCEPT ![i] = t],
           UNCHANGED queued,
           \A k \in DOMAIN queued["load"] : queued["load"][k] # i,
           \A k \in DOMAIN queued["store"] : queued["store"][k] # i
    PROVE  /\ slots' \in [Slots -> Tile] /\ queued' \in [Ways -> Seq(Slots)]
           /\ HoldsOnlyAwaited' /\ HeldOnce'
<1>1. queued' = Queued("load", i, FALSE) /\ "load" \in Ways /\ FALSE \in BOOLEAN
  BY DEF Queued, Ways
<1>. QED
  BY <1>1, QueueKeeps

LEMMA PreloadedKeeps ==
    ASSUME PipelineInv, Preloaded
    PROVE  PipelineInv'
<1>. DEFINE t == slots[cursor]
<1>1. /\ pc = "advance" /\ cursor < depth /\ t.stage = "PRELOAD" /\ TRUE \in SeenDone(t.load)
      /\ region' = IF t.load = "null" THEN Swap(region) ELSE NotifyShadowWrite(Swap(region))
      /\ slots' = [slots EXCEPT ![cursor] = [t EXCEPT !.stage = "COMPUTE", !.left = t.cycles]]
      /\ cursor' = cursor + 1
      /\ UNCHANGED <<pc, caller, rounds, request, submissions, configVars, active_count, processed,
                     rejected, queued>>
  BY DEF Preloaded, Advances, NextSlot
<1>2. cursor \in Slots /\ cursor' \in 0 .. MaxDepth /\ t \in Tile
  BY <1>1, VisitedSlot
<1>. DEFINE next == [t EXCEPT !.stage = "COMPUTE", !.left = t.cycles]
<1>3. next \in Tile /\ next.stage = "COMPUTE"
  <2>1. [t EXCEPT !.stage = "COMPUTE"] \in Tile
    BY <1>2 DEF Tile
  <2>2. t.cycles \in Nat
    BY <1>2 DEF Tile
  <2>3. /\ [[t EXCEPT !.stage = "COMPUTE"] EXCEPT !.left = t.cycles] \in Tile
        /\ [[t EXCEPT !.stage = "COMPUTE"] EXCEPT !.left = t.cycles].stage = "COMPUTE"
    BY <1>2, <2>1, <2>2 DEF Tile
  <2>. QED
    BY <2>3
<1>4. /\ \A k \in DOMAIN queued["load"] : queued["load"][k] # cursor
      /\ \A k \in DOMAIN queued["store"] : queued["store"][k] # cursor
  <2>1. "load" \in Ways /\ "store" \in Ways
    BY DEF Ways
  <2>2. t.load # "queued"
    BY <1>1 DEF SeenDone
  <2>. QED
    BY <1>1, <2>1, <2>2 DEF PipelineInv, HoldsOnlyAwaited
<1>5. slots' = [slots EXCEPT ![cursor] = next]
  BY <1>1
<1>. HIDE DEF next
<1>6. /\ slots' \in [Slots -> Tile] /\ queued' \in [Ways -> Seq(Slots)]
      /\ HoldsOnlyAwaited' /\ HeldOnce'
  BY <1>1, <1>2, <1>3, <1>4, <1>5, VisitQueues
<1>7. CountsActive'
  <2>1. slots \in [Slots -> Tile] /\ cursor \in Flying(slots)
    BY <1>1, <1>2 DEF PipelineInv, TypeOK, Flying
  <2>2. Flying(slots') = Flying(slots)
    BY <1>2, <1>3, <1>5, <2>1, FlyingChanged
  <2>. QED
    BY <1>1, <2>2 DEF PipelineInv, CountsActive, Flying, InFlight
<1>8. region' \in Region(Data)
  BY <1>1, RegionKept DEF PipelineInv, TypeOK, Data
<1>9. stats' \in [DOMAIN NoStats -> Nat]
  <2>1. PICK bytes \in Size(t.load, LoadCycles) :
           stats' = [stats EXCEPT !.compute = @ + t.cycles,
                        !.overlappedLoad = @ + IF active_count >= 2 /\ loadOverlap
                                               THEN bytes ELSE 0]
    BY DEF Preloaded
  <2>2. t.cycles \in Nat /\ (IF active_count >= 2 /\ loadOverlap THEN bytes ELSE 0) \in Nat
    BY <1>2, SizeType, PipelineAssumption DEF Tile
  <2>. QED
    BY <2>1, <2>2, StatsType DEF PipelineInv, TypeOK
<1>10. TypeOK'
  BY <1>1, <1>2, <1>6, <1>8, <1>9 DEF PipelineInv, TypeOK, configVars, Data
<1>11. EmptyBefore'
  BY <1>1 DEF PipelineInv, EmptyBefore, configVars
<1>. QED
  BY <1>1, <1>6, <1>7, <1>10, <1>11 DEF PipelineInv

LEMMA ComputedKeeps ==
    ASSUME PipelineInv, Computed
    PROVE  PipelineInv'
<1>. DEFINE t == [slots[cursor] EXCEPT !.stage = "STORE"]
<1>1. PICK out \in IF t.store = "null" THEN {[tile |-> t, queues |-> FALSE]} ELSE Outcomes(t, "store") :
         /\ slots' = [slots EXCEPT ![cursor] = out.tile]
         /\ queued' = Queued("store", cursor, out.queues)
         /\ rejected' = (rejected \/ out.tile.store = "freed")
         /\ \E bytes \in Size(out.tile.store, StoreCycles) : stats' = [stats EXCEPT !.store = @ + bytes]
  BY DEF Computed
<1>2. /\ pc = "advance" /\ cursor < depth /\ slots[cursor].stage = "COMPUTE"
      /\ cursor' = cursor + 1
      /\ UNCHANGED <<pc, caller, rounds, request, submissions, configVars, active_count, processed, region>>
  BY DEF Computed, Advances, NextSlot
<1>3. cursor \in Slots /\ cursor' \in 0 .. MaxDepth /\ slots[cursor] \in Tile
  BY <1>2, VisitedSlot
<1>4. t \in Tile /\ t.stage = "STORE"
  BY <1>3 DEF Tile
<1>. HIDE DEF t
<1>5. /\ out.tile \in Tile /\ out.queues \in BOOLEAN /\ out.tile.stage = "STORE"
      /\ out.queues => out.tile.store = "queued"
  <2>1. CASE t.store = "null"
    <3>1. out.tile = t /\ out.queues = FALSE
      BY <1>1, <2>1
    <3>. QED
      BY <1>4, <3>1
  <2>2. CASE t.store # "null"
    <3>1. out \in Outcomes(t, "store") /\ "store" \in Ways
      BY <1>1, <2>2 DEF Ways
    <3>. QED
      BY <1>4, <2>2, <3>1, OutcomeType
  <2>. QED
    BY <2>1, <2>2
<1>6. /\ \A k \in DOMAIN queued["load"] : queued["load"][k] # cursor
      /\ \A k \in DOMAIN queued["store"] : queued["store"][k] # cursor
  <2>1. "load" \in Ways /\ "store" \in Ways
    BY DEF Ways
  <2>. QED
    BY <1>2, <2>1 DEF PipelineInv, HoldsOnlyAwaited
<1>7. /\ slots' \in [Slots -> Tile] /\ queued' \in [Ways -> Seq(Slots)]
      /\ HoldsOnlyAwaited' /\ HeldOnce'
  <2>1. "store" \in Ways /\ "store" # "load"
    BY DEF Ways
  <2>. QED
    BY <1>1, <1>3, <1>5, <1>6, <2>1, QueueKeeps
<1>8. CountsActive'
  <2>1. slots \in [Slots -> Tile] /\ cursor \in Flying(slots)
    BY <1>2, <1>3 DEF PipelineInv, TypeOK, Flying
  <2>2. Flying(slots') = Flying(slots)
    BY <1>1, <1>3, <1>5, <2>1, FlyingChanged
  <2>. QED
    BY <1>2, <2>2 DEF PipelineInv, CountsActive, Flying, InFlight
<1>9. stats' \in [DOMAIN NoStats -> Nat]
  <2>1. PICK bytes \in Size(out.tile.store, StoreCycles) : stats' = [stats EXCEPT !.store = @ + bytes]
    BY <1>1
  <2>2. bytes \in Nat
    BY SizeType, PipelineAssumption
  <2>. QED
    BY <2>1, <2>2, StatsType DEF PipelineInv, TypeOK
<1>10. rejected' \in BOOLEAN
  BY <1>1
<1>11. TypeOK'
  BY <1>2, <1>3, <1>7, <1>9, <1>10 DEF PipelineInv, TypeOK, configVars, Data
<1>12. EmptyBefore'
  BY <1>2 DEF PipelineInv, EmptyBefore, configVars
<1>. QED
  BY <1>2, <1>7, <1>8, <1>11, <1>12 DEF PipelineInv

LEMMA StoredKeeps ==
    ASSUME PipelineInv, Stored
    PROVE  PipelineInv'
<1>. DEFINE t == slots[cursor]
            next == [t EXCEPT !.stage = "DONE", !.load = "null", !.store = "null"]
<1>1. /\ pc = "advance" /\ cursor < depth /\ t.stage = "STORE" /\ TRUE \in SeenDone(t.store)
      /\ slots' = [slots EXCEPT ![cursor] = next]
      /\ active_count' = active_count - 1 /\ processed' = TRUE
      /\ cursor' = cursor + 1
      /\ UNCHANGED <<pc, caller, rounds, request, submissions, configVars, rejected, queued, region>>
  BY DEF Stored, Advances, NextSlot
<1>2. cursor \in Slots /\ cursor' \in 0 .. MaxDepth /\ t \in Tile
  BY <1>1, VisitedSlot
<1>3. next \in Tile /\ next.stage = "DONE"
  <2>. DEFINE u == [t EXCEPT !.stage = "DONE"]
  <2>1. u \in Tile /\ u.stage = "DONE"
    BY <1>2 DEF Tile
  <2>. HIDE DEF u
  <2>. DEFINE v == [u EXCEPT !.load = "null"]
  <2>2. v \in Tile /\ v.stage = "DONE"
    BY <2>1 DEF Tile, DescState
  <2>. HIDE DEF v
  <2>3. [v EXCEPT !.store = "null"] \in Tile /\ [v EXCEPT !.store = "null"].stage = "DONE"
    BY <2>2 DEF Tile, DescState
  <2>. QED
    BY <2>3 DEF u, v
<1>4. /\ \A k \in DOMAIN queued["load"] : queued["load"][k] # cursor
      /\ \A k \in DOMAIN queued["store"] : queued["store"][k] # cursor
  <2>1. "load" \in Ways /\ "store" \in Ways
    BY DEF Ways
  <2>2. t.store # "queued"
    BY <1>1 DEF SeenDone
  <2>. QED
    BY <1>1, <2>1, <2>2 DEF PipelineInv, HoldsOnlyAwaited
<1>. HIDE DEF next
<1>5. /\ slots' \in [Slots -> Tile] /\ queued' \in [Ways -> Seq(Slots)]
      /\ HoldsOnlyAwaited' /\ HeldOnce'
  BY <1>1, <1>2, <1>3, <1>4, VisitQueues
<1>6. slots \in [Slots -> Tile] /\ cursor \in Flying(slots)
  BY <1>1, <1>2 DEF PipelineInv, TypeOK, Flying
<1>7. CountsActive' /\ active_count' \in Nat
  <2>1. /\ Cardinality(Flying(slots')) = Cardinality(Flying(slots)) - 1
        /\ Cardinality(Flying(slots)) \in Nat \ {0}
    BY <1>1, <1>2, <1>3, <1>6, FlyingChanged
  <2>2. active_count = Cardinality(Flying(slots))
    BY CountsFlying DEF PipelineInv
  <2>3. active_count' = Cardinality(Flying(slots')) /\ active_count' \in Nat
    BY <1>1, <2>1, <2>2
  <2>. QED
    BY <2>3 DEF CountsActive, Flying, InFlight
<1>8. stats' \in [DOMAIN NoStats -> Nat]
  <2>1. PICK bytes \in Size(t.store, StoreCycles) :
           stats' = [stats EXCEPT !.overlappedStore =
                        @ + IF active_count - 1 >= 1 /\ storeOverlap THEN bytes ELSE 0]
    BY DEF Stored
  <2>2. (IF active_count - 1 >= 1 /\ storeOverlap THEN bytes ELSE 0) \in Nat
    BY SizeType, PipelineAssumption
  <2>. QED
    BY <2>1, <2>2, StatsType DEF PipelineInv, TypeOK
<1>9. TypeOK'
  BY <1>1, <1>2, <1>5, <1>7, <1>8 DEF PipelineInv, TypeOK, configVars, Data
<1>10. EmptyBefore'
  BY <1>1 DEF PipelineInv, EmptyBefore, configVars
<1>. QED
  BY <1>1, <1>5, <1>7, <1>9, <1>10 DEF PipelineInv

-----------------------------------------------------------------------------
LEMMA InitKeeps == Init => PipelineInv
<1>. SUFFICES ASSUME Init PROVE PipelineInv
  OBVIOUS
<1>1. slots \in [Slots -> Tile] /\ stats \in [DOMAIN NoStats -> Nat]
  BY PipelineAssumption DEF Init, IdleTile, Tile, DescState, NoStats
<1>2. {i \in Slots : slots[i].stage \in {"PRELOAD", "COMPUTE", "STORE"}} = {}
  BY DEF Init, IdleTile
<1>3. CountsActive
  BY <1>2, FS_EmptySet DEF CountsActive, InFlight, Init
<1>4. \A w \in Ways : queued[w] = <<>>
  BY DEF Init
<1>5. \A w \in Ways : DOMAIN queued[w] = {}
  BY <1>4
<1>6. HoldsOnlyAwaited /\ HeldOnce
  BY <1>5 DEF HoldsOnlyAwaited, HeldOnce
<1>7. SingleBuffered(0) \in Region(Data) /\ Enable(SingleBuffered(0)) \in Region(Data)
  <2>1. SingleBuffered(0) \in Region(Data)
    BY PipelineAssumption DEF SingleBuffered, Unswapped, Region, Data
  <2>. QED
    BY <2>1, RegionKept
<1>8. region \in Region(Data) /\ async \in BOOLEAN
  BY <1>7, PipelineAssumption DEF Init
<1>9. queued \in [Ways -> Seq(Slots)]
  BY DEF Init
<1>10. TypeOK
  <2>1. /\ pc = "idle" /\ caller = "client" /\ cursor = 0 /\ rounds = 0 /\ submissions = 0 /\ depth = 0
        /\ active_count = 0 /\ initialized = FALSE /\ loadOverlap = FALSE /\ storeOverlap = FALSE
        /\ processed = FALSE /\ rejected = FALSE
    BY DEF Init
  <2>2. 0 \in 0 .. MaxDepth /\ 0 \in 0 .. MaxRounds /\ 0 \in 0 .. MaxSubmissions
    BY PipelineAssumption
  <2>. QED
    BY <1>1, <1>8, <1>9, <2>1, <2>2 DEF TypeOK, Data
<1>11. EmptyBefore /\ request \in Request
  BY <1>4 DEF Init, EmptyBefore, NoRequest, Request
<1>. QED
  BY <1>3, <1>6, <1>10, <1>11 DEF PipelineInv

LEMMA StepKeeps == PipelineInv /\ [Next]_vars => PipelineInv'
<1>. SUFFICES ASSUME PipelineInv, [Next]_vars PROVE PipelineInv'
  OBVIOUS
<1>1. CASE UNCHANGED vars
  <2>1. UNCHANGED <<configVars, slots, active_count, processed, stats, rejected, queued, region, callVars>>
    BY <1>1 DEF vars
  <2>2. TypeOK' /\ EmptyBefore' /\ request' \in Request
    BY <2>1 DEF PipelineInv, TypeOK, EmptyBefore, configVars, callVars
  <2>3. CountsActive' /\ HoldsOnlyAwaited' /\ HeldOnce'
    BY <2>1 DEF PipelineInv, CountsActive, InFlight, HoldsOnlyAwaited, HeldOnce
  <2>. QED
    BY <2>2, <2>3 DEF PipelineInv
<1>. QED
  BY <1>1, InitializeKeeps, ResetKeeps, SubmitKeeps, BookkeepingKeeps, ClockKeeps, TicksKeep, PlaceKeeps,
     PreloadedKeeps, ComputedKeeps, StoredKeeps
     DEF Next, Visit, Wait

THEOREM PipelineInvariant == Spec => []PipelineInv
BY InitKeeps, StepKeeps, PTL DEF Spec

\* The controller's fields keep their types whatever tiles are submitted and
\* whatever the engine does with their descriptors.
THEOREM PipelineTypes == Spec => []TypeOK
<1>1. PipelineInv => TypeOK
  BY DEF PipelineInv
<1>. QED
  BY <1>1, PipelineInvariant, PTL

\* active_count is the number of tiles in flight, and the engine holds only
\* descriptors of tiles that wait for them: no slot is recycled under a transfer.
THEOREM SlotsAreTracked == Spec => []SlotsTracked
<1>1. PipelineInv => SlotsTracked
  BY DEF PipelineInv, SlotsTracked
<1>. QED
  BY <1>1, PipelineInvariant, PTL

-----------------------------------------------------------------------------
(* What the tiles in flight still owe to the statistics: cycles that the   *)
(* submission counted as sequential, and that no other total has yet.      *)

Work(t) == (IF t.stage = "PRELOAD" THEN t.cycles ELSE 0)
             + (IF t.stage \in {"PRELOAD", "COMPUTE"} /\ t.store # "null" THEN StoreCycles ELSE 0)
LoadWork(t) == IF t.stage = "PRELOAD" /\ t.load # "null" THEN LoadCycles ELSE 0
StoreWork(t) == IF t.stage = "STORE" /\ t.store # "null" THEN StoreCycles ELSE 0
RequestWork(r) == (IF r.load = "none" THEN 0 ELSE LoadCycles) + r.cycles
                    + (IF r.store = "none" THEN 0 ELSE StoreCycles)

WorkOwed(ss) == [i \in Slots |-> Work(ss[i])]
LoadsOwed(ss) == [i \in Slots |-> LoadWork(ss[i])]
StoresOwed(ss) == [i \in Slots |-> StoreWork(ss[i])]

\* A request is pending in its submission alone, and in the rounds it waits.
RequestInv == \/ request = NoRequest
              \/ pc = "submit"
              \/ pc \in {"tick", "advance"} /\ caller = "submit"

\* Until a descriptor is rejected, each total leaves room for what is owed to it.
Unfreed == \A i \in Slots : slots[i].load # "freed" /\ slots[i].store # "freed"
Room == /\ stats.overlappedLoad + BarTotal(LoadsOwed(slots)) <= stats.load
        /\ stats.overlappedStore + BarTotal(StoresOwed(slots)) <= stats.store
        /\ stats.compute + stats.load + stats.store + BarTotal(WorkOwed(slots)) + RequestWork(request)
             <= stats.sequential
StatsInv == RequestInv /\ (~rejected => Unfreed /\ Room)

LEMMA WorkType ==
    ASSUME NEW t \in Tile, NEW r \in Request
    PROVE  Work(t) \in Nat /\ LoadWork(t) \in Nat /\ StoreWork(t) \in Nat /\ RequestWork(r) \in Nat
<1>1. t.cycles \in Nat /\ r.cycles \in Nat /\ LoadCycles \in Nat /\ StoreCycles \in Nat
  BY PipelineAssumption DEF Tile, Request
<1>. QED
  BY <1>1 DEF Work, LoadWork, StoreWork, RequestWork

LEMMA OwedType ==
    ASSUME NEW ss \in [Slots -> Tile]
    PROVE  /\ IsFiniteSet(Slots)
           /\ WorkOwed(ss) \in [Slots -> Nat] /\ BarTotal(WorkOwed(ss)) \in Nat
           /\ LoadsOwed(ss) \in [Slots -> Nat] /\ BarTotal(LoadsOwed(ss)) \in Nat
           /\ StoresOwed(ss) \in [Slots -> Nat] /\ BarTotal(StoresOwed(ss)) \in Nat
<1>1. IsFiniteSet(Slots)
  BY PipelineAssumption, FS_Interval DEF Slots
<1>2. NoRequest \in Request
  BY DEF NoRequest, Request
<1>3. /\ WorkOwed(ss) \in [Slots -> Nat] /\ LoadsOwed(ss) \in [Slots -> Nat]
      /\ StoresOwed(ss) \in [Slots -> Nat]
  BY <1>2, WorkType DEF WorkOwed, LoadsOwed, StoresOwed
<1>. QED
  BY <1>1, <1>3, BarsFinite

\* A slot's tile goes on, and what is owed changes by what that tile owes.
LEMMA OwedChanged ==
    ASSUME NEW ss \in [Slots -> Tile], NEW i \in Slots, NEW t \in Tile
    PROVE  LET tt == [ss EXCEPT ![i] = t] IN
           /\ BarTotal(WorkOwed(tt)) = BarTotal(WorkOwed(ss)) - Work(ss[i]) + Work(t)
           /\ BarTotal(LoadsOwed(tt)) = BarTotal(LoadsOwed(ss)) - LoadWork(ss[i]) + LoadWork(t)
           /\ BarTotal(StoresOwed(tt)) = BarTotal(StoresOwed(ss)) - StoreWork(ss[i]) + StoreWork(t)
           /\ BarTotal(WorkOwed(ss)) >= Work(ss[i]) /\ BarTotal(LoadsOwed(ss)) >= LoadWork(ss[i])
           /\ BarTotal(StoresOwed(ss)) >= StoreWork(ss[i])
<1>. DEFINE tt == [ss EXCEPT ![i] = t]
<1>1. /\ WorkOwed(tt) = [WorkOwed(ss) EXCEPT ![i] = Work(t)]
      /\ LoadsOwed(tt) = [LoadsOwed(ss) EXCEPT ![i] = LoadWork(t)]
      /\ StoresOwed(tt) = [StoresOwed(ss) EXCEPT ![i] = StoreWork(t)]
  BY DEF WorkOwed, LoadsOwed, StoresOwed
<1>2. /\ WorkOwed(ss)[i] = Work(ss[i]) /\ LoadsOwed(ss)[i] = LoadWork(ss[i])
      /\ StoresOwed(ss)[i] = StoreWork(ss[i])
  BY DEF WorkOwed, LoadsOwed, StoresOwed
<1>3. Work(t) \in Nat /\ LoadWork(t) \in Nat /\ StoreWork(t) \in Nat
  <2>1. NoRequest \in Request
    BY DEF NoRequest, Request
  <2>. QED
    BY <2>1, WorkType
<1>4. /\ IsFiniteSet(Slots) /\ WorkOwed(ss) \in [Slots -> Nat]
      /\ LoadsOwed(ss) \in [Slots -> Nat] /\ StoresOwed(ss) \in [Slots -> Nat]
  BY OwedType
<1>5. /\ BarTotal([WorkOwed(ss) EXCEPT ![i] = Work(t)]) = BarTotal(WorkOwed(ss)) - WorkOwed(ss)[i] + Work(t)
      /\ BarTotal(WorkOwed(ss)) >= WorkOwed(ss)[i]
  BY <1>3, <1>4, TotalChanged
<1>6. /\ BarTotal([LoadsOwed(ss) EXCEPT ![i] = LoadWork(t)])
           = BarTotal(LoadsOwed(ss)) - LoadsOwed(ss)[i] + LoadWork(t)
      /\ BarTotal(LoadsOwed(ss)) >= LoadsOwed(ss)[i]
  BY <1>3, <1>4, TotalChanged
<1>7. /\ BarTotal([StoresOwed(ss) EXCEPT ![i] = StoreWork(t)])
           = BarTotal(StoresOwed(ss)) - StoresOwed(ss)[i] + StoreWork(t)
      /\ BarTotal(StoresOwed(ss)) >= StoresOwed(ss)[i]
  BY <1>3, <1>4, TotalChanged
<1>. QED
  BY <1>1, <1>2, <1>5, <1>6, <1>7

\* A clock or an engine that moves no tile to another stage changes no debt.
LEMMA OwedSame ==
    ASSUME NEW ss, NEW tt,
           \A i \in Slots : /\ tt[i].stage = ss[i].stage /\ tt[i].cycles = ss[i].cycles
                           /\ (tt[i].load = "null" <=> ss[i].load = "null")
                           /\ (tt[i].store = "null" <=> ss[i].store = "null")
    PROVE  WorkOwed(tt) = WorkOwed(ss) /\ LoadsOwed(tt) = LoadsOwed(ss) /\ StoresOwed(tt) = StoresOwed(ss)
<1>1. ASSUME NEW i \in Slots
      PROVE  /\ Work(tt[i]) = Work(ss[i]) /\ LoadWork(tt[i]) = LoadWork(ss[i])
             /\ StoreWork(tt[i]) = StoreWork(ss[i])
  BY DEF Work, LoadWork, StoreWork
<1>. QED
  BY <1>1 DEF WorkOwed, LoadsOwed, StoresOwed

\* The engine's tick completes loads and stores of tiles that have them, and
\* frees none.
LEMMA TickIssues ==
    ASSUME PipelineInv, DmaTick
    PROVE  /\ \A i \in Slots : /\ slots'[i].stage = slots[i].stage /\ slots'[i].cycles = slots[i].cycles
                              /\ (slots'[i].load = "null" <=> slots[i].load = "null")
                              /\ (slots'[i].store = "null" <=> slots[i].store = "null")
                              /\ (slots'[i].load = "freed" => slots[i].load = "freed")
                              /\ (slots'[i].store = "freed" => slots[i].store = "freed")
                              /\ (slots'[i].load = "queued" => slots[i].load = "queued")
                              /\ slots'[i].data = slots[i].data
           /\ \/ region' = region /\ \A i \in Slots : slots'[i].load = slots[i].load
              \/ \E i \in Slots :
                    /\ i = queued["load"][1] /\ 1 \in DOMAIN queued["load"]
                    /\ region' = LoadMoves(region, slots[i])
                    /\ \A j \in Slots \ {i} : slots'[j].load = slots[j].load
                    /\ slots'[i].load = IF slots[i].bad THEN "stuck" ELSE "completed"
           /\ \A w \in Ways : \A k \in DOMAIN queued'[w] :
                 \E l \in DOMAIN queued[w] : queued'[w][k] = queued[w][l]
<1>0. PICK W \in SUBSET {w \in Ways : queued[w] # <<>>} :
        /\ queued' = [w \in Ways |-> IF w \in W THEN Tail(queued[w]) ELSE queued[w]]
        /\ slots' = [i \in Slots |->
              LET loaded == IF "load" \in W /\ Head(queued["load"]) = i
                            THEN Issue(slots[i], "load") ELSE slots[i]
              IN  IF "store" \in W /\ Head(queued["store"]) = i
                  THEN Issue(loaded, "store") ELSE loaded]
        /\ region' = IF "load" \in W THEN LoadMoves(region, slots[Head(queued["load"])])
                     ELSE region
  BY DEF DmaTick
<1>1. slots \in [Slots -> Tile] /\ queued \in [Ways -> Seq(Slots)]
  BY DEF PipelineInv, TypeOK
<1>2. ASSUME NEW w \in W
      PROVE  /\ Head(queued[w]) \in Slots /\ 1 \in DOMAIN queued[w] /\ Head(queued[w]) = queued[w][1]
  <2>1. queued[w] \in Seq(Slots) /\ queued[w] # <<>>
    BY <1>1
  <2>. QED
    BY <2>1
<1>3. /\ "load" \in W => slots[Head(queued["load"])].load = "queued"
      /\ "store" \in W => slots[Head(queued["store"])].store = "queued"
  <2>1. "load" \in Ways /\ "store" \in Ways /\ "store" # "load"
    BY DEF Ways
  <2>. QED
    BY <1>2, <2>1 DEF PipelineInv, HoldsOnlyAwaited
<1>4. ASSUME NEW i \in Slots
      PROVE  /\ slots'[i].stage = slots[i].stage /\ slots'[i].cycles = slots[i].cycles
             /\ slots'[i].data = slots[i].data
             /\ slots'[i].load = IF "load" \in W /\ Head(queued["load"]) = i
                                 THEN IF slots[i].bad THEN "stuck" ELSE "completed" ELSE slots[i].load
             /\ slots'[i].store = IF "store" \in W /\ Head(queued["store"]) = i
                                  THEN "completed" ELSE slots[i].store
  <2>. DEFINE loaded == IF "load" \in W /\ Head(queued["load"]) = i
                        THEN Issue(slots[i], "load") ELSE slots[i]
  <2>1. /\ loaded \in Tile /\ loaded.stage = slots[i].stage /\ loaded.cycles = slots[i].cycles
        /\ loaded.data = slots[i].data /\ loaded.store = slots[i].store
        /\ loaded.load = IF "load" \in W /\ Head(queued["load"]) = i
                         THEN IF slots[i].bad THEN "stuck" ELSE "completed" ELSE slots[i].load
    BY <1>1, IssueType DEF Ways
  <2>2. slots'[i] = IF "store" \in W /\ Head(queued["store"]) = i
                    THEN Issue(loaded, "store") ELSE loaded
    BY <1>0
  <2>. HIDE DEF loaded
  <2>3. /\ Issue(loaded, "store").cycles = loaded.cycles /\ Issue(loaded, "store").data = loaded.data
        /\ Issue(loaded, "store").stage = loaded.stage /\ Issue(loaded, "store").load = loaded.load
        /\ Issue(loaded, "store").store = "completed"
    BY <2>1, IssueType DEF Ways
  <2>. QED
    BY <2>1, <2>2, <2>3
<1>5. \/ region' = region /\ \A i \in Slots : slots'[i].load = slots[i].load
      \/ \E i \in Slots :
            /\ i = queued["load"][1] /\ 1 \in DOMAIN queued["load"]
            /\ region' = LoadMoves(region, slots[i])
            /\ \A j \in Slots \ {i} : slots'[j].load = slots[j].load
            /\ slots'[i].load = IF slots[i].bad THEN "stuck" ELSE "completed"
  <2>1. CASE "load" \in W
    <3>. DEFINE i == Head(queued["load"])
    <3>1. i \in Slots /\ i = queued["load"][1] /\ 1 \in DOMAIN queued["load"]
      BY <1>2, <2>1
    <3>2. region' = LoadMoves(region, slots[i])
      BY <1>0, <2>1
    <3>3. /\ \A j \in Slots \ {i} : slots'[j].load = slots[j].load
          /\ slots'[i].load = IF slots[i].bad THEN "stuck" ELSE "completed"
      BY <1>4, <2>1, <3>1
    <3>. QED
      BY <3>1, <3>2, <3>3
  <2>2. CASE "load" \notin W
    BY <1>0, <1>4, <2>2
  <2>. QED
    BY <2>1, <2>2
<1>6. ASSUME NEW w \in Ways, NEW k \in DOMAIN queued'[w]
      PROVE  \E l \in DOMAIN queued[w] : queued'[w][k] = queued[w][l]
  <2>1. CASE w \in W
    <3>1. queued[w] \in Seq(Slots) /\ queued[w] # <<>> /\ queued'[w] = Tail(queued[w])
      BY <1>0, <1>1, <2>1
    <3>2. k + 1 \in DOMAIN queued[w] /\ queued'[w][k] = queued[w][k + 1]
      BY <3>1
    <3>. QED
      BY <3>2
  <2>2. CASE w \notin W
    BY <1>0, <2>2
  <2>. QED
    BY <2>1, <2>2
<1>. QED
  BY <1>3, <1>4, <1>5, <1>6

-----------------------------------------------------------------------------
(* Each step keeps the room. *)

StatsFields == stats.compute \in Nat /\ stats.load \in Nat /\ stats.store \in Nat
               /\ stats.overlappedLoad \in Nat /\ stats.overlappedStore \in Nat
               /\ stats.sequential \in Nat

LEMMA StatsFieldsType == TypeOK => StatsFields /\ stats \in [DOMAIN NoStats -> Nat]
BY DEF TypeOK, StatsFields, NoStats

\* A pipeline that begins again owes nothing.
LEMMA StatsCleared ==
    ASSUME PipelineInv, StatsInv, pc = "idle", Cleared, UNCHANGED callVars
    PROVE  StatsInv'
<1>1. request' = NoRequest
  BY DEF StatsInv, RequestInv, callVars
<1>2. \A i \in Slots : slots'[i].stage = "IDLE" /\ slots'[i].load = "null" /\ slots'[i].store = "null"
  BY DEF Cleared, IdleTile
<1>3. \A i \in Slots : WorkOwed(slots')[i] = 0 /\ LoadsOwed(slots')[i] = 0 /\ StoresOwed(slots')[i] = 0
  BY <1>2 DEF WorkOwed, LoadsOwed, StoresOwed, Work, LoadWork, StoreWork
<1>4. BarTotal(WorkOwed(slots')) = 0 /\ BarTotal(LoadsOwed(slots')) = 0 /\ BarTotal(StoresOwed(slots')) = 0
  <2>1. /\ DOMAIN WorkOwed(slots') = Slots /\ DOMAIN LoadsOwed(slots') = Slots
        /\ DOMAIN StoresOwed(slots') = Slots
    BY DEF WorkOwed, LoadsOwed, StoresOwed
  <2>. QED
    BY <1>3, <2>1, TotalNone
<1>5. RequestWork(NoRequest) = 0
  BY DEF RequestWork, NoRequest
<1>6. stats' = NoStats
  BY DEF Cleared
<1>7. Room'
  BY <1>1, <1>4, <1>5, <1>6 DEF Room, NoStats
<1>. QED
  BY <1>1, <1>2, <1>7 DEF StatsInv, RequestInv, Unfreed

\* The submission counts its request's cycles before anything else does.
LEMMA StatsSubmit ==
    ASSUME PipelineInv, StatsInv, NEW r \in Requests, Submit(r)
    PROVE  StatsInv'
<1>1. /\ pc' = "submit" /\ request' = r /\ UNCHANGED <<slots, rejected>>
      /\ stats' = [stats EXCEPT !.sequential =
                      @ + OneIfNone(r.load, LoadCycles) + r.cycles + OneIfNone(r.store, StoreCycles)]
  BY DEF Submit
<1>2. StatsFields /\ stats \in [DOMAIN NoStats -> Nat] /\ slots \in [Slots -> Tile] /\ request \in Request
  BY StatsFieldsType DEF PipelineInv, TypeOK
<1>3. ASSUME ~rejected PROVE Unfreed' /\ Room'
  <2>1. Unfreed /\ Room
    BY <1>3 DEF StatsInv
  <2>2. r \in Request /\ r.cycles \in Nat /\ LoadCycles \in Nat /\ StoreCycles \in Nat
    BY PipelineAssumption DEF Request
  <2>3. RequestWork(r) <= OneIfNone(r.load, LoadCycles) + r.cycles + OneIfNone(r.store, StoreCycles)
    BY <2>2 DEF RequestWork, OneIfNone
  <2>4. /\ stats'.sequential = stats.sequential + OneIfNone(r.load, LoadCycles) + r.cycles
                               + OneIfNone(r.store, StoreCycles)
        /\ stats'.compute = stats.compute /\ stats'.load = stats.load /\ stats'.store = stats.store
        /\ stats'.overlappedLoad = stats.overlappedLoad
        /\ stats'.overlappedStore = stats.overlappedStore
    BY <1>1, <1>2 DEF NoStats
  <2>5. /\ BarTotal(WorkOwed(slots)) \in Nat /\ RequestWork(r) \in Nat /\ RequestWork(request) \in Nat
        /\ OneIfNone(r.load, LoadCycles) \in Nat /\ OneIfNone(r.store, StoreCycles) \in Nat
    <3>1. RequestWork(r) \in Nat /\ RequestWork(request) \in Nat
      BY <1>2, <2>2 DEF RequestWork, Request
    <3>. QED
      BY <1>2, <2>2, <3>1, OwedType DEF OneIfNone
  <2>6. Room'
    <3>1. /\ stats'.overlappedLoad + BarTotal(LoadsOwed(slots')) <= stats'.load
          /\ stats'.overlappedStore + BarTotal(StoresOwed(slots')) <= stats'.store
      BY <1>1, <2>1, <2>4 DEF Room
    <3>2. stats.compute + stats.load + stats.store + BarTotal(WorkOwed(slots)) + RequestWork(request)
            <= stats.sequential
      BY <2>1 DEF Room
    <3>. DEFINE n == OneIfNone(r.load, LoadCycles)
                m == OneIfNone(r.store, StoreCycles)
    <3>3. n \in Nat /\ m \in Nat /\ RequestWork(r) <= n + r.cycles + m
      BY <2>3, <2>5
    <3>. HIDE DEF n, m
    <3>4. stats.compute + stats.load + stats.store + BarTotal(WorkOwed(slots)) + RequestWork(r)
            <= stats.sequential + n + r.cycles + m
      BY <1>2, <2>2, <2>5, <3>2, <3>3 DEF StatsFields
    <3>5. stats'.compute + stats'.load + stats'.store + BarTotal(WorkOwed(slots')) + RequestWork(request')
            <= stats'.sequential
      BY <1>1, <2>4, <3>4 DEF n, m
    <3>. QED
      BY <3>1, <3>5 DEF Room
  <2>7. Unfreed'
    BY <1>1, <2>1 DEF Unfreed
  <2>. QED
    BY <2>6, <2>7
<1>. QED
  BY <1>1, <1>3 DEF StatsInv, RequestInv

\* Calls, clocks and ticks of the engine owe and pay nothing.
LEMMA StatsIdle ==
    ASSUME PipelineInv, StatsInv, UNCHANGED <<stats, rejected>>, RequestInv',
           request' \in {request, NoRequest},
           \A i \in Slots : /\ slots'[i].stage = slots[i].stage /\ slots'[i].cycles = slots[i].cycles
                           /\ (slots'[i].load = "null" <=> slots[i].load = "null")
                           /\ (slots'[i].store = "null" <=> slots[i].store = "null")
                           /\ (slots'[i].load = "freed" => slots[i].load = "freed")
                           /\ (slots'[i].store = "freed" => slots[i].store = "freed")
    PROVE  StatsInv'
<1>1. /\ WorkOwed(slots') = WorkOwed(slots) /\ LoadsOwed(slots') = LoadsOwed(slots)
      /\ StoresOwed(slots') = StoresOwed(slots)
  BY OwedSame
<1>2. ASSUME ~rejected PROVE Unfreed' /\ Room'
  <2>1. Unfreed /\ Room
    BY <1>2 DEF StatsInv
  <2>2. RequestWork(request') <= RequestWork(request) /\ RequestWork(request') \in Nat
        /\ RequestWork(request) \in Nat
    <3>1. RequestWork(NoRequest) = 0
      BY DEF RequestWork, NoRequest
    <3>2. RequestWork(request) \in Nat
      <4>1. request \in Request
        BY DEF PipelineInv
      <4>. QED
        BY <4>1, PipelineAssumption DEF RequestWork, Request
    <3>. QED
      BY <3>1, <3>2
  <2>3. StatsFields /\ BarTotal(WorkOwed(slots)) \in Nat
    <3>1. slots \in [Slots -> Tile]
      BY DEF PipelineInv, TypeOK
    <3>. QED
      BY <3>1, StatsFieldsType, OwedType DEF PipelineInv
  <2>4. stats.compute + stats.load + stats.store + BarTotal(WorkOwed(slots)) + RequestWork(request')
          <= stats.sequential
    BY <2>1, <2>2, <2>3 DEF Room, StatsFields
  <2>. QED
    BY <1>1, <2>1, <2>4 DEF Room, Unfreed
<1>. QED
  BY <1>2 DEF StatsInv

\* Time changes nothing of a tile but what it has left.
LEMMA LaterKeeps ==
    ASSUME PipelineInv, slots' = Later(slots)
    PROVE  \A i \in Slots : /\ slots'[i].stage = slots[i].stage /\ slots'[i].cycles = slots[i].cycles
                           /\ slots'[i].load = slots[i].load /\ slots'[i].store = slots[i].store
                           /\ slots'[i].data = slots[i].data
<1>. SUFFICES ASSUME NEW i \in Slots
              PROVE  /\ slots'[i].stage = slots[i].stage /\ slots'[i].cycles = slots[i].cycles
                     /\ slots'[i].load = slots[i].load /\ slots'[i].store = slots[i].store
                     /\ slots'[i].data = slots[i].data
  OBVIOUS
<1>1. slots[i] \in Tile
  BY DEF PipelineInv, TypeOK
<1>2. slots'[i] = IF slots[i].left = 0 THEN slots[i] ELSE [slots[i] EXCEPT !.left = slots[i].left - 1]
  BY DEF Later
<1>. QED
  BY <1>1, <1>2 DEF Tile

LEMMA StatsQuiet ==
    ASSUME PipelineInv, StatsInv,
           \/ GiveUp \/ Sync \/ SyncReturns \/ ClientAdvance \/ PassOver \/ AdvanceReturns
           \/ ClientClock \/ Round \/ Tick \/ EngineTick
    PROVE  StatsInv'
<1>1. UNCHANGED <<stats, rejected>>
  BY DEF GiveUp, Sync, SyncReturns, ClientAdvance, PassOver, AdvanceReturns, ClientClock, Round,
         Tick, EngineTick
<1>2. RequestInv' /\ request' \in {request, NoRequest}
  <2>1. CASE GiveUp \/ Sync \/ SyncReturns \/ ClientAdvance
    BY <2>1 DEF GiveUp, Sync, SyncReturns, ClientAdvance, StatsInv, RequestInv
  <2>2. CASE PassOver \/ AdvanceReturns
    BY <2>2 DEF PassOver, AdvanceReturns, NextSlot, StatsInv, RequestInv
  <2>3. CASE ClientClock \/ EngineTick
    BY <2>3 DEF ClientClock, EngineTick, callVars, StatsInv, RequestInv
  <2>4. CASE Round
    BY <2>4 DEF Round, StatsInv, RequestInv
  <2>5. CASE Tick
    BY <2>5 DEF Tick, StatsInv, RequestInv
  <2>. QED
    BY <2>1, <2>2, <2>3, <2>4, <2>5
<1>. DEFINE Same == \A i \in Slots :
                /\ slots'[i].stage = slots[i].stage /\ slots'[i].cycles = slots[i].cycles
                /\ (slots'[i].load = "null" <=> slots[i].load = "null")
                /\ (slots'[i].store = "null" <=> slots[i].store = "null")
                /\ (slots'[i].load = "freed" => slots[i].load = "freed")
                /\ (slots'[i].store = "freed" => slots[i].store = "freed")
<1>3. Same
  <2>1. CASE UNCHANGED slots
    BY <2>1
  <2>2. CASE slots' = Later(slots)
    BY <2>2, LaterKeeps
  <2>3. CASE DmaTick
    BY <2>3, TickIssues
  <2>. QED
    BY <2>1, <2>2, <2>3
       DEF GiveUp, Sync, SyncReturns, ClientAdvance, PassOver, AdvanceReturns, ClientClock, Round,
           Tick, EngineTick
<1>. QED
  BY <1>1, <1>2, <1>3, StatsIdle

\* A tile goes on: what it owes less than before is what its step counts.
LEMMA StatsMoved ==
    ASSUME PipelineInv, StatsInv, TypeOK', RequestInv', request' \in Request,
           NEW i \in Slots, NEW t \in Tile, slots' = [slots EXCEPT ![i] = t],
           ~rejected' => /\ ~rejected /\ t.load # "freed" /\ t.store # "freed"
                         /\ stats'.overlappedLoad + LoadWork(t) + stats.load
                              <= stats.overlappedLoad + LoadWork(slots[i]) + stats'.load
                         /\ stats'.overlappedStore + StoreWork(t) + stats.store
                              <= stats.overlappedStore + StoreWork(slots[i]) + stats'.store
                         /\ stats'.sequential = stats.sequential
                         /\ stats'.compute + stats'.load + stats'.store + Work(t) + RequestWork(request')
                              <= stats.compute + stats.load + stats.store + Work(slots[i])
                                   + RequestWork(request)
    PROVE  StatsInv'
<1>. SUFFICES ASSUME ~rejected' PROVE Unfreed' /\ Room'
  BY DEF StatsInv
<1>1. Unfreed /\ Room
  BY DEF StatsInv
<1>2. slots \in [Slots -> Tile] /\ slots[i] \in Tile /\ request \in Request
  BY DEF PipelineInv, TypeOK
<1>3. StatsFields /\ StatsFields'
  <2>1. StatsFields
    BY StatsFieldsType DEF PipelineInv
  <2>2. StatsFields'
    BY DEF TypeOK, StatsFields, NoStats
  <2>. QED
    BY <2>1, <2>2
<1>. DEFINE wo == BarTotal(WorkOwed(slots))
            lo == BarTotal(LoadsOwed(slots))
            so == BarTotal(StoresOwed(slots))
            wn == BarTotal(WorkOwed(slots'))
            ln == BarTotal(LoadsOwed(slots'))
            sn == BarTotal(StoresOwed(slots'))
            w == Work(slots[i])
            l == LoadWork(slots[i])
            s == StoreWork(slots[i])
            u == Work(t)
            v == LoadWork(t)
            z == StoreWork(t)
            r == RequestWork(request)
            q == RequestWork(request')
<1>4. /\ wo \in Nat /\ lo \in Nat /\ so \in Nat /\ w \in Nat /\ l \in Nat /\ s \in Nat
      /\ u \in Nat /\ v \in Nat /\ z \in Nat /\ r \in Nat /\ q \in Nat
  BY <1>2, OwedType, WorkType
<1>5. wn = wo - w + u /\ ln = lo - l + v /\ sn = so - s + z
  BY <1>2, OwedChanged
<1>6. /\ stats.overlappedLoad + lo <= stats.load /\ stats.overlappedStore + so <= stats.store
      /\ stats.compute + stats.load + stats.store + wo + r <= stats.sequential
  BY <1>1 DEF Room
<1>7. /\ stats'.overlappedLoad + v + stats.load <= stats.overlappedLoad + l + stats'.load
      /\ stats'.overlappedStore + z + stats.store <= stats.overlappedStore + s + stats'.store
      /\ stats'.sequential = stats.sequential
      /\ stats'.compute + stats'.load + stats'.store + u + q
           <= stats.compute + stats.load + stats.store + w + r
  OBVIOUS
<1>. HIDE DEF wo, lo, so, wn, ln, sn, w, l, s, u, v, z, r, q
<1>8. stats'.overlappedLoad + ln <= stats'.load
  BY <1>3, <1>4, <1>5, <1>6, <1>7 DEF StatsFields
<1>9. stats'.overlappedStore + sn <= stats'.store
  BY <1>3, <1>4, <1>5, <1>6, <1>7 DEF StatsFields
<1>10. stats'.compute + stats'.load + stats'.store + wn + q <= stats'.sequential
  BY <1>3, <1>4, <1>5, <1>6, <1>7 DEF StatsFields
<1>11. Room'
  BY <1>8, <1>9, <1>10 DEF Room, wn, ln, sn, q
<1>12. Unfreed'
  BY <1>1, <1>2 DEF Unfreed
<1>. QED
  BY <1>11, <1>12

\* The tile takes its request's place.
LEMMA StatsPlace ==
    ASSUME PipelineInv, PipelineInv', StatsInv, Place
    PROVE  StatsInv'
<1>1. PICK i \in Free :
        /\ \A j \in Free : i <= j
        /\ \E out \in IF request.load = "none"
                      THEN {[tile |-> NewTile(request), queues |-> FALSE]}
                      ELSE Outcomes(NewTile(request), "load") :
              /\ slots' = [slots EXCEPT ![i] = out.tile]
              /\ rejected' = (rejected \/ out.tile.load = "freed")
  BY DEF Place
<1>2. PICK out \in IF request.load = "none"
                   THEN {[tile |-> NewTile(request), queues |-> FALSE]}
                   ELSE Outcomes(NewTile(request), "load") :
              /\ slots' = [slots EXCEPT ![i] = out.tile]
              /\ rejected' = (rejected \/ out.tile.load = "freed")
  BY <1>1
<1>3. /\ pc' = "idle" /\ request' = NoRequest
      /\ stats' = [stats EXCEPT !.load = @ + IF request.load = "none" THEN 0 ELSE LoadCycles]
  BY DEF Place
<1>4. i \in Slots /\ ~InFlight(i) /\ slots[i] \in Tile
  BY PipelineAssumption DEF Free, PipelineInv, TypeOK, Slots
<1>. DEFINE t == NewTile(request)
<1>5. /\ request \in Request /\ request.cycles \in Nat /\ LoadCycles \in Nat /\ StoreCycles \in Nat
      /\ submissions \in 0 .. MaxSubmissions
  BY PipelineAssumption DEF PipelineInv, TypeOK, Request
<1>6. /\ t \in Tile /\ t.load = "null" /\ t.cycles = request.cycles /\ t.stage \in {"PRELOAD", "COMPUTE"}
      /\ (t.store # "null" <=> request.store # "none") /\ t.store # "freed"
  BY <1>5 DEF NewTile, Tile, DescState
<1>7. /\ out.tile \in Tile /\ out.tile.cycles = t.cycles /\ out.tile.stage = t.stage
      /\ out.tile.store = t.store
      /\ request.load = "none" => out.tile.load = "null"
  <2>1. CASE request.load = "none"
    <3>1. out.tile = t
      BY <1>2, <2>1
    <3>. QED
      BY <1>6, <3>1
  <2>2. CASE request.load # "none"
    <3>1. out \in Outcomes(t, "load") /\ "load" \in Ways
      BY <1>2, <2>2 DEF Ways
    <3>. HIDE DEF t
    <3>. QED
      BY <1>6, <2>2, <3>1, OutcomeType
  <2>. QED
    BY <2>1, <2>2
<1>. HIDE DEF t
<1>8. /\ Work(slots[i]) = 0 /\ LoadWork(slots[i]) = 0 /\ StoreWork(slots[i]) = 0
  BY <1>4 DEF InFlight, Work, LoadWork, StoreWork
<1>9. /\ Work(out.tile) <= request.cycles + (IF request.store = "none" THEN 0 ELSE StoreCycles)
      /\ LoadWork(out.tile) <= (IF request.load = "none" THEN 0 ELSE LoadCycles)
      /\ StoreWork(out.tile) = 0 /\ Work(out.tile) \in Nat /\ LoadWork(out.tile) \in Nat
  BY <1>5, <1>6, <1>7 DEF Work, LoadWork, StoreWork
<1>10. StatsFields /\ stats \in [DOMAIN NoStats -> Nat]
  BY StatsFieldsType DEF PipelineInv
<1>. DEFINE n == IF request.load = "none" THEN 0 ELSE LoadCycles
            m == IF request.store = "none" THEN 0 ELSE StoreCycles
<1>11. n \in Nat /\ m \in Nat /\ RequestWork(request) = n + request.cycles + m
  BY <1>5 DEF RequestWork
<1>12. /\ stats'.load = stats.load + n /\ stats'.sequential = stats.sequential
       /\ stats'.compute = stats.compute /\ stats'.store = stats.store
       /\ stats'.overlappedLoad = stats.overlappedLoad
       /\ stats'.overlappedStore = stats.overlappedStore
  BY <1>3, <1>10 DEF NoStats
<1>13. RequestWork(request') = 0
  BY <1>3 DEF RequestWork, NoRequest
<1>14. Work(out.tile) <= request.cycles + m /\ LoadWork(out.tile) <= n
  BY <1>9
<1>. HIDE DEF n, m
<1>15. ~rejected' =>
         /\ ~rejected /\ out.tile.load # "freed" /\ out.tile.store # "freed"
         /\ stats'.overlappedLoad + LoadWork(out.tile) + stats.load
              <= stats.overlappedLoad + LoadWork(slots[i]) + stats'.load
         /\ stats'.overlappedStore + StoreWork(out.tile) + stats.store
              <= stats.overlappedStore + StoreWork(slots[i]) + stats'.store
         /\ stats'.sequential = stats.sequential
         /\ stats'.compute + stats'.load + stats'.store + Work(out.tile) + RequestWork(request')
              <= stats.compute + stats.load + stats.store + Work(slots[i]) + RequestWork(request)
  <2>1. ~rejected' => ~rejected /\ out.tile.load # "freed" /\ out.tile.store # "freed"
    BY <1>2, <1>6, <1>7
  <2>2. /\ stats'.overlappedLoad + LoadWork(out.tile) + stats.load
              <= stats.overlappedLoad + LoadWork(slots[i]) + stats'.load
        /\ stats'.overlappedStore + StoreWork(out.tile) + stats.store
              <= stats.overlappedStore + StoreWork(slots[i]) + stats'.store
    BY <1>8, <1>9, <1>10, <1>11, <1>12, <1>14 DEF StatsFields
  <2>3. stats'.compute + stats'.load + stats'.store + Work(out.tile) + RequestWork(request')
              <= stats.compute + stats.load + stats.store + Work(slots[i]) + RequestWork(request)
    BY <1>5, <1>8, <1>9, <1>10, <1>11, <1>12, <1>13, <1>14 DEF StatsFields
  <2>. QED
    BY <1>12, <2>1, <2>2, <2>3
<1>16. RequestInv' /\ request' \in Request /\ TypeOK'
  BY <1>3 DEF RequestInv, PipelineInv
<1>. QED
  BY <1>2, <1>4, <1>7, <1>15, <1>16, StatsMoved

\* A visit that changes the request's place in nothing.
LEMMA VisitRequest ==
    ASSUME StatsInv, PipelineInv', Advances("PRELOAD") \/ Advances("COMPUTE") \/ Advances("STORE"), NextSlot
    PROVE  RequestInv' /\ request' \in Request /\ TypeOK' /\ request' = request
BY DEF StatsInv, RequestInv, NextSlot, Advances, PipelineInv

LEMMA StatsPreloaded ==
    ASSUME PipelineInv, PipelineInv', StatsInv, Preloaded
    PROVE  StatsInv'
<1>. DEFINE t == slots[cursor]
            next == [t EXCEPT !.stage = "COMPUTE", !.left = t.cycles]
<1>1. /\ Advances("PRELOAD") /\ slots' = [slots EXCEPT ![cursor] = next] /\ NextSlot
      /\ UNCHANGED rejected
  BY DEF Preloaded
<1>2. PICK bytes \in Size(t.load, LoadCycles) :
          stats' = [stats EXCEPT !.compute = @ + t.cycles,
                        !.overlappedLoad = @ + IF active_count >= 2 /\ loadOverlap
                                               THEN bytes ELSE 0]
  BY DEF Preloaded
<1>3. cursor \in Slots /\ t \in Tile /\ t.stage = "PRELOAD"
  BY <1>1, VisitedSlot DEF Advances
<1>4. t.cycles \in Nat /\ LoadCycles \in Nat /\ StoreCycles \in Nat
  BY <1>3, PipelineAssumption DEF Tile
<1>5. /\ next \in Tile /\ next.stage = "COMPUTE" /\ next.load = t.load /\ next.store = t.store
  <2>. DEFINE u == [t EXCEPT !.stage = "COMPUTE"]
  <2>1. u \in Tile /\ u.stage = "COMPUTE" /\ u.load = t.load /\ u.store = t.store
    BY <1>3 DEF Tile
  <2>. HIDE DEF u
  <2>2. /\ [u EXCEPT !.left = t.cycles] \in Tile /\ [u EXCEPT !.left = t.cycles].stage = "COMPUTE"
        /\ [u EXCEPT !.left = t.cycles].load = t.load /\ [u EXCEPT !.left = t.cycles].store = t.store
    BY <1>4, <2>1 DEF Tile
  <2>. QED
    BY <2>2 DEF u
<1>6. StatsFields /\ stats \in [DOMAIN NoStats -> Nat]
  BY StatsFieldsType DEF PipelineInv
<1>. DEFINE more == IF active_count >= 2 /\ loadOverlap THEN bytes ELSE 0
            some == IF t.store # "null" THEN StoreCycles ELSE 0
<1>7. /\ stats'.compute = stats.compute + t.cycles /\ stats'.load = stats.load
      /\ stats'.store = stats.store /\ stats'.sequential = stats.sequential
      /\ stats'.overlappedLoad = stats.overlappedLoad + more
      /\ stats'.overlappedStore = stats.overlappedStore
  <2>. HIDE DEF more
  <2>. QED
    BY <1>2, <1>6 DEF NoStats, more
<1>8. /\ Work(t) = t.cycles + some /\ Work(next) = some /\ some \in Nat
      /\ LoadWork(t) = (IF t.load # "null" THEN LoadCycles ELSE 0) /\ LoadWork(next) = 0
      /\ StoreWork(t) = 0 /\ StoreWork(next) = 0
  <2>. HIDE DEF next, t
  <2>. QED
    BY <1>3, <1>4, <1>5 DEF Work, LoadWork, StoreWork
<1>9. RequestInv' /\ request' \in Request /\ TypeOK' /\ request' = request
  BY <1>1, VisitRequest
<1>. HIDE DEF next
<1>10. ASSUME ~rejected'
       PROVE  t.load # "freed" /\ t.store # "freed" /\ more <= LoadWork(t) /\ more \in Nat
  <2>1. t.load # "freed" /\ t.store # "freed"
    BY <1>1, <1>3, <1>10 DEF StatsInv, Unfreed
  <2>2. bytes = IF t.load # "null" THEN LoadCycles ELSE 0
    BY <1>2, <2>1 DEF Size
  <2>. QED
    BY <1>4, <1>8, <2>1, <2>2
<1>11. RequestWork(request) \in Nat
  BY <1>3, WorkType DEF PipelineInv
<1>. HIDE DEF t, more, some
<1>12. ~rejected' =>
         /\ ~rejected /\ next.load # "freed" /\ next.store # "freed"
         /\ stats'.overlappedLoad + LoadWork(next) + stats.load
              <= stats.overlappedLoad + LoadWork(t) + stats'.load
         /\ stats'.overlappedStore + StoreWork(next) + stats.store
              <= stats.overlappedStore + StoreWork(t) + stats'.store
         /\ stats'.sequential = stats.sequential
         /\ stats'.compute + stats'.load + stats'.store + Work(next) + RequestWork(request')
              <= stats.compute + stats.load + stats.store + Work(t) + RequestWork(request)
  <2>. SUFFICES ASSUME ~rejected'
                PROVE  /\ stats'.overlappedLoad + LoadWork(next) + stats.load
                            <= stats.overlappedLoad + LoadWork(t) + stats'.load
                       /\ stats'.overlappedStore + StoreWork(next) + stats.store
                            <= stats.overlappedStore + StoreWork(t) + stats'.store
                       /\ stats'.compute + stats'.load + stats'.store + Work(next) + RequestWork(request')
                            <= stats.compute + stats.load + stats.store + Work(t) + RequestWork(request)
    BY <1>1, <1>5, <1>7, <1>10
  <2>1. more <= LoadWork(t) /\ more \in Nat /\ LoadWork(t) \in Nat
    BY <1>3, <1>10, WorkType DEF PipelineInv
  <2>. QED
    BY <1>4, <1>6, <1>7, <1>8, <1>9, <1>11, <2>1 DEF StatsFields
<1>13. slots' = [slots EXCEPT ![cursor] = next]
  BY <1>1 DEF t
<1>. QED
  BY <1>3, <1>5, <1>9, <1>12, <1>13, StatsMoved DEF t

LEMMA StatsComputed ==
    ASSUME PipelineInv, PipelineInv', StatsInv, Computed
    PROVE  StatsInv'
<1>. DEFINE t == slots[cursor]
            next == [t EXCEPT !.stage = "STORE"]
<1>1. PICK out \in IF next.store = "null" THEN {[tile |-> next, queues |-> FALSE]}
                   ELSE Outcomes(next, "store") :
          /\ slots' = [slots EXCEPT ![cursor] = out.tile]
          /\ rejected' = (rejected \/ out.tile.store = "freed")
          /\ \E bytes \in Size(out.tile.store, StoreCycles) :
                stats' = [stats EXCEPT !.store = @ + bytes]
  BY DEF Computed
<1>2. PICK bytes \in Size(out.tile.store, StoreCycles) : stats' = [stats EXCEPT !.store = @ + bytes]
  BY <1>1
<1>3. Advances("COMPUTE") /\ NextSlot
  BY DEF Computed
<1>4. cursor \in Slots /\ t \in Tile /\ t.stage = "COMPUTE"
  BY <1>3, VisitedSlot DEF Advances
<1>5. next \in Tile /\ next.stage = "STORE" /\ next.load = t.load /\ next.store = t.store
  BY <1>4 DEF Tile
<1>. HIDE DEF next
<1>6. /\ out.tile \in Tile /\ out.tile.stage = "STORE" /\ out.tile.load = t.load
      /\ (out.tile.store = "null" <=> t.store = "null")
  <2>1. CASE next.store = "null"
    <3>1. out.tile = next
      BY <1>1, <2>1
    <3>. QED
      BY <1>5, <2>1, <3>1
  <2>2. CASE next.store # "null"
    <3>1. out \in Outcomes(next, "store") /\ "store" \in Ways
      BY <1>1, <2>2 DEF Ways
    <3>2. /\ out.tile \in Tile /\ out.tile.stage = next.stage /\ out.tile.load = next.load
          /\ out.tile.store \in {"freed", "queued", "completed"}
      BY <1>5, <3>1, OutcomeType
    <3>. QED
      BY <1>5, <2>2, <3>2
  <2>. QED
    BY <2>1, <2>2
<1>. DEFINE some == IF t.store # "null" THEN StoreCycles ELSE 0
<1>7. StoreCycles \in Nat /\ some \in Nat
  BY PipelineAssumption
<1>8. StatsFields /\ stats \in [DOMAIN NoStats -> Nat]
  BY StatsFieldsType DEF PipelineInv
<1>9. /\ stats'.store = stats.store + bytes /\ stats'.compute = stats.compute
      /\ stats'.load = stats.load /\ stats'.sequential = stats.sequential
      /\ stats'.overlappedLoad = stats.overlappedLoad
      /\ stats'.overlappedStore = stats.overlappedStore
  BY <1>2, <1>8 DEF NoStats
<1>10. /\ Work(t) = some /\ Work(out.tile) = 0 /\ LoadWork(t) = 0 /\ LoadWork(out.tile) = 0
       /\ StoreWork(t) = 0 /\ StoreWork(out.tile) = some
  <2>. HIDE DEF t
  <2>. QED
    BY <1>4, <1>6, <1>7 DEF Work, LoadWork, StoreWork
<1>11. RequestInv' /\ request' \in Request /\ TypeOK' /\ request' = request
  BY <1>3, VisitRequest
<1>12. ASSUME ~rejected'
       PROVE  ~rejected /\ out.tile.load # "freed" /\ out.tile.store # "freed" /\ bytes = some
  <2>1. ~rejected /\ out.tile.store # "freed"
    BY <1>1, <1>12
  <2>2. t.load # "freed"
    BY <1>4, <2>1 DEF StatsInv, Unfreed
  <2>3. bytes = some
    BY <1>2, <1>6, <2>1 DEF Size
  <2>. QED
    BY <1>6, <2>1, <2>2, <2>3
<1>13. RequestWork(request) \in Nat
  BY <1>4, WorkType DEF PipelineInv
<1>. HIDE DEF t, some
<1>14. ~rejected' =>
         /\ ~rejected /\ out.tile.load # "freed" /\ out.tile.store # "freed"
         /\ stats'.overlappedLoad + LoadWork(out.tile) + stats.load
              <= stats.overlappedLoad + LoadWork(t) + stats'.load
         /\ stats'.overlappedStore + StoreWork(out.tile) + stats.store
              <= stats.overlappedStore + StoreWork(t) + stats'.store
         /\ stats'.sequential = stats.sequential
         /\ stats'.compute + stats'.load + stats'.store + Work(out.tile) + RequestWork(request')
              <= stats.compute + stats.load + stats.store + Work(t) + RequestWork(request)
  <2>. SUFFICES ASSUME ~rejected'
                PROVE  /\ stats'.overlappedLoad + LoadWork(out.tile) + stats.load
                            <= stats.overlappedLoad + LoadWork(t) + stats'.load
                       /\ stats'.overlappedStore + StoreWork(out.tile) + stats.store
                            <= stats.overlappedStore + StoreWork(t) + stats'.store
                       /\ stats'.compute + stats'.load + stats'.store + Work(out.tile) + RequestWork(request')
                            <= stats.compute + stats.load + stats.store + Work(t) + RequestWork(request)
    BY <1>9, <1>12
  <2>. QED
    BY <1>7, <1>8, <1>9, <1>10, <1>11, <1>12, <1>13 DEF StatsFields
<1>15. slots' = [slots EXCEPT ![cursor] = out.tile]
  BY <1>1
<1>. QED
  BY <1>4, <1>6, <1>11, <1>14, <1>15, StatsMoved DEF t

LEMMA StatsStored ==
    ASSUME PipelineInv, PipelineInv', StatsInv, Stored
    PROVE  StatsInv'
<1>. DEFINE t == slots[cursor]
            next == [t EXCEPT !.stage = "DONE", !.load = "null", !.store = "null"]
<1>1. /\ Advances("STORE") /\ slots' = [slots EXCEPT ![cursor] = next] /\ NextSlot
      /\ UNCHANGED rejected
  BY DEF Stored
<1>2. PICK bytes \in Size(t.store, StoreCycles) :
          stats' = [stats EXCEPT !.overlappedStore =
                       @ + IF active_count - 1 >= 1 /\ storeOverlap THEN bytes ELSE 0]
  BY DEF Stored
<1>3. cursor \in Slots /\ t \in Tile /\ t.stage = "STORE"
  BY <1>1, VisitedSlot DEF Advances
<1>4. next \in Tile /\ next.stage = "DONE" /\ next.load = "null" /\ next.store = "null"
  <2>. DEFINE u == [t EXCEPT !.stage = "DONE"]
  <2>1. u \in Tile /\ u.stage = "DONE"
    BY <1>3 DEF Tile
  <2>. HIDE DEF u
  <2>. DEFINE v == [u EXCEPT !.load = "null"]
  <2>2. v \in Tile /\ v.stage = "DONE" /\ v.load = "null"
    BY <2>1 DEF Tile, DescState
  <2>. HIDE DEF v
  <2>3. /\ [v EXCEPT !.store = "null"] \in Tile /\ [v EXCEPT !.store = "null"].stage = "DONE"
        /\ [v EXCEPT !.store = "null"].load = "null" /\ [v EXCEPT !.store = "null"].store = "null"
    BY <2>2 DEF Tile, DescState
  <2>. QED
    BY <2>3 DEF u, v
<1>. DEFINE more == IF active_count - 1 >= 1 /\ storeOverlap THEN bytes ELSE 0
            some == IF t.store # "null" THEN StoreCycles ELSE 0
<1>5. StoreCycles \in Nat /\ some \in Nat
  BY PipelineAssumption
<1>6. StatsFields /\ stats \in [DOMAIN NoStats -> Nat]
  BY StatsFieldsType DEF PipelineInv
<1>7. /\ stats'.overlappedStore = stats.overlappedStore + more /\ stats'.store = stats.store
      /\ stats'.compute = stats.compute /\ stats'.load = stats.load
      /\ stats'.sequential = stats.sequential /\ stats'.overlappedLoad = stats.overlappedLoad
  <2>. HIDE DEF more
  <2>. QED
    BY <1>2, <1>6 DEF NoStats, more
<1>8. /\ Work(t) = 0 /\ Work(next) = 0 /\ LoadWork(t) = 0 /\ LoadWork(next) = 0
      /\ StoreWork(t) = some /\ StoreWork(next) = 0
  <2>. HIDE DEF next, t
  <2>. QED
    BY <1>3, <1>4, <1>5 DEF Work, LoadWork, StoreWork
<1>9. RequestInv' /\ request' \in Request /\ TypeOK' /\ request' = request
  BY <1>1, VisitRequest
<1>. HIDE DEF next
<1>10. ASSUME ~rejected' PROVE more <= some /\ more \in Nat
  <2>1. t.store # "freed"
    BY <1>1, <1>3, <1>10 DEF StatsInv, Unfreed
  <2>2. bytes = some
    BY <1>2, <2>1 DEF Size
  <2>. QED
    BY <1>5, <2>2
<1>11. RequestWork(request) \in Nat
  BY <1>3, WorkType DEF PipelineInv
<1>. HIDE DEF t, more, some
<1>12. ~rejected' =>
         /\ ~rejected /\ next.load # "freed" /\ next.store # "freed"
         /\ stats'.overlappedLoad + LoadWork(next) + stats.load
              <= stats.overlappedLoad + LoadWork(t) + stats'.load
         /\ stats'.overlappedStore + StoreWork(next) + stats.store
              <= stats.overlappedStore + StoreWork(t) + stats'.store
         /\ stats'.sequential = stats.sequential
         /\ stats'.compute + stats'.load + stats'.store + Work(next) + RequestWork(request')
              <= stats.compute + stats.load + stats.store + Work(t) + RequestWork(request)
  <2>. SUFFICES ASSUME ~rejected'
                PROVE  /\ stats'.overlappedLoad + LoadWork(next) + stats.load
                            <= stats.overlappedLoad + LoadWork(t) + stats'.load
                       /\ stats'.overlappedStore + StoreWork(next) + stats.store
                            <= stats.overlappedStore + StoreWork(t) + stats'.store
                       /\ stats'.compute + stats'.load + stats'.store + Work(next) + RequestWork(request')
                            <= stats.compute + stats.load + stats.store + Work(t) + RequestWork(request)
    BY <1>1, <1>4, <1>7
  <2>. QED
    BY <1>5, <1>6, <1>7, <1>8, <1>9, <1>10, <1>11 DEF StatsFields
<1>13. slots' = [slots EXCEPT ![cursor] = next]
  BY <1>1 DEF t
<1>. QED
  BY <1>3, <1>4, <1>9, <1>12, <1>13, StatsMoved DEF t

LEMMA StatsInit == Init => StatsInv
<1>. SUFFICES ASSUME Init PROVE StatsInv
  OBVIOUS
<1>1. \A i \in Slots : slots[i].stage = "IDLE" /\ slots[i].load = "null" /\ slots[i].store = "null"
  BY DEF Init, IdleTile
<1>2. \A i \in Slots : WorkOwed(slots)[i] = 0 /\ LoadsOwed(slots)[i] = 0 /\ StoresOwed(slots)[i] = 0
  BY <1>1 DEF WorkOwed, LoadsOwed, StoresOwed, Work, LoadWork, StoreWork
<1>3. BarTotal(WorkOwed(slots)) = 0 /\ BarTotal(LoadsOwed(slots)) = 0 /\ BarTotal(StoresOwed(slots)) = 0
  <2>1. /\ DOMAIN WorkOwed(slots) = Slots /\ DOMAIN LoadsOwed(slots) = Slots
        /\ DOMAIN StoresOwed(slots) = Slots
    BY DEF WorkOwed, LoadsOwed, StoresOwed
  <2>. QED
    BY <1>2, <2>1, TotalNone
<1>4. RequestWork(NoRequest) = 0 /\ request = NoRequest /\ stats = NoStats
  BY DEF RequestWork, NoRequest, Init
<1>5. Room
  BY <1>3, <1>4 DEF Room, NoStats
<1>. QED
  BY <1>1, <1>4, <1>5 DEF StatsInv, RequestInv, Unfreed

LEMMA StatsStep == PipelineInv /\ PipelineInv' /\ StatsInv /\ [Next]_vars => StatsInv'
<1>. SUFFICES ASSUME PipelineInv, PipelineInv', StatsInv, [Next]_vars PROVE StatsInv'
  OBVIOUS
<1>1. CASE UNCHANGED vars
  BY <1>1 DEF vars, callVars, StatsInv, RequestInv, Unfreed, Room
<1>2. ASSUME NEW c \in Configs, Initialize(c) PROVE StatsInv'
  BY <1>2, StatsCleared DEF Initialize
<1>3. ASSUME NEW keep \in BOOLEAN, Reset(keep) PROVE StatsInv'
  BY <1>3, StatsCleared DEF Reset
<1>. QED
  BY <1>1, <1>2, <1>3, StatsSubmit, StatsQuiet, StatsPlace, StatsPreloaded, StatsComputed, StatsStored
     DEF Next, Visit, Wait

\* No difference of the statistics wraps, until a descriptor is rejected: every
\* overlapped cycle was loaded or stored, and no cycle is counted that the
\* submissions did not.
THEOREM StatisticsNeverWrap == Spec => []StatsNeverWrap
<1>1. PipelineInv /\ StatsInv => StatsNeverWrap
  <2>. SUFFICES ASSUME PipelineInv, StatsInv, ~rejected
                PROVE  /\ stats.overlappedLoad <= stats.load
                       /\ stats.overlappedStore <= stats.store
                       /\ stats.compute + (stats.load - stats.overlappedLoad)
                            + (stats.store - stats.overlappedStore) <= stats.sequential
    BY DEF StatsNeverWrap
  <2>1. Room /\ StatsFields
    BY StatsFieldsType DEF StatsInv, PipelineInv
  <2>2. /\ BarTotal(WorkOwed(slots)) \in Nat /\ BarTotal(LoadsOwed(slots)) \in Nat
        /\ BarTotal(StoresOwed(slots)) \in Nat /\ RequestWork(request) \in Nat
    <3>1. slots \in [Slots -> Tile] /\ request \in Request /\ IdleTile \in Tile
      BY PipelineAssumption DEF PipelineInv, TypeOK, IdleTile, Tile, DescState
    <3>. QED
      BY <3>1, OwedType, WorkType
  <2>. QED
    BY <2>1, <2>2 DEF Room, StatsFields
<1>2. Spec => []StatsInv
  BY PipelineInvariant, StatsInit, StatsStep, PTL DEF Spec
<1>. QED
  BY <1>1, <1>2, PipelineInvariant, PTL

-----------------------------------------------------------------------------
(* One slot and one buffer. *)

\* A tile that computes has its data; the only tile of a pipeline of one slot
\* that loads, loads into the buffer; a pipeline to be initialized has none.
OwnInv ==
    /\ \A i \in Slots : slots[i].stage \in {"COMPUTE", "STORE"} => slots[i].load # "queued"
    /\ \A w \in Ways : \A k \in DOMAIN queued[w] : queued[w][k] < depth
    /\ ~initialized => \A i \in Slots : slots[i].load = "null"
    /\ ~region.enabled /\ depth = 1 /\ slots[0].load = "completed" => region.primary = slots[0].data

\* Nothing is left of the tiles of a pipeline that begins again.
LEMMA OwnCleared ==
    ASSUME Cleared, \A w \in Ways : queued'[w] = <<>>
    PROVE  OwnInv'
<1>1. \A i \in Slots : slots'[i].load = "null" /\ slots'[i].stage = "IDLE"
  BY DEF Cleared, IdleTile
<1>2. \A w \in Ways : DOMAIN queued'[w] = {}
  OBVIOUS
<1>3. 0 \in Slots
  BY PipelineAssumption DEF Slots
<1>. QED
  BY <1>1, <1>2, <1>3 DEF OwnInv

\* The steps after which every tile has the load it had.
LEMMA OwnSame ==
    ASSUME OwnInv,
           \A i \in Slots : /\ slots'[i].load = slots[i].load /\ slots'[i].data = slots[i].data
                           /\ (slots'[i].stage \in {"COMPUTE", "STORE"} => slots'[i].load # "queued"),
           UNCHANGED <<region, queued>>,
           \/ UNCHANGED <<initialized, depth>>
           \/ initialized' /\ ~initialized /\ \A w \in Ways : queued[w] = <<>>
    PROVE  OwnInv'
<1>1. 0 \in Slots
  BY PipelineAssumption DEF Slots
<1>2. CASE UNCHANGED <<initialized, depth>>
  BY <1>1, <1>2 DEF OwnInv
<1>3. CASE initialized' /\ ~initialized /\ \A w \in Ways : queued[w] = <<>>
  <2>1. slots'[0].load = "null"
    BY <1>1, <1>3 DEF OwnInv
  <2>2. \A w \in Ways : DOMAIN queued'[w] = {}
    BY <1>3
  <2>. QED
    BY <1>3, <2>1, <2>2 DEF OwnInv
<1>. QED
  BY <1>2, <1>3

\* The engine's tick loads the head of the channel, which is slot 0 when that is
\* the only one.
LEMMA OwnTick ==
    ASSUME PipelineInv, OwnInv, DmaTick, UNCHANGED <<initialized, depth>>
    PROVE  OwnInv'
<1>1. 0 \in Slots /\ slots \in [Slots -> Tile] /\ queued \in [Ways -> Seq(Slots)]
  BY PipelineAssumption DEF Slots, PipelineInv, TypeOK
<1>2. /\ \A i \in Slots : slots'[i].stage \in {"COMPUTE", "STORE"} => slots'[i].load # "queued"
      /\ \A w \in Ways : \A k \in DOMAIN queued'[w] : queued'[w][k] < depth'
      /\ ~initialized' => \A i \in Slots : slots'[i].load = "null"
  BY TickIssues DEF OwnInv
<1>3. ASSUME ~region'.enabled, depth' = 1, slots'[0].load = "completed"
      PROVE  region'.primary = slots'[0].data
  <2>1. slots'[0].data = slots[0].data
    BY <1>1, TickIssues
  <2>2. CASE region' = region /\ \A i \in Slots : slots'[i].load = slots[i].load
    BY <1>1, <1>3, <2>1, <2>2 DEF OwnInv
  <2>3. ASSUME NEW i \in Slots, i = queued["load"][1], 1 \in DOMAIN queued["load"],
               region' = LoadMoves(region, slots[i]),
               slots'[i].load = IF slots[i].bad THEN "stuck" ELSE "completed"
        PROVE  region'.primary = slots'[0].data
    <3>1. i = 0
      <4>1. "load" \in Ways /\ i < depth
        BY <2>3 DEF Ways, OwnInv
      <4>. QED
        BY <1>3, <4>1 DEF Slots
    <3>2. ~slots[i].bad
      BY <1>3, <2>3, <3>1
    <3>3. region \in Region(Data) /\ region' = WriteActive(region, slots[i].data)
      BY <2>3, <3>2 DEF LoadMoves, PipelineInv, TypeOK, Data
    <3>4. region'.primary = slots[i].data
      BY <1>3, <3>3 DEF WriteActive, Region
    <3>. QED
      BY <2>1, <3>1, <3>4
  <2>. QED
    BY <2>2, <2>3, TickIssues
<1>. QED
  BY <1>2, <1>3 DEF OwnInv

LEMMA OwnPlace ==
    ASSUME PipelineInv, OwnInv, Place
    PROVE  OwnInv'
<1>1. PICK i \in Free :
        \E out \in IF request.load = "none"
                      THEN {[tile |-> NewTile(request), queues |-> FALSE]}
                      ELSE Outcomes(NewTile(request), "load") :
                /\ slots' = [slots EXCEPT ![i] = out.tile]
                /\ queued' = Queued("load", i, out.queues)
                /\ region' = IF out.tile.load = "completed"
                             THEN LoadMoves(region, out.tile) ELSE region
  BY DEF Place
<1>2. PICK out \in IF request.load = "none"
                      THEN {[tile |-> NewTile(request), queues |-> FALSE]}
                      ELSE Outcomes(NewTile(request), "load") :
                /\ slots' = [slots EXCEPT ![i] = out.tile]
                /\ queued' = Queued("load", i, out.queues)
                /\ region' = IF out.tile.load = "completed"
                             THEN LoadMoves(region, out.tile) ELSE region
  BY <1>1
<1>3. pc = "submit" /\ initialized /\ UNCHANGED <<initialized, depth>>
  BY DEF Place, configVars, PipelineInv, EmptyBefore
<1>4. i \in Slots /\ i < depth /\ slots \in [Slots -> Tile] /\ queued \in [Ways -> Seq(Slots)]
      /\ region \in Region(Data) /\ i \in Nat
  BY PipelineAssumption DEF Free, PipelineInv, TypeOK, Slots, Data
<1>. DEFINE t == NewTile(request)
<1>5. request \in Request /\ request.cycles \in Nat /\ submissions \in 0 .. MaxSubmissions
  BY DEF PipelineInv, TypeOK, Request
<1>6. /\ t \in Tile /\ t.load = "null" /\ (t.stage \in {"COMPUTE", "STORE"} => request.load = "none")
  BY <1>5 DEF NewTile, Tile, DescState, InPlace
<1>. HIDE DEF t
<1>7. /\ out.tile \in Tile /\ out.tile.stage = t.stage /\ out.queues \in BOOLEAN
      /\ (request.load = "none" => out.tile.load = "null" /\ ~out.queues)
      /\ (out.tile.load = "completed" => ~out.tile.bad)
  <2>1. CASE request.load = "none"
    <3>1. out.tile = t /\ out.queues = FALSE
      BY <1>2, <2>1 DEF t
    <3>. QED
      BY <1>6, <3>1
  <2>2. CASE request.load # "none"
    <3>1. out \in Outcomes(t, "load") /\ "load" \in Ways
      BY <1>2, <2>2 DEF Ways, t
    <3>2. /\ out.tile \in Tile /\ out.tile.stage = t.stage /\ out.queues \in BOOLEAN
          /\ out.tile.bad = t.bad /\ (out.tile.load = "completed" => ~t.bad)
      BY <1>6, <3>1, OutcomeType
    <3>. QED
      BY <2>2, <3>2
  <2>. QED
    BY <2>1, <2>2
<1>8. \A j \in Slots : slots'[j] = IF j = i THEN out.tile ELSE slots[j]
  BY <1>2, <1>4
<1>9. \A j \in Slots : slots'[j].stage \in {"COMPUTE", "STORE"} => slots'[j].load # "queued"
  BY <1>6, <1>7, <1>8 DEF OwnInv
<1>10. \A w \in Ways : \A k \in DOMAIN queued'[w] : queued'[w][k] < depth'
  <2>. SUFFICES ASSUME NEW w \in Ways, NEW k \in DOMAIN queued'[w] PROVE queued'[w][k] < depth
    BY <1>3
  <2>1. CASE w = "load" /\ out.queues
    <3>1. queued[w] \in Seq(Slots) /\ queued'[w] = Append(queued[w], i)
      BY <1>2, <1>4, <2>1 DEF Queued
    <3>2. \A l \in DOMAIN queued[w] : queued[w][l] < depth
      BY DEF OwnInv
    <3>. QED
      BY <1>4, <3>1, <3>2
  <2>2. CASE ~(w = "load" /\ out.queues)
    <3>1. queued'[w] = queued[w]
      BY <1>2, <1>4, <2>2 DEF Queued
    <3>. QED
      BY <3>1 DEF OwnInv
  <2>. QED
    BY <2>1, <2>2
<1>11. ASSUME ~region'.enabled, depth' = 1, slots'[0].load = "completed"
       PROVE  region'.primary = slots'[0].data
  <2>1. i = 0 /\ slots'[0] = out.tile
    BY <1>3, <1>4, <1>8, <1>11
  <2>2. region' = WriteActive(region, out.tile.data)
    BY <1>2, <1>7, <1>11, <2>1 DEF LoadMoves
  <2>3. region'.primary = out.tile.data
    BY <1>4, <1>11, <2>2 DEF WriteActive, Region
  <2>. QED
    BY <2>1, <2>3
<1>. QED
  BY <1>3, <1>9, <1>10, <1>11 DEF OwnInv

LEMMA OwnPreloaded ==
    ASSUME PipelineInv, OwnInv, Preloaded
    PROVE  OwnInv'
<1>. DEFINE t == slots[cursor]
            next == [t EXCEPT !.stage = "COMPUTE", !.left = t.cycles]
<1>1. /\ Advances("PRELOAD") /\ slots' = [slots EXCEPT ![cursor] = next]
      /\ region' = IF t.load = "null" THEN Swap(region) ELSE NotifyShadowWrite(Swap(region))
      /\ TRUE \in SeenDone(t.load)
      /\ UNCHANGED <<queued, initialized, depth>>
  BY DEF Preloaded, configVars
<1>2. cursor \in Slots /\ t \in Tile
  BY <1>1, VisitedSlot DEF Advances
<1>3. next.load = t.load /\ next.data = t.data
  BY <1>2 DEF Tile
<1>4. t.load # "queued"
  BY <1>1 DEF SeenDone
<1>. HIDE DEF next
<1>5. slots \in [Slots -> Tile] /\ region \in Region(Data) /\ 0 \in Slots
  BY PipelineAssumption DEF PipelineInv, TypeOK, Data, Slots
<1>6. \A j \in Slots : /\ slots'[j] = IF j = cursor THEN next ELSE slots[j]
                      /\ slots'[j].load = slots[j].load /\ slots'[j].data = slots[j].data
  BY <1>1, <1>2, <1>3, <1>5
<1>7. ~region'.enabled => ~region.enabled /\ region'.primary = region.primary
  BY <1>1, <1>5 DEF Swap, NotifyShadowWrite, Region
<1>8. \A j \in Slots : slots'[j].stage \in {"COMPUTE", "STORE"} => slots'[j].load # "queued"
  <2>. SUFFICES ASSUME NEW j \in Slots, slots'[j].stage \in {"COMPUTE", "STORE"}
                PROVE  slots[j].load # "queued"
    BY <1>6
  <2>1. CASE j = cursor
    BY <1>4, <2>1
  <2>2. CASE j # cursor
    BY <1>6, <2>2 DEF OwnInv
  <2>. QED
    BY <2>1, <2>2
<1>. QED
  BY <1>1, <1>5, <1>6, <1>7, <1>8 DEF OwnInv

LEMMA OwnComputed ==
    ASSUME PipelineInv, OwnInv, Computed
    PROVE  OwnInv'
<1>. DEFINE t == [slots[cursor] EXCEPT !.stage = "STORE"]
<1>1. PICK out \in IF t.store = "null" THEN {[tile |-> t, queues |-> FALSE]} ELSE Outcomes(t, "store") :
         /\ slots' = [slots EXCEPT ![cursor] = out.tile]
         /\ queued' = Queued("store", cursor, out.queues)
  BY DEF Computed
<1>2. Advances("COMPUTE") /\ UNCHANGED <<initialized, depth, region>>
  BY DEF Computed, configVars
<1>3. cursor \in Slots /\ cursor < depth /\ slots[cursor] \in Tile /\ slots[cursor].stage = "COMPUTE"
  BY <1>2, VisitedSlot DEF Advances
<1>4. t \in Tile /\ t.load = slots[cursor].load /\ t.data = slots[cursor].data
  BY <1>3 DEF Tile
<1>. HIDE DEF t
<1>5. out.tile.load = t.load /\ out.tile.data = t.data
  <2>1. CASE t.store = "null"
    BY <1>1, <2>1
  <2>2. CASE t.store # "null"
    <3>1. out \in Outcomes(t, "store") /\ "store" \in Ways
      BY <1>1, <2>2 DEF Ways
    <3>2. "store" # "load"
      OBVIOUS
    <3>. QED
      BY <1>4, <3>1, <3>2, OutcomeType
  <2>. QED
    BY <2>1, <2>2
<1>6. slots \in [Slots -> Tile] /\ queued \in [Ways -> Seq(Slots)] /\ 0 \in Slots
  BY PipelineAssumption DEF PipelineInv, TypeOK, Slots
<1>7. \A j \in Slots : /\ slots'[j].load = slots[j].load /\ slots'[j].data = slots[j].data
                      /\ (j # cursor => slots'[j] = slots[j])
  BY <1>1, <1>3, <1>4, <1>5, <1>6
<1>8. \A j \in Slots : slots'[j].stage \in {"COMPUTE", "STORE"} => slots'[j].load # "queued"
  BY <1>3, <1>7 DEF OwnInv
<1>9. \A w \in Ways : \A k \in DOMAIN queued'[w] : queued'[w][k] < depth'
  <2>. SUFFICES ASSUME NEW w \in Ways, NEW k \in DOMAIN queued'[w] PROVE queued'[w][k] < depth
    BY <1>2
  <2>1. CASE w = "store" /\ out.queues
    <3>1. queued[w] \in Seq(Slots) /\ queued'[w] = Append(queued[w], cursor)
      BY <1>1, <1>6, <2>1 DEF Queued
    <3>2. \A l \in DOMAIN queued[w] : queued[w][l] < depth
      BY DEF OwnInv
    <3>. QED
      BY <1>3, <3>1, <3>2
  <2>2. CASE ~(w = "store" /\ out.queues)
    <3>1. queued'[w] = queued[w]
      BY <1>1, <1>6, <2>2 DEF Queued
    <3>. QED
      BY <3>1 DEF OwnInv
  <2>. QED
    BY <2>1, <2>2
<1>. QED
  BY <1>2, <1>6, <1>7, <1>8, <1>9 DEF OwnInv

LEMMA OwnStored ==
    ASSUME PipelineInv, OwnInv, Stored
    PROVE  OwnInv'
<1>. DEFINE t == slots[cursor]
            next == [t EXCEPT !.stage = "DONE", !.load = "null", !.store = "null"]
<1>1. /\ Advances("STORE") /\ slots' = [slots EXCEPT ![cursor] = next]
      /\ UNCHANGED <<queued, initialized, depth, region>>
  BY DEF Stored, configVars
<1>2. cursor \in Slots /\ t \in Tile
  BY <1>1, VisitedSlot DEF Advances
<1>3. next.load = "null"
  BY <1>2 DEF Tile
<1>. HIDE DEF next
<1>4. slots \in [Slots -> Tile] /\ 0 \in Slots
  BY PipelineAssumption DEF PipelineInv, TypeOK, Slots
<1>5. \A j \in Slots : slots'[j].load = "null" \/ slots'[j] = slots[j]
  BY <1>1, <1>2, <1>3, <1>4
<1>. QED
  BY <1>1, <1>4, <1>5 DEF OwnInv

LEMMA OwnStep == PipelineInv /\ OwnInv /\ [Next]_vars => OwnInv'
<1>. SUFFICES ASSUME PipelineInv, OwnInv, [Next]_vars PROVE OwnInv'
  OBVIOUS
<1>1. CASE UNCHANGED vars
  BY <1>1 DEF vars, configVars, OwnInv
<1>2. ASSUME NEW c \in Configs, Initialize(c) PROVE OwnInv'
  <2>1. \A w \in Ways : queued'[w] = <<>>
    BY <1>2 DEF PipelineInv, EmptyBefore, Initialize
  <2>. QED
    BY <1>2, <2>1, OwnCleared DEF Initialize
<1>3. ASSUME NEW keep \in BOOLEAN, Reset(keep) PROVE OwnInv'
  <2>1. \A w \in Ways : queued'[w] = <<>>
    BY <1>3 DEF Reset
  <2>. QED
    BY <1>3, <2>1, OwnCleared DEF Reset
<1>4. ASSUME NEW r \in Requests, Submit(r) PROVE OwnInv'
  <2>1. /\ UNCHANGED <<slots, region, queued>>
        /\ \/ UNCHANGED <<initialized, depth>>
           \/ initialized' /\ ~initialized /\ \A w \in Ways : queued[w] = <<>>
    BY <1>4 DEF Submit, PipelineInv, TypeOK, EmptyBefore
  <2>2. \A i \in Slots : /\ slots'[i].load = slots[i].load /\ slots'[i].data = slots[i].data
                        /\ (slots'[i].stage \in {"COMPUTE", "STORE"} => slots'[i].load # "queued")
    BY <2>1 DEF OwnInv
  <2>. QED
    BY <2>1, <2>2, OwnSame
<1>5. CASE GiveUp \/ Sync \/ SyncReturns \/ ClientAdvance \/ PassOver \/ AdvanceReturns
           \/ ClientClock \/ Round
  <2>1. UNCHANGED <<region, queued, initialized, depth>>
    BY <1>5 DEF GiveUp, Sync, SyncReturns, ClientAdvance, PassOver, AdvanceReturns, ClientClock,
                Round, configVars
  <2>2. \A i \in Slots : /\ slots'[i].load = slots[i].load /\ slots'[i].data = slots[i].data
                        /\ slots'[i].stage = slots[i].stage
    <3>1. UNCHANGED slots \/ slots' = Later(slots)
      BY <1>5 DEF GiveUp, Sync, SyncReturns, ClientAdvance, PassOver, AdvanceReturns, ClientClock, Round
    <3>. QED
      BY <3>1, LaterKeeps
  <2>3. \A i \in Slots : slots'[i].stage \in {"COMPUTE", "STORE"} => slots'[i].load # "queued"
    BY <2>2 DEF OwnInv
  <2>. QED
    BY <2>1, <2>2, <2>3, OwnSame
<1>6. CASE Tick \/ EngineTick
  BY <1>6, OwnTick DEF Tick, EngineTick, configVars
<1>. QED
  BY <1>1, <1>2, <1>3, <1>4, <1>5, <1>6, OwnPlace, OwnPreloaded, OwnComputed, OwnStored
     DEF Next, Visit, Wait

LEMMA OwnInit == Init => OwnInv
<1>. SUFFICES ASSUME Init PROVE OwnInv
  OBVIOUS
<1>1. \A i \in Slots : slots[i].load = "null"
  BY DEF Init, IdleTile
<1>2. \A w \in Ways : DOMAIN queued[w] = {}
  BY DEF Init
<1>3. 0 \in Slots
  BY PipelineAssumption DEF Slots
<1>. QED
  BY <1>1, <1>2, <1>3 DEF OwnInv

\* A pipeline of one slot and one buffer computes and stores on the data the
\* tile itself loaded, whatever order the engine and the waits take.
THEOREM TilesComputeOnOwnData == Spec => []ComputesOnOwnData
<1>1. OwnInv => ComputesOnOwnData
  <2>1. 0 \in Slots
    BY PipelineAssumption DEF Slots
  <2>. QED
    BY <2>1 DEF OwnInv, ComputesOnOwnData
<1>2. Spec => []OwnInv
  BY PipelineInvariant, OwnInit, OwnStep, PTL DEF Spec
<1>. QED
  BY <1>1, <1>2, PTL

=============================================================================
