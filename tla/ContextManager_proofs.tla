----------------------- MODULE ContextManager_proofs -----------------------
(***************************************************************************)
(* Proofs about ContextManager, for every number of contexts, scope,       *)
(* policy and set of contents: its type invariant under every client and,  *)
(* under every client that frees only what it allocated and waits for its  *)
(* transfers, that at most one context is ACTIVE, that active_count counts *)
(* the allocated ones, and that contexts are isolated from each other.     *)
(***************************************************************************)
EXTENDS ContextManager, FiniteSetTheorems, TLAPS

\* What the counter is bounded by, whatever the client frees.
CountBounded == active_count <= Cardinality(Allocated)

\* Every set of contexts is finite and no larger than MaxContexts.
LEMMA ContextSets ==
    ASSUME NEW S \in SUBSET Contexts
    PROVE  IsFiniteSet(S) /\ Cardinality(S) \in 0 .. MaxContexts
<1>1. IsFiniteSet(Contexts) /\ Cardinality(Contexts) = MaxContexts
  BY FS_Interval, ManagerAssumption DEF Contexts
<1>2. IsFiniteSet(S) /\ Cardinality(S) <= Cardinality(Contexts)
  BY <1>1, FS_Subset
<1>3. Cardinality(S) \in Nat
  BY <1>2, FS_CardinalityType
<1>4. QED
  BY <1>1, <1>2, <1>3, ManagerAssumption

-----------------------------------------------------------------------------
\* Snapshots and restored contents have the shapes TypeOK gives them.
LEMMA ImageTypes ==
    ASSUME NEW mem \in Contents
    PROVE  /\ Snapshot(mem) \in Image
           /\ \A image \in Image : Loaded(image, mem) \in Contents
BY DEF Contents, Image, Snapshot, Loaded

\* What a program learns has the type of a view.
LEMMA LearntTypes ==
    ASSUME TypeOK, NEW c \in Contexts, NEW p \in Parts, NEW value \in Values
    PROVE  Learnt(c, p, value) \in [Contexts -> Image]
BY DEF TypeOK, Learnt, Image

\* A save keeps the types, and it neither allocates nor frees.
LEMMA SaveTypes ==
    ASSUME TypeOK
    PROVE  /\ StateAfterSave \in [Contexts -> States]
           /\ SavedAfterSave \in [Contexts -> Image]
           /\ \A c \in Contexts : StateAfterSave[c] = "IDLE" <=> state[c] = "IDLE"
BY ImageTypes DEF TypeOK, States, Current, StateAfterSave, SavedAfterSave

-----------------------------------------------------------------------------
\* Every operation that changes no allocation keeps the types.
LEMMA TypeMoves ==
    ASSUME TypeOK, CountBounded,
           \/ \E c \in Contexts : Unblock(c) \/ Restore(c)
           \/ \E c \in Contexts, p \in Priorities : SetPriority(c, p)
           \/ BlockCurrent \/ Save \/ RequestSwitch
           \/ \E id \in 0 .. MaxContexts : Switch(id)
           \/ Program
    PROVE  TypeOK' /\ Allocated' = Allocated /\ active_count' = active_count
<1> USE ManagerAssumption
<1>1. ASSUME NEW c \in Contexts, Unblock(c)
      PROVE  TypeOK' /\ Allocated' = Allocated /\ active_count' = active_count
  BY <1>1 DEF TypeOK, Unblock, States, Allocated
<1>2. ASSUME NEW c \in Contexts, Restore(c)
      PROVE  TypeOK' /\ Allocated' = Allocated /\ active_count' = active_count
  <2>1. saved[c] \in Image /\ core \in Contents
    BY DEF TypeOK
  <2>2. Loaded(saved[c], core) \in Contents
    BY <2>1, ImageTypes
  <2>3. QED
    BY <1>2, <2>2 DEF TypeOK, Restore, States, Allocated
<1>3. ASSUME NEW c \in Contexts, NEW p \in Priorities, SetPriority(c, p)
      PROVE  TypeOK' /\ Allocated' = Allocated /\ active_count' = active_count
  BY <1>3 DEF TypeOK, SetPriority, Allocated
<1>4. ASSUME NEW st \in {"READY", "BLOCKED"}, SaveTo(st)
      PROVE  TypeOK' /\ Allocated' = Allocated /\ active_count' = active_count
  BY <1>4, SaveTypes DEF TypeOK, SaveTo, States, Allocated, Current
<1>5. ASSUME NEW id, SwitchTo(id)
      PROVE  TypeOK' /\ Allocated' = Allocated /\ active_count' = active_count
  <2>1. CASE id \in Contexts /\ StateAfterSave[id] = "READY"
    <3>1. SavedAfterSave[id] \in Image /\ core \in Contents
      BY <2>1, SaveTypes DEF TypeOK
    <3>2. Loaded(SavedAfterSave[id], core) \in Contents
      BY <3>1, ImageTypes
    <3>3. /\ state' = [StateAfterSave EXCEPT ![id] = "ACTIVE"]
          /\ core' = Loaded(SavedAfterSave[id], core)
          /\ active_ctx_id' = id
          /\ saved' = SavedAfterSave
          /\ UNCHANGED <<config, priority, active_count, in_flight, view>>
      BY <1>5, <2>1 DEF SwitchTo
    <3>4. TypeOK'
      BY <2>1, <3>2, <3>3, SaveTypes DEF TypeOK, States
    <3>5. Allocated' = Allocated
      BY <2>1, <3>3, SaveTypes DEF Allocated
    <3>6. QED
      BY <3>3, <3>4, <3>5
  <2>2. CASE ~(id \in Contexts /\ StateAfterSave[id] = "READY")
    BY <1>5, <2>2, SaveTypes DEF TypeOK, SwitchTo, Allocated
  <2>3. QED
    BY <2>1, <2>2
<1>6. ASSUME Program
      PROVE  TypeOK' /\ Allocated' = Allocated /\ active_count' = active_count
  <2>1. ASSUME NEW p \in Parts, NEW value \in Values, Write(p, value)
        PROVE  TypeOK' /\ Allocated' = Allocated /\ active_count' = active_count
    <3>1. view' \in [Contexts -> Image]
      BY <2>1, LearntTypes DEF Write, TypeOK
    <3>2. QED
      BY <2>1, <3>1 DEF TypeOK, Write, Contents, Allocated
  <2>2. ASSUME NEW p \in Parts \ {"control"}, NEW value \in Values,
               SubmitTransfer(p, value)
        PROVE  TypeOK' /\ Allocated' = Allocated /\ active_count' = active_count
    BY <2>2 DEF TypeOK, SubmitTransfer, Transfer, Allocated
  <2>3. ASSUME Land
        PROVE  TypeOK' /\ Allocated' = Allocated /\ active_count' = active_count
    <3>1. in_flight \in Transfer
      BY <2>3 DEF Land, TypeOK
    <3>2. /\ in_flight.part \in Parts /\ in_flight.value \in Values
          /\ in_flight.owner \in Contexts
      BY <3>1 DEF Transfer
    <3>3. view' \in [Contexts -> Image]
      BY <2>3, <3>2, LearntTypes DEF Land
    <3>4. core' \in Contents
      BY <2>3, <3>2 DEF Land, TypeOK, Contents
    <3>5. QED
      BY <2>3, <3>3, <3>4 DEF TypeOK, Land, Allocated
  <2>4. QED
    BY <1>6, <2>1, <2>2, <2>3 DEF Program
<1>7. QED
  BY <1>1, <1>2, <1>3, <1>4, <1>5, <1>6
  DEF BlockCurrent, Save, RequestSwitch, Switch

\* Allocation takes one slot, and the count follows.
LEMMA TypeAlloc ==
    ASSUME TypeOK, CountBounded, NEW c \in Contexts, Alloc(c)
    PROVE  /\ TypeOK' /\ CountBounded'
           /\ Cardinality(Allocated') = Cardinality(Allocated) + 1
<1>1. Snapshot(core) \in Image
  BY ImageTypes DEF TypeOK
<1>2. state' \in [Contexts -> States]
  BY DEF TypeOK, Alloc, States
<1>3. Allocated' = Allocated \cup {c} /\ c \notin Allocated
  BY DEF TypeOK, Alloc, Allocated
<1>4. Cardinality(Allocated') = Cardinality(Allocated) + 1
  BY <1>3, ContextSets, FS_AddElement DEF Allocated
<1>5. Cardinality(Allocated) \in 0 .. MaxContexts
      /\ Cardinality(Allocated') \in 0 .. MaxContexts
  BY <1>3, ContextSets DEF Allocated
<1>6. active_count' = active_count + 1
  BY DEF Alloc
<1>7. CountBounded' /\ active_count' \in 0 .. MaxContexts
  BY <1>4, <1>5, <1>6, ManagerAssumption DEF TypeOK, CountBounded
<1>8. TypeOK'
  BY <1>1, <1>2, <1>7, ManagerAssumption DEF TypeOK, Alloc, DefaultPriority
<1>9. QED
  BY <1>4, <1>7, <1>8

\* Freeing gives back at most one, and the count never runs ahead.
LEMMA TypeFree ==
    ASSUME TypeOK, CountBounded, NEW c \in Contexts, Free(c)
    PROVE  TypeOK' /\ CountBounded'
<1> DEFINE saves == state[c] = "ACTIVE"
           states == IF saves THEN StateAfterSave ELSE state
           images == IF saves THEN SavedAfterSave ELSE saved
<1>1. /\ states \in [Contexts -> States] /\ images \in [Contexts -> Image]
      /\ \A d \in Contexts : states[d] = "IDLE" <=> state[d] = "IDLE"
  BY SaveTypes DEF TypeOK
<1>2. UNCHANGED <<config, active_ctx_id, core, in_flight>>
  BY DEF Free
<1>3. CASE states[c] = "ACTIVE"
  <2>1. /\ state' = states /\ saved' = images
        /\ UNCHANGED <<priority, active_count, view>>
    BY <1>3 DEF Free
  <2>2. Allocated' = Allocated
    BY <1>1, <2>1 DEF Allocated
  <2>3. QED
    BY <1>1, <1>2, <2>1, <2>2 DEF TypeOK, CountBounded
<1>4. CASE states[c] # "ACTIVE"
  <2>1. /\ state' = [states EXCEPT ![c] = "IDLE"]
        /\ saved' = [images EXCEPT ![c] = NoImage]
        /\ view' = [view EXCEPT ![c] = NoImage]
        /\ priority' = [priority EXCEPT ![c] = 0]
        /\ active_count' = CountAfterFree
    BY <1>4 DEF Free
  <2>2. NoImage \in Image
    BY DEF NoImage, Image
  <2>3. Allocated' = Allocated \ {c}
    BY <1>1, <2>1 DEF Allocated
  <2>4. Cardinality(Allocated') >= Cardinality(Allocated) - 1
        /\ Cardinality(Allocated) \in Nat /\ Cardinality(Allocated') \in Nat
    <3>1. IsFiniteSet(Allocated) /\ Cardinality(Allocated) \in Nat
          /\ Cardinality(Allocated \ {c}) \in Nat
      BY ContextSets DEF Allocated
    <3>2. Cardinality(Allocated \ {c}) =
            IF c \in Allocated THEN Cardinality(Allocated) - 1
            ELSE Cardinality(Allocated)
      BY <3>1, FS_RemoveElement
    <3>3. QED
      BY <2>3, <3>1, <3>2
  <2>5. active_count' \in 0 .. MaxContexts /\ CountBounded'
    BY <2>1, <2>4, ManagerAssumption DEF TypeOK, CountBounded, CountAfterFree
  <2>6. TypeOK'
    BY <1>1, <1>2, <2>1, <2>2, <2>5, ManagerAssumption DEF TypeOK, States
  <2>7. QED
    BY <2>5, <2>6
<1>5. QED
  BY <1>3, <1>4

\* The types hold at first and every step keeps them.
LEMMA TypeInvariant == Spec => [](TypeOK /\ CountBounded)
<1>1. Init => TypeOK /\ CountBounded
  <2> SUFFICES ASSUME Init PROVE TypeOK /\ CountBounded
    OBVIOUS
  <2>1. NoImage \in Image
    BY DEF NoImage, Image
  <2>2. TypeOK
    BY <2>1, ManagerAssumption
    DEF Init, TypeOK, States, Contexts, Contents, DefaultPriority
  <2>3. Cardinality(Allocated) \in Nat
    BY ContextSets DEF Allocated
  <2>4. QED
    BY <2>2, <2>3 DEF Init, CountBounded
<1>2. TypeOK /\ CountBounded /\ [Next]_vars => (TypeOK /\ CountBounded)'
  <2> SUFFICES ASSUME TypeOK, CountBounded, [Next]_vars
               PROVE  (TypeOK /\ CountBounded)'
    OBVIOUS
  <2>1. CASE \E c \in Contexts : Alloc(c)
    BY <2>1, TypeAlloc
  <2>2. CASE \E c \in Contexts : Free(c)
    BY <2>2, TypeFree
  <2>3. CASE \/ \E c \in Contexts : Unblock(c) \/ Restore(c)
             \/ \E c \in Contexts, p \in Priorities : SetPriority(c, p)
             \/ BlockCurrent \/ Save \/ RequestSwitch
             \/ \E id \in 0 .. MaxContexts : Switch(id)
             \/ Program
    BY <2>3, TypeMoves DEF CountBounded
  <2>4. CASE UNCHANGED vars
    BY <2>4 DEF TypeOK, CountBounded, Allocated, vars
  <2>5. QED
    BY <2>1, <2>2, <2>3, <2>4 DEF Next
<1>3. QED
  BY <1>1, <1>2, PTL DEF Spec

\* The context manager never leaves the types of its fields, active_count
\* included, whatever its client does.
THEOREM TypeCorrectness == Spec => []TypeOK
BY TypeInvariant, PTL

-----------------------------------------------------------------------------
\* The strengthening: between two of its turns the image the manager keeps of
\* a context is what the context's program knows, it covers exactly what the
\* scope retains, and a transfer in flight is the running program's own.
TransferOwned ==
    in_flight # None => /\ config.dma = "flushed"
                        /\ Current /\ in_flight.owner = active_ctx_id
SavedIsView ==
    \A c \in Contexts : state[c] \in {"READY", "BLOCKED"} => saved[c] = view[c]
ViewShape ==
    \A c \in Contexts : state[c] # "IDLE" =>
        \A p \in Parts : view[c][p] = None <=> p \notin Retained

SwitchInv == /\ OneActive /\ CountIsAllocated /\ Isolation
             /\ TransferOwned /\ SavedIsView /\ ViewShape

\* The clients under which it holds.
Disciplined(k) == k.client # "freesIdle" /\ k.dma # "unflushed"

\* The configuration is fixed when the manager is created.
LEMMA ConfigFixed == ASSUME [Next]_vars PROVE config' = config /\ Retained' = Retained
<1>1. config' = config
  BY DEF Next, Alloc, Free, Unblock, Restore, SetPriority, BlockCurrent, Save, SaveTo,
         RequestSwitch, Switch, SwitchTo, Program, Write, SubmitTransfer, Land, vars
<1>2. QED
  BY <1>1 DEF Retained

\* Only parts of the core are retained.
LEMMA RetainedParts == ASSUME TypeOK PROVE Retained \subseteq Parts
BY ManagerAssumption DEF TypeOK, Config, Retained

\* A snapshot of the core is what the current context's program knows.
LEMMA CoreMatches ==
    ASSUME TypeOK, SwitchInv, Current
    PROVE  Snapshot(core) = view[active_ctx_id]
<1> DEFINE a == active_ctx_id
<1>1. a \in Contexts /\ view[a] \in Image
  BY DEF TypeOK
<1>2. /\ \A p \in Retained : core[p] = view[a][p]
      /\ \A p \in Parts : view[a][p] = None <=> p \notin Retained
  BY <1>1 DEF SwitchInv, Isolation, ViewShape, Current
<1>3. \A p \in Parts : Snapshot(core)[p] = view[a][p]
  BY <1>2 DEF Snapshot
<1>4. QED
  BY <1>1, <1>3 DEF Snapshot, Image

\* A save leaves the core to nobody, and every context resumable.
LEMMA AfterSave ==
    ASSUME TypeOK, SwitchInv
    PROVE  \A c \in Contexts :
                /\ StateAfterSave[c] # "ACTIVE"
                /\ StateAfterSave[c] \in {"READY", "BLOCKED"} =>
                     SavedAfterSave[c] = view[c]
<1> DEFINE a == active_ctx_id
<1>1. CASE ~Current
  <2>1. \A c \in Contexts : state[c] # "ACTIVE"
    BY <1>1 DEF SwitchInv, OneActive, Current
  <2>2. QED
    BY <1>1, <2>1 DEF SwitchInv, SavedIsView, StateAfterSave, SavedAfterSave
<1>2. CASE Current
  <2>1. /\ StateAfterSave = [state EXCEPT ![a] = "READY"]
        /\ SavedAfterSave = [saved EXCEPT ![a] = view[a]]
    BY <1>2, CoreMatches DEF StateAfterSave, SavedAfterSave
  <2>2. ASSUME NEW c \in Contexts, c # a PROVE state[c] # "ACTIVE"
    BY <2>2 DEF SwitchInv, OneActive
  <2>3. QED
    BY <2>1, <2>2 DEF SwitchInv, SavedIsView, TypeOK
<1>3. QED
  BY <1>1, <1>2

\* The core changes hands only when no transfer is in flight.
LEMMA NothingInFlight ==
    ASSUME SwitchInv, MayLeave \/ ~Current
    PROVE  in_flight = None
BY DEF SwitchInv, TransferOwned, MayLeave

-----------------------------------------------------------------------------
\* A context resumed from its image finds what its program knew.
LEMMA Resumed ==
    ASSUME TypeOK, NEW image, NEW mem, NEW p \in Retained, image[p] # None
    PROVE  Loaded(image, mem)[p] = image[p]
BY RetainedParts DEF Loaded

\* Allocation makes a context ACTIVE only on a core that nobody uses.
LEMMA SwitchAlloc ==
    ASSUME TypeOK, CountBounded, SwitchInv, NEW c \in Contexts, Alloc(c),
           config' = config, Retained' = Retained
    PROVE  SwitchInv'
<1>1. /\ state[c] = "IDLE"
      /\ state' = [state EXCEPT ![c] =
                      IF active_count = 0 THEN "ACTIVE" ELSE "READY"]
      /\ saved' = [saved EXCEPT ![c] = Snapshot(core)]
      /\ view' = [view EXCEPT ![c] = Snapshot(core)]
      /\ active_ctx_id' = IF active_count = 0 THEN c ELSE active_ctx_id
      /\ active_count' = active_count + 1
      /\ core' = core /\ in_flight' = in_flight
  BY DEF Alloc, Allocated
<1>2. CountIsAllocated'
  BY <1>1, TypeAlloc DEF SwitchInv, CountIsAllocated
<1>3. \A p \in Parts : /\ Snapshot(core)[p] = None <=> p \notin Retained
                       /\ p \in Retained => Snapshot(core)[p] = core[p]
  BY ManagerAssumption DEF TypeOK, Contents, Snapshot
<1>4. (SavedIsView /\ ViewShape)'
  BY <1>1, <1>3 DEF SwitchInv, SavedIsView, ViewShape, TypeOK
<1>5. CASE active_count = 0
  <2>1. IsFiniteSet(Allocated) /\ Cardinality(Allocated) = 0
    BY <1>5, ContextSets DEF SwitchInv, CountIsAllocated, Allocated
  <2>2. \A d \in Contexts : state[d] = "IDLE"
    BY <2>1, FS_EmptySet DEF Allocated
  <2>3. in_flight = None
    BY <2>2, NothingInFlight DEF Current, TypeOK
  <2>4. OneActive' /\ TransferOwned'
    BY <1>1, <1>5, <2>2, <2>3 DEF OneActive, TransferOwned, TypeOK
  <2>5. Isolation'
    BY <1>1, <1>3, <1>5, RetainedParts DEF Isolation, TypeOK
  <2>6. QED
    BY <1>2, <1>4, <2>4, <2>5 DEF SwitchInv
<1>6. CASE active_count # 0
  <2>1. /\ active_ctx_id' = active_ctx_id
        /\ \A d \in Contexts : state'[d] = "ACTIVE" <=> state[d] = "ACTIVE"
    BY <1>1, <1>6 DEF TypeOK
  <2>2. Current' <=> Current
    BY <2>1 DEF Current, TypeOK
  <2>3. OneActive' /\ TransferOwned'
    BY <1>1, <2>1, <2>2 DEF SwitchInv, OneActive, TransferOwned
  <2>4. Isolation'
    BY <1>1, <2>1, <2>2 DEF SwitchInv, Isolation, Current, TypeOK
  <2>5. QED
    BY <1>2, <1>4, <2>3, <2>4 DEF SwitchInv
<1>7. QED
  BY <1>5, <1>6

\* Nothing to show of a core nobody runs on.
LEMMA NobodyRuns ==
    ASSUME TypeOK, in_flight = None, in_flight' = in_flight,
           active_ctx_id' = active_ctx_id,
           \A c \in Contexts : state'[c] # "ACTIVE"
    PROVE  (OneActive /\ Isolation /\ TransferOwned)'
BY DEF OneActive, Isolation, TransferOwned, Current, TypeOK

\* Freeing an allocated context takes it off the count and off the core.
LEMMA SwitchFree ==
    ASSUME TypeOK, CountBounded, SwitchInv, NEW c \in Contexts, Free(c),
           config.client # "freesIdle", config' = config, Retained' = Retained
    PROVE  SwitchInv'
<1> DEFINE saves == state[c] = "ACTIVE"
           states == IF saves THEN StateAfterSave ELSE state
           images == IF saves THEN SavedAfterSave ELSE saved
<1>1. c \in Allocated /\ (saves => c = active_ctx_id /\ MayLeave)
  BY DEF Free, SwitchInv, OneActive
<1>2. /\ states \in [Contexts -> States] /\ images \in [Contexts -> Image]
      /\ \A d \in Contexts : states[d] = "IDLE" <=> state[d] = "IDLE"
      /\ states[c] # "ACTIVE"
  BY SaveTypes, AfterSave DEF TypeOK
<1>3. /\ state' = [states EXCEPT ![c] = "IDLE"]
      /\ saved' = [images EXCEPT ![c] = NoImage]
      /\ view' = [view EXCEPT ![c] = NoImage]
      /\ active_count' = CountAfterFree
      /\ active_ctx_id' = active_ctx_id
      /\ core' = core /\ in_flight' = in_flight
  BY <1>2 DEF Free
<1>4. CountIsAllocated'
  <2>1. Allocated' = Allocated \ {c}
    BY <1>2, <1>3 DEF Allocated
  <2>2. Cardinality(Allocated') = Cardinality(Allocated) - 1
        /\ Cardinality(Allocated') \in Nat
    <3>1. IsFiniteSet(Allocated) /\ Cardinality(Allocated \ {c}) \in Nat
      BY ContextSets DEF Allocated
    <3>2. Cardinality(Allocated \ {c}) = Cardinality(Allocated) - 1
      BY <1>1, <3>1, FS_RemoveElement
    <3>3. QED
      BY <2>1, <3>1, <3>2
  <2>3. active_count = Cardinality(Allocated) /\ active_count \in Nat
    BY DEF SwitchInv, CountIsAllocated, TypeOK
  <2>4. QED
    BY <1>3, <2>2, <2>3 DEF CountIsAllocated, CountAfterFree
<1>5. \A d \in Contexts : /\ d = c => state'[d] = "IDLE"
                          /\ d # c => /\ state'[d] = states[d]
                                      /\ saved'[d] = images[d]
                                      /\ view'[d] = view[d]
  BY <1>2, <1>3 DEF TypeOK
<1>6. ViewShape'
  <2> SUFFICES ASSUME NEW d \in Contexts, state'[d] # "IDLE"
               PROVE  \A p \in Parts : view'[d][p] = None <=> p \notin Retained'
    BY DEF ViewShape
  <2>1. d # c /\ state'[d] = states[d] /\ view'[d] = view[d]
    BY <1>5
  <2>2. states[d] # "IDLE"
    BY <2>1
  <2>3. state[d] # "IDLE"
    BY <1>2, <2>2
  <2>4. QED
    BY <2>1, <2>3 DEF SwitchInv, ViewShape
<1>7. CASE saves
  <2>1. \A d \in Contexts : state'[d] # "ACTIVE"
    BY <1>5, <1>7, AfterSave
  <2>2. in_flight = None
    BY <1>1, <1>7, NothingInFlight
  <2>3. (OneActive /\ Isolation /\ TransferOwned)'
    BY <1>3, <2>1, <2>2, NobodyRuns
  <2>4. SavedIsView'
    BY <1>5, <1>7, AfterSave DEF SavedIsView
  <2>5. QED
    BY <1>4, <1>6, <2>3, <2>4 DEF SwitchInv
<1>8. CASE ~saves
  <2>1. Current' <=> Current
    BY <1>3, <1>5, <1>8 DEF Current, TypeOK
  <2>2. OneActive' /\ TransferOwned'
    BY <1>3, <1>5, <1>8, <2>1 DEF SwitchInv, OneActive, TransferOwned
  <2>3. Isolation'
    BY <1>3, <1>5, <1>8, <2>1 DEF SwitchInv, Isolation, Current, TypeOK
  <2>4. SavedIsView'
    BY <1>5, <1>8 DEF SwitchInv, SavedIsView
  <2>5. QED
    BY <1>4, <1>6, <2>2, <2>3, <2>4 DEF SwitchInv
<1>9. QED
  BY <1>7, <1>8

\* Saving for the client or to block leaves nobody on the core.
LEMMA SwitchSave ==
    ASSUME TypeOK, SwitchInv, NEW st \in {"READY", "BLOCKED"}, SaveTo(st),
           config' = config, Retained' = Retained, CountIsAllocated'
    PROVE  SwitchInv'
<1>1. /\ Current /\ MayLeave
      /\ state' = [state EXCEPT ![active_ctx_id] = st]
      /\ saved' = SavedAfterSave
      /\ UNCHANGED <<active_ctx_id, in_flight, view>>
  BY DEF SaveTo
<1>2. \A c \in Contexts :
        /\ state'[c] # "ACTIVE"
        /\ state'[c] \in {"READY", "BLOCKED"} =>
             StateAfterSave[c] \in {"READY", "BLOCKED"}
        /\ state'[c] # "IDLE" => state[c] # "IDLE"
  BY <1>1 DEF SwitchInv, OneActive, StateAfterSave, TypeOK, Current
<1>3. (OneActive /\ Isolation /\ TransferOwned)'
  BY <1>1, <1>2, NothingInFlight, NobodyRuns
<1>4. (SavedIsView /\ ViewShape)'
  BY <1>1, <1>2, AfterSave DEF SwitchInv, SavedIsView, ViewShape
<1>5. QED
  BY <1>3, <1>4 DEF SwitchInv

\* A switch resumes its target as it was left, or leaves the core to nobody.
LEMMA SwitchSwitch ==
    ASSUME TypeOK, SwitchInv, NEW id, SwitchTo(id),
           config' = config, Retained' = Retained, CountIsAllocated'
    PROVE  SwitchInv'
<1>1. saved' = SavedAfterSave /\ view' = view
      /\ in_flight = None /\ in_flight' = in_flight
  BY NothingInFlight DEF SwitchTo
<1>2. CASE id \in Contexts /\ StateAfterSave[id] = "READY"
  <2>1. /\ state' = [StateAfterSave EXCEPT ![id] = "ACTIVE"]
        /\ core' = Loaded(SavedAfterSave[id], core)
        /\ active_ctx_id' = id
    BY <1>2 DEF SwitchTo
  <2>2. OneActive' /\ TransferOwned'
    BY <1>1, <1>2, <2>1, AfterSave, SaveTypes DEF OneActive, TransferOwned
  <2>3. SavedIsView'
    BY <1>1, <1>2, <2>1, AfterSave, SaveTypes DEF SavedIsView
  <2>4. ViewShape'
    BY <1>1, <1>2, <2>1, SaveTypes DEF SwitchInv, ViewShape
  <2>5. Isolation'
    <3>1. SavedAfterSave[id] = view[id] /\ state[id] # "IDLE"
      BY <1>2, AfterSave, SaveTypes
    <3>2. \A p \in Retained : SavedAfterSave[id][p] # None
      BY <1>2, <3>1, RetainedParts DEF SwitchInv, ViewShape
    <3>3. \A p \in Retained : core'[p] = SavedAfterSave[id][p]
      BY <2>1, <3>2, Resumed
    <3>4. QED
      BY <1>1, <2>1, <3>1, <3>3 DEF Isolation
  <2>6. QED
    BY <2>2, <2>3, <2>4, <2>5 DEF SwitchInv
<1>3. CASE ~(id \in Contexts /\ StateAfterSave[id] = "READY")
  <2>1. state' = StateAfterSave /\ active_ctx_id' = active_ctx_id
    BY <1>3 DEF SwitchTo
  <2>2. (OneActive /\ Isolation /\ TransferOwned)'
    BY <1>1, <2>1, AfterSave, NobodyRuns
  <2>3. (SavedIsView /\ ViewShape)'
    BY <1>1, <2>1, AfterSave, SaveTypes DEF SwitchInv, SavedIsView, ViewShape
  <2>4. QED
    BY <2>2, <2>3 DEF SwitchInv
<1>4. QED
  BY <1>2, <1>3

\* Restoring onto a core nobody runs on.
LEMMA SwitchRestore ==
    ASSUME TypeOK, SwitchInv, NEW c \in Contexts, Restore(c),
           config' = config, Retained' = Retained, CountIsAllocated'
    PROVE  SwitchInv'
<1>1. /\ \A d \in Contexts : state[d] # "ACTIVE"
      /\ state[c] = "READY"
      /\ state' = [state EXCEPT ![c] = "ACTIVE"]
      /\ core' = Loaded(saved[c], core)
      /\ active_ctx_id' = c
      /\ UNCHANGED <<saved, in_flight, view>>
  BY DEF Restore
<1>2. in_flight = None
  BY <1>1, NothingInFlight DEF Current, TypeOK
<1>3. OneActive' /\ TransferOwned'
  BY <1>1, <1>2 DEF OneActive, TransferOwned, TypeOK
<1>4. (SavedIsView /\ ViewShape)'
  BY <1>1 DEF SwitchInv, SavedIsView, ViewShape, TypeOK
<1>5. saved[c] = view[c] /\ \A p \in Retained : view[c][p] # None
  BY <1>1, RetainedParts DEF SwitchInv, SavedIsView, ViewShape
<1>6. \A p \in Retained : core'[p] = view'[c][p]
  BY <1>1, <1>5, Resumed
<1>7. Isolation'
  BY <1>1, <1>6 DEF Isolation
<1>8. QED
  BY <1>3, <1>4, <1>7 DEF SwitchInv

\* A part of the core changes as the running program learns: by a write of its
\* own, or by the landing of its own transfer.
LEMMA SwitchChange ==
    ASSUME TypeOK, SwitchInv, Current, NEW p \in Parts, NEW value \in Values,
           core' = [core EXCEPT ![p] = value],
           view' = Learnt(active_ctx_id, p, value),
           UNCHANGED <<config, state, saved, active_ctx_id>>,
           in_flight' \in {in_flight, None},
           Retained' = Retained, CountIsAllocated'
    PROVE  SwitchInv'
<1> DEFINE a == active_ctx_id
<1>1. /\ a \in Contexts
      /\ view' = IF p \in Retained THEN [view EXCEPT ![a][p] = value] ELSE view
  BY DEF Learnt, TypeOK
<1>2. (OneActive /\ TransferOwned)'
  BY DEF SwitchInv, OneActive, TransferOwned, Current
<1>3. \A c \in Contexts : c # a => view'[c] = view[c]
  BY <1>1 DEF TypeOK
<1>4. \A q \in Parts : /\ core'[q] = IF q = p THEN value ELSE core[q]
                       /\ view'[a][q] = IF q = p /\ p \in Retained THEN value
                                        ELSE view[a][q]
  BY <1>1 DEF TypeOK, Contents, Image
<1>5. SavedIsView'
  BY <1>1, <1>3 DEF SwitchInv, SavedIsView, Current
<1>6. ViewShape'
  BY <1>1, <1>3, <1>4, ManagerAssumption DEF SwitchInv, ViewShape
<1>7. Isolation'
  BY <1>1, <1>4, RetainedParts DEF SwitchInv, Isolation, Current
<1>8. QED
  BY <1>2, <1>5, <1>6, <1>7 DEF SwitchInv

\* What the running program does, the manager need not know of.
LEMMA SwitchProgram ==
    ASSUME TypeOK, SwitchInv, Program, config.dma # "unflushed",
           config' = config, Retained' = Retained, CountIsAllocated'
    PROVE  SwitchInv'
<1>1. ASSUME NEW p \in Parts, NEW value \in Values, Write(p, value)
      PROVE  SwitchInv'
  BY <1>1, SwitchChange DEF Write
<1>2. ASSUME NEW p \in Parts \ {"control"}, NEW value \in Values,
             SubmitTransfer(p, value)
      PROVE  SwitchInv'
  <2>1. config.dma = "flushed"
    BY <1>2, ManagerAssumption DEF SubmitTransfer, TypeOK, Config
  <2>2. TransferOwned'
    BY <1>2, <2>1 DEF SubmitTransfer, TransferOwned, Current
  <2>3. QED
    BY <1>2, <2>2
    DEF SubmitTransfer, SwitchInv, OneActive, Isolation, SavedIsView, ViewShape,
        Current
<1>3. ASSUME Land PROVE SwitchInv'
  <2>1. /\ Current /\ in_flight.owner = active_ctx_id
        /\ in_flight.part \in Parts /\ in_flight.value \in Values
    BY <1>3 DEF Land, SwitchInv, TransferOwned, TypeOK, Transfer
  <2>2. QED
    BY <1>3, <2>1, SwitchChange DEF Land
<1>4. QED
  BY <1>1, <1>2, <1>3 DEF Program

\* The strengthening is an invariant of every manager whose client frees only
\* what it has allocated and whose programs wait for their transfers.
LEMMA SwitchInvariant ==
    ASSUME \A k \in Configs : Disciplined(k)
    PROVE  Spec => []SwitchInv
<1>1. Init => SwitchInv
  <2> SUFFICES ASSUME Init PROVE SwitchInv
    OBVIOUS
  <2>1. \A c \in Contexts : state[c] = "IDLE"
    BY DEF Init
  <2>2. Allocated = {} /\ 0 \in Contexts
    BY <2>1, ManagerAssumption DEF Allocated, Contexts
  <2>3. CountIsAllocated
    BY <2>2, FS_EmptySet DEF Init, CountIsAllocated
  <2>4. QED
    BY <2>1, <2>2, <2>3
    DEF Init, SwitchInv, OneActive, Isolation, TransferOwned, SavedIsView, ViewShape,
        Current
<1>2. SwitchInv /\ TypeOK /\ CountBounded /\ [Next]_vars => SwitchInv'
  <2> SUFFICES ASSUME SwitchInv, TypeOK, CountBounded, [Next]_vars PROVE SwitchInv'
    OBVIOUS
  <2>1. config' = config /\ Retained' = Retained
    BY ConfigFixed
  <2>2. config.client # "freesIdle" /\ config.dma # "unflushed"
    BY DEF TypeOK, Disciplined
  <2>3. CASE \E c \in Contexts : Alloc(c)
    BY <2>1, <2>3, SwitchAlloc
  <2>4. CASE \E c \in Contexts : Free(c)
    BY <2>1, <2>2, <2>4, SwitchFree
  <2>5. CASE UNCHANGED vars
    BY <2>1, <2>5
    DEF vars, SwitchInv, OneActive, CountIsAllocated, Allocated, Isolation,
        TransferOwned, SavedIsView, ViewShape, Current
  <2>6. ASSUME \/ \E c \in Contexts : Unblock(c) \/ Restore(c)
               \/ \E c \in Contexts, p \in Priorities : SetPriority(c, p)
               \/ BlockCurrent \/ Save \/ RequestSwitch
               \/ \E id \in 0 .. MaxContexts : Switch(id)
               \/ Program
        PROVE  SwitchInv'
    <3>1. CountIsAllocated'
      BY <2>6, TypeMoves DEF SwitchInv, CountIsAllocated
    <3>2. ASSUME NEW c \in Contexts, Unblock(c) PROVE SwitchInv'
      BY <2>1, <3>1, <3>2
      DEF Unblock, SwitchInv, OneActive, Isolation, TransferOwned, SavedIsView,
          ViewShape, Current, TypeOK
    <3>3. ASSUME NEW c \in Contexts, NEW p \in Priorities, SetPriority(c, p)
          PROVE  SwitchInv'
      BY <2>1, <3>1, <3>3
      DEF SetPriority, SwitchInv, OneActive, Isolation, TransferOwned, SavedIsView,
          ViewShape, Current
    <3>4. CASE BlockCurrent \/ Save
      BY <2>1, <3>1, <3>4, SwitchSave DEF BlockCurrent, Save
    <3>5. CASE RequestSwitch \/ \E id \in 0 .. MaxContexts : Switch(id)
      BY <2>1, <3>1, <3>5, SwitchSwitch DEF RequestSwitch, Switch
    <3>6. QED
      BY <2>1, <2>2, <2>6, <3>1, <3>2, <3>3, <3>4, <3>5, SwitchRestore, SwitchProgram
  <2>7. QED
    BY <2>3, <2>4, <2>5, <2>6 DEF Next
<1>3. QED
  BY <1>1, <1>2, TypeInvariant, PTL DEF Spec

\* tu_ctx_alloc and the switches never put two contexts on the core at once,
\* under a disciplined client.
THEOREM OneContextRuns ==
    ASSUME \A k \in Configs : Disciplined(k)
    PROVE  Spec => []OneActive
<1>1. SwitchInv => OneActive
  BY DEF SwitchInv
<1>2. QED
  BY <1>1, SwitchInvariant, PTL

\* active_count is the number of allocated contexts, under a disciplined client.
THEOREM CountIsExact ==
    ASSUME \A k \in Configs : Disciplined(k)
    PROVE  Spec => []CountIsAllocated
<1>1. SwitchInv => CountIsAllocated
  BY DEF SwitchInv
<1>2. QED
  BY <1>1, SwitchInvariant, PTL

\* Exactly one context owns the core and active_count knows when nobody does:
\* what tu_ctx_alloc decides on, under a disciplined client.
THEOREM SlotsAreAccounted ==
    ASSUME \A k \in Configs : Disciplined(k)
    PROVE  Spec => []SlotsAccounted
<1>1. OneActive /\ CountIsAllocated => SlotsAccounted
  BY DEF SlotsAccounted
<1>2. QED
  BY <1>1, OneContextRuns, CountIsExact, PTL

\* Whatever tu_ctx_switch, tu_ctx_block_current, tu_ctx_alloc and tu_ctx_free
\* do in between, a context is resumed with all its save scope retains as its
\* program left it, under a disciplined client.
THEOREM ContextsAreIsolated ==
    ASSUME \A k \in Configs : Disciplined(k)
    PROVE  Spec => []Isolation
<1>1. SwitchInv => Isolation
  BY DEF SwitchInv
<1>2. QED
  BY <1>1, SwitchInvariant, PTL

-----------------------------------------------------------------------------
(* The priority scheduler. *)

\* Being saved makes no context ACTIVE.
LEMMA SaveActivatesNobody ==
    ASSUME TypeOK, NEW c \in Ready
    PROVE  StateAfterSave[c] = "READY"
BY DEF TypeOK, Ready, StateAfterSave

\* A context the client allocates, frees or unblocks, saves or programs lets no
\* READY one run.
LEMMA OthersActivateNobody ==
    ASSUME TypeOK, NEW c \in Ready,
           \/ \E d \in Contexts : Alloc(d) \/ Free(d) \/ Unblock(d)
           \/ \E d \in Contexts, p \in Priorities : SetPriority(d, p)
           \/ BlockCurrent \/ Save \/ Program \/ UNCHANGED vars
    PROVE  state'[c] # "ACTIVE"
<1>0. state \in [Contexts -> States] /\ state[c] = "READY" /\ c \in Contexts
  BY DEF TypeOK, Ready
<1>1. ASSUME NEW d \in Contexts, Alloc(d) PROVE state'[c] # "ACTIVE"
  <2>1. d # c
    BY <1>0, <1>1 DEF Alloc, Allocated
  <2>. QED
    BY <1>0, <1>1, <2>1 DEF Alloc
<1>2. ASSUME NEW d \in Contexts, Free(d) PROVE state'[c] # "ACTIVE"
  <2>. DEFINE states == IF state[d] = "ACTIVE" THEN StateAfterSave ELSE state
  <2>1. states[c] = "READY" /\ states \in [Contexts -> States]
    BY <1>0, SaveActivatesNobody, SaveTypes
  <2>2. state' = states \/ state' = [states EXCEPT ![d] = "IDLE"]
    BY <1>2 DEF Free
  <2>. HIDE DEF states
  <2>. QED
    BY <1>0, <2>1, <2>2
<1>3. ASSUME NEW d \in Contexts, Unblock(d) PROVE state'[c] # "ACTIVE"
  BY <1>0, <1>3 DEF Unblock
<1>4. CASE BlockCurrent \/ Save
  BY <1>0, <1>4 DEF BlockCurrent, Save, SaveTo
<1>5. CASE \E d \in Contexts, p \in Priorities : SetPriority(d, p)
  BY <1>0, <1>5 DEF SetPriority
<1>6. CASE Program \/ UNCHANGED vars
  BY <1>0, <1>6 DEF Program, Write, SubmitTransfer, Land, vars
<1>. QED
  BY <1>1, <1>2, <1>3, <1>4, <1>5, <1>6

\* A client that switches by the scheduler alone never sees a READY context
\* resumed before one of higher priority, whoever it blocks, unblocks, frees or
\* reprioritizes in between.
THEOREM HighestRunsFirst == Spec => HighestFirst
<1>. DEFINE A == config.policy = "priority" /\ config.client = "scheduled" =>
                   \A c \in Ready : state'[c] = "ACTIVE" =>
                       \A d \in Ready : priority[d] <= priority[c]
<1>1. TypeOK /\ [Next]_vars => A
  <2>. SUFFICES ASSUME TypeOK, [Next]_vars, config.policy = "priority",
                       config.client = "scheduled",
                       NEW c \in Ready, state'[c] = "ACTIVE", NEW d \in Ready
                PROVE  priority[d] <= priority[c]
    OBVIOUS
  <2>1. RequestSwitch
    <3>1. \A e \in Contexts : ~Restore(e)
      BY DEF Restore
    <3>2. \A id \in 0 .. MaxContexts : ~Switch(id)
      BY DEF Switch
    <3>. QED
      BY <3>1, <3>2, OthersActivateNobody DEF Next
  <2>2. PICK e \in Contexts : IsNext(e) /\ SwitchTo(e)
    BY <2>1 DEF RequestSwitch
  <2>3. StateAfterSave \in [Contexts -> States] /\ StateAfterSave[c] = "READY" /\ c \in Contexts
    BY SaveTypes, SaveActivatesNobody DEF Ready
  <2>4. c = e
    BY <2>2, <2>3 DEF SwitchTo
  <2>5. MostUrgent(c)
    BY <2>2, <2>4 DEF IsNext
  <2>6. priority[c] \in Int /\ priority[d] \in Int
    BY DEF TypeOK, Ready
  <2>. QED
    BY <2>5, <2>6 DEF MostUrgent
<1>2. Spec => [][A]_vars
  BY <1>1, TypeCorrectness, PTL DEF Spec
<1>. QED
  BY <1>2 DEF HighestFirst

=============================================================================
