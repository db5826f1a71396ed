------------------------ MODULE CommandQueue_proofs ------------------------
(***************************************************************************)
(* Proofs about CommandQueue: its type invariant, the order of dependent   *)
(* commands, what the most recent barrier holds back, and that an executed *)
(* command is neither overwritten nor executed again, for every capacity,  *)
(* mode and set of dependency lists.                                       *)
(***************************************************************************)
EXTENDS CommandQueue, FiniteSetTheorems, TLAPS

\* The strengthening: nothing ever leaves the buffer before a reset, so the
\* slots below count hold the ids 1, 2, ... in order and the others are clear.
Layout ==
    /\ head = IF count = Capacity THEN 0 ELSE count
    /\ next_cmd_id = count + 1
    /\ \A i \in Slots :
           /\ commands[i].cmd_id = IF i < count THEN i + 1 ELSE 0
           /\ i >= count => commands[i] = EmptySlot

\* The newest barrier is the one last_barrier_id names.
BarrierIds ==
    /\ last_barrier_id <= count
    /\ \A i \in Slots : commands[i].cmd_id # 0 /\ IsBarrier(commands[i])
                            => commands[i].cmd_id <= last_barrier_id

\* A functional queue leaves nothing for a scan to execute.
FunctionalDone ==
    Synchronous => \A i \in Slots : i < count => commands[i].status # "PENDING"

IInv == TypeOK /\ Layout /\ BarrierIds /\ FunctionalDone /\ DependencyOrder
        /\ LatestBarrierHolds

\* Stepping an index round the ring without running over the end.
LEMMA RingStep ==
    ASSUME NEW C \in Nat \ {0}, NEW h \in 0 .. C - 1
    PROVE  (h + 1) % C = IF h + 1 = C THEN 0 ELSE h + 1
<1>1. CASE h + 1 = C
  BY <1>1
<1>2. CASE h + 1 < C
  BY <1>2
<1>3. QED
  BY <1>1, <1>2

\* The queue tu_cmdq_create returns satisfies the invariant.
LEMMA InitIInv == Init => IInv
<1>1. ASSUME Init PROVE IInv
  <2>1. 0 \in Slots
    BY QueueAssumption DEF Slots
  <2>2. EmptySlot \in Command
    BY DEF EmptySlot, Command, Opcodes, Statuses
  <2>3. TypeOK
    BY <1>1, <2>1, <2>2, QueueAssumption DEF Init, TypeOK, NoWait
  <2>4. Layout /\ BarrierIds /\ FunctionalDone
    BY <1>1, QueueAssumption
    DEF Init, Layout, BarrierIds, FunctionalDone, EmptySlot, Slots
  <2>5. DependencyOrder /\ LatestBarrierHolds
    BY <1>1 DEF Init, DependencyOrder, LatestBarrierHolds, EmptySlot, Executed
  <2>6. QED
    BY <2>3, <2>4, <2>5 DEF IInv
<1>2. QED
  BY <1>1

\* The slot a submission fills is the first clear one.
LEMMA HeadSlot ==
    ASSUME TypeOK, Layout, count < Capacity
    PROVE  /\ head = count /\ count \in Slots /\ count + 1 \in 0 .. Capacity
           /\ commands[head] = EmptySlot
           /\ (head + 1) % Capacity = IF count + 1 = Capacity THEN 0 ELSE count + 1
<1>1. count \in Nat /\ count \in 0 .. Capacity - 1 /\ Capacity \in Nat \ {0}
  BY QueueAssumption DEF TypeOK
<1>2. head = count
  BY <1>1 DEF Layout
<1>3. (count + 1) % Capacity = IF count + 1 = Capacity THEN 0 ELSE count + 1
  BY <1>1, RingStep
<1>4. commands[count] = EmptySlot
  BY <1>1 DEF Layout, Slots
<1>5. QED
  BY <1>1, <1>2, <1>3, <1>4 DEF Slots

\* What filling that slot with a command of the next id preserves, whatever
\* status the command is given: the slots before it are untouched.
LEMMA EnqueueStep ==
    ASSUME IInv, NEW c \in Command, Enqueue(c),
           c.cmd_id = next_cmd_id,
           commands' = [commands EXCEPT ![head] = c]
    PROVE  Layout' /\ BarrierIds'
<1> USE DEF IInv
<1>1. /\ head = count /\ count \in Slots /\ count + 1 \in 0 .. Capacity
      /\ commands[head] = EmptySlot
      /\ (head + 1) % Capacity = IF count + 1 = Capacity THEN 0 ELSE count + 1
  BY HeadSlot DEF Enqueue
<1>2. /\ commands'[count] = c /\ c.cmd_id = count + 1
      /\ \A i \in Slots : i # count => commands'[i] = commands[i]
  BY <1>1 DEF TypeOK, Layout
<1>3. count \in Nat /\ count' = count + 1
      /\ last_barrier_id' = IF IsBarrier(c) THEN c.cmd_id ELSE last_barrier_id
  BY DEF TypeOK, Enqueue
<1>4. Layout'
  <2>1. head' = (IF count' = Capacity THEN 0 ELSE count') /\ next_cmd_id' = count' + 1
    BY <1>1, <1>3, QueueAssumption DEF Enqueue, Layout, TypeOK, Slots
  <2>2. ASSUME NEW i \in Slots
        PROVE  /\ commands'[i].cmd_id = IF i < count' THEN i + 1 ELSE 0
               /\ i >= count' => commands'[i] = EmptySlot
    <3>1. i \in Int
      BY QueueAssumption DEF Slots
    <3>2. CASE i = count
      BY <1>2, <1>3, <3>2
    <3>3. CASE i # count
      <4>1. commands'[i] = commands[i] /\ (i < count' <=> i < count)
        BY <1>2, <1>3, <3>1, <3>3
      <4>2. QED
        BY <1>3, <3>1, <3>3, <4>1 DEF Layout
    <3>4. QED
      BY <3>2, <3>3
  <2>3. QED
    BY <2>1, <2>2 DEF Layout
<1>5. BarrierIds'
  <2>1. last_barrier_id' <= count'
    BY <1>2, <1>3 DEF BarrierIds, TypeOK
  <2>2. ASSUME NEW i \in Slots, commands'[i].cmd_id # 0, IsBarrier(commands'[i])
        PROVE  commands'[i].cmd_id <= last_barrier_id'
    <3>1. CASE i = count
      BY <1>2, <1>3, <2>2, <3>1 DEF TypeOK
    <3>2. CASE i # count
      <4>1. commands[i].cmd_id <= last_barrier_id /\ commands'[i] = commands[i]
        BY <1>2, <2>2, <3>2 DEF BarrierIds, IsBarrier
      <4>2. commands[i].cmd_id \in Nat /\ last_barrier_id <= count
        BY DEF TypeOK, Command, BarrierIds
      <4>3. QED
        BY <1>2, <1>3, <4>1, <4>2 DEF TypeOK
    <3>3. QED
      BY <3>1, <3>2
  <2>3. QED
    BY <2>1, <2>2 DEF BarrierIds
<1>6. QED
  BY <1>4, <1>5

\* An earlier command that has completed is still found after a submission.
LEMMA SubmitOrder ==
    ASSUME IInv, NEW c \in Command, Enqueue(c),
           c.cmd_id = next_cmd_id,
           commands' = [commands EXCEPT ![head] = c],
           ~Synchronous, UNCHANGED Synchronous, c.status = "PENDING"
    PROVE  DependencyOrder' /\ LatestBarrierHolds'
<1> USE DEF IInv
<1>1. /\ head = count /\ count \in Slots
      /\ commands[count] = EmptySlot
  BY HeadSlot DEF Enqueue
<1>2. \A i \in Slots : i # count => commands'[i] = commands[i]
  BY <1>1 DEF TypeOK
<1>3. commands'[count] = c
  BY <1>1 DEF TypeOK
<1>4. DependencyOrder'
  <2>1. SUFFICES ASSUME NEW i \in Slots, Executed(i)', NEW d \in commands'[i].deps,
                        0 < d, d < commands'[i].cmd_id
                 PROVE  \E j \in Slots : /\ commands'[j].cmd_id = d
                                         /\ commands'[j].status = "COMPLETED"
    BY DEF DependencyOrder
  <2>2. i # count
    BY <2>1, <1>3 DEF Executed
  <2>3. Executed(i) /\ commands'[i] = commands[i]
    BY <2>1, <2>2, <1>2 DEF Executed
  <2>4. PICK j \in Slots : commands[j].cmd_id = d /\ commands[j].status = "COMPLETED"
    BY <2>1, <2>3 DEF DependencyOrder
  <2>5. j # count
    BY <2>4, <1>1 DEF EmptySlot
  <2>6. QED
    BY <2>4, <2>5, <1>2
<1>5. LatestBarrierHolds'
  <2>1. SUFFICES ASSUME NEW i \in Slots, 0 < last_barrier_id',
                        last_barrier_id' < commands'[i].cmd_id, Executed(i)'
                 PROVE  BarrierClear(commands)'
    BY DEF LatestBarrierHolds
  <2>2. i # count /\ commands'[i] = commands[i] /\ Executed(i)
    BY <2>1, <1>3, <1>2 DEF Executed
  <2>3. ~IsBarrier(c)
    BY <2>1, <2>2, <1>1 DEF Enqueue, Layout, TypeOK, Slots, Executed, Command
  <2>4. BarrierClear(commands)
    BY <2>1, <2>2, <2>3 DEF LatestBarrierHolds, Enqueue
  <2>5. QED
    BY <2>4, <2>3, <1>2, <1>3 DEF BarrierClear
<1>6. QED
  BY <1>4, <1>5

\* The types of what Enqueue assigns.
LEMMA EnqueueTypes ==
    ASSUME IInv, NEW c \in Command, Enqueue(c)
    PROVE  /\ head' \in Slots /\ count' \in 0 .. Capacity /\ tail' \in Slots
           /\ next_cmd_id' \in Nat \ {0} /\ last_barrier_id' \in Nat
           /\ total_submitted' \in Nat
<1>1. /\ count \in Slots /\ count + 1 \in 0 .. Capacity
      /\ (head + 1) % Capacity = IF count + 1 = Capacity THEN 0 ELSE count + 1
  BY HeadSlot DEF Enqueue, IInv
<1>2. head' \in Slots
  BY <1>1, QueueAssumption DEF Enqueue, Slots
<1>3. c.cmd_id \in Nat
  BY DEF Command
<1>4. QED
  BY <1>1, <1>2, <1>3 DEF Enqueue, IInv, TypeOK

\* A submission, accepted or not, keeps the invariant.
LEMMA SubmitIInv ==
    ASSUME IInv, NEW opcode \in Opcodes, NEW deps \in DepSets, Submit(opcode, deps),
           UNCHANGED Synchronous
    PROVE  IInv'
<1> DEFINE c == [cmd_id |-> next_cmd_id, opcode |-> opcode, status |-> "PENDING",
                 deps |-> deps]
<1> USE DEF IInv
<1>1. c \in Command
  BY QueueAssumption DEF Command, Statuses, TypeOK
<1>2. CASE SubmitSynchronous(c)
  <2> DEFINE e == [c EXCEPT !.status = Outcome(c)]
  <2>1. e \in Command /\ e.status # "PENDING" /\ e.cmd_id = next_cmd_id
        /\ e.opcode = c.opcode
    BY <1>1 DEF Outcome, Command, Statuses
  <2>2. Enqueue(e) /\ commands' = [commands EXCEPT ![head] = e]
    BY <1>2, <2>1 DEF SubmitSynchronous, Enqueue, IsBarrier
  <2>3. Layout' /\ BarrierIds'
    BY <2>1, <2>2, EnqueueStep
  <2> HIDE DEF c, e
  <2>3a. commands' \in [Slots -> Command] /\ commands'[count] = e
         /\ \A i \in Slots : i # count => commands'[i] = commands[i]
    BY <2>1, <2>2, HeadSlot DEF TypeOK, Enqueue
  <2>4. TypeOK'
    <3>1. head' \in Slots /\ count' \in 0 .. Capacity /\ tail' \in Slots
          /\ next_cmd_id' \in Nat \ {0} /\ last_barrier_id' \in Nat
          /\ total_submitted' \in Nat
      BY <2>1, <2>2, EnqueueTypes
    <3>2. total_completed' \in Nat /\ total_faulted' \in Nat
      BY <1>2 DEF SubmitSynchronous, CountOutcome, TypeOK
    <3>3. QED
      BY <1>2, <2>2, <2>3a, <3>1, <3>2 DEF SubmitSynchronous, TypeOK, control, Enqueue
  <2>5. FunctionalDone'
    BY <2>1, <2>2, <2>3a, HeadSlot, QueueAssumption
    DEF FunctionalDone, Enqueue, TypeOK, Slots
  <2>6. DependencyOrder' /\ LatestBarrierHolds'
    BY <1>2 DEF SubmitSynchronous, DependencyOrder, LatestBarrierHolds
  <2>7. QED
    BY <2>3, <2>4, <2>5, <2>6
<1>3. CASE SubmitDeferred(c)
  <2>1. ~Synchronous /\ Enqueue(c) /\ commands' = [commands EXCEPT ![head] = c]
    BY <1>3 DEF SubmitDeferred
  <2>2. Layout' /\ BarrierIds'
    BY <1>1, <2>1, EnqueueStep
  <2>3. TypeOK'
    <3> HIDE DEF c
    <3>1. head' \in Slots /\ count' \in 0 .. Capacity /\ tail' \in Slots
          /\ next_cmd_id' \in Nat \ {0} /\ last_barrier_id' \in Nat
          /\ total_submitted' \in Nat
      BY <1>1, <2>1, EnqueueTypes
    <3>2. 0 \in 0 .. Capacity
      BY QueueAssumption
    <3>3. commands' \in [Slots -> Command]
      BY <1>1, <2>1 DEF TypeOK
    <3>4. QED
      BY <1>3, <2>1, <3>1, <3>2, <3>3
      DEF SubmitDeferred, TypeOK, StartScan, Enqueue
  <2>4. FunctionalDone'
    BY <2>1 DEF FunctionalDone
  <2>5. DependencyOrder' /\ LatestBarrierHolds'
    BY <1>1, <2>1, SubmitOrder
  <2>6. QED
    BY <2>2, <2>3, <2>4, <2>5
<1>4. QED
  BY <1>2, <1>3 DEF Submit

\* The slot a scan executes holds a pending command, so the queue is deferred.
LEMMA ScanSlot ==
    ASSUME IInv, scan \in Slots, Ready(scan)
    PROVE  /\ ~Synchronous /\ scan < count
           /\ commands[scan].cmd_id = scan + 1
           /\ commands[scan].status = "PENDING"
BY DEF IInv, TypeOK, Layout, Ready, FunctionalDone, Slots

\* A scan step changes the status of its slot and nothing else of the buffer.
LEMMA ScanCommands ==
    ASSUME IInv, ScanExecute
    PROVE  /\ scan \in Slots /\ Ready(scan)
           /\ count' = count /\ tail' = tail
           /\ commands' \in [Slots -> Command]
           /\ \A i \in Slots : i # scan => commands'[i] = commands[i]
           /\ commands'[scan] =
                  [commands[scan] EXCEPT !.status = Outcome(commands[scan])]
           /\ commands'[scan].status \in {"COMPLETED", "FAULTED"}
           /\ commands'[scan].status = "FAULTED" => ~IsBarrier(commands[scan])
<1>1. scan \in Slots /\ Ready(scan)
  BY QueueAssumption DEF ScanExecute, IInv, TypeOK, Slots
<1>2. ~Synchronous
  BY <1>1, ScanSlot
<1> DEFINE c == commands[scan]
           done == [c EXCEPT !.status = Outcome(c)]
<1>3. c \in Command
  BY <1>1 DEF IInv, TypeOK
<1>4. /\ done \in Command /\ done.status \in {"COMPLETED", "FAULTED"}
      /\ done.status = "FAULTED" => ~IsBarrier(c)
  BY <1>3 DEF Command, Outcome, Statuses, IsBarrier
<1>5. commands' = [commands EXCEPT ![scan] = done] /\ count' = count /\ tail' = tail
  BY <1>2 DEF ScanExecute
<1> HIDE DEF c, done
<1>6. /\ commands' \in [Slots -> Command] /\ commands'[scan] = done
      /\ \A i \in Slots : i # scan => commands'[i] = commands[i]
  BY <1>1, <1>4, <1>5 DEF IInv, TypeOK
<1>7. done = [commands[scan] EXCEPT !.status = Outcome(commands[scan])]
      /\ IsBarrier(c) = IsBarrier(commands[scan])
  BY DEF c, done
<1>8. QED
  BY <1>1, <1>4, <1>5, <1>6, <1>7

\* Executing a ready command keeps the invariant.
LEMMA ScanIInv == ASSUME IInv, ScanExecute, UNCHANGED Synchronous PROVE IInv'
<1> DEFINE c == commands[scan]
<1>1. /\ scan \in Slots /\ Ready(scan)
      /\ ~Synchronous /\ scan < count /\ c.cmd_id = scan + 1 /\ c.status = "PENDING"
  BY ScanCommands, ScanSlot
<1>2. /\ count' = count /\ tail' = tail /\ commands' \in [Slots -> Command]
      /\ \A i \in Slots : i # scan => commands'[i] = commands[i]
      /\ commands'[scan] = [c EXCEPT !.status = Outcome(c)]
      /\ commands'[scan].status \in {"COMPLETED", "FAULTED"}
      /\ commands'[scan].status = "FAULTED" => ~IsBarrier(c)
  BY ScanCommands
<1>3. /\ c \in Command
      /\ commands'[scan].cmd_id = c.cmd_id /\ commands'[scan].deps = c.deps
      /\ commands'[scan].opcode = c.opcode
  BY <1>1, <1>2 DEF IInv, TypeOK, Command
<1> HIDE DEF c
<1>4. UNCHANGED <<head, next_cmd_id, last_barrier_id, total_submitted, pc, caller,
                  waiting>> /\ scan' = scan + 1
  BY DEF ScanExecute
<1>5. TypeOK'
  <2>1. total_completed' \in Nat /\ total_faulted' \in Nat
    BY DEF ScanExecute, CountOutcome, IInv, TypeOK
  <2>2. scan' \in 0 .. Capacity
    BY <1>1, <1>4, QueueAssumption DEF Slots
  <2>3. QED
    BY <1>2, <1>4, <2>1, <2>2 DEF IInv, TypeOK
<1>6. Layout'
  <2>1. \A i \in Slots : commands'[i].cmd_id = commands[i].cmd_id
    BY <1>2, <1>3 DEF c
  <2>2. \A i \in Slots : i >= count => i # scan
    BY <1>1, QueueAssumption DEF Slots, IInv, TypeOK
  <2>3. QED
    BY <1>2, <1>4, <2>1, <2>2 DEF IInv, Layout
<1>7. BarrierIds'
  BY <1>1, <1>2, <1>3, <1>4 DEF IInv, BarrierIds, IsBarrier, c
<1>8. FunctionalDone'
  BY <1>1 DEF FunctionalDone
<1>9. DependencyOrder'
  <2>1. SUFFICES ASSUME NEW i \in Slots, Executed(i)', NEW d \in commands'[i].deps,
                        0 < d, d < commands'[i].cmd_id
                 PROVE  \E j \in Slots : /\ commands'[j].cmd_id = d
                                         /\ commands'[j].status = "COMPLETED"
    BY DEF DependencyOrder
  <2>2. CASE i = scan
    <3>1. d \in Nat /\ d \in c.deps /\ d < scan + 1 /\ d - 1 \in Slots /\ d - 1 # scan
          /\ d - 1 < count
      <4>1. d \in c.deps /\ c.deps \subseteq Nat /\ d < scan + 1
        BY <1>1, <1>2, <1>3, <2>1, <2>2 DEF Command
      <4>2. count \in Nat /\ scan \in 0 .. Capacity - 1
        BY <1>1, QueueAssumption DEF IInv, TypeOK, Slots
      <4>3. QED
        BY <1>1, <2>1, <4>1, <4>2, QueueAssumption DEF Slots
    <3>2. commands[d - 1].cmd_id = d
      BY <3>1 DEF IInv, Layout
    <3>3. \A k \in 0 .. (d - 1) - 1 : commands[k].cmd_id # d
      BY <3>1, QueueAssumption DEF IInv, Layout, Slots, TypeOK
    <3>4. commands[d - 1].status = "COMPLETED"
      BY <1>1, <3>1, <3>2, <3>3 DEF Ready, DepsSatisfied, Holds, c
    <3>5. QED
      BY <1>2, <3>1, <3>2, <3>4
  <2>3. CASE i # scan
    <3>1. Executed(i) /\ commands'[i] = commands[i]
      BY <1>2, <2>1, <2>3 DEF Executed
    <3>2. PICK j \in Slots : commands[j].cmd_id = d /\ commands[j].status = "COMPLETED"
      BY <1>1, <2>1, <3>1 DEF IInv, DependencyOrder
    <3>3. j # scan
      BY <1>1, <3>2 DEF c
    <3>4. QED
      BY <1>2, <3>2, <3>3
  <2>4. QED
    BY <2>2, <2>3
<1>10. LatestBarrierHolds'
  <2>1. SUFFICES ASSUME NEW i \in Slots, 0 < last_barrier_id',
                        last_barrier_id' < commands'[i].cmd_id, Executed(i)'
                 PROVE  BarrierClear(commands)'
    BY DEF LatestBarrierHolds
  <2>2. BarrierClear(commands)
    <3>1. CASE i = scan
      BY <1>1, <1>3, <1>4, <2>1, <3>1 DEF Ready, c
    <3>2. CASE i # scan
      BY <1>1, <1>2, <1>4, <2>1, <3>2 DEF IInv, LatestBarrierHolds, Executed
    <3>3. QED
      BY <3>1, <3>2
  <2>3. SUFFICES ASSUME NEW j \in Slots, commands'[j].cmd_id # 0,
                        IsBarrier(commands'[j])
                 PROVE  commands'[j].status = "COMPLETED"
    BY DEF BarrierClear
  <2>4. commands[j].cmd_id # 0 /\ IsBarrier(commands[j])
    BY <1>1, <1>2, <1>3, <2>3 DEF IsBarrier, c
  <2>5. commands[j].status = "COMPLETED"
    BY <2>2, <2>4 DEF BarrierClear
  <2>6. j # scan
    BY <1>1, <2>5 DEF c
  <2>7. QED
    BY <1>2, <2>5, <2>6
<1>11. QED
  BY <1>5, <1>6, <1>7, <1>8, <1>9, <1>10 DEF IInv

\* The steps that move control only.
LEMMA ControlIInv ==
    ASSUME IInv, UNCHANGED Synchronous,
           Tick \/ ScanSkip \/ ScanEnd \/ WaitReturn \/ WaitTick \/ WaitTimeout
           \/ DrainCall \/ DrainTick \/ DrainReturn
           \/ (\E id \in WaitIds, timeout \in Timeouts : WaitCall(id, timeout))
    PROVE  IInv'
<1>1. UNCHANGED <<commands, head, tail, count, next_cmd_id, last_barrier_id, counters>>
  BY DEF Tick, ScanSkip, ScanEnd, WaitReturn, WaitTick, WaitTimeout, DrainCall,
         DrainTick, DrainReturn, WaitCall
<1>2. (Layout /\ BarrierIds /\ FunctionalDone /\ DependencyOrder /\ LatestBarrierHolds)'
  BY <1>1 DEF IInv, Layout, BarrierIds, FunctionalDone, DependencyOrder,
              LatestBarrierHolds, Executed, BarrierClear
<1>3. /\ pc' \in {"idle", "scan", "wait", "timeout", "drain"}
      /\ caller' \in {"none", "submit", "tick", "wait", "drain"}
      /\ scan' \in 0 .. Capacity
  BY QueueAssumption
  DEF IInv, TypeOK, Tick, ScanSkip, ScanEnd, WaitReturn, WaitTick, WaitTimeout,
      DrainCall, DrainTick, DrainReturn, WaitCall, StartScan
<1>4. waiting' \in [id : Nat, timeout : Nat, elapsed : Nat,
                    result : {"none", "completed", "faulted", "timeout"}]
  BY QueueAssumption
  DEF IInv, TypeOK, Tick, ScanSkip, ScanEnd, WaitReturn, WaitTick, WaitTimeout,
      DrainCall, DrainTick, DrainReturn, WaitCall, StartScan, NoWait, WaitResult, Elapse
<1>5. TypeOK'
  BY <1>1, <1>3, <1>4 DEF IInv, TypeOK, counters
<1>6. QED
  BY <1>2, <1>5 DEF IInv

\* A reset establishes the invariant anew.
LEMMA ResetIInv == ASSUME IInv, Reset, UNCHANGED Synchronous PROVE IInv'
<1>1. 0 \in Slots /\ EmptySlot \in Command
  BY QueueAssumption DEF Slots, EmptySlot, Command, Opcodes, Statuses
<1>2. TypeOK'
  BY <1>1, QueueAssumption DEF IInv, Reset, TypeOK, control
<1>3. Layout' /\ BarrierIds' /\ FunctionalDone'
  BY QueueAssumption DEF Reset, Layout, BarrierIds, FunctionalDone, EmptySlot, Slots
<1>4. DependencyOrder' /\ LatestBarrierHolds'
  BY DEF Reset, DependencyOrder, LatestBarrierHolds, EmptySlot, Executed
<1>5. QED
  BY <1>2, <1>3, <1>4 DEF IInv

\* No step of the queue leaves the invariant.
LEMMA StepIInv == IInv /\ [Next]_vars => IInv'
<1> SUFFICES ASSUME IInv, [Next]_vars PROVE IInv'
  OBVIOUS
<1>1. CASE Running
  BY <1>1, ScanIInv, ControlIInv DEF Running
<1>2. CASE Calling
  BY <1>2, SubmitIInv, ControlIInv, ResetIInv DEF Calling
<1>3. CASE UNCHANGED vars
  BY <1>3 DEF vars, counters, control, IInv, TypeOK, Layout, BarrierIds,
              FunctionalDone, DependencyOrder, LatestBarrierHolds, Executed, BarrierClear
<1>4. QED
  BY <1>1, <1>2, <1>3 DEF Next

\* Every reachable state satisfies the strengthened invariant.
THEOREM Invariance == Spec => []IInv
BY InitIInv, StepIInv, PTL DEF Spec

\* The queue structure keeps its types through every call.
THEOREM TypeCorrectness == Spec => []TypeOK
<1>1. IInv => TypeOK
  BY DEF IInv
<1>2. QED
  BY <1>1, Invariance, PTL

\* On a deferred queue of any capacity no command executes before the earlier
\* commands it depends on have completed, and none submitted after the most
\* recent barrier while a barrier in the buffer is still pending.
THEOREM OrderIsRespected == Spec => []OrderRespected
<1>1. IInv => OrderRespected
  BY DEF IInv, OrderRespected
<1>2. QED
  BY <1>1, Invariance, PTL

\* What one step may do to the slot of an executed command.
LEMMA ExecutedStep ==
    ASSUME IInv, [Next]_vars, NEW i \in Slots, Executed(i)
    PROVE  commands'[i] = commands[i] \/ commands' = [j \in Slots |-> EmptySlot]
<1>1. ASSUME NEW opcode \in Opcodes, NEW deps \in DepSets, Submit(opcode, deps)
      PROVE  commands'[i] = commands[i]
  <2>1. count < Capacity
    BY <1>1 DEF Submit, SubmitSynchronous, SubmitDeferred, Enqueue
  <2>2. i # head
    BY <2>1, HeadSlot DEF IInv, Executed, EmptySlot
  <2>3. QED
    BY <1>1, <2>2
    DEF Submit, SubmitSynchronous, SubmitDeferred, IInv, TypeOK
<1>2. CASE ScanExecute
  <2>1. i # scan
    BY <1>2, ScanCommands, ScanSlot DEF Executed
  <2>2. QED
    BY <1>2, <2>1, ScanCommands
<1>3. CASE Reset
  BY <1>3 DEF Reset
<1>4. QED
  BY <1>1, <1>2, <1>3
  DEF Next, Running, Calling, Tick, ScanSkip, ScanEnd, WaitReturn, WaitTick,
      WaitTimeout, DrainCall, DrainTick, DrainReturn, WaitCall, vars

\* A command executes once: no later call overwrites or re-executes it, until
\* a reset clears the whole buffer.
THEOREM ExecutedOnce == Spec => ExecutedForGood
<1>1. IInv /\ [Next]_vars =>
          [\A i \in Slots : Executed(i) =>
               \/ commands'[i] = commands[i]
               \/ commands' = [j \in Slots |-> EmptySlot]]_vars
  BY ExecutedStep
<1>2. QED
  BY <1>1, Invariance, PTL DEF Spec, ExecutedForGood

-----------------------------------------------------------------------------
(* Nothing ready is left behind by a tick.                                 *)

\* Every command names only earlier commands, or itself.
Backward == \A i \in Slots : \A d \in commands[i].deps : d <= commands[i].cmd_id

\* The strengthening of Settled: what a scan has passed is not ready either.
Passed(i) == pc = "scan" => i < scan
SInv == Backward => \A i \in Slots : Passed(i) => ~Ready(i)

\* A slot the scan has passed does not become ready by what the scan executes:
\* its dependencies and the barriers before it lie in slots passed as well.
LEMMA ScanLeavesUnready ==
    ASSUME IInv, ScanExecute, Backward, NEW i \in Slots, i < scan, ~Ready(i)
    PROVE  ~Ready(i)'
<1>1. /\ scan \in Slots /\ Ready(scan) /\ scan < count
      /\ \A j \in Slots : j # scan => commands'[j] = commands[j]
      /\ commands[scan].cmd_id = scan + 1 /\ scan \in Nat /\ i \in Nat
      /\ count \in Nat /\ count' = count
  <2>1. /\ scan \in Slots /\ Ready(scan) /\ count' = count
        /\ \A j \in Slots : j # scan => commands'[j] = commands[j]
    BY ScanCommands
  <2>2. scan < count /\ commands[scan].cmd_id = scan + 1
    BY <2>1, ScanSlot
  <2>3. scan \in Nat /\ i \in Nat /\ count \in Nat
    BY <2>1, QueueAssumption DEF Slots, IInv, TypeOK
  <2>4. QED
    BY <2>1, <2>2, <2>3
<1>2. /\ commands'[scan].cmd_id = commands[scan].cmd_id
      /\ commands'[scan].opcode = commands[scan].opcode
  <2>1. commands[scan] \in Command
    BY <1>1 DEF IInv, TypeOK
  <2>2. QED
    BY <2>1, ScanCommands DEF Command
<1>3. commands'[i] = commands[i] /\ commands[i].cmd_id = i + 1
  BY <1>1 DEF IInv, Layout
<1>4. \A j \in Slots : commands'[j].cmd_id = commands[j].cmd_id
  BY <1>1, <1>2
<1>5. SUFFICES ASSUME Ready(i)' PROVE FALSE
  OBVIOUS
<1>6. commands[i].status = "PENDING" /\ last_barrier_id' = last_barrier_id
  BY <1>3, <1>5 DEF Ready, ScanExecute
<1>7. CASE ~DepsSatisfied(commands, commands[i])
  <2>1. PICK d \in commands[i].deps, j \in Slots :
               Holds(commands, d, j) /\ commands[j].status # "COMPLETED"
    BY <1>7 DEF DepsSatisfied
  <2>2. d <= i + 1 /\ d \in Nat
    BY <1>3 DEF Backward, IInv, TypeOK, Command
  <2>3. commands[j].cmd_id = d
    BY <2>1 DEF Holds
  <2>4. j # scan
    BY <1>1, <2>2, <2>3
  <2>5. Holds(commands', d, j)
    BY <1>4, <2>1, QueueAssumption DEF Holds, Slots
  <2>6. DepsSatisfied(commands', commands'[i])
    BY <1>5 DEF Ready
  <2>7. commands'[j].status = "COMPLETED"
    BY <2>5, <2>6, <1>3 DEF DepsSatisfied
  <2>8. QED
    BY <1>1, <2>1, <2>4, <2>7
<1>8. CASE DepsSatisfied(commands, commands[i])
  <2>1. last_barrier_id > 0 /\ i + 1 > last_barrier_id /\ ~BarrierClear(commands)
    BY <1>1, <1>3, <1>6, <1>8 DEF Ready
  <2>2. BarrierClear(commands')
    BY <1>3, <1>5, <1>6, <2>1 DEF Ready
  <2>3. PICK j \in Slots : /\ commands[j].cmd_id # 0 /\ IsBarrier(commands[j])
                           /\ commands[j].status # "COMPLETED"
    BY <2>1 DEF BarrierClear
  <2>4. commands[j].cmd_id <= last_barrier_id /\ last_barrier_id \in Nat
    BY <2>3 DEF IInv, BarrierIds, TypeOK
  <2>5. j # scan
    BY <1>1, <2>1, <2>4
  <2>6. commands'[j].status = "COMPLETED"
    BY <1>1, <2>2, <2>3, <2>5 DEF BarrierClear
  <2>7. QED
    BY <1>1, <2>3, <2>5, <2>6
<1>9. QED
  BY <1>7, <1>8

\* A slot that holds no pending command is not ready.
LEMMA DoneIsUnready ==
    ASSUME NEW i \in Slots,
           commands[i].cmd_id = 0 \/ commands[i].status # "PENDING"
    PROVE  ~Ready(i)
BY DEF Ready

\* Steps that leave the buffer alone leave readiness alone.
LEMMA ReadyUnchanged ==
    ASSUME UNCHANGED <<commands, last_barrier_id>>, NEW i \in Slots
    PROVE  (Ready(i)' <=> Ready(i)) /\ (Backward' <=> Backward)
BY DEF Ready, DepsSatisfied, Holds, BarrierClear, IsBarrier, Backward

LEMMA StepSInv == IInv /\ IInv' /\ SInv /\ [Next]_vars => SInv'
<1> SUFFICES ASSUME IInv, IInv', SInv, [Next]_vars, Backward', NEW i \in Slots, Passed(i)'
             PROVE  ~Ready(i)'
  BY DEF SInv
<1>0. i \in Nat /\ scan \in Nat
  BY QueueAssumption DEF Slots, IInv, TypeOK
<1>1. CASE ScanExecute
  <2>1. scan \in Slots /\ pc = "scan" /\ pc' = "scan" /\ scan' = scan + 1
    BY <1>1, ScanCommands DEF ScanExecute
  <2>2. Backward
    <3>1. commands[scan] \in Command
      BY <2>1 DEF IInv, TypeOK
    <3>2. commands'[scan].deps = commands[scan].deps
          /\ commands'[scan].cmd_id = commands[scan].cmd_id
      BY <1>1, <3>1, ScanCommands DEF Command
    <3>3. \A j \in Slots : j # scan => commands'[j] = commands[j]
      BY <1>1, ScanCommands
    <3>4. QED
      BY <3>2, <3>3 DEF Backward
  <2>3. CASE i = scan
    <3>1. commands'[i].status # "PENDING"
      BY <1>1, <2>3, ScanCommands
    <3>2. QED
      BY <3>1 DEF Ready
  <2>4. CASE i # scan
    <3>1. i < scan
      BY <1>0, <2>1, <2>4 DEF Passed
    <3>2. ~Ready(i)
      BY <2>2, <3>1 DEF SInv, Passed
    <3>3. QED
      BY <1>1, <2>2, <3>1, <3>2, ScanLeavesUnready
  <2>5. QED
    BY <2>3, <2>4
<1>2. CASE ScanSkip \/ ScanEnd
  <2>1. UNCHANGED <<commands, last_barrier_id>> /\ pc = "scan"
    BY <1>2 DEF ScanSkip, ScanEnd
  <2>2. i < scan \/ (i = scan /\ ~Ready(i))
    BY <1>0, <1>2, QueueAssumption DEF ScanSkip, ScanEnd, Passed, Slots
  <2>3. ~Ready(i)
    BY <2>1, <2>2, ReadyUnchanged DEF SInv, Passed
  <2>4. QED
    BY <2>1, <2>3, ReadyUnchanged
<1>3. CASE Tick \/ WaitTick \/ DrainTick \/ WaitReturn \/ WaitTimeout \/ DrainCall
           \/ DrainReturn \/ UNCHANGED vars
           \/ (\E id \in WaitIds, timeout \in Timeouts : WaitCall(id, timeout))
  <2>1. UNCHANGED <<commands, last_barrier_id>>
    BY <1>3 DEF Tick, WaitTick, DrainTick, WaitReturn, WaitTimeout, DrainCall,
                DrainReturn, WaitCall, vars
  <2>2. Passed(i)
    BY <1>0, <1>3 DEF Tick, WaitTick, DrainTick, WaitReturn, WaitTimeout, DrainCall,
                DrainReturn, WaitCall, vars, control, Passed, StartScan
  <2>3. QED
    BY <2>1, <2>2, ReadyUnchanged DEF SInv
<1>4. ASSUME NEW opcode \in Opcodes, NEW deps \in DepSets, Submit(opcode, deps),
             UNCHANGED Synchronous
      PROVE  ~Ready(i)'
  <2> DEFINE c == [cmd_id |-> next_cmd_id, opcode |-> opcode, status |-> "PENDING",
                   deps |-> deps]
  <2>1. CASE SubmitSynchronous(c)
    <3>1. Synchronous'
      BY <1>4, <2>1 DEF SubmitSynchronous
    <3>2. commands'[i].cmd_id = 0 \/ commands'[i].status # "PENDING"
      BY <3>1 DEF IInv, FunctionalDone, Layout
    <3>3. QED
      BY <3>2 DEF Ready
  <2>2. CASE SubmitDeferred(c)
    BY <1>0, <2>2 DEF SubmitDeferred, StartScan, Passed
  <2>3. QED
    BY <1>4, <2>1, <2>2 DEF Submit
<1>5. CASE Reset
  BY <1>5 DEF Reset, Ready, EmptySlot
<1>6. QED
  BY <1>1, <1>2, <1>3, <1>4, <1>5 DEF Next, Running, Calling

\* Between calls nothing that could execute is pending: for every capacity and
\* every set of commands that name only earlier ones, the single tick of a
\* submission drains all that the submission released.
THEOREM SettledBetweenCalls == Spec => []Settled
<1>1. Init => SInv
  BY DEF Init, SInv, Ready, EmptySlot
<1>2. IInv /\ SInv => Settled
  BY DEF SInv, Settled, Passed, Backward
<1>3. QED
  BY <1>1, <1>2, Invariance, StepIInv, InitIInv, StepSInv, PTL DEF Spec

-----------------------------------------------------------------------------
(* The statistics.                                                         *)

Statused(s) == {i \in Slots : commands[i].cmd_id # 0 /\ commands[i].status = s}
Occupied == {i \in Slots : commands[i].cmd_id # 0}

CInv == /\ total_completed = Cardinality(Statused("COMPLETED"))
        /\ total_faulted = Cardinality(Statused("FAULTED"))
        /\ total_submitted = Cardinality(Occupied)

LEMMA SlotsFinite == IsFiniteSet(Slots)
BY FS_Interval, QueueAssumption DEF Slots

\* One slot more in a set of slots is one more in its number.
LEMMA OneMore ==
    ASSUME NEW S \in SUBSET Slots, NEW i \in Slots, i \notin S
    PROVE  Cardinality(S \cup {i}) = Cardinality(S) + 1
<1>1. IsFiniteSet(S)
  BY SlotsFinite, FS_Subset
<1>2. QED
  BY <1>1, FS_AddElement

\* When one slot that was not counted gets an outcome the counts follow it.
LEMMA OutcomeCounted ==
    ASSUME CInv, NEW i \in Slots, NEW c \in Command,
           CountOutcome(c),
           ~Executed(i), Executed(i)', commands'[i].status = Outcome(c),
           \A j \in Slots : j # i =>
               (commands'[j].cmd_id = commands[j].cmd_id
                /\ commands'[j].status = commands[j].status)
    PROVE  /\ total_completed' = Cardinality(Statused("COMPLETED"))'
           /\ total_faulted' = Cardinality(Statused("FAULTED"))'
<1>1. i \notin Statused("COMPLETED") /\ i \notin Statused("FAULTED")
  BY DEF Executed, Statused
<1>2. Statused("COMPLETED") \in SUBSET Slots /\ Statused("FAULTED") \in SUBSET Slots
  BY DEF Statused
<1>3. CASE Outcome(c) = "COMPLETED"
  <2>1. /\ Statused("COMPLETED")' = Statused("COMPLETED") \cup {i}
        /\ Statused("FAULTED")' = Statused("FAULTED")
    BY <1>1, <1>3 DEF Statused, Executed
  <2>2. QED
    BY <1>1, <1>2, <1>3, <2>1, OneMore DEF CInv, CountOutcome
<1>4. CASE Outcome(c) = "FAULTED"
  <2>1. /\ Statused("FAULTED")' = Statused("FAULTED") \cup {i}
        /\ Statused("COMPLETED")' = Statused("COMPLETED")
    BY <1>1, <1>4 DEF Statused, Executed
  <2>2. QED
    BY <1>1, <1>2, <1>4, <2>1, OneMore DEF CInv, CountOutcome
<1>5. QED
  BY <1>3, <1>4 DEF Outcome

LEMMA StepCInv == IInv /\ CInv /\ [Next]_vars => CInv'
<1> SUFFICES ASSUME IInv, CInv, [Next]_vars PROVE CInv'
  OBVIOUS
<1>1. CASE ScanExecute
  <2>1. /\ scan \in Slots /\ Ready(scan) /\ commands[scan] \in Command
        /\ \A j \in Slots : j # scan => commands'[j] = commands[j]
        /\ commands'[scan] = [commands[scan] EXCEPT !.status = Outcome(commands[scan])]
    BY <1>1, ScanCommands DEF IInv, TypeOK
  <2>2. /\ commands'[scan].cmd_id = commands[scan].cmd_id
        /\ commands'[scan].status = Outcome(commands[scan])
        /\ Outcome(commands[scan]) # "PENDING"
    BY <2>1 DEF Command, Outcome
  <2>3. PICK i \in Slots : i = scan
    BY <2>1
  <2>4. ~Executed(i) /\ Executed(i)'
    BY <2>1, <2>2, <2>3 DEF Executed, Ready
  <2>5. CountOutcome(commands[i]) /\ total_submitted' = total_submitted
    BY <1>1, <2>3 DEF ScanExecute
  <2>6. Occupied' = Occupied
    BY <2>1, <2>2 DEF Occupied
  <2>7. PICK c \in Command : c = commands[i]
    BY <2>1, <2>3
  <2>8. /\ commands'[i].status = Outcome(c)
        /\ \A j \in Slots : j # i => (commands'[j].cmd_id = commands[j].cmd_id
                                     /\ commands'[j].status = commands[j].status)
    BY <2>1, <2>2, <2>3, <2>7
  <2>9. /\ total_completed' = Cardinality(Statused("COMPLETED"))'
        /\ total_faulted' = Cardinality(Statused("FAULTED"))'
    BY <2>4, <2>5, <2>7, <2>8, OutcomeCounted
  <2>10. QED
    BY <2>5, <2>6, <2>9 DEF CInv
<1>2. ASSUME NEW opcode \in Opcodes, NEW deps \in DepSets, Submit(opcode, deps)
      PROVE  CInv'
  <2> DEFINE c == [cmd_id |-> next_cmd_id, opcode |-> opcode, status |-> "PENDING",
                   deps |-> deps]
             e == [c EXCEPT !.status = Outcome(c)]
  <2>1. /\ c \in Command /\ e \in Command /\ c.cmd_id # 0 /\ e.cmd_id # 0
        /\ c.status = "PENDING" /\ e.status = Outcome(c) /\ Outcome(c) # "PENDING"
    BY QueueAssumption DEF Command, Statuses, Outcome, IInv, TypeOK
  <2>2. (SubmitSynchronous(c) \/ SubmitDeferred(c)) /\ Enqueue(c)
    BY <1>2 DEF Submit, SubmitSynchronous, SubmitDeferred
  <2> HIDE DEF c, e
  <2>3. /\ head \in Slots /\ commands[head] = EmptySlot /\ commands \in [Slots -> Command]
    BY <2>2, HeadSlot DEF Enqueue, IInv, TypeOK
  <2>4. head \notin Occupied /\ ~Executed(head) /\ Occupied \in SUBSET Slots
    BY <2>3 DEF Occupied, Executed, EmptySlot
  <2>5. ASSUME NEW n \in Command, n.cmd_id # 0, commands' = [commands EXCEPT ![head] = n]
        PROVE  /\ commands'[head] = n
               /\ \A j \in Slots : j # head => commands'[j] = commands[j]
               /\ total_submitted' = Cardinality(Occupied)'
    <3>1. commands'[head] = n /\ \A j \in Slots : j # head => commands'[j] = commands[j]
      BY <2>3, <2>5
    <3>2. Occupied' = Occupied \cup {head}
      BY <2>3, <2>5, <3>1 DEF Occupied
    <3>3. total_submitted' = total_submitted + 1
      BY <2>2 DEF Enqueue
    <3>4. QED
      BY <2>3, <2>4, <3>1, <3>2, <3>3, OneMore DEF CInv
  <2>6. CASE SubmitSynchronous(c)
    <3>1. commands' = [commands EXCEPT ![head] = e] /\ CountOutcome(c)
      BY <2>6 DEF SubmitSynchronous, e
    <3>2. /\ commands'[head] = e /\ total_submitted' = Cardinality(Occupied)'
          /\ \A j \in Slots : j # head => commands'[j] = commands[j]
      BY <2>1, <2>5, <3>1
    <3>3. PICK i \in Slots : i = head
      BY <2>3
    <3>4. Executed(i)' /\ ~Executed(i) /\ commands'[i].status = Outcome(c)
      BY <2>1, <2>4, <3>2, <3>3 DEF Executed
    <3>5. PICK x \in Command : x = c
      BY <2>1
    <3>6. \A j \in Slots : j # i => (commands'[j].cmd_id = commands[j].cmd_id
                                    /\ commands'[j].status = commands[j].status)
      BY <3>2, <3>3
    <3>7. CountOutcome(x) /\ commands'[i].status = Outcome(x)
      BY <3>1, <3>4, <3>5
    <3>8. /\ total_completed' = Cardinality(Statused("COMPLETED"))'
          /\ total_faulted' = Cardinality(Statused("FAULTED"))'
      BY <3>4, <3>6, <3>7, OutcomeCounted
    <3>9. QED
      BY <3>2, <3>8 DEF CInv
  <2>7. CASE SubmitDeferred(c)
    <3>1. commands' = [commands EXCEPT ![head] = c]
          /\ UNCHANGED <<total_completed, total_faulted>>
      BY <2>7 DEF SubmitDeferred
    <3>2. /\ commands'[head] = c /\ total_submitted' = Cardinality(Occupied)'
          /\ \A j \in Slots : j # head => commands'[j] = commands[j]
      BY <2>1, <2>5, <3>1
    <3>3. Statused("COMPLETED")' = Statused("COMPLETED")
          /\ Statused("FAULTED")' = Statused("FAULTED")
      BY <2>1, <2>3, <3>2 DEF Statused, EmptySlot
    <3>4. QED
      BY <3>1, <3>2, <3>3 DEF CInv
  <2>8. QED
    BY <2>2, <2>6, <2>7
<1>3. CASE Reset
  <2>1. Statused("COMPLETED")' = {} /\ Statused("FAULTED")' = {} /\ Occupied' = {}
    BY <1>3 DEF Reset, Statused, Occupied, EmptySlot
  <2>2. QED
    BY <1>3, <2>1, FS_EmptySet DEF Reset, CInv
<1>4. CASE UNCHANGED <<commands, counters>>
  BY <1>4 DEF CInv, Statused, Occupied, counters
<1>5. QED
  BY <1>1, <1>2, <1>3, <1>4
  DEF Next, Running, Calling, Tick, ScanSkip, ScanEnd, WaitReturn, WaitTick, WaitTimeout,
      DrainCall, DrainTick, DrainReturn, WaitCall, vars

\* What tu_cmdq_get_counts reports is what the slots hold, after any sequence
\* of calls and in the middle of any tick.
THEOREM StatisticsAgree == Spec => []CountsAgree
<1>1. Init => CInv
  <2>1. Init => Statused("COMPLETED") = {} /\ Statused("FAULTED") = {} /\ Occupied = {}
    BY DEF Init, Statused, Occupied, EmptySlot
  <2>2. QED
    BY <2>1, FS_EmptySet DEF Init, CInv
<1>2. CInv => CountsAgree
  BY DEF CInv, CountsAgree, Statused, Occupied
<1>3. QED
  BY <1>1, <1>2, Invariance, StepIInv, InitIInv, StepCInv, PTL DEF Spec
=============================================================================
