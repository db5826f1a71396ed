---------------------------- MODULE CommandQueue ----------------------------
(***************************************************************************)
(* The TinyTU command queue (tu_cmodel/command_queue.c): a circular buffer *)
(* of commands with dependency lists and barriers.  The client submits     *)
(* commands, ticks the queue, waits for one command, drains the queue or   *)
(* resets it.  The library is single threaded, so a call runs to its end   *)
(* before the next one starts; the loops of tu_cmdq_tick, tu_cmdq_wait and *)
(* tu_cmdq_sync are modelled one iteration at a time (pc, scan), because   *)
(* one iteration of a scan changes what the later iterations see and       *)
(* because two of the three loops need not end.                            *)
(*                                                                         *)
(* Abstracted: operands (an opcode is one that has a case in               *)
(* execute_command, a barrier, or one that has none), time stamps (the     *)
(* cycle counter is read only by a wait, as cycles elapsed since it        *)
(* began), and completion signals (no function of the queue registers one, *)
(* signal_count is always 0 and the firing loop never runs).               *)
(***************************************************************************)
EXTENDS Integers, FiniteSets

CONSTANTS
    Capacity,      \* number of slots, at least 4 (tu_cmdq_create raises it)
    Functional,    \* the modes a queue may be created in: TRUE is functional
    DepSets,       \* the dependency lists a client may pass, as sets of ids
    WaitIds,       \* the ids a client may wait for
    Timeouts       \* the timeouts a client may pass; 0 is "no timeout"

ASSUME QueueAssumption ==
    /\ Capacity \in Nat /\ Capacity >= 4
    /\ Functional \subseteq BOOLEAN
    /\ DepSets \subseteq SUBSET Nat
    /\ WaitIds \subseteq Nat
    /\ Timeouts \subseteq Nat

VARIABLES
    Synchronous,      \* chosen by tu_cmdq_create: execute on submission
    commands,         \* the slots of the circular buffer
    head,             \* slot of the next submission
    tail,             \* next slot to retire (written, never read)
    count,            \* what tu_cmdq_get_depth returns
    next_cmd_id,
    last_barrier_id,  \* the most recent barrier, 0 if none
    total_submitted, total_completed, total_faulted,
    pc,               \* where the running call is: "idle" between calls
    caller,           \* the call whose tick is scanning
    scan,             \* loop variable of the scan in tu_cmdq_tick
    waiting           \* the last tu_cmdq_wait: arguments, cycles, result

counters == <<total_submitted, total_completed, total_faulted>>
control  == <<pc, caller, scan>>
vars == <<Synchronous, commands, head, tail, count, next_cmd_id, last_barrier_id,
          counters, control, waiting>>

Slots == 0 .. Capacity - 1

\* "EXEC" stands for the opcodes execute_command implements, "UNKNOWN" for the
\* ones it does not (CONV, ATTENTION, SOFTMAX, ... reach its default case).
Opcodes  == {"EXEC", "BARRIER", "UNKNOWN"}
Statuses == {"PENDING", "COMPLETED", "FAULTED"}

Command == [cmd_id : Nat, opcode : Opcodes, status : Statuses,
            deps : SUBSET Nat]

\* A slot cleared by calloc or memset: id 0 is "no command" and status 0 is
\* TU_CMD_PENDING.
EmptySlot == [cmd_id |-> 0, opcode |-> "EXEC", status |-> "PENDING",
              deps |-> {}]

NoWait == [id |-> 0, timeout |-> 0, elapsed |-> 0, result |-> "none"]

IsBarrier(c) == c.opcode = "BARRIER"

-----------------------------------------------------------------------------
\* The slot a linear scan for an id stops at.
Holds(cs, id, j) ==
    /\ cs[j].cmd_id = id
    /\ \A k \in 0 .. j - 1 : cs[k].cmd_id # id

\* A dependency that is in the buffer must have completed; one that is not in
\* the buffer is taken to have completed already.
DepsSatisfied(cs, c) ==
    \A d \in c.deps : \A j \in Slots :
        Holds(cs, d, j) => cs[j].status = "COMPLETED"

BarrierClear(cs) ==
    \A j \in Slots :
        cs[j].cmd_id # 0 /\ IsBarrier(cs[j]) => cs[j].status = "COMPLETED"

\* Variant: the scan forgets the barrier test.
ReadyPastBarrier(i) ==
    LET c == commands[i] IN
    c.cmd_id # 0 /\ c.status = "PENDING" /\ DepsSatisfied(commands, c)

\* The three tests of the scan in tu_cmdq_tick.
Ready(i) ==
    LET c == commands[i] IN
    /\ c.cmd_id # 0
    /\ c.status = "PENDING"
    /\ last_barrier_id > 0 /\ c.cmd_id > last_barrier_id => BarrierClear(commands)
    /\ DepsSatisfied(commands, c)

\* What execute_command leaves in the slot's status.
Outcome(c) == IF c.opcode = "UNKNOWN" THEN "FAULTED" ELSE "COMPLETED"

\* Variant: the default case falls through to the completion count.
CountFaultTwice(c) ==
    /\ total_completed' = total_completed + 1
    /\ total_faulted' =
           IF Outcome(c) = "FAULTED" THEN total_faulted + 1 ELSE total_faulted

CountOutcome(c) ==
    /\ total_completed' =
           IF Outcome(c) = "COMPLETED" THEN total_completed + 1 ELSE total_completed
    /\ total_faulted' =
           IF Outcome(c) = "FAULTED" THEN total_faulted + 1 ELSE total_faulted

-----------------------------------------------------------------------------
Init ==
    /\ Synchronous \in Functional
    /\ commands = [i \in Slots |-> EmptySlot]
    /\ head = 0 /\ tail = 0 /\ count = 0
    /\ next_cmd_id = 1
    /\ last_barrier_id = 0
    /\ total_submitted = 0 /\ total_completed = 0 /\ total_faulted = 0
    /\ pc = "idle" /\ caller = "none" /\ scan = 0
    /\ waiting = NoWait

\* Variant: the scan starts one slot late.
StartScanLate(by) ==
    /\ pc' = "scan" /\ caller' = by /\ scan' = 1

\* Entering tu_cmdq_tick on behalf of a call.
StartScan(by) ==
    /\ pc' = "scan" /\ caller' = by /\ scan' = 0

\* Variant: no test for a full queue.
EnqueueUnchecked(c) ==
    /\ head' = (head + 1) % Capacity
    /\ count' = count + 1
    /\ next_cmd_id' = next_cmd_id + 1
    /\ last_barrier_id' = IF IsBarrier(c) THEN c.cmd_id ELSE last_barrier_id
    /\ total_submitted' = total_submitted + 1
    /\ UNCHANGED <<tail, waiting>>

\* The part of tu_cmdq_submit that fills the slot at head.  A full queue
\* returns -1 and changes nothing.
Enqueue(c) ==
    /\ count < Capacity
    /\ head' = (head + 1) % Capacity
    /\ count' = count + 1
    /\ next_cmd_id' = next_cmd_id + 1
    /\ last_barrier_id' = IF IsBarrier(c) THEN c.cmd_id ELSE last_barrier_id
    /\ total_submitted' = total_submitted + 1
    /\ UNCHANGED <<tail, waiting>>

\* Functional mode executes the command at once, whatever it depends on.
SubmitSynchronous(c) ==
    /\ Synchronous
    /\ Enqueue(c)
    /\ commands' = [commands EXCEPT ![head] = [c EXCEPT !.status = Outcome(c)]]
    /\ CountOutcome(c)
    /\ UNCHANGED control

\* The other modes leave it pending and tick the queue once.
SubmitDeferred(c) ==
    /\ ~Synchronous
    /\ Enqueue(c)
    /\ commands' = [commands EXCEPT ![head] = c]
    /\ StartScan("submit")
    /\ UNCHANGED <<total_completed, total_faulted>>

\* tu_cmdq_submit; tu_cmdq_barrier is the case opcode = "BARRIER", deps = {}.
Submit(opcode, deps) ==
    LET c == [cmd_id |-> next_cmd_id, opcode |-> opcode, status |-> "PENDING",
              deps |-> deps]
    IN  pc = "idle" /\ (SubmitSynchronous(c) \/ SubmitDeferred(c))

Tick ==
    /\ pc = "idle"
    /\ StartScan("tick")
    /\ UNCHANGED <<commands, head, tail, count, next_cmd_id, last_barrier_id,
                   counters, waiting>>

\* One iteration of the scan that executes its slot.  Only a synchronous queue
\* frees the slot and takes it off count.
ScanExecute ==
    /\ pc = "scan" /\ scan < Capacity
    /\ Ready(scan)
    /\ LET c    == commands[scan]
           done == [c EXCEPT !.status = Outcome(c)]
       IN  /\ commands' = [commands EXCEPT ![scan] =
                              IF Synchronous THEN [done EXCEPT !.cmd_id = 0] ELSE done]
           /\ CountOutcome(c)
    /\ count' = IF Synchronous THEN count - 1 ELSE count
    /\ tail'  = IF Synchronous THEN (tail + 1) % Capacity ELSE tail
    /\ scan' = scan + 1
    /\ UNCHANGED <<head, next_cmd_id, last_barrier_id, total_submitted, pc,
                   caller, waiting>>

ScanSkip ==
    /\ pc = "scan" /\ scan < Capacity
    /\ ~Ready(scan)
    /\ scan' = scan + 1
    /\ UNCHANGED <<commands, head, tail, count, next_cmd_id, last_barrier_id,
                   counters, pc, caller, waiting>>

\* The tick is over: a submission or a tick of the client returns, a wait goes
\* on to its timeout test, a drain to its loop condition.
ScanEnd ==
    /\ pc = "scan" /\ scan = Capacity
    /\ pc' = CASE caller = "wait"  -> "timeout"
               [] caller = "drain" -> "drain"
               [] OTHER            -> "idle"
    /\ caller' = "none" /\ scan' = 0
    /\ UNCHANGED <<commands, head, tail, count, next_cmd_id, last_barrier_id,
                   counters, waiting>>

-----------------------------------------------------------------------------
WaitCall(id, timeout) ==
    /\ pc = "idle"
    /\ pc' = "wait"
    /\ waiting' = [id |-> id, timeout |-> timeout, elapsed |-> 0, result |-> "none"]
    /\ UNCHANGED <<commands, head, tail, count, next_cmd_id, last_barrier_id,
                   counters, caller, scan>>

\* The test at the top of the loop of tu_cmdq_wait: an id that no slot holds
\* counts as completed.
WaitResult ==
    CASE \E j \in Slots : Holds(commands, waiting.id, j)
                          /\ commands[j].status = "PENDING" -> "none"
      [] \E j \in Slots : Holds(commands, waiting.id, j)
                          /\ commands[j].status = "FAULTED" -> "faulted"
      [] OTHER -> "completed"

WaitReturn ==
    /\ pc = "wait" /\ WaitResult # "none"
    /\ pc' = "idle"
    /\ waiting' = [NoWait EXCEPT !.result = WaitResult]
    /\ UNCHANGED <<commands, head, tail, count, next_cmd_id, last_barrier_id,
                   counters, caller, scan>>

\* Variant: the tick does not advance the cycle counter.
ElapseNever == waiting

\* The cycles of a wait; without a timeout nothing reads them.
Elapse == IF waiting.timeout = 0 THEN waiting
          ELSE [waiting EXCEPT !.elapsed = @ + 1]

\* A synchronous queue is not ticked, and its cycle counter stands still.
WaitTick ==
    /\ pc = "wait" /\ WaitResult = "none"
    /\ IF Synchronous
         THEN pc' = "timeout" /\ UNCHANGED <<caller, scan, waiting>>
         ELSE /\ StartScan("wait")
              /\ waiting' = Elapse
    /\ UNCHANGED <<commands, head, tail, count, next_cmd_id, last_barrier_id,
                   counters>>

WaitTimeout ==
    /\ pc = "timeout"
    /\ IF waiting.timeout > 0 /\ waiting.elapsed >= waiting.timeout
         THEN pc' = "idle" /\ waiting' = [NoWait EXCEPT !.result = "timeout"]
         ELSE pc' = "wait" /\ UNCHANGED waiting
    /\ UNCHANGED <<commands, head, tail, count, next_cmd_id, last_barrier_id,
                   counters, caller, scan>>

-----------------------------------------------------------------------------
\* tu_cmdq_sync returns at once on a synchronous queue.
DrainCall ==
    /\ pc = "idle" /\ ~Synchronous
    /\ pc' = "drain"
    /\ UNCHANGED <<commands, head, tail, count, next_cmd_id, last_barrier_id,
                   counters, caller, scan, waiting>>

DrainTick ==
    /\ pc = "drain" /\ count > 0
    /\ StartScan("drain")
    /\ UNCHANGED <<commands, head, tail, count, next_cmd_id, last_barrier_id,
                   counters, waiting>>

DrainReturn ==
    /\ pc = "drain" /\ count = 0
    /\ pc' = "idle"
    /\ UNCHANGED <<commands, head, tail, count, next_cmd_id, last_barrier_id,
                   counters, caller, scan, waiting>>

\* tu_cmdq_reset.  Command ids start again at 1: an id a client kept from
\* before the reset names a later command.
Reset ==
    /\ pc = "idle"
    /\ commands' = [i \in Slots |-> EmptySlot]
    /\ head' = 0 /\ tail' = 0 /\ count' = 0
    /\ next_cmd_id' = 1
    /\ last_barrier_id' = 0
    /\ total_submitted' = 0 /\ total_completed' = 0 /\ total_faulted' = 0
    /\ UNCHANGED <<control, waiting>>

-----------------------------------------------------------------------------
\* What a running call does next.
Running ==
    /\ \/ ScanExecute \/ ScanSkip \/ ScanEnd
       \/ WaitReturn \/ WaitTick \/ WaitTimeout
       \/ DrainTick \/ DrainReturn
    /\ UNCHANGED Synchronous

\* What a client may call between calls.
Calling ==
    /\ \/ \E opcode \in Opcodes, deps \in DepSets : Submit(opcode, deps)
       \/ Tick
       \/ \E id \in WaitIds, timeout \in Timeouts : WaitCall(id, timeout)
       \/ DrainCall
       \/ Reset
    /\ UNCHANGED Synchronous

Next == Running \/ Calling

Spec == Init /\ [][Next]_vars

\* A call that has begun keeps executing; a client need never call again.
FairSpec == Spec /\ WF_vars(Running)

-----------------------------------------------------------------------------
\* Type invariant of the queue structure and of the call in progress.
TypeOK ==
    /\ Synchronous \in BOOLEAN
    /\ commands \in [Slots -> Command]
    /\ head \in Slots /\ tail \in Slots
    /\ count \in 0 .. Capacity
    /\ next_cmd_id \in Nat \ {0}
    /\ last_barrier_id \in Nat
    /\ total_submitted \in Nat /\ total_completed \in Nat /\ total_faulted \in Nat
    /\ pc \in {"idle", "scan", "wait", "timeout", "drain"}
    /\ caller \in {"none", "submit", "tick", "wait", "drain"}
    /\ scan \in 0 .. Capacity
    /\ waiting \in [id : Nat, timeout : Nat, elapsed : Nat,
                    result : {"none", "completed", "faulted", "timeout"}]

Executed(i) == commands[i].cmd_id # 0 /\ commands[i].status # "PENDING"

\* A command of a deferred queue that has executed did so after every earlier
\* command it names had completed: the scan may take slots in any order and
\* the id lookup may miss, yet no dependency on an earlier command is skipped.
DependencyOrder ==
    ~Synchronous =>
        \A i \in Slots : Executed(i) =>
            \A d \in commands[i].deps : 0 < d /\ d < commands[i].cmd_id =>
                \E j \in Slots : /\ commands[j].cmd_id = d
                                 /\ commands[j].status = "COMPLETED"

\* Once a command submitted after the most recent barrier has executed, every
\* barrier in the buffer has completed.  (Commands between an older barrier
\* and the newest one are not held: only last_barrier_id is compared.)
LatestBarrierHolds ==
    \A i \in Slots :
        (~Synchronous /\ 0 < last_barrier_id
                      /\ last_barrier_id < commands[i].cmd_id /\ Executed(i))
            => BarrierClear(commands)

\* Commands of a deferred queue execute in an order their dependencies and
\* the newest barrier allow.
OrderRespected == DependencyOrder /\ LatestBarrierHolds

\* The statistics of tu_cmdq_get_counts agree with the slots.
CountsAgree ==
    LET WithStatus(s) == {i \in Slots : commands[i].cmd_id # 0
                                        /\ commands[i].status = s}
    IN  /\ total_completed = Cardinality(WithStatus("COMPLETED"))
        /\ total_faulted = Cardinality(WithStatus("FAULTED"))
        /\ total_submitted = Cardinality({i \in Slots : commands[i].cmd_id # 0})

\* Between calls no pending command could execute, unless the client named
\* commands not yet submitted: the one tick of a submission drains everything
\* the submission released, and further ticks or longer waits gain nothing.
Settled ==
    (/\ pc = "idle"
     /\ \A i \in Slots : \A d \in commands[i].deps : d <= commands[i].cmd_id)
        => \A i \in Slots : ~Ready(i)

\* What has executed stays as it is until a reset clears the whole buffer: no
\* submission reuses the slot of a command and no command executes twice.
ExecutedForGood ==
    [][\A i \in Slots : Executed(i) =>
           \/ commands'[i] = commands[i]
           \/ commands' = [j \in Slots |-> EmptySlot]]_vars

\* tu_cmdq_wait with a timeout returns on a deferred queue, whatever its
\* command depends on: every turn of its loop advances the cycle counter.
TimedWaitReturns ==
    (~Synchronous /\ pc = "wait" /\ waiting.timeout > 0) ~> (pc = "idle")

\* On a functional queue every wait for a command returns, timeout or not.  (A
\* wait for id 0, which no command has, finds the cleared slots pending.)
WaitReturns == (Synchronous /\ pc = "wait" /\ waiting.id # 0) ~> (pc = "idle")

\* Every wait that can end does.
WaitsReturn == TimedWaitReturns /\ WaitReturns

=============================================================================
