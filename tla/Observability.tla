----------------------------- MODULE Observability -----------------------------
(* What the program shows of itself: the waveform file (perf/event_trace.c)    *)
(* and the debugger (infra/tu_debug.c): checksums and difference of regions,   *)
(* recording, saving, loading and replaying instructions, and the counted      *)
(* assertions.  State dumps are formatting and left out.                       *)
(*                                                                             *)
(* A checksum is the set of its bits, so that exclusive or is the symmetric    *)
(* difference.                                                                 *)
EXTENDS Integers, Sequences, FiniteSets, FiniteSetsExt

CONSTANTS
    Signals,        \* signals a trace may hold
    MaxSignals,     \* the trace's max_signals
    SignalValues,   \* 0 is every signal's first value
    TickSteps,      \* cycles handed to tu_trace_tick
    MaxTraceCalls,  \* bound on the calls of the tracer
    Contents,       \* contents of an SRAM region
    Crc,            \* the checksum of each, a set of bits
    MaxEntries,     \* capacity of a recording
    MaxDebugCalls,  \* bound on the calls of the debugger
    Categories,     \* assertion categories
    AssertModes     \* among "ignore", "warn", "error"

ASSUME ObservAssumption == MaxEntries \in Nat /\ TickSteps \subseteq Nat

VARIABLES
    traceSignals,   \* the signals added
    values,         \* last_value of each
    dirty,          \* those to be written
    header,         \* header_written
    traceNow,       \* current_cycle of the trace
    file,           \* entries [time] and [changed], in the order written: a new
                    \* time, and the changed signals with their values
    said,           \* the values at each past time: what the file should say
    ticked,         \* cycles handed to tu_trace_tick
    closed,
    traceCalls,     \* a bound
    sram,           \* contents of the regions "w", "a", "o"
    origin,         \* contents when the recording began
    recording,      \* tu_replay_trace_t: [entries, capacity, count, active]
    saved,          \* the file of the last save
    reported,       \* what the last replay returned, with the contents it began with
    modes,          \* assert_modes
    stats,          \* assert_stats: [checks, violations]
    debugCalls      \* a bound

traceVars == <<traceSignals, values, dirty, header, traceNow, file, said, ticked, closed, traceCalls>>
debugVars == <<sram, origin, recording, saved, reported, modes, stats, debugCalls>>

-------------------------------------------------------------------------------
(* The waveform.                                                               *)

TraceInit ==
    /\ traceSignals = {} /\ values = [s \in Signals |-> 0] /\ dirty = {}
    /\ header = FALSE /\ traceNow = 0 /\ file = <<>> /\ said = <<>>
    /\ ticked = 0 /\ closed = FALSE /\ traceCalls = 0

TraceCall == ~closed /\ traceCalls < MaxTraceCalls /\ traceCalls' = traceCalls + 1

\* tu_trace_add_signal, also after the header listed the signals.
AddSignal(s) ==
    /\ TraceCall
    /\ s \notin traceSignals /\ Cardinality(traceSignals) < MaxSignals
    /\ traceSignals' = traceSignals \cup {s}
    /\ UNCHANGED <<values, dirty, header, traceNow, file, said, ticked, closed>>

\* tu_trace_signal: only a value that differs from the last is to be written.
SetSignal(s, v) ==
    /\ TraceCall
    /\ s \in traceSignals
    /\ values' = [values EXCEPT ![s] = v]
    /\ dirty' = IF values[s] = v THEN dirty ELSE dirty \cup {s}
    /\ UNCHANGED <<traceSignals, header, traceNow, file, said, ticked, closed>>

Changes == <<[changed |-> [s \in dirty |-> values[s]]]>>

Stamp(n) == <<[time |-> n]>>

\* The values at the time just left.
Recall(past, from, to) == past \o [i \in 1..(to - from) |-> values]

\* The first tick writes the header, which ends with time 0, and nothing else;
\* its cycles are dropped.
FirstTick(n) ==
    /\ TraceCall /\ ~header
    /\ header' = TRUE
    /\ file' = <<[changed |-> [s \in traceSignals |-> 0]]>> \o Stamp(0)
    /\ ticked' = ticked + n
    /\ UNCHANGED <<traceSignals, values, dirty, traceNow, said, closed>>

\* Writes the new time before the changes made until then.
LaterTickStampFirst(n) ==
    /\ TraceCall /\ header
    /\ file' = file \o (IF n > 0 THEN Stamp(traceNow + n) ELSE <<>>) \o Changes
    /\ dirty' = {}
    /\ traceNow' = traceNow + n
    /\ said' = Recall(said, traceNow, traceNow + n)
    /\ ticked' = ticked + n
    /\ UNCHANGED <<traceSignals, values, header, closed>>

LaterTick(n) ==
    /\ TraceCall /\ header
    /\ file' = file \o Changes \o (IF n > 0 THEN Stamp(traceNow + n) ELSE <<>>)
    /\ dirty' = {}
    /\ traceNow' = traceNow + n
    /\ said' = Recall(said, traceNow, traceNow + n)
    /\ ticked' = ticked + n
    /\ UNCHANGED <<traceSignals, values, header, closed>>

\* tu_trace_close: the rest, then the time once more; nothing without a header.
TraceClose ==
    /\ TraceCall
    /\ closed' = TRUE
    /\ file' = IF header THEN file \o Changes \o Stamp(traceNow) ELSE file
    /\ dirty' = IF header THEN {} ELSE dirty
    /\ UNCHANGED <<traceSignals, values, header, traceNow, said, ticked>>

TraceNext ==
    \/ \E s \in Signals : AddSignal(s)
    \/ \E s \in Signals, v \in SignalValues : SetSignal(s, v)
    \/ \E n \in TickSteps : FirstTick(n) \/ LaterTick(n)
    \/ TraceClose

-------------------------------------------------------------------------------
(* Checksums and recordings.                                                   *)

RegionNames == {"w", "a", "o"}
Xor(a, b) == (a \ b) \cup (b \ a)

\* tu_debug_checksum_sram: the three regions' checksums combined.
Checksum(s) == Xor(Xor(Crc[s["w"]], Crc[s["a"]]), Crc[s["o"]])

NoRecording == [entries |-> <<>>, stored |-> FALSE, capacity |-> 0, count |-> 0, active |-> FALSE]
NoFile == [count |-> 0, entries |-> <<>>, whole |-> FALSE]

DebugInit ==
    /\ sram \in [RegionNames -> {Min(Contents)}] /\ origin = sram
    /\ recording = NoRecording /\ saved = NoFile /\ reported = <<>>
    /\ modes = [c \in Categories |-> "warn"]
    /\ stats = [checks |-> 0, violations |-> [c \in Categories |-> 0]] /\ debugCalls = 0

DebugCall == debugCalls < MaxDebugCalls /\ debugCalls' = debugCalls + 1

\* tu_debug_record_start, refused while recording.
RecordStart ==
    /\ DebugCall /\ ~recording.active
    /\ recording' = [entries |-> <<>>, stored |-> TRUE, capacity |-> MaxEntries, count |-> 0,
                     active |-> TRUE]
    /\ origin' = sram
    /\ UNCHANGED <<sram, saved, reported, modes, stats>>

Entry(before, after) == [before |-> before, delta |-> Xor(after, before)]

\* An instruction of the caller's changes a region, and tu_debug_record_instr
\* takes note if there is room; nothing is recorded once the entries are gone.
RunInstruction(r, c) ==
    /\ DebugCall
    /\ sram' = [sram EXCEPT ![r] = c]
    /\ recording' =
         IF recording.active /\ recording.stored /\ recording.count < recording.capacity
         THEN [recording EXCEPT !.entries = Append(@, Entry(Checksum(sram), Checksum(sram'))),
                                !.count = @ + 1]
         ELSE recording
    /\ UNCHANGED <<origin, saved, reported, modes, stats>>

RecordStop ==
    /\ DebugCall /\ recording.active
    /\ recording' = [recording EXCEPT !.active = FALSE]
    /\ UNCHANGED <<sram, origin, saved, reported, modes, stats>>

\* tu_debug_record_save; the file may be cut off on its way to the load.
RecordSave(whole) ==
    /\ DebugCall /\ recording.stored
    /\ saved' = [count |-> recording.count, entries |-> recording.entries,
                 whole |-> whole \/ recording.count = 0]
    /\ UNCHANGED <<sram, origin, recording, reported, modes, stats>>

\* tu_debug_record_load: a file cut short leaves no entries, and the old counts
\* and the old recording flag.
RecordLoad ==
    /\ DebugCall /\ saved # NoFile
    /\ recording' =
         IF saved.whole
         THEN [entries |-> saved.entries, stored |-> TRUE, capacity |-> saved.count,
               count |-> saved.count, active |-> FALSE]
         ELSE [recording EXCEPT !.entries = <<>>, !.stored = FALSE]
    /\ UNCHANGED <<sram, origin, saved, reported, modes, stats>>

\* tu_debug_replay_execute compares, and executes nothing.
Mismatches(entries, s) ==
    Cardinality({i \in DOMAIN entries : entries[i].before # Checksum(s)})
    + Cardinality({i \in DOMAIN entries : Xor(entries[i].before, entries[i].delta) # Checksum(s)})

ReplayExecute ==
    /\ DebugCall /\ recording.stored
    /\ reported' = <<Mismatches(recording.entries, sram)>>
    /\ UNCHANGED <<sram, origin, recording, saved, modes, stats>>

\* The caller takes the core back to where the recording began.
Rewind ==
    /\ DebugCall /\ ~recording.active /\ sram' = origin
    /\ UNCHANGED <<origin, recording, saved, reported, modes, stats>>

-------------------------------------------------------------------------------
(* Assertions.                                                                 *)

\* handle_assert, reached by failing checks only.
CountedFailure(st, c, mode) ==
    [st EXCEPT !.checks = @ + 1, !.violations[c] = @ + (IF mode = "ignore" THEN 0 ELSE 1)]

FailCheck(c) ==
    /\ DebugCall
    /\ stats' = CountedFailure(stats, c, modes[c])
    /\ UNCHANGED <<sram, origin, recording, saved, reported, modes>>

SetMode(c, mode) ==
    /\ DebugCall
    /\ modes' = [modes EXCEPT ![c] = mode]
    /\ UNCHANGED <<sram, origin, recording, saved, reported, stats>>

ResetStats ==
    /\ DebugCall
    /\ stats' = [checks |-> 0, violations |-> [c \in Categories |-> 0]]
    /\ UNCHANGED <<sram, origin, recording, saved, reported, modes>>

DebugNext ==
    \/ RecordStart \/ RecordStop \/ RecordLoad \/ ReplayExecute \/ Rewind \/ ResetStats
    \/ \E r \in RegionNames, c \in Contents : RunInstruction(r, c)
    \/ \E whole \in BOOLEAN : RecordSave(whole)
    \/ \E c \in Categories : FailCheck(c) \/ (\E m \in AssertModes : SetMode(c, m))

observVars == <<traceVars, debugVars>>

\* The two share nothing.
ObservNext ==
    \/ TraceNext /\ UNCHANGED debugVars
    \/ DebugNext /\ UNCHANGED traceVars

ObservSpec == TraceInit /\ DebugInit /\ [][ObservNext]_observVars

-------------------------------------------------------------------------------
(* Properties.                                                                 *)

\* Changed signals are signals, and a stored recording has the entries it counts.
ObservTypeOK ==
    /\ dirty \subseteq traceSignals /\ traceNow <= ticked
    /\ recording.count <= recording.capacity
    /\ recording.stored => Len(recording.entries) = recording.count

\* What a reader of the file takes for the value of a signal before time n ends.
ShownUntil(f, s, n) ==
    LET stamps == {i \in DOMAIN f : "time" \in DOMAIN f[i] /\ f[i].time > n}
        last == IF stamps = {} THEN Len(f) ELSE Min(stamps)
        writes == {i \in 1..last : "changed" \in DOMAIN f[i] /\ s \in DOMAIN f[i].changed}
    IN  IF writes = {} THEN 0 ELSE f[Max(writes)].changed[s]

\* The file replays the signals: at each time the trace has left behind, each
\* signal has the value last given to it, and no change is lost at the close.
WaveformIsHistory ==
    /\ \A n \in 0..(traceNow - 1), s \in Signals : ShownUntil(file, s, n) = said[n + 1][s]
    /\ closed /\ header => \A s \in Signals : ShownUntil(file, s, traceNow) = values[s]

\* Whatever was recorded, saved and loaded, each entry takes the checksum from
\* where the entry before it left it: a recording is an unbroken chain.
RecordingChains ==
    \A i \in 2..Len(recording.entries) :
        recording.entries[i].before =
            Xor(recording.entries[i - 1].before, recording.entries[i - 1].delta)

\* What the observers write down is what happened: the waveform replays the
\* signals and a recording, saved and loaded, is an unbroken chain.
RecordsFaithful == ObservTypeOK /\ WaveformIsHistory /\ RecordingChains

===============================================================================
