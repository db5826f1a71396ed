-------------------------- MODULE Libraries_proofs --------------------------
(***************************************************************************)
(* What the counters, the cycle model, the observers, the instruction      *)
(* scheduler and the sparse product promise, for every set of calls,       *)
(* latencies, sizes, signals, checksums, programs and matrices: the        *)
(* accounts of one subject add up, a file tells what happened, a reordered *)
(* program means what it meant, and a sparse product is the dense one of   *)
(* the weights that were kept.                                             *)
(***************************************************************************)
EXTENDS CycleModel, Observability, InstrScheduler, StructuredSparsity, DataLemmas, SequenceTheorems

-----------------------------------------------------------------------------
(* The counters.  Books are the counters of one core; a call only adds.     *)

Counters == CarriedCounters \cup LeftCounters
Books == [n : [Counters -> Nat], bytes : [Channels8 -> Nat], stalls : [Channels8 -> Nat],
          enabled : BOOLEAN, power : BOOLEAN]

\* Nothing was taken back between p and q.
Grown(p, q) ==
    /\ \A c \in Counters : p.n[c] <= q.n[c]
    /\ \A ch \in Channels8 : p.bytes[ch] <= q.bytes[ch] /\ p.stalls[ch] <= q.stalls[ch]

SameSwitches(p, q) == p.enabled = q.enabled /\ p.power = q.power

\* The accounts add up, except that credit cycles of the engine are not yet
\* in the global count.
Balanced(p, credit) ==
    /\ p.n["compute_total_cycles"] =
         p.n["compute_active_cycles"] + p.n["compute_stall_cycles"] + p.n["compute_idle_cycles"]
    /\ p.n["compute_total_cycles"] <= p.n["total_cycles"] + credit
    /\ p.n["total_tiles"] = p.n["edge_tiles"] + p.n["full_tiles"]
    /\ BarTotal(p.bytes) =
         p.n["dma_read_bytes"] + p.n["dma_write_bytes"] + p.n["dma_internal_bytes"]

Accounts == {"compute_total_cycles", "compute_active_cycles", "compute_stall_cycles",
    "compute_idle_cycles", "total_cycles", "total_tiles", "edge_tiles", "full_tiles",
    "dma_read_bytes", "dma_write_bytes", "dma_internal_bytes", "dma_stall_cycles"}

LEMMA NamedCounters ==
    /\ DmaCounters \subseteq Counters /\ ComputeCounters \subseteq Counters
    /\ OpCounters \subseteq Counters /\ MemoryCounters \subseteq Counters
    /\ EnergyCounters \subseteq Counters /\ LeftCounters \subseteq Counters
    /\ \A i \in 1 .. 6 : TransferCounters[i] \in Counters
    /\ "total_cycles" \in Counters
    /\ Accounts \subseteq Counters
<1>1. Accounts \subseteq DmaCounters \cup ComputeCounters \cup {"total_cycles"}
  BY DEF Accounts, DmaCounters, ComputeCounters
<1>. QED
  BY <1>1 DEF Counters, CarriedCounters

\* One addition.
LEMMA BumpAdds ==
    ASSUME NEW p \in Books, NEW D \in SUBSET Counters, NEW add \in [D -> Nat]
    PROVE  /\ Bump(p, add) \in Books
           /\ \A c \in Counters : Bump(p, add).n[c] = p.n[c] + IF c \in D THEN add[c] ELSE 0
           /\ Bump(p, add).bytes = p.bytes /\ Bump(p, add).stalls = p.stalls
           /\ SameSwitches(p, Bump(p, add))
           /\ Grown(p, Bump(p, add))
<1>. DEFINE m == [c \in Counters |-> p.n[c] + IF c \in D THEN add[c] ELSE 0]
<1>1. Bump(p, add) = [p EXCEPT !.n = m]
  BY DEF Bump, Books
<1>2. m \in [Counters -> Nat]
  BY DEF Books
<1>3. \A c \in Counters : m[c] = p.n[c] + IF c \in D THEN add[c] ELSE 0
  OBVIOUS
<1>. HIDE DEF m
<1>4. Bump(p, add) \in Books /\ Bump(p, add).n = m
  BY <1>1, <1>2 DEF Books
<1>5. Bump(p, add).bytes = p.bytes /\ Bump(p, add).stalls = p.stalls /\ SameSwitches(p, Bump(p, add))
  BY <1>1 DEF Books, SameSwitches
<1>6. \A c \in Counters : p.n[c] \in Nat /\ (c \in D => add[c] \in Nat)
  BY DEF Books
<1>7. \A ch \in Channels8 : p.bytes[ch] \in Nat /\ p.stalls[ch] \in Nat
  BY DEF Books
<1>8. Grown(p, Bump(p, add))
  BY <1>3, <1>4, <1>5, <1>6, <1>7 DEF Grown
<1>. QED
  BY <1>3, <1>4, <1>5, <1>8

LEMMA GrownTransitive ==
    ASSUME NEW p \in Books, NEW q \in Books, NEW r \in Books, Grown(p, q), Grown(q, r)
    PROVE  Grown(p, r)
<1>1. \A c \in Counters : p.n[c] \in Nat /\ q.n[c] \in Nat /\ r.n[c] \in Nat
  BY DEF Books
<1>2. \A ch \in Channels8 : /\ p.bytes[ch] \in Nat /\ q.bytes[ch] \in Nat /\ r.bytes[ch] \in Nat
                            /\ p.stalls[ch] \in Nat /\ q.stalls[ch] \in Nat /\ r.stalls[ch] \in Nat
  BY DEF Books
<1>. QED
  BY <1>1, <1>2 DEF Grown

\* From p to q cycles were added to the global count, and wait to the cycles
\* the channels stalled.
Onward(p, q, cycles, wait) ==
    /\ q \in Books /\ Grown(p, q) /\ SameSwitches(p, q)
    /\ q.n["total_cycles"] = p.n["total_cycles"] + cycles
    /\ q.n["dma_stall_cycles"] = p.n["dma_stall_cycles"] + wait

LEMMA OnwardTransitive ==
    ASSUME NEW p \in Books, NEW q, NEW r, NEW t \in Nat, NEW u \in Nat, NEW v \in Nat, NEW w \in Nat,
           Onward(p, q, t, v), Onward(q, r, u, w)
    PROVE  Onward(p, r, t + u, v + w)
<1>1. q \in Books /\ r \in Books /\ Grown(p, q) /\ Grown(q, r)
  BY DEF Onward
<1>2. Grown(p, r)
  BY <1>1, GrownTransitive
<1>3. p.n["total_cycles"] \in Nat /\ p.n["dma_stall_cycles"] \in Nat
  BY NamedCounters DEF Accounts, Books
<1>. QED
  BY <1>1, <1>2, <1>3 DEF Onward, SameSwitches

Value(D, add, c) == IF c \in D THEN add[c] ELSE 0

\* What the engine adds adds up by itself.
LEMMA EngineBump ==
    ASSUME NEW p \in Books, NEW k \in Nat, Balanced(p, 0),
           NEW D \in SUBSET Counters, NEW add \in [D -> Nat],
           \A c \in D : c \notin {"total_cycles", "dma_stall_cycles", "dma_read_bytes",
                                  "dma_write_bytes", "dma_internal_bytes"},
           Value(D, add, "compute_total_cycles") =
               Value(D, add, "compute_active_cycles") + Value(D, add, "compute_stall_cycles")
               + Value(D, add, "compute_idle_cycles"),
           Value(D, add, "compute_total_cycles") <= k,
           Value(D, add, "total_tiles") = Value(D, add, "edge_tiles") + Value(D, add, "full_tiles")
    PROVE  Onward(p, Bump(p, add), 0, 0) /\ Balanced(Bump(p, add), k)
<1>. DEFINE q == Bump(p, add)
<1>1. /\ q \in Books /\ q.bytes = p.bytes /\ SameSwitches(p, q) /\ Grown(p, q)
      /\ \A c \in Counters : q.n[c] = p.n[c] + Value(D, add, c)
  BY BumpAdds DEF Value
<1>. HIDE DEF q
<1>2. \A c \in Accounts : q.n[c] = p.n[c] + Value(D, add, c) /\ p.n[c] \in Nat /\ Value(D, add, c) \in Nat
  BY <1>1, NamedCounters DEF Books, Value
<1>3. \A c \in {"total_cycles", "dma_stall_cycles", "dma_read_bytes",
                "dma_write_bytes", "dma_internal_bytes"} : Value(D, add, c) = 0
  BY DEF Value
<1>4. \A c \in {"total_cycles", "dma_stall_cycles", "dma_read_bytes",
                "dma_write_bytes", "dma_internal_bytes"} : q.n[c] = p.n[c]
  BY <1>2, <1>3 DEF Accounts
<1>5. Onward(p, q, 0, 0)
  BY <1>1, <1>2, <1>4 DEF Onward, Accounts
<1>6. Balanced(q, k)
  BY <1>1, <1>2, <1>3, <1>4 DEF Balanced, Accounts
<1>. QED
  BY <1>5, <1>6 DEF q

LEMMA QuietBump ==
    ASSUME NEW p \in Books, NEW k \in Nat, Balanced(p, k),
           NEW D \in SUBSET Counters, NEW add \in [D -> Nat], D \cap Accounts = {}
    PROVE  Onward(p, Bump(p, add), 0, 0) /\ Balanced(Bump(p, add), k)
<1>. DEFINE q == Bump(p, add)
<1>1. /\ q \in Books /\ q.bytes = p.bytes /\ SameSwitches(p, q) /\ Grown(p, q)
      /\ \A c \in Counters : q.n[c] = p.n[c] + IF c \in D THEN add[c] ELSE 0
  BY BumpAdds
<1>2. \A c \in Accounts : q.n[c] = p.n[c] /\ p.n[c] \in Nat
  BY <1>1, NamedCounters DEF Books
<1>. HIDE DEF q
<1>3. Onward(p, q, 0, 0)
  BY <1>1, <1>2 DEF Onward, Accounts
<1>4. Balanced(q, k)
  BY <1>1, <1>2 DEF Balanced, Accounts
<1>. QED
  BY <1>3, <1>4 DEF q

LEMMA QuietKinds ==
    /\ \A c \in EnergyCounters \cup OpCounters \cup MemoryCounters \cup LeftCounters : c \notin Accounts
    /\ \A i \in 1 .. 6 : TransferCounters[i] \notin Accounts
BY DEF EnergyCounters, OpCounters, MemoryCounters, LeftCounters, TransferCounters, Accounts

LEMMA EnergyKeeps ==
    ASSUME NEW p \in Books, NEW k \in Nat, Balanced(p, k),
           NEW D \in SUBSET EnergyCounters, NEW add \in [D -> Nat]
    PROVE  Onward(p, Energy(p, add), 0, 0) /\ Balanced(Energy(p, add), k)
<1>1. D \in SUBSET Counters /\ D \cap Accounts = {}
  BY NamedCounters, QuietKinds
<1>2. Onward(p, Bump(p, add), 0, 0) /\ Balanced(Bump(p, add), k)
  BY <1>1, QuietBump
<1>3. \A c \in Accounts : p.n[c] \in Nat
  BY NamedCounters DEF Books
<1>4. Onward(p, p, 0, 0)
  <2>1. Grown(p, p)
    BY DEF Grown, Books
  <2>. QED
    BY <1>3, <2>1 DEF Onward, SameSwitches, Accounts
<1>. QED
  BY <1>2, <1>4 DEF Energy

\* The clock of the counters settles the credit.
LEMMA TickSettles ==
    ASSUME NEW p \in Books, NEW k \in Nat, Balanced(p, k), p.enabled, Pj.leak \in Nat
    PROVE  Onward(p, Tick(p, k), k, 0) /\ Balanced(Tick(p, k), 0)
<1>. DEFINE add == [total_cycles |-> k]
            q == Bump(p, add)
            leak == [energy_leakage |-> Pj.leak * k]
<1>1. add \in [{"total_cycles"} -> Nat] /\ {"total_cycles"} \in SUBSET Counters
  BY NamedCounters
<1>2. /\ q \in Books /\ q.bytes = p.bytes /\ SameSwitches(p, q) /\ Grown(p, q)
      /\ \A c \in Counters : q.n[c] = p.n[c] + IF c \in {"total_cycles"} THEN add[c] ELSE 0
  <2>. HIDE DEF add
  <2>. QED
    BY <1>1, BumpAdds
<1>3. /\ \A c \in Accounts \ {"total_cycles"} : q.n[c] = p.n[c]
      /\ q.n["total_cycles"] = p.n["total_cycles"] + k
      /\ \A c \in Accounts : p.n[c] \in Nat
  <2>. HIDE DEF q
  <2>. QED
    BY <1>2, NamedCounters DEF Books
<1>. HIDE DEF q
<1>4. Onward(p, q, k, 0)
  BY <1>2, <1>3 DEF Onward, Accounts
<1>5. Balanced(q, 0)
  BY <1>2, <1>3 DEF Balanced, Accounts
<1>6. leak \in [{"energy_leakage"} -> Nat] /\ {"energy_leakage"} \in SUBSET EnergyCounters
  <2>1. Pj.leak * k \in Nat
    OBVIOUS
  <2>. QED
    BY <2>1 DEF EnergyCounters
<1>7. Onward(q, Energy(q, leak), 0, 0) /\ Balanced(Energy(q, leak), 0)
  <2>. HIDE DEF leak
  <2>. QED
    BY <1>2, <1>5, <1>6, EnergyKeeps
<1>8. Tick(p, k) = Energy(q, leak)
  BY DEF Tick, q
<1>9. Onward(p, Energy(q, leak), k + 0, 0 + 0)
  <2>. HIDE DEF leak
  <2>. QED
    BY <1>4, <1>7, OnwardTransitive
<1>. QED
  BY <1>7, <1>8, <1>9

\* A call ends with its cycles counted and its energy spent.
LEMMA Settled ==
    ASSUME NEW p \in Books, NEW q, NEW k \in Nat, NEW w \in Nat, p.enabled, Pj.leak \in Nat,
           Onward(p, q, 0, w), Balanced(q, k),
           NEW D \in SUBSET EnergyCounters, NEW add \in [D -> Nat]
    PROVE  /\ Onward(p, Tick(q, k), k, w) /\ Balanced(Tick(q, k), 0)
           /\ Onward(p, Energy(Tick(q, k), add), k, w) /\ Balanced(Energy(Tick(q, k), add), 0)
<1>1. q \in Books /\ q.enabled
  BY DEF Onward, SameSwitches
<1>2. Onward(q, Tick(q, k), k, 0) /\ Balanced(Tick(q, k), 0)
  BY <1>1, TickSettles
<1>3. Onward(p, Tick(q, k), 0 + k, w + 0)
  BY <1>2, OnwardTransitive
<1>4. Onward(p, Tick(q, k), k, w) /\ Tick(q, k) \in Books
  BY <1>3 DEF Onward
<1>5. Onward(Tick(q, k), Energy(Tick(q, k), add), 0, 0) /\ Balanced(Energy(Tick(q, k), add), 0)
  BY <1>2, <1>4, EnergyKeeps
<1>6. Onward(p, Energy(Tick(q, k), add), k + 0, w + 0)
  BY <1>4, <1>5, OnwardTransitive
<1>. QED
  BY <1>2, <1>4, <1>5, <1>6

\* Bytes move on a channel and in the total of their direction.
LEMMA ChannelBump ==
    ASSUME NEW p \in Books, Balanced(p, 0), NEW k \in Nat, PerfChannels \in Nat,
           NEW ch \in Channels8, NEW bytes \in Nat, NEW stall \in Nat,
           NEW D \in SUBSET Counters, NEW add \in [D -> Nat],
           NEW way \in {"dma_read_bytes", "dma_write_bytes", "dma_internal_bytes"},
           way \in D, add[way] = bytes, D \cap Accounts \subseteq {way, "dma_stall_cycles"}
    PROVE  LET q == Bump(OnChannel(p, ch, bytes, stall), add)
           IN  Onward(p, q, 0, Value(D, add, "dma_stall_cycles")) /\ Balanced(q, k)
<1>. DEFINE o == OnChannel(p, ch, bytes, stall)
            q == Bump(o, add)
            b == [p.bytes EXCEPT ![ch] = @ + bytes]
            s == [p.stalls EXCEPT ![ch] = @ + stall]
<1>1. o = [p EXCEPT !.bytes = b, !.stalls = s]
  BY DEF OnChannel, Books
<1>2. /\ b \in [Channels8 -> Nat] /\ s \in [Channels8 -> Nat]
      /\ \A c \in Channels8 : p.bytes[c] <= b[c] /\ p.stalls[c] <= s[c]
  BY DEF Books
<1>3. BarTotal(b) = BarTotal(p.bytes) + bytes
  <2>1. IsFiniteSet(Channels8)
    BY FS_Interval DEF Channels8
  <2>2. p.bytes \in [Channels8 -> Nat] /\ p.bytes[ch] \in Nat /\ p.bytes[ch] + bytes \in Nat
    BY DEF Books
  <2>3. b = [p.bytes EXCEPT ![ch] = p.bytes[ch] + bytes]
    OBVIOUS
  <2>4. /\ BarTotal([p.bytes EXCEPT ![ch] = p.bytes[ch] + bytes])
             = BarTotal(p.bytes) - p.bytes[ch] + (p.bytes[ch] + bytes)
        /\ BarTotal(p.bytes) \in Nat
    BY <2>1, <2>2, TotalChanged
  <2>. HIDE DEF b
  <2>. QED
    BY <2>2, <2>3, <2>4
<1>. HIDE DEF b, s
<1>4. /\ o \in Books /\ o.n = p.n /\ o.bytes = b /\ o.stalls = s /\ SameSwitches(p, o) /\ Grown(p, o)
  <2>1. \A c \in Counters : p.n[c] <= p.n[c]
    BY DEF Books
  <2>. HIDE DEF o
  <2>2. o \in Books
    BY <1>1, <1>2 DEF Books
  <2>3. o.n = p.n /\ o.bytes = b /\ o.stalls = s /\ o.enabled = p.enabled /\ o.power = p.power
    BY <1>1 DEF Books
  <2>. QED
    BY <1>2, <2>1, <2>2, <2>3 DEF SameSwitches, Grown
<1>. HIDE DEF o
<1>5. /\ q \in Books /\ q.bytes = b /\ SameSwitches(o, q) /\ Grown(o, q)
      /\ \A c \in Counters : q.n[c] = p.n[c] + Value(D, add, c)
  BY <1>4, BumpAdds DEF Value
<1>. HIDE DEF q
<1>6. \A c \in Accounts : q.n[c] = p.n[c] + Value(D, add, c) /\ p.n[c] \in Nat
  BY <1>5, NamedCounters DEF Books
<1>7. /\ Value(D, add, way) = bytes
      /\ \A c \in Accounts \ {way, "dma_stall_cycles"} : Value(D, add, c) = 0
  BY DEF Value
<1>8. Onward(p, q, 0, Value(D, add, "dma_stall_cycles"))
  <2>1. Grown(p, q) /\ SameSwitches(p, q)
    BY <1>4, <1>5, GrownTransitive DEF SameSwitches
  <2>2. q.n["total_cycles"] = p.n["total_cycles"] + 0
    BY <1>6, <1>7 DEF Accounts
  <2>. QED
    BY <1>5, <1>6, <2>1, <2>2 DEF Onward, Accounts
<1>9. Balanced(q, k)
  <2>1. \A c \in Accounts \ {way, "dma_stall_cycles"} : q.n[c] = p.n[c]
    BY <1>6, <1>7
  <2>2. q.n[way] = p.n[way] + bytes
    BY <1>6, <1>7 DEF Accounts
  <2>3. /\ q.n["dma_read_bytes"] + q.n["dma_write_bytes"] + q.n["dma_internal_bytes"]
             = p.n["dma_read_bytes"] + p.n["dma_write_bytes"] + p.n["dma_internal_bytes"] + bytes
    BY <1>6, <2>1, <2>2 DEF Accounts
  <2>. QED
    BY <1>3, <1>5, <1>6, <2>1, <2>3 DEF Balanced, Accounts
<1>. QED
  BY <1>8, <1>9 DEF q, o

-----------------------------------------------------------------------------
(* The recording calls. *)

Recorded(p, q) == \E t, w \in Nat : Onward(p, q, t, w) /\ Balanced(q, 0)

LEMMA Unrecorded ==
    ASSUME NEW p \in Books, Balanced(p, 0)
    PROVE  Recorded(p, p)
<1>1. \A c \in Accounts : p.n[c] \in Nat
  BY NamedCounters DEF Books
<1>2. Grown(p, p)
  BY DEF Grown, Books
<1>3. Onward(p, p, 0, 0)
  BY <1>1, <1>2 DEF Onward, SameSwitches, Accounts
<1>. QED
  BY <1>3 DEF Recorded

\* One count in one counter.
LEMMA OnceTyped ==
    ASSUME NEW c, NEW n \in Nat
    PROVE  Once(c, n) \in [{c} -> Nat]
BY DEF Once

LEMMA TransferCounted ==
    ASSUME NEW p \in Books, NEW k \in Nat, Balanced(p, k), NEW type \in Nat
    PROVE  Onward(p, Bump(p, Transferred(type)), 0, 0) /\ Balanced(Bump(p, Transferred(type)), k)
<1>1. DOMAIN TransferCounters = 1 .. 6
  BY DEF TransferCounters
<1>2. CASE type + 1 \in 1 .. 6
  <2>. DEFINE D == {TransferCounters[type + 1]}
  <2>1. Transferred(type) \in [D -> Nat]
    BY <1>1, <1>2, OnceTyped DEF Transferred
  <2>2. D \in SUBSET Counters /\ D \cap Accounts = {}
    BY <1>2, NamedCounters, QuietKinds
  <2>. QED
    BY <2>1, <2>2, QuietBump
<1>3. CASE type + 1 \notin 1 .. 6
  <2>. DEFINE add == Once("total_cycles", 0)
              q == Bump(p, add)
  <2>1. Transferred(type) = add
    BY <1>1, <1>3 DEF Transferred
  <2>2. add \in [{"total_cycles"} -> Nat] /\ {"total_cycles"} \in SUBSET Counters
    BY OnceTyped, NamedCounters
  <2>3. /\ q \in Books /\ q.bytes = p.bytes /\ SameSwitches(p, q) /\ Grown(p, q)
        /\ \A c \in Counters : q.n[c] = p.n[c] + IF c \in {"total_cycles"} THEN add[c] ELSE 0
    <3>. HIDE DEF add
    <3>. QED
      BY <2>2, BumpAdds
  <2>4. add["total_cycles"] = 0
    BY DEF Once
  <2>5. \A c \in Accounts : q.n[c] = p.n[c] /\ p.n[c] \in Nat
    <3>. HIDE DEF q, add
    <3>. QED
      BY <2>3, <2>4, NamedCounters DEF Books
  <2>. HIDE DEF q
  <2>6. Onward(p, q, 0, 0)
    BY <2>3, <2>5 DEF Onward, Accounts
  <2>7. Balanced(q, k)
    BY <2>3, <2>5 DEF Balanced, Accounts
  <2>. QED
    BY <2>1, <2>6, <2>7 DEF q
<1>. QED
  BY <1>2, <1>3

LEMMA ReadRecorded ==
    ASSUME NEW p \in Books, Balanced(p, 0), p.enabled,
           NEW bytes \in Nat, NEW active \in Nat, NEW stall \in Nat, NEW ch \in Channels8, NEW type \in Nat
    PROVE  LET q == RecordRead(p, bytes, active, stall, ch, type)
           IN  Onward(p, q, active + stall, stall) /\ Balanced(q, 0)
<1>. DEFINE add == [dma_read_bytes |-> bytes, dma_read_cycles |-> active, dma_stall_cycles |-> stall]
            D == {"dma_read_bytes", "dma_read_cycles", "dma_stall_cycles"}
            q == Bump(OnChannel(p, ch, bytes, stall), add)
            r == Bump(q, Transferred(type))
            energy == [energy_dma |-> Pj.dmaByte * bytes, energy_dram |-> Pj.dram * active]
            E == {"energy_dma", "energy_dram"}
<1>1. /\ add \in [D -> Nat] /\ "dma_read_bytes" \in D /\ add["dma_read_bytes"] = bytes
      /\ Value(D, add, "dma_stall_cycles") = stall
  BY DEF Value
<1>2. D \in SUBSET Counters /\ D \cap Accounts \subseteq {"dma_read_bytes", "dma_stall_cycles"}
  <2>1. D \subseteq DmaCounters
    BY DEF DmaCounters
  <2>. QED
    BY <2>1, NamedCounters DEF Accounts
<1>3. Pj.dmaByte \in Nat /\ Pj.dram \in Nat /\ Pj.leak \in Nat /\ PerfChannels \in Nat
  BY PerfAssumption
<1>4. energy \in [E -> Nat] /\ E \in SUBSET EnergyCounters
  <2>1. Pj.dmaByte * bytes \in Nat /\ Pj.dram * active \in Nat
    BY <1>3
  <2>. QED
    BY <2>1 DEF EnergyCounters
<1>5. Onward(p, q, 0, stall) /\ Balanced(q, active + stall)
  <2>1. active + stall \in Nat
    OBVIOUS
  <2>. HIDE DEF add, D
  <2>. QED
    BY <1>1, <1>2, <1>3, <2>1, ChannelBump
<1>. HIDE DEF q
<1>6. q \in Books
  BY <1>5 DEF Onward
<1>7. Onward(q, r, 0, 0) /\ Balanced(r, active + stall)
  BY <1>5, <1>6, TransferCounted
<1>. HIDE DEF r, energy
<1>8. Onward(p, r, 0 + 0, stall + 0)
  BY <1>5, <1>7, OnwardTransitive
<1>9. Onward(p, r, 0, stall)
  BY <1>8
<1>10. /\ Onward(p, Energy(Tick(r, active + stall), energy), active + stall, stall)
       /\ Balanced(Energy(Tick(r, active + stall), energy), 0)
  <2>. HIDE DEF E
  <2>1. active + stall \in Nat
    OBVIOUS
  <2>. QED
    BY <1>3, <1>4, <1>7, <1>9, <2>1, Settled
<1>11. RecordRead(p, bytes, active, stall, ch, type) = Energy(Tick(r, active + stall), energy)
  BY DEF RecordRead, r, q, energy
<1>. QED
  BY <1>10, <1>11

LEMMA WriteRecorded ==
    ASSUME NEW p \in Books, Balanced(p, 0), p.enabled,
           NEW bytes \in Nat, NEW active \in Nat, NEW stall \in Nat, NEW ch \in Channels8
    PROVE  LET q == RecordWrite(p, bytes, active, stall, ch)
           IN  Onward(p, q, active + stall, stall) /\ Balanced(q, 0)
<1>. DEFINE add == [dma_write_bytes |-> bytes, dma_write_cycles |-> active, dma_stall_cycles |-> stall]
            D == {"dma_write_bytes", "dma_write_cycles", "dma_stall_cycles"}
            q == Bump(OnChannel(p, ch, bytes, stall), add)
            energy == [energy_dma |-> Pj.dmaByte * bytes]
            E == {"energy_dma"}
<1>1. /\ add \in [D -> Nat] /\ "dma_write_bytes" \in D /\ add["dma_write_bytes"] = bytes
      /\ Value(D, add, "dma_stall_cycles") = stall
  BY DEF Value
<1>2. D \in SUBSET Counters /\ D \cap Accounts \subseteq {"dma_write_bytes", "dma_stall_cycles"}
  <2>1. D \subseteq DmaCounters
    BY DEF DmaCounters
  <2>. QED
    BY <2>1, NamedCounters DEF Accounts
<1>3. Pj.dmaByte \in Nat /\ Pj.leak \in Nat /\ PerfChannels \in Nat
  BY PerfAssumption
<1>4. energy \in [E -> Nat] /\ E \in SUBSET EnergyCounters
  <2>1. Pj.dmaByte * bytes \in Nat
    BY <1>3
  <2>. QED
    BY <2>1 DEF EnergyCounters
<1>. active + stall \in Nat
  OBVIOUS
<1>5. Onward(p, q, 0, stall) /\ Balanced(q, active + stall)
  <2>. HIDE DEF add, D
  <2>. QED
    BY <1>1, <1>2, <1>3, ChannelBump
<1>. HIDE DEF q, energy
<1>6. /\ Onward(p, Energy(Tick(q, active + stall), energy), active + stall, stall)
      /\ Balanced(Energy(Tick(q, active + stall), energy), 0)
  <2>. HIDE DEF E
  <2>. QED
    BY <1>3, <1>4, <1>5, Settled
<1>7. RecordWrite(p, bytes, active, stall, ch) = Energy(Tick(q, active + stall), energy)
  BY DEF RecordWrite, q, energy
<1>. QED
  BY <1>6, <1>7

LEMMA InternalRecorded ==
    ASSUME NEW p \in Books, Balanced(p, 0), p.enabled,
           NEW bytes \in Nat, NEW active \in Nat, NEW ch \in Channels8
    PROVE  LET q == RecordInternal(p, bytes, active, ch)
           IN  Onward(p, q, active, 0) /\ Balanced(q, 0)
<1>. DEFINE add == [dma_internal_bytes |-> bytes, dma_read_cycles |-> active]
            D == {"dma_internal_bytes", "dma_read_cycles"}
            q == Bump(OnChannel(p, ch, bytes, 0), add)
<1>1. /\ add \in [D -> Nat] /\ "dma_internal_bytes" \in D /\ add["dma_internal_bytes"] = bytes
      /\ Value(D, add, "dma_stall_cycles") = 0
  BY DEF Value
<1>2. D \in SUBSET Counters /\ D \cap Accounts \subseteq {"dma_internal_bytes", "dma_stall_cycles"}
  <2>1. D \subseteq DmaCounters
    BY DEF DmaCounters
  <2>. QED
    BY <2>1, NamedCounters DEF Accounts
<1>3. Pj.leak \in Nat /\ PerfChannels \in Nat
  BY PerfAssumption
<1>4. Onward(p, q, 0, 0) /\ Balanced(q, active)
  <2>. HIDE DEF add, D
  <2>. QED
    BY <1>1, <1>2, <1>3, ChannelBump
<1>. HIDE DEF q
<1>5. Onward(p, Tick(q, active), active, 0) /\ Balanced(Tick(q, active), 0)
  <2>1. <<>> \in [{} -> Nat] /\ {} \in SUBSET EnergyCounters
    OBVIOUS
  <2>. QED
    BY <1>3, <1>4, <2>1, Settled
<1>6. RecordInternal(p, bytes, active, ch) = Tick(q, active)
  BY DEF RecordInternal, q
<1>. QED
  BY <1>5, <1>6

\* Additions to counters of the kinds no account is about, one after another.
Besides == OpCounters \cup MemoryCounters \cup LeftCounters

LEMMA BesidesQuiet ==
    ASSUME NEW p \in Books, NEW q, NEW k \in Nat, Onward(p, q, 0, 0), Balanced(q, k),
           NEW D \in SUBSET Besides, NEW add \in [D -> Nat]
    PROVE  Onward(p, Bump(q, add), 0, 0) /\ Balanced(Bump(q, add), k)
<1>1. q \in Books
  BY DEF Onward
<1>2. D \in SUBSET Counters /\ D \cap Accounts = {}
  BY NamedCounters, QuietKinds DEF Besides
<1>3. Onward(q, Bump(q, add), 0, 0) /\ Balanced(Bump(q, add), k)
  BY <1>1, <1>2, QuietBump
<1>4. Onward(p, Bump(q, add), 0 + 0, 0 + 0)
  BY <1>3, OnwardTransitive
<1>. QED
  BY <1>3, <1>4

LEMMA BesidesOnce ==
    ASSUME NEW p \in Books, NEW q, NEW k \in Nat, Onward(p, q, 0, 0), Balanced(q, k),
           NEW c \in Besides, NEW n \in Nat
    PROVE  Onward(p, Bump(q, Once(c, n)), 0, 0) /\ Balanced(Bump(q, Once(c, n)), k)
<1>1. Once(c, n) \in [{c} -> Nat] /\ {c} \in SUBSET Besides
  BY OnceTyped
<1>. QED
  BY <1>1, BesidesQuiet

LEMMA MmaRecorded ==
    ASSUME NEW p \in Books, Balanced(p, 0), p.enabled,
           NEW products \in Nat, NEW tiles \in Nat, NEW edge \in Nat, edge <= tiles,
           NEW active \in Nat, NEW stall \in Nat, NEW precision \in Nat, NEW dataflow \in Nat
    PROVE  LET q == RecordMma(p, products, tiles, edge, active, stall, precision, dataflow)
           IN  Onward(p, q, active + stall, 0) /\ Balanced(q, 0)
<1>. DEFINE add == [total_macs |-> products, total_flops |-> 2 * products, total_tiles |-> tiles,
                     edge_tiles |-> edge, full_tiles |-> tiles - edge,
                     compute_active_cycles |-> active, compute_stall_cycles |-> stall,
                     compute_total_cycles |-> active + stall]
            D == {"total_macs", "total_flops", "total_tiles", "edge_tiles", "full_tiles",
                  "compute_active_cycles", "compute_stall_cycles", "compute_total_cycles"}
            flow == IF dataflow = 0 THEN "df_ws_cycles" ELSE "df_os_cycles"
            q == Bump(p, add)
            r == Bump(q, Once(flow, active))
            s == Bump(r, Once(PrecisionOp(precision), 1))
            energy == [energy_mac |-> Pj.mac * products]
            E == {"energy_mac"}
<1>. active + stall \in Nat /\ tiles - edge \in Nat /\ 2 * products \in Nat
  OBVIOUS
<1>1. /\ add \in [D -> Nat]
      /\ Value(D, add, "compute_active_cycles") = active
      /\ Value(D, add, "compute_stall_cycles") = stall
      /\ Value(D, add, "compute_idle_cycles") = 0
      /\ Value(D, add, "compute_total_cycles") = active + stall
      /\ Value(D, add, "total_tiles") = tiles
      /\ Value(D, add, "edge_tiles") = edge
      /\ Value(D, add, "full_tiles") = tiles - edge
  BY DEF Value
<1>2. /\ D \in SUBSET Counters
      /\ \A c \in D : c \notin {"total_cycles", "dma_stall_cycles", "dma_read_bytes",
                                "dma_write_bytes", "dma_internal_bytes"}
  <2>1. D \subseteq ComputeCounters
    BY DEF ComputeCounters
  <2>. QED
    BY <2>1, NamedCounters
<1>3. Onward(p, q, 0, 0) /\ Balanced(q, active + stall)
  <2>1. active + stall = active + stall + 0 /\ active + stall <= active + stall
    OBVIOUS
  <2>2. tiles = edge + (tiles - edge)
    OBVIOUS
  <2>. HIDE DEF add, D
  <2>. QED
    BY <1>1, <1>2, <2>1, <2>2, EngineBump
<1>4. flow \in Besides /\ PrecisionOp(precision) \in Besides
  BY DEF PrecisionOp, Besides, OpCounters, LeftCounters
<1>. HIDE DEF q, flow
<1>5. Onward(p, r, 0, 0) /\ Balanced(r, active + stall)
  BY <1>3, <1>4, BesidesOnce
<1>. HIDE DEF r
<1>6. Onward(p, s, 0, 0) /\ Balanced(s, active + stall)
  BY <1>4, <1>5, BesidesOnce
<1>7. Pj.mac \in Nat /\ Pj.leak \in Nat
  BY PerfAssumption
<1>8. energy \in [E -> Nat] /\ E \in SUBSET EnergyCounters
  <2>1. Pj.mac * products \in Nat
    BY <1>7
  <2>. QED
    BY <2>1 DEF EnergyCounters
<1>. HIDE DEF s, energy
<1>9. /\ Onward(p, Energy(Tick(s, active + stall), energy), active + stall, 0)
      /\ Balanced(Energy(Tick(s, active + stall), energy), 0)
  <2>. HIDE DEF E
  <2>. QED
    BY <1>6, <1>7, <1>8, Settled
<1>10. RecordMma(p, products, tiles, edge, active, stall, precision, dataflow)
         = Energy(Tick(s, active + stall), energy)
  BY DEF RecordMma, s, r, q, flow, energy
<1>. QED
  BY <1>9, <1>10

\* A call without energy of its own.
LEMMA SettledTick ==
    ASSUME NEW p \in Books, NEW q, NEW k \in Nat, p.enabled,
           Onward(p, q, 0, 0), Balanced(q, k)
    PROVE  Onward(p, Tick(q, k), k, 0) /\ Balanced(Tick(q, k), 0)
<1>1. <<>> \in [{} -> Nat] /\ {} \in SUBSET EnergyCounters
  OBVIOUS
<1>2. Pj.leak \in Nat
  BY PerfAssumption
<1>. QED
  BY <1>1, <1>2, Settled

LEMMA OpRecorded ==
    ASSUME NEW p \in Books, Balanced(p, 0), p.enabled,
           NEW code \in Nat, NEW active \in Nat, NEW stall \in Nat, NEW flops \in Nat
    PROVE  LET q == RecordOp(p, code, active, stall, flops)
           IN  Onward(p, q, active + stall, 0) /\ Balanced(q, 0)
<1>. DEFINE add == [total_flops |-> flops, compute_active_cycles |-> active,
                    compute_stall_cycles |-> stall, compute_total_cycles |-> active + stall]
            D == {"total_flops", "compute_active_cycles", "compute_stall_cycles", "compute_total_cycles"}
            q == Bump(p, add)
            r == Bump(q, Once(OpOf(code), 1))
<1>. active + stall \in Nat
  OBVIOUS
<1>1. /\ add \in [D -> Nat]
      /\ Value(D, add, "compute_active_cycles") = active
      /\ Value(D, add, "compute_stall_cycles") = stall
      /\ Value(D, add, "compute_idle_cycles") = 0
      /\ Value(D, add, "compute_total_cycles") = active + stall
      /\ Value(D, add, "total_tiles") = 0
      /\ Value(D, add, "edge_tiles") = 0
      /\ Value(D, add, "full_tiles") = 0
  BY DEF Value
<1>2. /\ D \in SUBSET Counters
      /\ \A c \in D : c \notin {"total_cycles", "dma_stall_cycles", "dma_read_bytes",
                                "dma_write_bytes", "dma_internal_bytes"}
  <2>1. D \subseteq ComputeCounters
    BY DEF ComputeCounters
  <2>. QED
    BY <2>1, NamedCounters
<1>3. Onward(p, q, 0, 0) /\ Balanced(q, active + stall)
  <2>1. active + stall = active + stall + 0 /\ active + stall <= active + stall
    OBVIOUS
  <2>. HIDE DEF add, D
  <2>. QED
    BY <1>1, <1>2, <2>1, EngineBump
<1>4. OpOf(code) \in Besides
  BY DEF OpOf, Besides, OpCounters
<1>. HIDE DEF q
<1>5. Onward(p, r, 0, 0) /\ Balanced(r, active + stall)
  BY <1>3, <1>4, BesidesOnce
<1>. HIDE DEF r
<1>6. Onward(p, Tick(r, active + stall), active + stall, 0) /\ Balanced(Tick(r, active + stall), 0)
  BY <1>5, SettledTick
<1>7. RecordOp(p, code, active, stall, flops) = Tick(r, active + stall)
  BY DEF RecordOp, r, q
<1>. QED
  BY <1>6, <1>7

LEMMA IdleRecorded ==
    ASSUME NEW p \in Books, Balanced(p, 0), p.enabled, NEW cycles \in Nat
    PROVE  LET q == RecordIdle(p, cycles) IN Onward(p, q, cycles, 0) /\ Balanced(q, 0)
<1>. DEFINE add == [compute_idle_cycles |-> cycles, compute_total_cycles |-> cycles]
            D == {"compute_idle_cycles", "compute_total_cycles"}
            q == Bump(p, add)
<1>1. /\ add \in [D -> Nat]
      /\ Value(D, add, "compute_active_cycles") = 0
      /\ Value(D, add, "compute_stall_cycles") = 0
      /\ Value(D, add, "compute_idle_cycles") = cycles
      /\ Value(D, add, "compute_total_cycles") = cycles
      /\ Value(D, add, "total_tiles") = 0
      /\ Value(D, add, "edge_tiles") = 0
      /\ Value(D, add, "full_tiles") = 0
  BY DEF Value
<1>2. /\ D \in SUBSET Counters
      /\ \A c \in D : c \notin {"total_cycles", "dma_stall_cycles", "dma_read_bytes",
                                "dma_write_bytes", "dma_internal_bytes"}
  <2>1. D \subseteq ComputeCounters
    BY DEF ComputeCounters
  <2>. QED
    BY <2>1, NamedCounters
<1>3. Onward(p, q, 0, 0) /\ Balanced(q, cycles)
  <2>1. cycles = 0 + 0 + cycles /\ cycles <= cycles
    OBVIOUS
  <2>. HIDE DEF add, D
  <2>. QED
    BY <1>1, <1>2, <2>1, EngineBump
<1>. HIDE DEF q
<1>4. Onward(p, Tick(q, cycles), cycles, 0) /\ Balanced(Tick(q, cycles), 0)
  BY <1>3, SettledTick
<1>5. RecordIdle(p, cycles) = Tick(q, cycles)
  BY DEF RecordIdle, q
<1>. QED
  BY <1>4, <1>5

LEMMA FromItself ==
    ASSUME NEW p \in Books
    PROVE  Onward(p, p, 0, 0)
<1>1. \A c \in Accounts : p.n[c] \in Nat
  BY NamedCounters DEF Books
<1>2. Grown(p, p)
  BY DEF Grown, Books
<1>. QED
  BY <1>1, <1>2 DEF Onward, SameSwitches, Accounts

LEMMA BubbleRecorded ==
    ASSUME NEW p \in Books, Balanced(p, 0), p.enabled, NEW count \in Nat
    PROVE  Onward(p, RecordBubble(p, count), 0, 0) /\ Balanced(RecordBubble(p, count), 0)
<1>. DEFINE add == [compute_pipeline_bubbles |-> count]
            D == {"compute_pipeline_bubbles"}
<1>1. add \in [D -> Nat]
  OBVIOUS
<1>2. D \in SUBSET Counters /\ D \cap Accounts = {}
  <2>1. D \subseteq ComputeCounters
    BY DEF ComputeCounters
  <2>. QED
    BY <2>1, NamedCounters DEF Accounts
<1>3. Onward(p, Bump(p, add), 0, 0) /\ Balanced(Bump(p, add), 0)
  <2>. HIDE DEF add, D
  <2>. QED
    BY <1>1, <1>2, QuietBump
<1>. QED
  BY <1>3 DEF RecordBubble

LEMMA SpadRecorded ==
    ASSUME NEW p \in Books, Balanced(p, 0), p.enabled,
           NEW isWrite \in BOOLEAN, NEW words \in Nat, NEW conflicts \in Nat, NEW stall \in Nat
    PROVE  LET q == RecordSpad(p, isWrite, words, conflicts, stall)
           IN  Onward(p, q, stall, 0) /\ Balanced(q, 0)
<1>. DEFINE add == [mem_spad_bank_conflicts |-> conflicts, mem_spad_stall_cycles |-> stall]
            D == {"mem_spad_bank_conflicts", "mem_spad_stall_cycles"}
            which == IF isWrite THEN "mem_spad_writes" ELSE "mem_spad_reads"
            q == Bump(p, add)
            r == Bump(q, Once(which, words))
            write == [energy_sram_write |-> Pj.sramWrite * words]
            read == [energy_sram_read |-> Pj.sramRead * words]
<1>1. add \in [D -> Nat] /\ D \in SUBSET Besides /\ which \in Besides
  BY DEF Besides, MemoryCounters
<1>2. Balanced(p, stall)
  <2>1. p.n["compute_total_cycles"] \in Nat /\ p.n["total_cycles"] \in Nat
    BY NamedCounters DEF Accounts, Books
  <2>. QED
    BY <2>1 DEF Balanced
<1>3. Onward(p, q, 0, 0) /\ Balanced(q, stall)
  <2>. HIDE DEF add, D
  <2>. QED
    BY <1>1, <1>2, FromItself, BesidesQuiet
<1>. HIDE DEF q, which
<1>4. Onward(p, r, 0, 0) /\ Balanced(r, stall)
  BY <1>1, <1>3, BesidesOnce
<1>5. Pj.sramWrite \in Nat /\ Pj.sramRead \in Nat /\ Pj.leak \in Nat
  BY PerfAssumption
<1>6. /\ write \in [{"energy_sram_write"} -> Nat] /\ {"energy_sram_write"} \in SUBSET EnergyCounters
      /\ read \in [{"energy_sram_read"} -> Nat] /\ {"energy_sram_read"} \in SUBSET EnergyCounters
  <2>1. Pj.sramWrite * words \in Nat /\ Pj.sramRead * words \in Nat
    BY <1>5
  <2>. QED
    BY <2>1 DEF EnergyCounters
<1>. HIDE DEF r, write, read
<1>7. /\ Onward(p, Energy(Tick(r, stall), write), stall, 0) /\ Balanced(Energy(Tick(r, stall), write), 0)
      /\ Onward(p, Energy(Tick(r, stall), read), stall, 0) /\ Balanced(Energy(Tick(r, stall), read), 0)
  BY <1>4, <1>5, <1>6, Settled
<1>8. RecordSpad(p, isWrite, words, conflicts, stall)
        = Energy(Tick(r, stall), IF isWrite THEN write ELSE read)
  BY DEF RecordSpad, r, q, which, write, read
<1>. QED
  BY <1>7, <1>8

LEMMA GbufRecorded ==
    ASSUME NEW p \in Books, Balanced(p, 0), p.enabled,
           NEW isWrite \in BOOLEAN, NEW words \in Nat, NEW conflicts \in Nat
    PROVE  LET q == RecordGbuf(p, isWrite, words, conflicts)
           IN  Onward(p, q, 0, 0) /\ Balanced(q, 0)
<1>. DEFINE add == [mem_gbuf_bank_conflicts |-> conflicts]
            D == {"mem_gbuf_bank_conflicts"}
            which == IF isWrite THEN "mem_gbuf_writes" ELSE "mem_gbuf_reads"
            q == Bump(p, add)
<1>1. add \in [D -> Nat] /\ D \in SUBSET Besides /\ which \in Besides
  BY DEF Besides, MemoryCounters, LeftCounters
<1>2. Onward(p, q, 0, 0) /\ Balanced(q, 0)
  <2>. HIDE DEF add, D
  <2>. QED
    BY <1>1, FromItself, BesidesQuiet
<1>. HIDE DEF q, which
<1>3. Onward(p, Bump(q, Once(which, words)), 0, 0) /\ Balanced(Bump(q, Once(which, words)), 0)
  BY <1>1, <1>2, BesidesOnce
<1>. QED
  BY <1>3 DEF RecordGbuf, q, which

LEMMA DramRecorded ==
    ASSUME NEW p \in Books, Balanced(p, 0), p.enabled,
           NEW isWrite \in BOOLEAN, NEW bytes \in Nat, NEW hit \in BOOLEAN, NEW stall \in Nat
    PROVE  LET q == RecordDram(p, isWrite, bytes, hit, stall)
           IN  Onward(p, q, stall, 0) /\ Balanced(q, 0)
<1>. DEFINE write == [mem_dram_writes |-> 1, mem_dram_bytes_written |-> bytes]
            W == {"mem_dram_writes", "mem_dram_bytes_written"}
            read == [mem_dram_reads |-> 1, mem_dram_bytes_read |-> bytes]
            R == {"mem_dram_reads", "mem_dram_bytes_read"}
            stalls == [mem_dram_stall_cycles |-> stall]
            S == {"mem_dram_stall_cycles"}
            which == IF hit THEN "mem_dram_row_hits" ELSE "mem_dram_row_misses"
            q == Bump(p, IF isWrite THEN write ELSE read)
            r == Bump(q, stalls)
            s == Bump(r, Once(which, 1))
            energy == [energy_dram |-> Pj.dram]
            E == {"energy_dram"}
<1>1. /\ write \in [W -> Nat] /\ read \in [R -> Nat] /\ stalls \in [S -> Nat]
      /\ W \in SUBSET Besides /\ R \in SUBSET Besides /\ S \in SUBSET Besides
      /\ which \in Besides
  BY DEF Besides, MemoryCounters, LeftCounters
<1>2. Balanced(p, stall)
  <2>1. p.n["compute_total_cycles"] \in Nat /\ p.n["total_cycles"] \in Nat
    BY NamedCounters DEF Accounts, Books
  <2>. QED
    BY <2>1 DEF Balanced
<1>3. Onward(p, q, 0, 0) /\ Balanced(q, stall)
  <2>. HIDE DEF write, read, W, R
  <2>1. CASE isWrite
    BY <1>1, <1>2, <2>1, FromItself, BesidesQuiet
  <2>2. CASE ~ isWrite
    BY <1>1, <1>2, <2>2, FromItself, BesidesQuiet
  <2>. QED
    BY <2>1, <2>2
<1>. HIDE DEF q, which
<1>4. Onward(p, r, 0, 0) /\ Balanced(r, stall)
  <2>. HIDE DEF stalls, S
  <2>. QED
    BY <1>1, <1>3, BesidesQuiet
<1>. HIDE DEF r
<1>5. Onward(p, s, 0, 0) /\ Balanced(s, stall)
  BY <1>1, <1>4, BesidesOnce
<1>6. Pj.dram \in Nat /\ Pj.leak \in Nat
  BY PerfAssumption
<1>7. energy \in [E -> Nat] /\ E \in SUBSET EnergyCounters
  BY <1>6 DEF EnergyCounters
<1>. HIDE DEF s, energy
<1>8. /\ Onward(p, Energy(Tick(s, stall), energy), stall, 0)
      /\ Balanced(Energy(Tick(s, stall), energy), 0)
  <2>. HIDE DEF E
  <2>. QED
    BY <1>5, <1>6, <1>7, Settled
<1>9. RecordDram(p, isWrite, bytes, hit, stall) = Energy(Tick(s, stall), energy)
  BY DEF RecordDram, s, r, q, which, energy
<1>. QED
  BY <1>8, <1>9

LEMMA RegFileRecorded ==
    ASSUME NEW p \in Books, Balanced(p, 0), p.enabled, NEW isWrite \in BOOLEAN, NEW words \in Nat
    PROVE  LET q == RecordRegFile(p, isWrite, words) IN Onward(p, q, 0, 0) /\ Balanced(q, 0)
<1>. DEFINE which == IF isWrite THEN "mem_reqfile_writes" ELSE "mem_reqfile_reads"
<1>1. which \in Besides
  BY DEF Besides, MemoryCounters
<1>. HIDE DEF which
<1>2. Onward(p, Bump(p, Once(which, words)), 0, 0) /\ Balanced(Bump(p, Once(which, words)), 0)
  BY <1>1, FromItself, BesidesOnce
<1>. QED
  BY <1>2 DEF RecordRegFile, which

\* A descriptor is a transfer, and an access of the scratchpad if that stalled.
LEMMA DescriptorRecorded ==
    ASSUME NEW p \in Books, Balanced(p, 0), p.enabled,
           NEW bytes \in Nat, NEW ch \in Channels8, NEW type \in Nat, NEW isRead \in BOOLEAN,
           NEW active \in Nat, NEW stall \in Nat, NEW sramStall \in Nat
    PROVE  Recorded(p, RecordDescriptor(p, bytes, ch, type, isRead, active, stall, sramStall))
<1>. DEFINE moved == IF isRead THEN RecordRead(p, bytes, active, stall, ch, type)
                     ELSE RecordWrite(p, bytes, active, stall, ch)
            words == (bytes + 3) \div 4
            q == RecordSpad(moved, ~ isRead, words, 0, sramStall)
<1>1. Onward(p, moved, active + stall, stall) /\ Balanced(moved, 0)
  BY ReadRecorded, WriteRecorded
<1>2. words \in Nat /\ active + stall \in Nat /\ (~ isRead) \in BOOLEAN
  OBVIOUS
<1>. HIDE DEF moved, words
<1>3. moved \in Books /\ moved.enabled
  BY <1>1 DEF Onward, SameSwitches
<1>4. Onward(moved, q, sramStall, 0) /\ Balanced(q, 0)
  BY <1>1, <1>2, <1>3, SpadRecorded
<1>. HIDE DEF q
<1>5. Onward(p, q, (active + stall) + sramStall, stall + 0)
  BY <1>1, <1>2, <1>4, OnwardTransitive
<1>6. Recorded(p, q) /\ Recorded(p, moved)
  <2>1. (active + stall) + sramStall \in Nat /\ stall + 0 \in Nat
    OBVIOUS
  <2>. QED
    BY <1>1, <1>2, <1>4, <1>5, <2>1 DEF Recorded
<1>7. RecordDescriptor(p, bytes, ch, type, isRead, active, stall, sramStall)
        = IF sramStall > 0 THEN q ELSE moved
  BY DEF RecordDescriptor, q, moved, words
<1>. QED
  BY <1>6, <1>7

LEMMA CallRecorded ==
    ASSUME NEW p \in Books, Balanced(p, 0), NEW r \in PerfCalls
    PROVE  Recorded(p, Record(p, r))
<1>1. CASE ~ p.enabled
  <2>1. /\ \A bytes, active, stall, ch, type : RecordRead(p, bytes, active, stall, ch, type) = p
        /\ \A bytes, active, stall, ch : RecordWrite(p, bytes, active, stall, ch) = p
        /\ \A bytes, active, ch : RecordInternal(p, bytes, active, ch) = p
        /\ \A products, tiles, edge, active, stall, precision, dataflow :
              RecordMma(p, products, tiles, edge, active, stall, precision, dataflow) = p
        /\ \A code, active, stall, flops : RecordOp(p, code, active, stall, flops) = p
        /\ \A cycles : RecordIdle(p, cycles) = p /\ RecordBubble(p, cycles) = p /\ Tick(p, cycles) = p
    BY <1>1 DEF RecordRead, RecordWrite, RecordInternal, RecordMma, RecordOp, RecordIdle,
                RecordBubble, Tick
  <2>2. /\ \A isWrite, words, conflicts, stall : RecordSpad(p, isWrite, words, conflicts, stall) = p
        /\ \A isWrite, words, conflicts : RecordGbuf(p, isWrite, words, conflicts) = p
        /\ \A isWrite, bytes, hit, stall : RecordDram(p, isWrite, bytes, hit, stall) = p
        /\ \A isWrite, words : RecordRegFile(p, isWrite, words) = p
    BY <1>1 DEF RecordSpad, RecordGbuf, RecordDram, RecordRegFile
  <2>3. \A bytes, ch, type, isRead, active, stall, sramStall :
           RecordDescriptor(p, bytes, ch, type, isRead, active, stall, sramStall) = p
    BY <2>1, <2>2 DEF RecordDescriptor
  <2>4. r.call \in {"read", "write", "internal", "mma", "op", "idle", "bubble", "spad", "gbuf",
                    "dram", "regfile", "descriptor", "tick"}
    BY PerfAssumption DEF CallTypes
  <2>5. Record(p, r) = p
    BY <2>1, <2>2, <2>3, <2>4 DEF Record
  <2>. QED
    BY <2>5, Unrecorded
<1>2. CASE p.enabled
  <2>1. ASSUME NEW t \in Nat, NEW w \in Nat, NEW q, Onward(p, q, t, w), Balanced(q, 0)
        PROVE  Recorded(p, q)
    BY <2>1 DEF Recorded
  <2>2. \A a, b \in Nat : a + b \in Nat
    OBVIOUS
  <2>3. r \in CallTypes
    BY PerfAssumption
  <2>4. CASE r \in [call : {"read"}, bytes : Nat, active : Nat, stall : Nat, ch : Channels8, type : Nat]
    <3>1. Record(p, r) = RecordRead(p, r.bytes, r.active, r.stall, r.ch, r.type)
      BY <2>4 DEF Record
    <3>. QED
      <4>1. /\ r.bytes \in Nat /\ r.active \in Nat /\ r.stall \in Nat /\ r.ch \in Channels8
            /\ r.type \in Nat /\ r.active + r.stall \in Nat
        BY <2>4
      <4>2. LET q == RecordRead(p, r.bytes, r.active, r.stall, r.ch, r.type)
            IN  Onward(p, q, r.active + r.stall, r.stall) /\ Balanced(q, 0)
        BY <1>2, <4>1, ReadRecorded
      <4>. QED
        BY <2>1, <3>1, <4>1, <4>2
  <2>5. CASE r \in [call : {"write"}, bytes : Nat, active : Nat, stall : Nat, ch : Channels8]
    <3>1. Record(p, r) = RecordWrite(p, r.bytes, r.active, r.stall, r.ch)
      BY <2>5 DEF Record
    <3>. QED
      <4>1. /\ r.bytes \in Nat /\ r.active \in Nat /\ r.stall \in Nat /\ r.ch \in Channels8
            /\ r.active + r.stall \in Nat
        BY <2>5
      <4>2. LET q == RecordWrite(p, r.bytes, r.active, r.stall, r.ch)
            IN  Onward(p, q, r.active + r.stall, r.stall) /\ Balanced(q, 0)
        BY <1>2, <4>1, WriteRecorded
      <4>. QED
        BY <2>1, <3>1, <4>1, <4>2
  <2>6. CASE r \in [call : {"internal"}, bytes : Nat, active : Nat, ch : Channels8]
    <3>1. Record(p, r) = RecordInternal(p, r.bytes, r.active, r.ch)
      BY <2>6 DEF Record
    <3>. QED
      BY <1>2, <2>1, <2>6, <3>1, InternalRecorded
  <2>7. CASE r \in [call : {"mma"}, macs : Nat, tiles : Nat, edge : Nat, active : Nat, stall : Nat,
                    type : Nat, flow : Nat]
    <3>1. Record(p, r) = RecordMma(p, r.macs, r.tiles, r.edge, r.active, r.stall, r.type, r.flow)
      BY <2>7 DEF Record
    <3>2. r.edge <= r.tiles
      BY <2>7, PerfAssumption
    <3>. QED
      <4>1. /\ r.macs \in Nat /\ r.tiles \in Nat /\ r.edge \in Nat /\ r.active \in Nat
            /\ r.stall \in Nat /\ r.type \in Nat /\ r.flow \in Nat /\ r.active + r.stall \in Nat
        BY <2>7
      <4>2. LET q == RecordMma(p, r.macs, r.tiles, r.edge, r.active, r.stall, r.type, r.flow)
            IN  Onward(p, q, r.active + r.stall, 0) /\ Balanced(q, 0)
        BY <1>2, <3>2, <4>1, MmaRecorded
      <4>. QED
        BY <2>1, <3>1, <4>1, <4>2
  <2>8. CASE r \in [call : {"op"}, code : Nat, active : Nat, stall : Nat, flops : Nat]
    <3>1. Record(p, r) = RecordOp(p, r.code, r.active, r.stall, r.flops)
      BY <2>8 DEF Record
    <3>. QED
      BY <1>2, <2>1, <2>2, <2>8, <3>1, OpRecorded
  <2>9. CASE r \in [call : {"idle", "tick"}, cycles : Nat]
    <3>1. Record(p, r) \in {RecordIdle(p, r.cycles), Tick(p, r.cycles)}
      BY <2>9 DEF Record
    <3>2. Onward(p, Tick(p, r.cycles), r.cycles, 0) /\ Balanced(Tick(p, r.cycles), 0)
      <4>1. Balanced(p, r.cycles)
        <5>1. p.n["compute_total_cycles"] \in Nat /\ p.n["total_cycles"] \in Nat
          BY NamedCounters DEF Accounts, Books
        <5>. QED
          BY <2>9, <5>1 DEF Balanced
      <4>. QED
        BY <1>2, <2>9, <4>1, FromItself, SettledTick
    <3>. QED
      BY <1>2, <2>1, <2>9, <3>1, <3>2, IdleRecorded
  <2>10. CASE r \in [call : {"bubble"}, count : Nat]
    <3>1. Record(p, r) = RecordBubble(p, r.count)
      BY <2>10 DEF Record
    <3>. QED
      BY <1>2, <2>1, <2>10, <3>1, BubbleRecorded
  <2>11. CASE r \in [call : {"spad"}, isWrite : BOOLEAN, words : Nat, conflicts : Nat, stall : Nat]
    <3>1. Record(p, r) = RecordSpad(p, r.isWrite, r.words, r.conflicts, r.stall)
      BY <2>11 DEF Record
    <3>. QED
      BY <1>2, <2>1, <2>11, <3>1, SpadRecorded
  <2>12. CASE r \in [call : {"gbuf"}, isWrite : BOOLEAN, words : Nat, conflicts : Nat]
    <3>1. Record(p, r) = RecordGbuf(p, r.isWrite, r.words, r.conflicts)
      BY <2>12 DEF Record
    <3>. QED
      BY <1>2, <2>1, <2>12, <3>1, GbufRecorded
  <2>13. CASE r \in [call : {"dram"}, isWrite : BOOLEAN, bytes : Nat, hit : BOOLEAN, stall : Nat]
    <3>1. Record(p, r) = RecordDram(p, r.isWrite, r.bytes, r.hit, r.stall)
      BY <2>13 DEF Record
    <3>. QED
      BY <1>2, <2>1, <2>13, <3>1, DramRecorded
  <2>14. CASE r \in [call : {"regfile"}, isWrite : BOOLEAN, words : Nat]
    <3>1. Record(p, r) = RecordRegFile(p, r.isWrite, r.words)
      BY <2>14 DEF Record
    <3>. QED
      BY <1>2, <2>1, <2>14, <3>1, RegFileRecorded
  <2>15. CASE r \in [call : {"descriptor"}, bytes : Nat, ch : Channels8, type : Nat, isRead : BOOLEAN,
                     active : Nat, stall : Nat, sramStall : Nat]
    <3>1. Record(p, r) =
            RecordDescriptor(p, r.bytes, r.ch, r.type, r.isRead, r.active, r.stall, r.sramStall)
      BY <2>15 DEF Record
    <3>. QED
      <4>1. /\ r.bytes \in Nat /\ r.ch \in Channels8 /\ r.type \in Nat /\ r.isRead \in BOOLEAN
            /\ r.active \in Nat /\ r.stall \in Nat /\ r.sramStall \in Nat
        BY <2>15
      <4>2. Recorded(p, RecordDescriptor(p, r.bytes, r.ch, r.type, r.isRead, r.active, r.stall, r.sramStall))
        BY <1>2, <4>1, DescriptorRecorded
      <4>. QED
        BY <3>1, <4>2
  <2>. QED
    BY <2>3, <2>4, <2>5, <2>6, <2>7, <2>8, <2>9, <2>10, <2>11, <2>12, <2>13, <2>14, <2>15 DEF CallTypes
<1>. QED
  BY <1>1, <1>2

-----------------------------------------------------------------------------
(* The ring of tiles in flight.  Until a tile is issued over one in flight,  *)
(* tile number k, counted by the issues, sits in slot k % RingSlots from its *)
(* issue to its completion, and the tiles in flight are those between the    *)
(* completions and the issues.                                               *)

Slot == 0 .. RingSlots - 1
At(k) == k % RingSlots
Entries == [active : BOOLEAN, issued : Nat, outputs : [1 .. 4 -> Nat], writes : SUBSET Nat, order : Nat]
Rings == [slots : [Slot -> Entries], head : Slot, tail : Slot, stalls : Nat, issues : Nat,
          completions : Nat, overrun : BOOLEAN]

\* What an entry in flight has yet to write is among its outputs.
WritesKnown(r) ==
    \A i \in Slot : r.slots[i].active =>
        \A x \in r.slots[i].writes : x # 0 /\ \E e \in 1 .. 4 : x = r.slots[i].outputs[e]

InOrder(r) ==
    ~ r.overrun =>
       /\ r.completions <= r.issues
       /\ r.head = At(r.issues) /\ r.tail = At(r.completions)
       /\ \A i \in Slot : r.slots[i].active =>
             /\ r.completions <= r.slots[i].order /\ r.slots[i].order < r.issues
             /\ At(r.slots[i].order) = i
       /\ \A k \in Nat : r.completions <= k /\ k < r.issues =>
             r.slots[At(k)].active /\ r.slots[At(k)].order = k

RingInv(r) == r \in Rings /\ WritesKnown(r) /\ InOrder(r)

\* Registers of a tile: no more than four.
Registers == UNION {[1 .. n -> Nat] : n \in 0 .. 4}

LEMMA SlotsInTurn ==
    ASSUME NEW k \in Nat
    PROVE  /\ At(k) \in Slot
           /\ At(k + 1) = At(At(k) + 1)
           /\ \A j \in Nat : At(j) = At(k) /\ j - k < RingSlots /\ k - j < RingSlots => j = k
           /\ \A i \in Slot : At(i + 1) \in Slot
<1>1. RingSlots \in Nat \ {0}
  BY CycleAssumption
<1>2. At(k) \in Slot
  BY <1>1, Division DEF At, Slot
<1>3. At(k + 1) = At(At(k) + 1)
  BY <1>1, RemainderSteps DEF At
<1>4. ASSUME NEW i \in Slot PROVE At(i + 1) \in Slot
  <2>1. i + 1 \in Nat
    BY <1>1 DEF Slot
  <2>. QED
    BY <1>1, <2>1, Division DEF At, Slot
<1>5. ASSUME NEW j \in Nat, At(j) = At(k), j - k < RingSlots, k - j < RingSlots PROVE j = k
  BY <1>1, <1>5, RemainderWindow DEF At
<1>. QED
  BY <1>2, <1>3, <1>4, <1>5

LEMMA StallTyped ==
    ASSUME NEW r, NEW srcs, NEW dsts
    PROVE  HazardStall(r, srcs, dsts) \in Nat
BY CycleAssumption DEF HazardStall

LEMMA RegistersTyped ==
    ASSUME NEW dsts \in Registers
    PROVE  \A d \in DOMAIN dsts : d \in 1 .. 4 /\ dsts[d] \in Nat
<1>1. PICK n \in 0 .. 4 : dsts \in [1 .. n -> Nat]
  BY DEF Registers
<1>2. DOMAIN dsts = 1 .. n
  BY <1>1
<1>3. ASSUME NEW d \in 1 .. n PROVE d \in 1 .. 4 /\ dsts[d] \in Nat
  BY <1>1
<1>. QED
  BY <1>2, <1>3

LEMMA IssueKeeps ==
    ASSUME NEW r, RingInv(r), NEW srcs, NEW dsts \in Registers, NEW now \in Nat
    PROVE  RingInv(Issued(r, srcs, dsts, now))
<1>. DEFINE stall == HazardStall(r, srcs, dsts)
            old == r.slots[r.head]
            outs == [e \in 1 .. 4 |-> IF e \in DOMAIN dsts THEN dsts[e] ELSE old.outputs[e]]
            new == [active |-> TRUE, issued |-> now + stall, outputs |-> outs,
                    writes |-> {dsts[d] : d \in DOMAIN dsts} \ {0}, order |-> r.issues]
            q == Issued(r, srcs, dsts, now)
<1>1. stall \in Nat
  BY StallTyped
<1>2. r \in Rings /\ WritesKnown(r) /\ InOrder(r)
  BY DEF RingInv
<1>3. /\ r.slots \in [Slot -> Entries] /\ r.head \in Slot /\ r.tail \in Slot /\ r.stalls \in Nat
      /\ r.issues \in Nat /\ r.completions \in Nat /\ r.overrun \in BOOLEAN
  BY <1>2 DEF Rings
<1>4. \A d \in DOMAIN dsts : d \in 1 .. 4 /\ dsts[d] \in Nat
  BY RegistersTyped
<1>5. old \in Entries /\ \A e \in 1 .. 4 : old.outputs[e] \in Nat
  <2>1. old \in Entries
    BY <1>3
  <2>. HIDE DEF old
  <2>. QED
    BY <2>1 DEF Entries
<1>6. new \in Entries
  <2>1. outs \in [1 .. 4 -> Nat]
    BY <1>4, <1>5
  <2>2. {dsts[d] : d \in DOMAIN dsts} \ {0} \in SUBSET Nat
    BY <1>4
  <2>. HIDE DEF outs, stall
  <2>3. now + stall \in Nat
    BY <1>1
  <2>. QED
    BY <1>3, <2>1, <2>2, <2>3 DEF Entries
<1>7. q = [r EXCEPT !.slots = [r.slots EXCEPT ![r.head] = new], !.head = At(r.head + 1),
                    !.issues = r.issues + 1, !.stalls = r.stalls + stall,
                    !.overrun = r.overrun \/ old.active]
  BY <1>2 DEF Issued, Rings, At
<1>. HIDE DEF q, stall
<1>8. q.issues = r.issues + 1
  <2>. HIDE DEF new, old
  <2>. QED
    BY <1>2, <1>7 DEF Rings
<1>17. q.completions = r.completions
  <2>. HIDE DEF new, old
  <2>. QED
    BY <1>2, <1>7 DEF Rings
<1>18. q.stalls = r.stalls + stall
  <2>. HIDE DEF new, old
  <2>. QED
    BY <1>2, <1>7 DEF Rings
<1>16. q.head = At(r.head + 1) /\ q.tail = r.tail
  <2>. HIDE DEF new, old
  <2>. QED
    BY <1>2, <1>7 DEF Rings
<1>14. q.slots = [r.slots EXCEPT ![r.head] = new]
  <2>. HIDE DEF new, old
  <2>. QED
    BY <1>2, <1>7 DEF Rings
<1>15. r.issues \in Nat
  BY <1>3
<1>19. r.completions \in Nat
  BY <1>3
<1>20. r.stalls + stall \in Nat
  <2>. HIDE DEF new, old, outs
  <2>1. r.stalls \in Nat
    BY <1>3
  <2>. QED
    BY <1>1, <2>1
<1>13. /\ q.overrun = (r.overrun \/ old.active)
       /\ q = [slots |-> q.slots, head |-> q.head, tail |-> q.tail, stalls |-> q.stalls,
               issues |-> q.issues, completions |-> q.completions, overrun |-> q.overrun]
  <2>. HIDE DEF new, old
  <2>. QED
    BY <1>2, <1>7 DEF Rings
<1>9. q \in Rings
  <2>1. q.slots \in [Slot -> Entries]
    <3>. HIDE DEF new, old
    <3>. QED
      BY <1>3, <1>6, <1>14
  <2>2. q.head \in Slot
    BY <1>3, <1>16, SlotsInTurn
  <2>4. q.tail \in Slot
    BY <1>3, <1>16
  <2>6. q.issues \in Nat
    BY <1>8, <1>15
  <2>8. q.completions \in Nat
    BY <1>17, <1>19
  <2>7. q.stalls \in Nat
    BY <1>18, <1>20
  <2>5. q.overrun \in BOOLEAN
    BY <1>13
  <2>. HIDE DEF new, old
  <2>. QED
    BY <1>13, <2>1, <2>2, <2>4, <2>5, <2>6, <2>7, <2>8 DEF Rings
<1>10. q.slots[r.head] = new /\ \A i \in Slot \ {r.head} : q.slots[i] = r.slots[i]
  <2>. HIDE DEF new
  <2>. QED
    BY <1>3, <1>14
<1>11. WritesKnown(q)
  <2>. SUFFICES ASSUME NEW i \in Slot, q.slots[i].active, NEW x \in q.slots[i].writes
                PROVE  x # 0 /\ \E e \in 1 .. 4 : x = q.slots[i].outputs[e]
    BY DEF WritesKnown
  <2>1. CASE i = r.head
    <3>1. PICK d \in DOMAIN dsts : x = dsts[d] /\ x # 0
      <4>1. x \in {dsts[d] : d \in DOMAIN dsts} \ {0}
        BY <1>10, <2>1
      <4>. QED
        BY <4>1
    <3>2. q.slots[i].outputs = outs /\ d \in 1 .. 4
      <4>1. q.slots[i] = new /\ new.outputs = outs
        BY <1>10, <2>1
      <4>. HIDE DEF new, outs
      <4>. QED
        BY <1>4, <4>1
    <3>3. q.slots[i].outputs[d] = x
      BY <3>1, <3>2
    <3>. QED
      BY <3>1, <3>2, <3>3
  <2>2. CASE i # r.head
    <3>. HIDE DEF new
    <3>1. q.slots[i] = r.slots[i]
      BY <1>10, <2>2
    <3>. QED
      BY <1>2, <3>1 DEF WritesKnown
  <2>. QED
    BY <2>1, <2>2
<1>12. InOrder(q)
  <2>. SUFFICES ASSUME ~ q.overrun PROVE InOrder(q)
    BY DEF InOrder
  <2>1. ~ r.overrun /\ ~ old.active
    BY <1>13
  <2>2. /\ r.completions <= r.issues
        /\ r.head = At(r.issues) /\ r.tail = At(r.completions)
        /\ \A i \in Slot : r.slots[i].active =>
              /\ r.completions <= r.slots[i].order /\ r.slots[i].order < r.issues
              /\ At(r.slots[i].order) = i
        /\ \A k \in Nat : r.completions <= k /\ k < r.issues =>
              r.slots[At(k)].active /\ r.slots[At(k)].order = k
    BY <1>2, <2>1 DEF InOrder
  <2>4. q.head = At(q.issues)
    <3>1. r.head = At(r.issues)
      BY <2>2
    <3>. QED
      BY <1>8, <1>15, <1>16, <3>1, SlotsInTurn
  <2>5. new.active /\ new.order = r.issues
    OBVIOUS
  <2>. HIDE DEF new, old
  <2>6. ASSUME NEW i \in Slot, q.slots[i].active
        PROVE  /\ q.completions <= q.slots[i].order /\ q.slots[i].order < q.issues
               /\ At(q.slots[i].order) = i
    <3>1. CASE i = r.head
      <4>1. q.slots[i].order = r.issues
        BY <1>10, <2>5, <3>1
      <4>2. r.completions <= r.issues /\ At(r.issues) = i
        BY <2>2, <3>1
      <4>. QED
        BY <1>8, <1>15, <1>17, <1>19, <4>1, <4>2
    <3>2. CASE i # r.head
      <4>1. q.slots[i] = r.slots[i] /\ r.slots[i].order \in Nat
        BY <1>3, <1>10, <3>2 DEF Entries
      <4>2. /\ r.completions <= r.slots[i].order /\ r.slots[i].order < r.issues
            /\ At(r.slots[i].order) = i
        BY <2>2, <2>6, <4>1
      <4>3. q.completions <= q.slots[i].order /\ At(q.slots[i].order) = i
        BY <1>17, <4>1, <4>2
      <4>4. q.slots[i].order < q.issues
        <5>. DEFINE a == r.slots[i].order
                    b == r.issues
        <5>1. a \in Nat /\ b \in Nat /\ a < b
          BY <1>15, <4>1, <4>2
        <5>2. q.slots[i].order = a /\ q.issues = b + 1
          BY <1>8, <4>1
        <5>. HIDE DEF a, b
        <5>3. a < b + 1
          BY <5>1
        <5>. QED
          BY <5>2, <5>3
      <4>. QED
        BY <4>3, <4>4
    <3>. QED
      BY <3>1, <3>2
  <2>7. ASSUME NEW k \in Nat, q.completions <= k, k < q.issues
        PROVE  q.slots[At(k)].active /\ q.slots[At(k)].order = k
    <3>1. At(k) \in Slot
      BY SlotsInTurn
    <3>2. CASE k = r.issues
      BY <1>10, <2>2, <2>5, <3>2
    <3>3. CASE k < r.issues
      <4>1. r.slots[At(k)].active /\ r.slots[At(k)].order = k
        BY <1>17, <2>2, <2>7, <3>3
      <4>2. At(k) # r.head
        BY <2>1, <4>1 DEF old
      <4>. QED
        BY <1>10, <3>1, <4>1, <4>2
    <3>4. k \in Nat /\ k < q.issues
      BY <2>7
    <3>5. k = r.issues \/ k < r.issues
      <4>. DEFINE b == r.issues
      <4>1. b \in Nat /\ k < b + 1
        BY <1>8, <1>15, <3>4
      <4>. HIDE DEF b, outs
      <4>2. k = b \/ k < b
        BY <4>1
      <4>. QED
        BY <4>2 DEF b
    <3>. QED
      BY <3>2, <3>3, <3>5
  <2>8. q.completions <= q.issues /\ q.tail = At(q.completions)
    <3>1. r.completions <= r.issues /\ r.tail = At(r.completions)
      BY <2>2
    <3>2. q.tail = At(q.completions)
      BY <1>16, <1>17, <3>1
    <3>. QED
      BY <1>8, <1>15, <1>17, <1>19, <3>1, <3>2
  <2>. QED
    BY <2>4, <2>6, <2>7, <2>8 DEF InOrder
<1>. QED
  BY <1>9, <1>11, <1>12 DEF RingInv, q

\* A completion frees the slot of the oldest tile.
LEMMA CompleteKeeps ==
    ASSUME NEW r, RingInv(r)
    PROVE  /\ RingInv(Completed(r))
           /\ r.slots[r.tail].active =>
                 /\ Completed(r).completions = r.completions + 1
                 /\ Completed(r).slots = [r.slots EXCEPT ![r.tail].active = FALSE]
           /\ ~ r.slots[r.tail].active => Completed(r) = r
           /\ Completed(r).issues = r.issues /\ Completed(r).stalls = r.stalls
           /\ Completed(r).overrun = r.overrun
           /\ ~ r.overrun /\ r.slots[r.tail].active =>
                 \A j \in Slot \ {r.tail} : r.slots[j].active => r.slots[r.tail].order < r.slots[j].order
<1>. DEFINE q == Completed(r)
<1>1. CASE ~ r.slots[r.tail].active
  BY <1>1 DEF Completed
<1>2. CASE r.slots[r.tail].active
  <2>1. r \in Rings /\ WritesKnown(r) /\ InOrder(r)
    BY DEF RingInv
  <2>2. r.slots \in [Slot -> Entries] /\ r.tail \in Slot /\ r.head \in Slot
    BY <2>1 DEF Rings
  <2>3. r.completions \in Nat
    BY <2>1 DEF Rings
  <2>4. q = [r EXCEPT !.slots[r.tail].active = FALSE, !.tail = At(r.tail + 1),
                      !.completions = r.completions + 1]
    BY <1>2, <2>1 DEF Completed, Rings, At
  <2>. HIDE DEF q
  <2>5. q.slots = [r.slots EXCEPT ![r.tail].active = FALSE]
    BY <2>1, <2>4 DEF Rings
  <2>6. q.tail = At(r.tail + 1)
    BY <2>1, <2>4 DEF Rings
  <2>7. q.completions = r.completions + 1
    BY <2>1, <2>4 DEF Rings
  <2>8. q.issues = r.issues /\ q.stalls = r.stalls /\ q.overrun = r.overrun /\ q.head = r.head
    BY <2>1, <2>4 DEF Rings
  <2>9. q = [slots |-> q.slots, head |-> q.head, tail |-> q.tail, stalls |-> q.stalls,
             issues |-> q.issues, completions |-> q.completions, overrun |-> q.overrun]
    BY <2>1, <2>4 DEF Rings
  <2>10. \A i \in Slot : r.slots[i] \in Entries
    BY <2>2
  <2>11. /\ q.slots[r.tail] = [r.slots[r.tail] EXCEPT !.active = FALSE]
         /\ \A i \in Slot \ {r.tail} : q.slots[i] = r.slots[i]
    BY <2>2, <2>5
  <2>12. /\ q.slots[r.tail].active = FALSE /\ q.slots[r.tail] \in Entries
         /\ \A i \in Slot \ {r.tail} : q.slots[i] = r.slots[i]
    BY <2>2, <2>10, <2>11 DEF Entries
  <2>13. q \in Rings
    <3>1. q.slots \in [Slot -> Entries]
      BY <2>2, <2>5, <2>10, <2>12
    <3>2. q.tail \in Slot
      BY <2>2, <2>6, SlotsInTurn
    <3>3. q.completions \in Nat
      BY <2>3, <2>7
    <3>4. q.issues \in Nat /\ q.stalls \in Nat /\ q.overrun \in BOOLEAN /\ q.head \in Slot
      BY <2>1, <2>8 DEF Rings
    <3>. QED
      BY <2>9, <3>1, <3>2, <3>3, <3>4 DEF Rings
  <2>14. WritesKnown(q)
    BY <2>1, <2>12 DEF WritesKnown
  <2>15. r.issues \in Nat /\ r.overrun \in BOOLEAN
    BY <2>1 DEF Rings
  <2>16. \A i \in Slot : r.slots[i].order \in Nat
    BY <2>10 DEF Entries
  <2>17. ASSUME ~ r.overrun
         PROVE  /\ InOrder(q)
                /\ \A j \in Slot \ {r.tail} : r.slots[j].active => r.slots[r.tail].order < r.slots[j].order
    <3>1. /\ r.head = At(r.issues) /\ r.tail = At(r.completions)
          /\ \A i \in Slot : r.slots[i].active =>
                /\ r.completions <= r.slots[i].order /\ r.slots[i].order < r.issues
                /\ At(r.slots[i].order) = i
          /\ \A k \in Nat : r.completions <= k /\ k < r.issues =>
                r.slots[At(k)].active /\ r.slots[At(k)].order = k
      BY <2>1, <2>17 DEF InOrder
    <3>2. r.completions < r.issues
      <4>. DEFINE o == r.slots[r.tail].order
      <4>1. o \in Nat /\ r.completions <= o /\ o < r.issues
        BY <1>2, <2>2, <2>16, <3>1
      <4>. HIDE DEF o
      <4>. QED
        BY <2>3, <2>15, <4>1
    <3>3. r.slots[r.tail].order = r.completions
      BY <2>3, <3>1, <3>2
    <3>4. ASSUME NEW j \in Slot \ {r.tail}, r.slots[j].active
          PROVE  /\ r.completions < r.slots[j].order /\ r.slots[j].order < r.issues
                 /\ At(r.slots[j].order) = j
      <4>1. /\ r.completions <= r.slots[j].order /\ r.slots[j].order < r.issues
            /\ At(r.slots[j].order) = j
        BY <3>1, <3>4
      <4>2. r.slots[j].order # r.completions
        BY <3>1, <3>4, <4>1
      <4>. QED
        BY <2>3, <2>16, <3>4, <4>1, <4>2
    <3>5. ASSUME NEW i \in Slot, q.slots[i].active
          PROVE  /\ q.completions <= q.slots[i].order /\ q.slots[i].order < q.issues
                 /\ At(q.slots[i].order) = i
      <4>1. i # r.tail /\ q.slots[i] = r.slots[i]
        BY <2>12, <3>5
      <4>2. /\ r.completions < r.slots[i].order /\ r.slots[i].order < r.issues
            /\ At(r.slots[i].order) = i
        BY <3>4, <3>5, <4>1
      <4>3. r.completions + 1 <= r.slots[i].order
        BY <2>3, <2>16, <4>2
      <4>. QED
        BY <2>7, <2>8, <4>1, <4>2, <4>3
    <3>6. ASSUME NEW k \in Nat, q.completions <= k, k < q.issues
          PROVE  q.slots[At(k)].active /\ q.slots[At(k)].order = k
      <4>1. r.completions + 1 <= k /\ k < r.issues
        BY <2>7, <2>8, <3>6
      <4>2. r.completions <= k /\ k # r.completions
        BY <2>3, <4>1
      <4>3. r.slots[At(k)].active /\ r.slots[At(k)].order = k
        BY <3>1, <4>1, <4>2
      <4>4. At(k) \in Slot /\ At(k) # r.tail
        BY <3>3, <4>2, <4>3, SlotsInTurn
      <4>. QED
        BY <2>12, <4>3, <4>4
    <3>7. q.completions <= q.issues
      <4>1. r.completions + 1 <= r.issues
        BY <2>3, <2>15, <3>2
      <4>. QED
        BY <2>7, <2>8, <4>1
    <3>8. q.tail = At(q.completions)
      BY <2>3, <2>6, <2>7, <3>1, SlotsInTurn
    <3>9. q.head = At(q.issues)
      BY <2>8, <3>1
    <3>10. InOrder(q)
      BY <3>5, <3>6, <3>7, <3>8, <3>9 DEF InOrder
    <3>11. \A j \in Slot \ {r.tail} : r.slots[j].active => r.slots[r.tail].order < r.slots[j].order
      BY <3>3, <3>4
    <3>. QED
      BY <3>10, <3>11
  <2>18. InOrder(q)
    BY <2>8, <2>15, <2>17 DEF InOrder
  <2>19. RingInv(q)
    BY <2>13, <2>14, <2>18 DEF RingInv
  <2>. QED
    BY <1>2, <2>5, <2>7, <2>8, <2>17, <2>19 DEF q
<1>. QED
  BY <1>1, <1>2

\* A tile of the accurate model finds the ring empty and leaves it empty.
Quiet(r) == ~ r.overrun /\ r.issues = r.completions /\ r.stalls = 0

LEMMA QuietIsEmpty ==
    ASSUME NEW r, RingInv(r), Quiet(r)
    PROVE  /\ \A i \in Slot : ~ r.slots[i].active
           /\ InFlight(r) = {} /\ r.head = r.tail
           /\ \A srcs, dsts : HazardStall(r, srcs, dsts) = 0
<1>1. r \in Rings /\ InOrder(r) /\ ~ r.overrun /\ r.issues = r.completions
  BY DEF RingInv, Quiet
<1>2. ASSUME NEW i \in Slot, r.slots[i].active PROVE FALSE
  <2>. DEFINE o == r.slots[i].order
  <2>1. o \in Nat
    BY <1>1 DEF Rings, Entries
  <2>2. r.completions <= o /\ o < r.issues
    BY <1>1, <1>2 DEF InOrder
  <2>3. r.issues \in Nat
    BY <1>1 DEF Rings
  <2>4. o < o
    <3>. HIDE DEF o
    <3>. QED
      BY <1>1, <2>1, <2>2, <2>3
  <2>. HIDE DEF o
  <2>. QED
    BY <2>1, <2>4
<1>3. InFlight(r) = {}
  BY <1>2 DEF InFlight, Slot
<1>4. r.head = r.tail
  BY <1>1 DEF InOrder
<1>5. \A srcs, dsts : HazardStall(r, srcs, dsts) = 0
  BY <1>3 DEF HazardStall
<1>. QED
  BY <1>2, <1>3, <1>4, <1>5

LEMMA TileThrough ==
    ASSUME NEW r, RingInv(r), Quiet(r), NEW srcs, NEW dsts \in Registers, NEW now \in Nat
    PROVE  LET q == Completed(Issued(r, srcs, dsts, now)) IN RingInv(q) /\ Quiet(q)
<1>. DEFINE m == Issued(r, srcs, dsts, now)
            q == Completed(m)
<1>1. r \in Rings
  BY DEF RingInv
<1>2. /\ r.head \in Slot /\ ~ r.slots[r.head].active /\ r.head = r.tail
      /\ HazardStall(r, srcs, dsts) = 0
  BY <1>1, QuietIsEmpty DEF Rings
<1>3. RingInv(m)
  BY IssueKeeps
<1>4. m.slots[r.head].active /\ m.tail = r.tail
  BY <1>1, <1>2 DEF Issued, Rings
<1>5. m.issues = r.issues + 1
  BY <1>1 DEF Issued, Rings
<1>6. m.completions = r.completions
  BY <1>1 DEF Issued, Rings
<1>7. m.stalls = 0
  <2>1. m.stalls = r.stalls + HazardStall(r, srcs, dsts)
    BY <1>1 DEF Issued, Rings
  <2>. QED
    BY <1>2, <2>1 DEF Quiet
<1>8. ~ m.overrun
  <2>1. m.overrun = (r.overrun \/ r.slots[r.head].active)
    BY <1>1 DEF Issued, Rings
  <2>. QED
    BY <1>2, <2>1 DEF Quiet
<1>. HIDE DEF m
<1>9. RingInv(q) /\ q.completions = m.completions + 1 /\ q.issues = m.issues
  BY <1>2, <1>3, <1>4, CompleteKeeps
<1>10. q.stalls = 0 /\ ~ q.overrun
  BY <1>3, <1>7, <1>8, CompleteKeeps
<1>. HIDE DEF q
<1>11. q.issues = q.completions
  BY <1>5, <1>6, <1>9 DEF Quiet
<1>. QED
  BY <1>9, <1>10, <1>11 DEF Quiet, q, m

LEMMA EmptyRingKept == RingInv(EmptyRing) /\ Quiet(EmptyRing) /\ InFlight(EmptyRing) = {}
<1>1. RingSlots \in Nat \ {0}
  BY CycleAssumption
<1>2. 0 \in Slot /\ At(0) = 0
  BY <1>1, DivisionUnique DEF Slot, At
<1>3. NoEntry \in Entries
  <2>1. <<0, 0, 0, 0>> \in [1 .. 4 -> Nat]
    OBVIOUS
  <2>. QED
    BY <2>1 DEF NoEntry, Entries
<1>4. EmptyRing \in Rings
  BY <1>2, <1>3 DEF EmptyRing, Rings, Slot
<1>5. \A i \in Slot : ~ EmptyRing.slots[i].active
  BY DEF EmptyRing, NoEntry, Slot
<1>6. /\ EmptyRing.issues = 0 /\ EmptyRing.completions = 0 /\ EmptyRing.stalls = 0
      /\ EmptyRing.head = 0 /\ EmptyRing.tail = 0 /\ EmptyRing.overrun = FALSE
  BY DEF EmptyRing
<1>7. InOrder(EmptyRing)
  BY <1>2, <1>5, <1>6 DEF InOrder
<1>8. InFlight(EmptyRing) = {}
  BY <1>5 DEF InFlight, Slot
<1>. QED
  BY <1>4, <1>5, <1>6, <1>7, <1>8 DEF RingInv, WritesKnown, Quiet

-----------------------------------------------------------------------------
(* Banks, and the runs of accesses that a tile or a transfer makes.          *)

Banks == [0 .. BankCount - 1 -> [words : 0 .. BankWords, refill : Nat]]
Runs == [banks : Banks, now : Nat, stall : Nat]

LEMMA ClampTyped == \A n \in Int : AtLeast0(n) \in Nat /\ AtLeast0(n) >= n /\ (n >= 0 => AtLeast0(n) = n)
BY DEF AtLeast0

LEMMA RoundUpTyped ==
    ASSUME NEW n \in Nat, NEW k \in Nat \ {0}
    PROVE  RoundUp(n, k) \in Nat
<1>1. n + k - 1 \in Nat
  OBVIOUS
<1>. QED
  BY <1>1, Division DEF RoundUp

LEMMA RefilledTyped ==
    ASSUME NEW bank \in [words : 0 .. BankWords, refill : Nat], NEW now \in Nat
    PROVE  /\ FullBank(now) \in [words : 0 .. BankWords, refill : Nat]
           /\ Refilled(bank, now) \in [words : 0 .. BankWords, refill : Nat]
<1>1. BankWords \in 0 .. BankWords /\ now + BankWindow \in Nat
  <2>1. BankWords \in Nat /\ BankWindow \in Nat
    BY CycleAssumption
  <2>. QED
    BY <2>1
<1>2. FullBank(now) \in [words : 0 .. BankWords, refill : Nat]
  BY <1>1 DEF FullBank
<1>. QED
  BY <1>2 DEF Refilled

\* An access stalls the clock by what it charges, and no bank goes into debt.
LEMMA ServedKeeps ==
    ASSUME NEW s \in Runs, NEW address \in Nat, NEW words \in Nat
    PROVE  /\ Served(s, address, words) \in Runs
           /\ \E d \in Nat : /\ Served(s, address, words).now = s.now + d
                             /\ Served(s, address, words).stall = s.stall + d
<1>. DEFINE i == BankOf(address)
            b == Refilled(s.banks[i], s.now)
            d == AtLeast0(words - b.words) * BankPenalty
            full == [b EXCEPT !.words = AtLeast0(@ - words)]
<1>1. s.banks \in Banks /\ s.now \in Nat /\ s.stall \in Nat
  BY DEF Runs
<1>2. i \in 0 .. BankCount - 1
  <2>1. BankCount \in Nat \ {0}
    BY CycleAssumption
  <2>. QED
    BY <2>1, Division DEF BankOf
<1>. HIDE DEF i
<1>3. b \in [words : 0 .. BankWords, refill : Nat]
  <2>1. s.banks[i] \in [words : 0 .. BankWords, refill : Nat]
    BY <1>1, <1>2 DEF Banks
  <2>. QED
    BY <1>1, <2>1, RefilledTyped
<1>4. Served(s, address, words) = [banks |-> [s.banks EXCEPT ![i] = full], now |-> s.now + d, stall |-> s.stall + d]
  BY SMTT(60) DEF Served, BankServed, i
<1>. HIDE DEF b
<1>5. b.words \in 0 .. BankWords /\ BankWords \in Nat /\ BankPenalty \in Nat
  BY <1>3, CycleAssumption
<1>6. d \in Nat
  <2>1. AtLeast0(words - b.words) \in Nat
    BY <1>5, ClampTyped
  <2>. QED
    BY <1>5, <2>1
<1>7. full \in [words : 0 .. BankWords, refill : Nat]
  <2>1. AtLeast0(b.words - words) \in 0 .. BankWords
    BY <1>5 DEF AtLeast0
  <2>. QED
    BY <1>3, <2>1
<1>. HIDE DEF d, full
<1>8. [s.banks EXCEPT ![i] = full] \in Banks
  BY <1>1, <1>2, <1>7 DEF Banks
<1>9. Served(s, address, words) \in Runs
  BY <1>1, <1>4, <1>6, <1>8 DEF Runs
<1>. QED
  BY <1>4, <1>6, <1>9

LEMMA TileTyped ==
    ASSUME NEW t \in CmTiles
    PROVE  /\ t.m \in Nat /\ t.n \in Nat /\ t.k \in Nat /\ t.w \in Nat /\ t.a \in Nat /\ t.o \in Nat
           /\ \A i \in 1 .. 3 : TileWords(t)[i] \in Nat
           /\ <<t.o>> \in Registers
<1>1. t \in [m : Nat, n : Nat, k : Nat, w : Nat, a : Nat, o : Nat]
  BY CycleAssumption
<1>2. t.m \in Nat /\ t.n \in Nat /\ t.k \in Nat /\ t.w \in Nat /\ t.a \in Nat /\ t.o \in Nat
  BY <1>1
<1>3. BankBytes \in Nat \ {0}
  BY CycleAssumption
<1>4. 2 * t.m * t.k \in Nat /\ 2 * t.k * t.n \in Nat /\ 4 * t.m * t.n \in Nat
  BY <1>2
<1>5. /\ RoundUp(2 * t.m * t.k, BankBytes) \in Nat /\ RoundUp(2 * t.k * t.n, BankBytes) \in Nat
      /\ RoundUp(4 * t.m * t.n, BankBytes) \in Nat
  BY <1>3, <1>4, RoundUpTyped
<1>6. \A i \in 1 .. 3 : TileWords(t)[i] \in Nat
  BY <1>5 DEF TileWords
<1>7. <<t.o>> \in [1 .. 1 -> Nat]
  BY <1>2
<1>8. <<t.o>> \in Registers
  BY <1>7 DEF Registers
<1>. QED
  BY <1>2, <1>6, <1>8

\* Every cycle of a tile is its decode, its multiplications or a stall.
LEMMA TileRunKeeps ==
    ASSUME NEW t \in CmTiles, clock \in Nat, sramBanks \in Banks, RingInv(ring), Quiet(ring)
    PROVE  /\ TileRun(t) \in Runs
           /\ TileRun(t).now = clock + 1 + t.k + TileRun(t).stall
<1>. DEFINE hazard == HazardStall(ring, <<t.w, t.a>>, <<t.o>>)
            decoded == [banks |-> sramBanks, now |-> clock + 1 + hazard, stall |-> hazard]
            one == Served(decoded, t.w, TileWords(t)[1])
            two == Served(one, t.a, TileWords(t)[2])
            computed == [two EXCEPT !.now = @ + t.k]
            end == Served(computed, t.o, TileWords(t)[3])
<1>1. TileRun(t) = end
  BY DEF TileRun
<1>2. hazard = 0
  BY QuietIsEmpty
<1>3. /\ t.k \in Nat /\ t.w \in Nat /\ t.a \in Nat /\ t.o \in Nat
      /\ TileWords(t)[1] \in Nat /\ TileWords(t)[2] \in Nat /\ TileWords(t)[3] \in Nat
  <2>1. \A i \in 1 .. 3 : TileWords(t)[i] \in Nat
    BY TileTyped
  <2>2. TileWords(t)[1] \in Nat /\ TileWords(t)[2] \in Nat /\ TileWords(t)[3] \in Nat
    BY <2>1
  <2>. QED
    BY <2>2, TileTyped
<1>. HIDE DEF hazard
<1>4. decoded \in Runs /\ decoded.now = clock + 1 /\ decoded.stall = 0
  BY <1>2 DEF Runs
<1>. HIDE DEF decoded
<1>5. PICK d \in Nat : one \in Runs /\ one.now = decoded.now + d /\ one.stall = decoded.stall + d
  <2>. DEFINE words == TileWords(t)[1]
  <2>1. decoded \in Runs /\ t.w \in Nat /\ words \in Nat
    BY <1>3, <1>4
  <2>. HIDE DEF words
  <2>2. /\ Served(decoded, t.w, words) \in Runs
        /\ \E d \in Nat : /\ Served(decoded, t.w, words).now = decoded.now + d
                          /\ Served(decoded, t.w, words).stall = decoded.stall + d
    BY <2>1, ServedKeeps
  <2>3. one = Served(decoded, t.w, words)
    BY DEF words
  <2>. HIDE DEF one
  <2>. QED
    BY <2>2, <2>3
<1>. HIDE DEF one
<1>6. PICK e \in Nat : two \in Runs /\ two.now = one.now + e /\ two.stall = one.stall + e
  <2>. DEFINE words == TileWords(t)[2]
  <2>1. one \in Runs /\ t.a \in Nat /\ words \in Nat
    BY <1>3, <1>5
  <2>. HIDE DEF words
  <2>2. /\ Served(one, t.a, words) \in Runs
        /\ \E e \in Nat : /\ Served(one, t.a, words).now = one.now + e
                          /\ Served(one, t.a, words).stall = one.stall + e
    BY <2>1, ServedKeeps
  <2>3. two = Served(one, t.a, words)
    BY DEF words
  <2>. HIDE DEF two
  <2>. QED
    BY <2>2, <2>3
<1>. HIDE DEF two
<1>7. computed \in Runs /\ computed.now = two.now + t.k /\ computed.stall = two.stall
  <2>1. two.banks \in Banks /\ two.now + t.k \in Nat /\ two.stall \in Nat
    BY <1>3, <1>6 DEF Runs
  <2>2. two = [banks |-> two.banks, now |-> two.now, stall |-> two.stall]
    BY <1>6 DEF Runs
  <2>3. computed = [banks |-> two.banks, now |-> two.now + t.k, stall |-> two.stall]
    BY <2>2
  <2>. QED
    BY <2>1, <2>3 DEF Runs
<1>. HIDE DEF computed
<1>8. PICK f \in Nat : end \in Runs /\ end.now = computed.now + f /\ end.stall = computed.stall + f
  <2>. DEFINE words == TileWords(t)[3]
  <2>1. computed \in Runs /\ t.o \in Nat /\ words \in Nat
    BY <1>3, <1>7
  <2>. HIDE DEF words
  <2>2. /\ Served(computed, t.o, words) \in Runs
        /\ \E f \in Nat : /\ Served(computed, t.o, words).now = computed.now + f
                          /\ Served(computed, t.o, words).stall = computed.stall + f
    BY <2>1, ServedKeeps
  <2>3. end = Served(computed, t.o, words)
    BY DEF words
  <2>. HIDE DEF end
  <2>. QED
    BY <2>2, <2>3
<1>. HIDE DEF end
<1>9. one.now = clock + 1 + d /\ one.stall = d
  BY <1>4, <1>5
<1>10. two.now = clock + 1 + d + e /\ two.stall = d + e
  BY <1>6, <1>9
<1>11. end.now = clock + 1 + d + e + t.k + f /\ end.stall = d + e + f
  BY <1>7, <1>8, <1>10
<1>12. end.now = clock + 1 + t.k + end.stall
  BY <1>3, <1>11
<1>. QED
  BY <1>1, <1>8, <1>12

LEMMA LatencyTyped ==
    ASSUME NEW row, NEW addr, NEW isWrite \in BOOLEAN, NEW bytes \in Nat
    PROVE  DramLatency(row, addr, isWrite, bytes) \in Nat
<1>1. /\ Timing.rcd \in Nat /\ Timing.rp \in Nat /\ Timing.cl \in Nat /\ Timing.cwl \in Nat
      /\ Timing.ccd \in Nat /\ Timing.burst \in Nat \ {0}
  BY CycleAssumption
<1>2. RoundUp(bytes, Timing.burst) \in Nat
  BY <1>1, RoundUpTyped
<1>3. RoundUp(bytes, Timing.burst) * Timing.ccd \in Nat
  BY <1>1, <1>2
<1>. QED
  BY <1>1, <1>3 DEF DramLatency

-----------------------------------------------------------------------------
(* The bus: the cycles of all channels together fit in the clock. *)

LEMMA ChannelsFinite == IsFiniteSet(Channels8)
<1>1. PerfChannels \in Nat
  BY PerfAssumption
<1>2. PerfChannels - 1 \in Int
  BY <1>1
<1>. QED
  BY <1>2, FS_Interval DEF Channels8

LEMMA BusNeverContended ==
    ASSUME NEW used \in [Channels8 -> Nat], NEW now \in Nat, BarTotal(used) <= now
    PROVE  Arbitration(used, now) = 0
<1>1. ASSUME NEW c \in Channels8 PROVE ~ (used[c] > now)
  <2>1. BarTotal(used) \in Nat /\ BarTotal(used) >= used[c] /\ used[c] \in Nat
    BY ChannelsFinite, TotalChanged
  <2>. QED
    BY <2>1
<1>2. {c \in DOMAIN used : used[c] > now} = {}
  BY <1>1
<1>3. Cardinality({c \in DOMAIN used : used[c] > now}) = 0
  BY <1>2, FS_EmptySet
<1>. QED
  BY <1>3 DEF Arbitration

LEMMA ChargeFits ==
    ASSUME NEW used \in [Channels8 -> Nat], NEW from \in Nat, NEW to \in Nat, from <= to,
           BarTotal(used) <= from, NEW ch \in Channels8
    PROVE  /\ BusCharge(used, ch, from, to) \in [Channels8 -> Nat]
           /\ BarTotal(BusCharge(used, ch, from, to)) <= to
<1>. DEFINE n == used[ch] + to - from
<1>1. used[ch] \in Nat
  OBVIOUS
<1>2. n \in Nat
  BY <1>1
<1>3. BusCharge(used, ch, from, to) = [used EXCEPT ![ch] = n]
  BY DEF BusCharge
<1>4. n - used[ch] = to - from
  BY <1>1
<1>. HIDE DEF n
<1>5. BarTotal([used EXCEPT ![ch] = n]) = BarTotal(used) - used[ch] + n /\ BarTotal(used) \in Nat
  BY <1>2, ChannelsFinite, TotalChanged
<1>6. BarTotal([used EXCEPT ![ch] = n]) <= to
  BY <1>1, <1>2, <1>4, <1>5
<1>. QED
  BY <1>2, <1>3, <1>6

LEMMA BusIdle ==
    /\ [ch \in Channels8 |-> 0] \in [Channels8 -> Nat]
    /\ BarTotal([ch \in Channels8 |-> 0]) = 0
BY TotalNone

-----------------------------------------------------------------------------
(* The invariant.  The counters balance and only grow after a snapshot; the  *)
(* model is typed, with a bus within its clock; and the accurate model has   *)
(* counted exactly its clock, with no tile left behind.                      *)

CountersInv ==
    /\ perf \in Books /\ Balanced(perf, 0)
    /\ snapshot # NoSnapshot => snapshot \in Books /\ (current_since => Grown(snapshot, perf))

ClockInv ==
    /\ clock \in Nat /\ counted \in Nat
    /\ RingInv(ring)
    /\ sramBanks \in Banks
    /\ busCycles \in [Channels8 -> Nat] /\ BarTotal(busCycles) <= clock

AccurateInv ==
    cmMode = "accurate" =>
        /\ perf.enabled
        /\ perf.n["total_cycles"] = counted + clock
        /\ perf.n["dma_stall_cycles"] = 0
        /\ Quiet(ring)

AccountsInv == CountersInv /\ ClockInv /\ AccurateInv

LEMMA FreshBooks ==
    ASSUME NEW p, p.n = [c \in Counters |-> IF c \in EnergyCounters THEN perf.n[c] ELSE 0],
           p.bytes = [ch \in Channels8 |-> 0]
    PROVE  Balanced(p, 0) /\ p.n["dma_stall_cycles"] = 0 /\ p.n["total_cycles"] = 0
<1>1. \A c \in Accounts : c \notin EnergyCounters
  BY DEF Accounts, EnergyCounters
<1>2. \A c \in Accounts : p.n[c] = 0
  BY <1>1, NamedCounters
<1>3. BarTotal(p.bytes) = 0
  BY BusIdle
<1>. QED
  BY <1>2, <1>3 DEF Balanced, Accounts

LEMMA ZeroBooks ==
    /\ PerfZero \in Books /\ Balanced(PerfZero, 0)
    /\ PerfZero.n["dma_stall_cycles"] = 0 /\ PerfZero.n["total_cycles"] = 0 /\ PerfZero.enabled
<1>1. PerfZero \in Books
  BY DEF PerfZero, Books, Counters
<1>2. \A c \in Accounts : PerfZero.n[c] = 0
  BY NamedCounters DEF PerfZero, Counters
<1>3. BarTotal(PerfZero.bytes) = 0
  BY BusIdle DEF PerfZero
<1>4. Balanced(PerfZero, 0)
  BY <1>2, <1>3 DEF Balanced, Accounts
<1>. QED
  BY <1>1, <1>2, <1>4 DEF Accounts, PerfZero

\* A recorded call keeps the accounts.
LEMMA CallKeepsCounters ==
    ASSUME CountersInv, NEW q, Recorded(perf, q), perf' = q, UNCHANGED <<snapshot, current_since>>
    PROVE  CountersInv'
<1>1. q \in Books /\ Grown(perf, q) /\ Balanced(q, 0)
  BY DEF Recorded, Onward
<1>2. perf \in Books
  BY DEF CountersInv
<1>3. ASSUME snapshot # NoSnapshot, current_since PROVE Grown(snapshot, q)
  <2>1. snapshot \in Books /\ Grown(snapshot, perf)
    BY <1>3 DEF CountersInv
  <2>. QED
    BY <1>1, <1>2, <2>1, GrownTransitive
<1>. QED
  BY <1>1, <1>3 DEF CountersInv

LEMMA SameBooks ==
    ASSUME CountersInv, UNCHANGED <<perf, snapshot, current_since>>
    PROVE  CountersInv'
BY DEF CountersInv

LEMMA GrownReflexive == \A p \in Books : Grown(p, p)
BY DEF Grown, Books

LEMMA PerfNextKeeps ==
    ASSUME CountersInv, PerfNext
    PROVE  CountersInv'
<1>1. perf \in Books /\ Balanced(perf, 0)
  BY DEF CountersInv
<1>2. CASE RecordCall
  <2>1. PICK r \in PerfCalls : perf' = Record(perf, r)
    BY <1>2 DEF RecordCall
  <2>2. UNCHANGED <<snapshot, current_since>>
    BY <1>2 DEF RecordCall
  <2>. QED
    BY <1>1, <2>1, <2>2, CallRecorded, CallKeepsCounters
<1>3. CASE PerfSnapshot
  BY <1>1, <1>3, GrownReflexive DEF PerfSnapshot, CountersInv
<1>4. CASE PerfReset
  <2>1. perf' = [PerfZero EXCEPT
                   !.n = [c \in Counters |-> IF c \in EnergyCounters THEN perf.n[c] ELSE 0],
                   !.power = perf.power]
    BY <1>4 DEF PerfReset, PerfZero, Counters
  <2>2. \A c \in EnergyCounters : c \in Counters /\ perf.n[c] \in Nat
    BY <1>1, NamedCounters DEF Books
  <2>3. perf' \in Books
    BY <1>1, <2>1, <2>2, ZeroBooks DEF Books
  <2>4. /\ perf'.n = [c \in Counters |-> IF c \in EnergyCounters THEN perf.n[c] ELSE 0]
        /\ perf'.bytes = [ch \in Channels8 |-> 0]
    BY <2>1, ZeroBooks DEF Books, PerfZero
  <2>5. Balanced(perf', 0)
    BY <2>4, FreshBooks
  <2>. QED
    BY <1>4, <2>3, <2>5 DEF PerfReset, CountersInv
<1>5. CASE PerfSwitch
  <2>1. perf' \in Books /\ perf'.n = perf.n /\ perf'.bytes = perf.bytes /\ perf'.stalls = perf.stalls
    BY <1>1, <1>5 DEF PerfSwitch, Books
  <2>2. Balanced(perf', 0)
    BY <1>1, <2>1 DEF Balanced
  <2>3. \A s : Grown(s, perf) => Grown(s, perf')
    BY <2>1 DEF Grown
  <2>4. UNCHANGED <<snapshot, current_since>>
    BY <1>5 DEF PerfSwitch
  <2>. QED
    BY <2>1, <2>2, <2>3, <2>4 DEF CountersInv
<1>. QED
  BY <1>2, <1>3, <1>4, <1>5 DEF PerfNext

LEMMA FreshBanks ==
    ASSUME NEW D, D = 0 .. BankCount - 1
    PROVE  [b \in D |-> FullBank(0)] \in Banks
<1>1. FullBank(0) \in [words : 0 .. BankWords, refill : Nat]
  <2>1. BankWords \in Nat /\ BankWindow \in Nat
    BY CycleAssumption
  <2>2. BankWords \in 0 .. BankWords /\ 0 + BankWindow \in Nat
    BY <2>1
  <2>. QED
    BY <2>2 DEF FullBank
<1>. QED
  BY <1>1 DEF Banks

-----------------------------------------------------------------------------
(* The steps of the model.                                                   *)

LEMMA AccountsInit == CycleInit => AccountsInv
<1>. SUFFICES ASSUME CycleInit PROVE AccountsInv
  OBVIOUS
<1>1. perf = PerfZero /\ snapshot = NoSnapshot
  BY DEF CycleInit, PerfInit
<1>2. CountersInv
  BY <1>1, ZeroBooks DEF CountersInv
<1>3. /\ clock = 0 /\ ring = EmptyRing /\ counted = 0
      /\ sramBanks = [b \in 0 .. BankCount - 1 |-> FullBank(0)]
      /\ busCycles = [ch \in Channels8 |-> 0]
  BY DEF CycleInit, CmInit, FreshModel
<1>4. ClockInv
  <2>1. sramBanks \in Banks
    BY <1>3, FreshBanks
  <2>2. busCycles \in [Channels8 -> Nat] /\ BarTotal(busCycles) = 0
    BY <1>3, BusIdle
  <2>. QED
    BY <1>3, <2>1, <2>2, EmptyRingKept DEF ClockInv
<1>5. AccurateInv
  BY <1>1, <1>3, ZeroBooks, EmptyRingKept DEF AccurateInv
<1>. QED
  BY <1>2, <1>4, <1>5 DEF AccountsInv

\* The registers of an issue.
LEMMA IssuesTyped ==
    ASSUME NEW io \in Issues
    PROVE  io[1] \in Registers /\ io[2] \in Registers
<1>1. \A side \in 1 .. 2 : io[side] \in Registers
  BY CycleAssumption DEF Registers
<1>2. 1 \in 1 .. 2 /\ 2 \in 1 .. 2
  OBVIOUS
<1>. QED
  BY <1>1, <1>2

LEMMA IssueStep ==
    ASSUME AccountsInv, NEW io \in Issues, PipelineIssue(io[1], io[2])
    PROVE  AccountsInv'
<1>1. CountersInv /\ ClockInv
  BY DEF AccountsInv
<1>2. /\ ring' = Issued(ring, io[1], io[2], clock) /\ clock' = clock + HazardStall(ring, io[1], io[2])
      /\ UNCHANGED <<sramBanks, busCycles, counted, cmMode>> /\ cmMode = "tracker"
      /\ UNCHANGED <<perf, snapshot, current_since>>
  BY DEF PipelineIssue, perfVars
<1>3. RingInv(ring')
  BY <1>1, <1>2, IssueKeeps, IssuesTyped DEF ClockInv
<1>4. clock' \in Nat /\ clock <= clock'
  <2>1. HazardStall(ring, io[1], io[2]) \in Nat /\ clock \in Nat
    BY <1>1, StallTyped DEF ClockInv
  <2>. QED
    BY <1>2, <2>1
<1>5. BarTotal(busCycles) \in Nat
  BY <1>1, ChannelsFinite, BarsFinite DEF ClockInv
<1>6. BarTotal(busCycles) <= clock'
  BY <1>1, <1>4, <1>5 DEF ClockInv
<1>7. ClockInv'
  BY <1>1, <1>2, <1>3, <1>4, <1>6 DEF ClockInv
<1>8. CountersInv'
  BY <1>1, <1>2, SameBooks
<1>. QED
  BY <1>2, <1>7, <1>8 DEF AccountsInv, AccurateInv

LEMMA CompleteStep ==
    ASSUME AccountsInv, PipelineComplete
    PROVE  AccountsInv'
<1>1. CountersInv /\ ClockInv
  BY DEF AccountsInv
<1>2. /\ ring' = Completed(ring) /\ cmMode = "tracker"
      /\ UNCHANGED <<clock, sramBanks, busCycles, counted, cmMode>>
      /\ UNCHANGED <<perf, snapshot, current_since>>
  BY DEF PipelineComplete, perfVars
<1>3. RingInv(ring')
  BY <1>1, <1>2, CompleteKeeps DEF ClockInv
<1>4. ClockInv'
  BY <1>1, <1>2, <1>3 DEF ClockInv
<1>5. CountersInv'
  BY <1>1, <1>2, SameBooks
<1>. QED
  BY <1>2, <1>4, <1>5 DEF AccountsInv, AccurateInv

\* The models that are formulas move the clock alone.
LEMMA FormulaStep ==
    ASSUME AccountsInv, NEW d \in Nat, clock' = clock + d, cmMode # "accurate",
           UNCHANGED <<perfVars, cmMode, ring, sramBanks, busCycles, counted>>
    PROVE  AccountsInv'
<1>1. CountersInv /\ ClockInv
  BY DEF AccountsInv
<1>2. clock \in Nat /\ busCycles \in [Channels8 -> Nat] /\ BarTotal(busCycles) <= clock
  BY <1>1 DEF ClockInv
<1>3. BarTotal(busCycles) \in Nat
  BY <1>2, ChannelsFinite, BarsFinite
<1>4. clock' \in Nat /\ BarTotal(busCycles) <= clock'
  BY <1>2, <1>3
<1>5. ClockInv'
  BY <1>1, <1>4 DEF ClockInv
<1>6. CountersInv'
  BY <1>1, SameBooks DEF perfVars
<1>. QED
  BY <1>5, <1>6 DEF AccountsInv, AccurateInv

LEMMA TileFormulaStep ==
    ASSUME AccountsInv, NEW t \in CmTiles, ExecuteTile(t)
    PROVE  AccountsInv'
<1>. DEFINE d == IF cmMode = "estimated" THEN TileEstimate(t) ELSE 0
<1>1. d \in Nat
  <2>1. PeDepth \in Nat
    BY CycleAssumption
  <2>2. t.m \in Nat /\ t.n \in Nat /\ t.k \in Nat
    BY TileTyped
  <2>3. PeDepth * t.n \in Nat /\ PeDepth * t.m \in Nat
    BY <2>1, <2>2
  <2>4. TileEstimate(t) \in Nat
    BY <2>2, <2>3 DEF TileEstimate
  <2>. QED
    BY <2>4
<1>2. /\ clock' = clock + d /\ cmMode # "accurate"
      /\ UNCHANGED <<perfVars, cmMode, ring, sramBanks, busCycles, counted>>
  BY DEF ExecuteTile
<1>. HIDE DEF d
<1>. QED
  BY <1>1, <1>2, FormulaStep

LEMMA TransferTyped ==
    ASSUME NEW x \in CmTransfers
    PROVE  /\ x.ch \in Channels8 /\ x.bytes \in Nat /\ x.isRead \in BOOLEAN /\ x.addr \in Nat
           /\ x.bank \in Nat
           /\ RoundUp(x.bytes, BusBytes) \in Nat /\ RoundUp(x.bytes, BankBytes) \in Nat
<1>1. x \in [ch : Channels8, bytes : Nat, isRead : BOOLEAN, addr : Nat, bank : Nat]
  BY CycleAssumption
<1>2. x.bytes \in Nat
  BY <1>1
<1>3. BusBytes \in Nat \ {0} /\ BankBytes \in Nat \ {0}
  BY CycleAssumption
<1>. QED
  BY <1>1, <1>2, <1>3, RoundUpTyped

LEMMA TransferFormulaStep ==
    ASSUME AccountsInv, NEW x \in CmTransfers, DmaTransfer(x)
    PROVE  AccountsInv'
<1>. DEFINE d == IF cmMode = "estimated" THEN RoundUp(x.bytes, BusBytes) + DramReadLatency ELSE 0
<1>1. d \in Nat
  <2>1. DramReadLatency \in Nat
    BY CycleAssumption
  <2>2. RoundUp(x.bytes, BusBytes) \in Nat
    BY TransferTyped
  <2>. QED
    BY <2>1, <2>2
<1>2. /\ clock' = clock + d /\ cmMode # "accurate"
      /\ UNCHANGED <<perfVars, cmMode, ring, sramBanks, busCycles, counted>>
  BY DEF DmaTransfer
<1>. HIDE DEF d
<1>. QED
  BY <1>1, <1>2, FormulaStep

\* A tile is counted for as long as the clock ran.
LEMMA TileStep ==
    ASSUME AccountsInv, NEW t \in CmTiles, ExecuteTileAccurate(t)
    PROVE  AccountsInv'
<1>. DEFINE run == TileRun(t)
            elapsed == run.now - clock
            q == TileRecord(perf, t, elapsed, run.stall)
<1>1. CountersInv /\ ClockInv /\ AccurateInv /\ cmMode = "accurate"
  BY DEF AccountsInv, ExecuteTileAccurate
<1>2. /\ clock' = run.now /\ perf' = q
      /\ ring' = Completed(Issued(ring, <<t.w, t.a>>, <<t.o>>, clock + 1))
      /\ sramBanks' = [b \in DOMAIN sramBanks |-> Refilled(run.banks[b], run.now)]
      /\ UNCHANGED <<snapshot, current_since, cmMode, busCycles, counted>>
  BY DEF ExecuteTileAccurate, PerfStep
<1>3. /\ perf.enabled /\ Quiet(ring) /\ perf.n["dma_stall_cycles"] = 0
      /\ perf.n["total_cycles"] = counted + clock
  BY <1>1 DEF AccurateInv
<1>4. /\ clock \in Nat /\ counted \in Nat /\ sramBanks \in Banks /\ RingInv(ring)
      /\ busCycles \in [Channels8 -> Nat] /\ BarTotal(busCycles) <= clock
  BY <1>1 DEF ClockInv
<1>5. run \in Runs /\ run.now = clock + 1 + t.k + run.stall
  BY <1>3, <1>4, TileRunKeeps
<1>6. t.m \in Nat /\ t.n \in Nat /\ t.k \in Nat /\ <<t.o>> \in Registers
  BY TileTyped
<1>. HIDE DEF run
<1>7. run.now \in Nat /\ run.stall \in Nat /\ run.banks \in Banks
  BY <1>5 DEF Runs
<1>8. Onward(perf, q, elapsed, 0) /\ Balanced(q, 0)
  <2>. DEFINE products == t.m * t.n * t.k
              edge == IF t.m < PeRows THEN 1 ELSE 0
              active == elapsed - run.stall
  <2>1. products \in Nat
    BY <1>6
  <2>2. edge \in Nat /\ edge <= 1
    OBVIOUS
  <2>3. elapsed = 1 + t.k + run.stall
    BY <1>4, <1>5, <1>6, <1>7
  <2>. HIDE DEF elapsed
  <2>4. active = 1 + t.k
    BY <1>6, <1>7, <2>3
  <2>5. active \in Nat /\ active + run.stall = elapsed
    BY <1>6, <1>7, <2>3, <2>4
  <2>6. q = RecordMma(perf, products, 1, edge, active, run.stall, 0, 0)
    BY DEF TileRecord
  <2>. HIDE DEF products, edge, active, q
  <2>7. perf \in Books /\ Balanced(perf, 0)
    BY <1>1 DEF CountersInv
  <2>8. Onward(perf, q, active + run.stall, 0) /\ Balanced(q, 0)
    <3>. DEFINE stall == run.stall
    <3>1. stall \in Nat /\ active \in Nat /\ 0 \in Nat /\ 1 \in Nat
      BY <1>7, <2>5
    <3>2. perf.enabled /\ q = RecordMma(perf, products, 1, edge, active, stall, 0, 0)
      BY <1>3, <2>6
    <3>. HIDE DEF stall
    <3>3. LET r == RecordMma(perf, products, 1, edge, active, stall, 0, 0)
          IN  Onward(perf, r, active + stall, 0) /\ Balanced(r, 0)
      BY <2>1, <2>2, <2>7, <3>1, <3>2, MmaRecorded
    <3>4. Onward(perf, q, active + stall, 0) /\ Balanced(q, 0)
      BY <3>2, <3>3
    <3>. QED
      BY <3>4 DEF stall
  <2>. QED
    BY <2>5, <2>8
<1>9. elapsed \in Nat /\ clock <= run.now
  BY <1>4, <1>5, <1>6, <1>7
<1>10. CountersInv'
  <2>1. Recorded(perf, q)
    BY <1>8, <1>9 DEF Recorded
  <2>. HIDE DEF q
  <2>. QED
    BY <1>1, <1>2, <2>1, CallKeepsCounters
<1>11. RingInv(ring') /\ Quiet(ring')
  <2>1. clock + 1 \in Nat
    BY <1>4
  <2>. QED
    BY <1>2, <1>3, <1>4, <1>6, <2>1, TileThrough
<1>12. sramBanks' \in Banks
  <2>1. \A b \in 0 .. BankCount - 1 : run.banks[b] \in [words : 0 .. BankWords, refill : Nat]
    BY <1>7 DEF Banks
  <2>2. \A b \in 0 .. BankCount - 1 :
            Refilled(run.banks[b], run.now) \in [words : 0 .. BankWords, refill : Nat]
    BY <1>7, <2>1, RefilledTyped
  <2>3. DOMAIN sramBanks = 0 .. BankCount - 1
    BY <1>4 DEF Banks
  <2>. QED
    BY <1>2, <2>2, <2>3 DEF Banks
<1>13. ClockInv'
  <2>1. BarTotal(busCycles) \in Nat
    BY <1>4, ChannelsFinite, BarsFinite
  <2>2. BarTotal(busCycles) <= run.now
    BY <1>4, <1>7, <1>9, <2>1
  <2>. QED
    BY <1>2, <1>4, <1>7, <1>11, <1>12, <2>2 DEF ClockInv
<1>14. AccurateInv'
  <2>. HIDE DEF q
  <2>1. q.enabled /\ q.n["total_cycles"] = perf.n["total_cycles"] + elapsed
    BY <1>3, <1>8 DEF Onward, SameSwitches
  <2>2. q.n["dma_stall_cycles"] = perf.n["dma_stall_cycles"] + 0
    BY <1>8 DEF Onward
  <2>3. q.n["dma_stall_cycles"] = 0
    BY <1>3, <2>2
  <2>4. q.n["total_cycles"] = counted + run.now
    BY <1>3, <1>4, <1>7, <2>1
  <2>. QED
    BY <1>2, <1>11, <2>1, <2>3, <2>4 DEF AccurateInv
<1>. QED
  BY <1>10, <1>13, <1>14 DEF AccountsInv

\* A transfer is counted for as long as the clock ran, and never waits.
LEMMA TransferStep ==
    ASSUME AccountsInv, NEW x \in CmTransfers, DmaTransferAccurate(x)
    PROVE  AccountsInv'
<1>. DEFINE wait == Arbitration(busCycles, clock)
            bank == DramBankOf(x.addr)
            latency == IF x.addr = 0 THEN RoundUp(x.bytes, BusBytes)
                       ELSE DramLatency(openRows[bank], x.addr, x.isRead, x.bytes)
            before == [banks |-> sramBanks, now |-> clock + wait + latency, stall |-> 0]
            after == IF x.bank < BankCount
                     THEN Served(before, x.bank, RoundUp(x.bytes, BankBytes)) ELSE before
            active == after.now - clock
            q == RecordRead(perf, x.bytes, active, wait, x.ch, 0)
<1>1. CountersInv /\ ClockInv /\ AccurateInv /\ cmMode = "accurate"
  BY DEF AccountsInv, DmaTransferAccurate
<1>2. /\ clock' = after.now /\ perf' = q /\ sramBanks' = after.banks
      /\ busCycles' = BusCharge(busCycles, x.ch, clock, after.now)
      /\ UNCHANGED <<snapshot, current_since, cmMode, ring, counted>>
  BY DEF DmaTransferAccurate, PerfStep
<1>3. /\ perf.enabled /\ Quiet(ring) /\ perf.n["dma_stall_cycles"] = 0
      /\ perf.n["total_cycles"] = counted + clock
  BY <1>1 DEF AccurateInv
<1>4. /\ clock \in Nat /\ counted \in Nat /\ sramBanks \in Banks /\ RingInv(ring)
      /\ busCycles \in [Channels8 -> Nat] /\ BarTotal(busCycles) <= clock
  BY <1>1 DEF ClockInv
<1>5. wait = 0
  BY <1>4, BusNeverContended
<1>6. /\ x.ch \in Channels8 /\ x.bytes \in Nat /\ x.isRead \in BOOLEAN /\ x.bank \in Nat
      /\ RoundUp(x.bytes, BusBytes) \in Nat /\ RoundUp(x.bytes, BankBytes) \in Nat
  BY TransferTyped
<1>7. latency \in Nat
  BY <1>6, LatencyTyped
<1>. HIDE DEF wait, latency
<1>8. before \in Runs /\ before.now = clock + latency
  <2>1. clock + wait + latency = clock + latency /\ clock + latency \in Nat
    BY <1>4, <1>5, <1>7
  <2>. QED
    BY <1>4, <2>1 DEF Runs
<1>. HIDE DEF before
<1>9. after \in Runs /\ \E d \in Nat : after.now = before.now + d
  <2>1. /\ Served(before, x.bank, RoundUp(x.bytes, BankBytes)) \in Runs
        /\ \E d \in Nat : Served(before, x.bank, RoundUp(x.bytes, BankBytes)).now = before.now + d
    <3>. DEFINE words == RoundUp(x.bytes, BankBytes)
    <3>1. words \in Nat /\ x.bank \in Nat
      BY <1>6
    <3>. HIDE DEF words
    <3>2. Served(before, x.bank, words) \in Runs /\ \E d \in Nat : Served(before, x.bank, words).now = before.now + d
      BY <1>8, <3>1, ServedKeeps
    <3>. QED
      BY <3>2 DEF words
  <2>2. before.now = before.now + 0
    BY <1>8 DEF Runs
  <2>3. CASE x.bank < BankCount
    BY <2>1, <2>3
  <2>4. CASE ~ (x.bank < BankCount)
    <3>1. after = before
      BY <2>4
    <3>. HIDE DEF after
    <3>. QED
      BY <1>8, <2>2, <3>1
  <2>. QED
    BY <2>3, <2>4
<1>. HIDE DEF after
<1>10. after.now \in Nat /\ after.banks \in Banks
  BY <1>9 DEF Runs
<1>11. clock <= after.now /\ active \in Nat /\ clock + active = after.now
  <2>1. PICK d \in Nat : after.now = before.now + d
    BY <1>9
  <2>2. after.now = clock + latency + d
    BY <1>8, <2>1
  <2>. QED
    BY <1>4, <1>7, <1>10, <2>2
<1>. HIDE DEF active
<1>12. Onward(perf, q, active, 0) /\ Balanced(q, 0)
  <2>1. perf \in Books /\ Balanced(perf, 0) /\ 0 \in Nat
    BY <1>1 DEF CountersInv
  <2>2. q = RecordRead(perf, x.bytes, active, 0, x.ch, 0)
    BY <1>5
  <2>. HIDE DEF q
  <2>3. Onward(perf, q, active + 0, 0) /\ Balanced(q, 0)
    BY <1>3, <1>6, <1>11, <2>1, <2>2, ReadRecorded
  <2>4. active + 0 = active
    BY <1>11
  <2>. QED
    BY <2>3, <2>4
<1>. HIDE DEF q
<1>13. CountersInv'
  <2>1. Recorded(perf, q)
    BY <1>11, <1>12 DEF Recorded
  <2>. QED
    BY <1>1, <1>2, <2>1, CallKeepsCounters
<1>14. busCycles' \in [Channels8 -> Nat] /\ BarTotal(busCycles') <= after.now
  BY <1>2, <1>4, <1>6, <1>10, <1>11, ChargeFits
<1>15. ClockInv'
  BY <1>2, <1>4, <1>10, <1>14 DEF ClockInv
<1>16. AccurateInv'
  <2>1. q.enabled /\ q.n["total_cycles"] = perf.n["total_cycles"] + active
    BY <1>3, <1>12 DEF Onward, SameSwitches
  <2>2. q.n["dma_stall_cycles"] = perf.n["dma_stall_cycles"] + 0
    BY <1>12 DEF Onward
  <2>3. q.n["dma_stall_cycles"] = 0
    BY <1>3, <2>2
  <2>4. q.n["total_cycles"] = counted + after.now
    BY <1>3, <1>4, <1>11, <2>1
  <2>. QED
    BY <1>2, <1>3, <2>1, <2>3, <2>4 DEF AccurateInv
<1>. QED
  BY <1>13, <1>15, <1>16 DEF AccountsInv

LEMMA AdvanceStep ==
    ASSUME AccountsInv, CmAdvance
    PROVE  AccountsInv'
<1>. DEFINE q == Tick(perf, 1)
<1>1. CountersInv /\ ClockInv /\ AccurateInv
  BY DEF AccountsInv
<1>2. /\ clock' = clock + 1 /\ perf' = q
      /\ UNCHANGED <<snapshot, current_since, cmMode, ring, sramBanks, busCycles, counted>>
  BY DEF CmAdvance, PerfStep
<1>3. perf \in Books /\ Balanced(perf, 0)
  BY <1>1 DEF CountersInv
<1>4. clock \in Nat /\ busCycles \in [Channels8 -> Nat] /\ BarTotal(busCycles) <= clock /\ counted \in Nat
  BY <1>1 DEF ClockInv
<1>5. perf.enabled => Onward(perf, q, 1, 0) /\ Balanced(q, 0)
  <2>. SUFFICES ASSUME perf.enabled PROVE Onward(perf, q, 1, 0) /\ Balanced(q, 0)
    OBVIOUS
  <2>1. Onward(perf, perf, 0, 0)
    BY <1>3, FromItself
  <2>2. Balanced(perf, 1)
    <3>1. perf.n["compute_total_cycles"] \in Nat /\ perf.n["total_cycles"] \in Nat
      BY <1>3, NamedCounters DEF Books, Accounts
    <3>2. perf.n["compute_total_cycles"] <= perf.n["total_cycles"] + 0
      BY <1>3 DEF Balanced
    <3>3. perf.n["compute_total_cycles"] <= perf.n["total_cycles"] + 1
      BY <3>1, <3>2
    <3>. QED
      BY <1>3, <3>3 DEF Balanced
  <2>. QED
    BY <1>3, <2>1, <2>2, SettledTick
<1>6. ~ perf.enabled => q = perf
  BY DEF Tick
<1>. HIDE DEF q
<1>7. Recorded(perf, q)
  <2>1. CASE perf.enabled
    BY <1>5, <2>1 DEF Recorded
  <2>2. CASE ~ perf.enabled
    BY <1>3, <1>6, <2>2, Unrecorded
  <2>. QED
    BY <2>1, <2>2
<1>8. CountersInv'
  BY <1>1, <1>2, <1>7, CallKeepsCounters
<1>9. ClockInv'
  <2>1. BarTotal(busCycles) \in Nat
    BY <1>4, ChannelsFinite, BarsFinite
  <2>2. clock + 1 \in Nat /\ BarTotal(busCycles) <= clock + 1
    BY <1>4, <2>1
  <2>. QED
    BY <1>1, <1>2, <2>2 DEF ClockInv
<1>10. AccurateInv'
  <2>. SUFFICES ASSUME cmMode = "accurate" PROVE AccurateInv'
    BY <1>2 DEF AccurateInv
  <2>1. /\ perf.enabled /\ Quiet(ring) /\ perf.n["dma_stall_cycles"] = 0
        /\ perf.n["total_cycles"] = counted + clock
    BY <1>1 DEF AccurateInv
  <2>2. q.enabled /\ q.n["total_cycles"] = perf.n["total_cycles"] + 1
    BY <1>5, <2>1 DEF Onward, SameSwitches
  <2>3. q.n["dma_stall_cycles"] = perf.n["dma_stall_cycles"] + 0
    BY <1>5, <2>1 DEF Onward
  <2>4. q.n["dma_stall_cycles"] = 0
    BY <2>1, <2>3
  <2>5. q.n["total_cycles"] = counted + (clock + 1)
    BY <1>4, <2>1, <2>2
  <2>. QED
    BY <1>2, <2>1, <2>2, <2>4, <2>5 DEF AccurateInv
<1>. QED
  BY <1>8, <1>9, <1>10 DEF AccountsInv

LEMMA ResetStep ==
    ASSUME AccountsInv, CmReset
    PROVE  AccountsInv'
<1>1. CountersInv /\ ClockInv /\ AccurateInv
  BY DEF AccountsInv
<1>2. /\ clock' = 0 /\ ring' = EmptyRing
      /\ sramBanks' = [b \in DOMAIN sramBanks |-> FullBank(0)]
      /\ busCycles' = [ch \in DOMAIN busCycles |-> 0]
      /\ counted' = perf.n["total_cycles"]
      /\ UNCHANGED <<perf, snapshot, current_since, cmMode>>
  BY DEF CmReset, perfVars
<1>3. counted' \in Nat
  <2>1. perf \in Books
    BY <1>1 DEF CountersInv
  <2>. QED
    BY <1>2, <2>1, NamedCounters DEF Books
<1>4. sramBanks' \in Banks
  <2>1. DOMAIN sramBanks = 0 .. BankCount - 1
    BY <1>1 DEF ClockInv, Banks
  <2>. QED
    BY <1>2, <2>1, FreshBanks
<1>5. busCycles' \in [Channels8 -> Nat] /\ BarTotal(busCycles') = 0
  <2>1. DOMAIN busCycles = Channels8
    BY <1>1 DEF ClockInv
  <2>. QED
    BY <1>2, <2>1, BusIdle
<1>6. ClockInv'
  BY <1>2, <1>3, <1>4, <1>5, EmptyRingKept DEF ClockInv
<1>7. AccurateInv'
  <2>1. counted' + clock' = counted'
    BY <1>2, <1>3
  <2>. QED
    BY <1>1, <1>2, <2>1, EmptyRingKept DEF AccurateInv
<1>8. CountersInv'
  BY <1>1, <1>2, SameBooks
<1>. QED
  BY <1>6, <1>7, <1>8 DEF AccountsInv

LEMMA AccountsStep ==
    ASSUME AccountsInv, [AccountsNext]_cycleVars
    PROVE  AccountsInv'
<1>1. CASE CycleNext
  <2>1. ASSUME NEW io \in Issues, PipelineIssue(io[1], io[2]) PROVE AccountsInv'
    BY <2>1, IssueStep
  <2>2. CASE PipelineComplete
    BY <2>2, CompleteStep
  <2>3. ASSUME NEW t \in CmTiles, ExecuteTile(t) \/ ExecuteTileAccurate(t) PROVE AccountsInv'
    BY <2>3, TileFormulaStep, TileStep
  <2>4. ASSUME NEW x \in CmTransfers, DmaTransfer(x) \/ DmaTransferAccurate(x) PROVE AccountsInv'
    BY <2>4, TransferFormulaStep, TransferStep
  <2>5. CASE CmAdvance
    BY <2>5, AdvanceStep
  <2>6. CASE CmReset
    BY <2>6, ResetStep
  <2>. QED
    BY <1>1, <2>1, <2>2, <2>3, <2>4, <2>5, <2>6 DEF CycleNext
<1>2. CASE cmMode # "accurate" /\ PerfNext /\ UNCHANGED cmVars
  <2>1. CountersInv'
    BY <1>2, PerfNextKeeps DEF AccountsInv
  <2>. QED
    BY <1>2, <2>1 DEF AccountsInv, ClockInv, AccurateInv, cmVars
<1>3. CASE UNCHANGED cycleVars
  BY <1>3 DEF AccountsInv, CountersInv, ClockInv, AccurateInv, cycleVars, perfVars, cmVars
<1>. QED
  BY <1>1, <1>2, <1>3 DEF AccountsNext

LEMMA AccountsKept == AccountsSpec => []AccountsInv
<1>. QED
  BY AccountsInit, AccountsStep, PTL DEF AccountsSpec

-----------------------------------------------------------------------------
(* What the invariant means.                                                 *)

LEMMA TotalOverIsBarTotal ==
    ASSUME NEW f \in [Channels8 -> Nat]
    PROVE  TotalOver(f) = BarTotal(f)
<1>1. TotalOver(f) = Total(f)
  BY DEF TotalOver, Total
<1>. QED
  BY <1>1, ChannelsFinite, TotalIsBarTotal

LEMMA BalancedAddsUp ==
    ASSUME CountersInv
    PROVE  CountersAddUp
<1>1. perf \in Books /\ Balanced(perf, 0)
  BY DEF CountersInv
<1>2. TotalOver(perf.bytes) = BarTotal(perf.bytes)
  <2>1. perf.bytes \in [Channels8 -> Nat]
    BY <1>1 DEF Books
  <2>. QED
    BY <2>1, TotalOverIsBarTotal
<1>3. perf.n["compute_total_cycles"] <= perf.n["total_cycles"]
  <2>1. perf.n["total_cycles"] \in Nat
    BY <1>1, NamedCounters DEF Books
  <2>. QED
    BY <1>1, <2>1 DEF Balanced
<1>. QED
  BY <1>1, <1>2, <1>3 DEF Balanced, CountersAddUp

\* What is only added to can be taken apart and put together again.
LEMMA GrownMergesBack ==
    ASSUME CountersInv
    PROVE  DiffMergesBack
<1>. DEFINE diff == Diff(snapshot, perf)
            back == Merge(snapshot, diff)
<1>. SUFFICES ASSUME snapshot # NoSnapshot, current_since
              PROVE  /\ \A c \in CarriedCounters : back.n[c] = perf.n[c]
                     /\ back.bytes = perf.bytes /\ back.stalls = perf.stalls
  BY DEF DiffMergesBack
<1>1. snapshot \in Books /\ perf \in Books /\ Grown(snapshot, perf)
  BY DEF CountersInv
<1>. DEFINE part == [c \in Counters |->
                       IF c \in EnergyCounters THEN perf.n[c] - snapshot.n[c]
                       ELSE IF c \in CarriedCounters THEN AtLeast0(perf.n[c] - snapshot.n[c]) ELSE 0]
            moved == [ch \in Channels8 |-> AtLeast0(perf.bytes[ch] - snapshot.bytes[ch])]
            waited == [ch \in Channels8 |-> AtLeast0(perf.stalls[ch] - snapshot.stalls[ch])]
<1>2. diff.n = part /\ diff.bytes = moved /\ diff.stalls = waited
  BY DEF Diff, PerfZero, Counters
<1>. HIDE DEF diff
<1>3. /\ back.n = [c \in Counters |-> snapshot.n[c] + (IF c \in CarriedCounters THEN diff.n[c] ELSE 0)]
      /\ back.bytes = [ch \in Channels8 |-> snapshot.bytes[ch] + diff.bytes[ch]]
      /\ back.stalls = [ch \in Channels8 |-> snapshot.stalls[ch] + diff.stalls[ch]]
  BY <1>1 DEF Merge, Books
<1>. HIDE DEF back
<1>4. ASSUME NEW a \in Nat, NEW b \in Nat, a <= b
      PROVE  AtLeast0(b - a) = b - a /\ a + (b - a) = b
  BY <1>4 DEF AtLeast0
<1>5. ASSUME NEW c \in CarriedCounters PROVE back.n[c] = perf.n[c]
  <2>1. c \in Counters
    BY DEF Counters
  <2>2. snapshot.n[c] \in Nat /\ perf.n[c] \in Nat /\ snapshot.n[c] <= perf.n[c]
    BY <1>1, <2>1 DEF Books, Grown
  <2>3. part[c] = perf.n[c] - snapshot.n[c]
    <3>1. AtLeast0(perf.n[c] - snapshot.n[c]) = perf.n[c] - snapshot.n[c]
      BY <1>4, <2>2
    <3>. QED
      BY <2>1, <3>1
  <2>4. back.n[c] = snapshot.n[c] + diff.n[c]
    BY <1>3, <2>1
  <2>5. back.n[c] = snapshot.n[c] + (perf.n[c] - snapshot.n[c])
    BY <1>2, <2>3, <2>4
  <2>. QED
    BY <1>4, <2>2, <2>5
<1>6. ASSUME NEW ch \in Channels8
      PROVE  /\ snapshot.bytes[ch] + moved[ch] = perf.bytes[ch]
             /\ snapshot.stalls[ch] + waited[ch] = perf.stalls[ch]
  <2>1. /\ snapshot.bytes[ch] \in Nat /\ perf.bytes[ch] \in Nat /\ snapshot.bytes[ch] <= perf.bytes[ch]
        /\ snapshot.stalls[ch] \in Nat /\ perf.stalls[ch] \in Nat /\ snapshot.stalls[ch] <= perf.stalls[ch]
    BY <1>1 DEF Books, Grown
  <2>2. /\ moved[ch] = perf.bytes[ch] - snapshot.bytes[ch]
        /\ waited[ch] = perf.stalls[ch] - snapshot.stalls[ch]
    BY <1>4, <2>1
  <2>. QED
    BY <1>4, <2>1, <2>2
<1>7. perf.bytes = [ch \in Channels8 |-> perf.bytes[ch]] /\ perf.stalls = [ch \in Channels8 |-> perf.stalls[ch]]
  BY <1>1 DEF Books
<1>8. back.bytes = perf.bytes /\ back.stalls = perf.stalls
  <2>. HIDE DEF moved, waited
  <2>. QED
    BY <1>2, <1>3, <1>6, <1>7
<1>. QED
  BY <1>5, <1>8

LEMMA AccountsHold ==
    ASSUME AccountsInv
    PROVE  AccountsAgree
<1>1. CountersInv /\ ClockInv /\ AccurateInv
  BY DEF AccountsInv
<1>2. CountersAddUp /\ DiffMergesBack
  BY <1>1, BalancedAddsUp, GrownMergesBack
<1>3. /\ clock \in Nat /\ counted \in Nat /\ ring \in Rings /\ sramBanks \in Banks
      /\ busCycles \in [Channels8 -> Nat] /\ BarTotal(busCycles) <= clock
  BY <1>1 DEF ClockInv, RingInv
<1>4. CycleTypeOK
  <2>1. ring.head \in Slot /\ ring.tail \in Slot
    BY <1>3 DEF Rings
  <2>2. \A b \in DOMAIN sramBanks : sramBanks[b].words \in 0 .. BankWords
    BY <1>3 DEF Banks
  <2>. QED
    BY <1>3, <2>1, <2>2 DEF CycleTypeOK, Slot
<1>5. ClocksAgree
  BY <1>1, <1>3 DEF AccurateInv, ClocksAgree
<1>6. BusWithinClock
  <2>1. TotalOver(busCycles) <= clock
    BY <1>3, TotalOverIsBarTotal
  <2>2. Arbitration(busCycles, clock) = 0
    BY <1>3, BusNeverContended
  <2>. QED
    BY <1>1, <2>1, <2>2 DEF AccurateInv, BusWithinClock
<1>7. TilesNeverWait
  <2>. SUFFICES ASSUME cmMode = "accurate" PROVE ring.stalls = 0 /\ InFlight(ring) = {}
    BY DEF TilesNeverWait
  <2>1. RingInv(ring) /\ Quiet(ring)
    BY <1>1 DEF ClockInv, AccurateInv
  <2>. QED
    BY <2>1, QuietIsEmpty DEF Quiet
<1>. QED
  BY <1>2, <1>4, <1>5, <1>6, <1>7 DEF AccountsAgree

\* Totals and their parts, differences and their merges, the clock and the
\* counters, the clock and the bus: all the accounts of time and work agree
\* after any sequence of calls, for every size and latency of the hardware
\* (tu_perf_record_* and tu_perf_diff in performance_counters.c,
\* tu_cycle_model_execute_tile, _dma_transfer, _advance and _reset in
\* cycle_model.c).
THEOREM AccountsAlwaysAgree == AccountsSpec => []AccountsAgree
<1>1. AccountsInv => AccountsAgree
  BY AccountsHold
<1>. QED
  BY <1>1, AccountsKept, PTL

\* A tile that writes a register which a tile in flight has yet to write waits
\* the worst case, and as long as no tile was issued over one in flight, tiles
\* complete in order of issue (tu_cycle_pipeline_issue and _complete).
THEOREM ScoreboardKeepsOrder == AccountsSpec => ScoreboardHolds
<1>1. ASSUME AccountsInv PROVE WawStalls
  <2>. SUFFICES ASSUME NEW io \in Issues, PipelineIssue(io[1], io[2]),
                       NEW i \in InFlight(ring), NEW d \in DOMAIN io[2],
                       io[2][d] \in ring.slots[i].writes
                PROVE  clock' = clock + WorstStall
    BY DEF WawStalls
  <2>1. RingInv(ring)
    BY <1>1 DEF AccountsInv, ClockInv
  <2>2. i \in Slot /\ ring.slots[i].active
    BY DEF InFlight, Slot
  <2>3. io[2][d] # 0 /\ \E e \in 1 .. 4 : io[2][d] = ring.slots[i].outputs[e]
    BY <2>1, <2>2 DEF RingInv, WritesKnown
  <2>4. WawMeets(ring.slots[i], io[2])
    BY <2>3 DEF WawMeets
  <2>5. HazardStall(ring, io[1], io[2]) = WorstStall
    BY <2>4 DEF HazardStall
  <2>. QED
    BY <2>5 DEF PipelineIssue
<1>2. ASSUME AccountsInv PROVE CompletesOldest
  <2>. SUFFICES ASSUME PipelineComplete, ~ ring.overrun, NEW i \in InFlight(ring) \ InFlight(ring)',
                       NEW j \in InFlight(ring)'
                PROVE  ring.slots[i].order < ring.slots[j].order
    BY DEF CompletesOldest
  <2>1. RingInv(ring) /\ ring \in Rings
    BY <1>2 DEF AccountsInv, ClockInv, RingInv
  <2>2. ring' = Completed(ring)
    BY DEF PipelineComplete
  <2>3. ring.slots \in [Slot -> Entries] /\ ring.tail \in Slot
    BY <2>1 DEF Rings
  <2>4. InFlight(ring) = {s \in Slot : ring.slots[s].active}
    BY DEF InFlight, Slot
  <2>5. InFlight(ring)' = {s \in Slot : ring'.slots[s].active}
    BY DEF InFlight, Slot
  <2>6. ring.slots[ring.tail].active
    BY <2>1, <2>2, <2>4, <2>5, CompleteKeeps
  <2>7. ring'.slots = [ring.slots EXCEPT ![ring.tail].active = FALSE]
    BY <2>1, <2>2, <2>6, CompleteKeeps
  <2>8. \A s \in Slot \ {ring.tail} : ring'.slots[s] = ring.slots[s]
    BY <2>3, <2>7
  <2>9. ring'.slots[ring.tail].active = FALSE
    <3>1. ring.slots[ring.tail] \in Entries
      BY <2>3
    <3>2. ring'.slots[ring.tail] = [ring.slots[ring.tail] EXCEPT !.active = FALSE]
      BY <2>3, <2>7
    <3>. QED
      BY <3>1, <3>2 DEF Entries
  <2>10. i = ring.tail /\ j \in Slot \ {ring.tail} /\ ring.slots[j].active
    BY <2>4, <2>5, <2>8, <2>9
  <2>. QED
    BY <2>1, <2>6, <2>10, CompleteKeeps
<1>3. AccountsInv => [WawStalls /\ CompletesOldest]_cycleVars
  BY <1>1, <1>2
<1>. QED
  BY <1>3, AccountsKept, PTL DEF ScoreboardHolds

-----------------------------------------------------------------------------
(* Recordings.  While one is active with room left, its last entry ends at   *)
(* the checksum the regions have now.                                        *)

Held == Contents \cup {Min(Contents)}
Sums == SUBSET UNION {Crc[c] : c \in Held}
Steps == [before : Sums, delta : Sums]
Recordings == [entries : Seq(Steps), stored : BOOLEAN, capacity : Nat, count : Nat, active : BOOLEAN]
Files == [count : Nat, entries : Seq(Steps), whole : BOOLEAN]

Chained(es) == \A i \in 2 .. Len(es) : es[i].before = Xor(es[i - 1].before, es[i - 1].delta)

RecordingInv ==
    /\ sram \in [RegionNames -> Held] /\ origin \in [RegionNames -> Held]
    /\ recording \in Recordings /\ recording.count <= recording.capacity
    /\ recording.stored => Len(recording.entries) = recording.count
    /\ ~ recording.stored => recording.entries = <<>>
    /\ Chained(recording.entries)
    /\ recording.active /\ recording.stored /\ 0 < recording.count /\ recording.count < recording.capacity =>
          LET last == recording.entries[recording.count] IN Xor(last.before, last.delta) = Checksum(sram)
    /\ saved \in Files /\ Len(saved.entries) = saved.count /\ Chained(saved.entries)

LEMMA XorTyped == \A a, b \in Sums : Xor(a, b) \in Sums
BY DEF Xor, Sums

\* The difference of two checksums leads from one to the other.
LEMMA XorBack == \A a, b : Xor(a, Xor(b, a)) = b
BY DEF Xor

LEMMA ChecksumTyped ==
    ASSUME NEW s \in [RegionNames -> Held]
    PROVE  Checksum(s) \in Sums
<1>1. Crc[s["w"]] \in Sums /\ Crc[s["a"]] \in Sums /\ Crc[s["o"]] \in Sums
  <2>1. s["w"] \in Held /\ s["a"] \in Held /\ s["o"] \in Held
    BY DEF RegionNames
  <2>. QED
    BY <2>1 DEF Sums
<1>2. Xor(Crc[s["w"]], Crc[s["a"]]) \in Sums
  BY <1>1, XorTyped
<1>. QED
  BY <1>1, <1>2, XorTyped DEF Checksum

LEMMA NoEntries == <<>> \in Seq(Steps) /\ Len(<<>>) = 0 /\ Chained(<<>>)
BY DEF Chained

LEMMA RecordingInit == DebugInit => RecordingInv
<1>. SUFFICES ASSUME DebugInit PROVE RecordingInv
  OBVIOUS
<1>1. sram \in [RegionNames -> Held] /\ origin \in [RegionNames -> Held]
  BY DEF DebugInit, Held
<1>2. recording = NoRecording /\ saved = NoFile
  BY DEF DebugInit
<1>3. NoRecording \in Recordings /\ NoFile \in Files
  BY NoEntries DEF NoRecording, NoFile, Recordings, Files
<1>4. /\ NoRecording.entries = <<>> /\ NoRecording.count = 0 /\ NoRecording.capacity = 0
      /\ ~ NoRecording.active /\ ~ NoRecording.stored
      /\ NoFile.entries = <<>> /\ NoFile.count = 0
  BY DEF NoRecording, NoFile
<1>. QED
  BY <1>1, <1>2, <1>3, <1>4, NoEntries DEF RecordingInv

\* One more entry, from where the last one ended.
LEMMA EntryChains ==
    ASSUME NEW es \in Seq(Steps), Chained(es), NEW a \in Sums, NEW b \in Sums,
           Len(es) > 0 => Xor(es[Len(es)].before, es[Len(es)].delta) = a
    PROVE  LET more == Append(es, Entry(a, b)) IN
           /\ more \in Seq(Steps) /\ Chained(more) /\ Len(more) = Len(es) + 1
           /\ Xor(more[Len(more)].before, more[Len(more)].delta) = b
<1>. DEFINE e == Entry(a, b)
            more == Append(es, e)
<1>1. e \in Steps /\ e.before = a /\ Xor(e.before, e.delta) = b
  BY XorTyped, XorBack DEF Entry, Steps
<1>. HIDE DEF e
<1>2. /\ more \in Seq(Steps) /\ Len(more) = Len(es) + 1 /\ more[Len(es) + 1] = e
      /\ \A i \in 1 .. Len(es) : more[i] = es[i]
      /\ Len(es) \in Nat
  BY <1>1
<1>. HIDE DEF more
<1>3. ASSUME NEW i \in 2 .. Len(more)
      PROVE  more[i].before = Xor(more[i - 1].before, more[i - 1].delta)
  <2>1. CASE i \in 2 .. Len(es)
    <3>1. more[i] = es[i] /\ more[i - 1] = es[i - 1]
      BY <1>2, <2>1
    <3>. QED
      BY <2>1, <3>1 DEF Chained
  <2>2. CASE i = Len(es) + 1
    <3>1. Len(es) > 0 /\ more[i] = e /\ i - 1 = Len(es) /\ more[Len(es)] = es[Len(es)]
      BY <1>2, <2>2
    <3>. QED
      BY <1>1, <3>1
  <2>. QED
    BY <1>2, <2>1, <2>2
<1>. QED
  BY <1>1, <1>2, <1>3 DEF Chained, e, more

LEMMA InstructionChains ==
    ASSUME RecordingInv, NEW r \in RegionNames, NEW c \in Contents, RunInstruction(r, c)
    PROVE  RecordingInv'
<1>. DEFINE noted == recording.active /\ recording.stored /\ recording.count < recording.capacity
            more == Append(recording.entries, Entry(Checksum(sram), Checksum(sram')))
<1>1. /\ sram' = [sram EXCEPT ![r] = c]
      /\ recording' = IF noted THEN [recording EXCEPT !.entries = more, !.count = recording.count + 1]
                      ELSE recording
      /\ UNCHANGED <<origin, saved>>
  BY DEF RunInstruction
<1>2. sram \in [RegionNames -> Held] /\ sram' \in [RegionNames -> Held]
  BY <1>1 DEF RecordingInv, Held
<1>3. Checksum(sram) \in Sums /\ Checksum(sram') \in Sums
  BY <1>2, ChecksumTyped
<1>4. /\ recording \in Recordings /\ recording.count <= recording.capacity
      /\ recording.stored => Len(recording.entries) = recording.count
      /\ Chained(recording.entries)
      /\ noted /\ 0 < recording.count =>
            LET last == recording.entries[recording.count] IN Xor(last.before, last.delta) = Checksum(sram)
  BY DEF RecordingInv
<1>5. CASE noted
  <2>1. /\ recording.entries \in Seq(Steps) /\ recording.count \in Nat /\ recording.capacity \in Nat
        /\ Len(recording.entries) = recording.count
    BY <1>4, <1>5 DEF Recordings
  <2>2. /\ more \in Seq(Steps) /\ Chained(more) /\ Len(more) = Len(recording.entries) + 1
        /\ Xor(more[Len(more)].before, more[Len(more)].delta) = Checksum(sram')
    <3>1. Len(recording.entries) > 0 =>
            Xor(recording.entries[Len(recording.entries)].before, recording.entries[Len(recording.entries)].delta)
               = Checksum(sram)
      BY <1>4, <1>5, <2>1
    <3>. QED
      BY <1>3, <1>4, <2>1, <3>1, EntryChains
  <2>. HIDE DEF more
  <2>3. recording' = [recording EXCEPT !.entries = more, !.count = recording.count + 1]
    BY <1>1, <1>5
  <2>4. /\ recording'.entries = more /\ recording'.count = recording.count + 1
        /\ recording'.stored = recording.stored /\ recording'.capacity = recording.capacity
        /\ recording'.active = recording.active
    BY <1>4, <2>3 DEF Recordings
  <2>5. recording' \in Recordings
    <3>1. recording.count + 1 \in Nat
      BY <2>1
    <3>. QED
      BY <1>4, <2>2, <2>3, <3>1 DEF Recordings
  <2>6. recording'.count <= recording'.capacity
    BY <1>5, <2>1, <2>4
  <2>7. Len(recording'.entries) = recording'.count
    BY <2>1, <2>2, <2>4
  <2>8. LET last == recording'.entries[recording'.count] IN Xor(last.before, last.delta) = Checksum(sram')
    BY <2>2, <2>4, <2>7
  <2>9. recording'.stored
    BY <1>5, <2>4
  <2>. QED
    BY <1>1, <1>2, <2>2, <2>4, <2>5, <2>6, <2>7, <2>8, <2>9 DEF RecordingInv, Checksum
<1>6. CASE ~ noted
  <2>1. recording' = recording
    BY <1>1, <1>6
  <2>2. ~ (recording.active /\ recording.stored /\ recording.count < recording.capacity)
    BY <1>6
  <2>. QED
    BY <1>1, <1>2, <2>1, <2>2 DEF RecordingInv, Checksum
<1>. QED
  BY <1>5, <1>6

LEMMA DebugKeeps ==
    ASSUME RecordingInv, DebugNext \/ UNCHANGED debugVars
    PROVE  RecordingInv'
<1>0. recording \in Recordings /\ saved \in Files
  BY DEF RecordingInv
<1>1. CASE RecordStart
  <2>1. /\ recording' = [entries |-> <<>>, stored |-> TRUE, capacity |-> MaxEntries, count |-> 0,
                         active |-> TRUE]
        /\ origin' = sram /\ UNCHANGED <<sram, saved>>
    BY <1>1 DEF RecordStart
  <2>2. recording' \in Recordings
    BY <2>1, NoEntries, ObservAssumption DEF Recordings
  <2>3. recording'.entries = <<>> /\ recording'.count = 0 /\ recording'.capacity = MaxEntries /\ recording'.stored
    BY <2>1
  <2>4. recording'.count <= recording'.capacity
    BY <2>3, ObservAssumption
  <2>. QED
    BY <2>1, <2>2, <2>3, <2>4, NoEntries DEF RecordingInv
<1>2. CASE RecordStop
  <2>1. recording' = [recording EXCEPT !.active = FALSE] /\ UNCHANGED <<sram, origin, saved>>
    BY <1>2 DEF RecordStop
  <2>2. /\ recording' \in Recordings /\ ~ recording'.active /\ recording'.entries = recording.entries
        /\ recording'.stored = recording.stored /\ recording'.count = recording.count
        /\ recording'.capacity = recording.capacity
    BY <1>0, <2>1 DEF Recordings
  <2>. QED
    BY <2>1, <2>2 DEF RecordingInv
<1>3. CASE RecordLoad
  <2>1. UNCHANGED <<sram, origin, saved>>
    BY <1>3 DEF RecordLoad
  <2>2. CASE saved.whole
    <3>1. recording' = [entries |-> saved.entries, stored |-> TRUE, capacity |-> saved.count,
                        count |-> saved.count, active |-> FALSE]
      BY <1>3, <2>2 DEF RecordLoad
    <3>2. /\ recording' \in Recordings /\ ~ recording'.active /\ recording'.stored
          /\ recording'.entries = saved.entries /\ recording'.count = saved.count
          /\ recording'.capacity = saved.count /\ saved.count \in Nat
      BY <1>0, <3>1 DEF Recordings, Files
    <3>3. recording'.count <= recording'.capacity
      BY <3>2
    <3>. QED
      BY <2>1, <3>2, <3>3 DEF RecordingInv
  <2>3. CASE ~ saved.whole
    <3>1. recording' = [recording EXCEPT !.entries = <<>>, !.stored = FALSE]
      BY <1>3, <2>3 DEF RecordLoad
    <3>2. /\ recording' \in Recordings /\ ~ recording'.stored /\ recording'.entries = <<>>
          /\ recording'.count = recording.count /\ recording'.capacity = recording.capacity
      BY <1>0, <3>1, NoEntries DEF Recordings
    <3>. QED
      BY <2>1, <3>2, NoEntries DEF RecordingInv
  <2>. QED
    BY <2>2, <2>3
<1>4. CASE ReplayExecute
  BY <1>4 DEF ReplayExecute, RecordingInv
<1>5. CASE Rewind
  BY <1>5 DEF Rewind, RecordingInv
<1>6. CASE ResetStats
  BY <1>6 DEF ResetStats, RecordingInv
<1>7. ASSUME NEW r \in RegionNames, NEW c \in Contents, RunInstruction(r, c) PROVE RecordingInv'
  BY <1>7, InstructionChains
<1>8. ASSUME NEW whole \in BOOLEAN, RecordSave(whole) PROVE RecordingInv'
  <2>1. /\ saved' = [count |-> recording.count, entries |-> recording.entries,
                     whole |-> whole \/ recording.count = 0]
        /\ recording.stored /\ UNCHANGED <<sram, origin, recording>>
    BY <1>8 DEF RecordSave
  <2>2. saved' \in Files /\ saved'.entries = recording.entries /\ saved'.count = recording.count
    BY <1>0, <2>1 DEF Recordings, Files
  <2>. QED
    BY <2>1, <2>2 DEF RecordingInv
<1>9. ASSUME NEW c \in Categories, FailCheck(c) PROVE RecordingInv'
  BY <1>9 DEF FailCheck, RecordingInv
<1>10. ASSUME NEW c \in Categories, NEW m \in AssertModes, SetMode(c, m) PROVE RecordingInv'
  BY <1>10 DEF SetMode, RecordingInv
<1>11. CASE UNCHANGED debugVars
  BY <1>11 DEF debugVars, RecordingInv
<1>. QED
  BY <1>1, <1>2, <1>3, <1>4, <1>5, <1>6, <1>7, <1>8, <1>9, <1>10, <1>11 DEF DebugNext
-----------------------------------------------------------------------------
(* The waveform.  A file of a header tells, for each time already left, the  *)
(* values that were said, and at its end the values of all signals but those *)
(* still to be written.                                                      *)

Values == SignalValues \cup {0}
Moves == UNION {[D -> Values] : D \in SUBSET Signals}
Lines == [time : Nat] \cup [changed : Moves]

Later(f, n) == {i \in DOMAIN f : "time" \in DOMAIN f[i] /\ f[i].time > n}
Writes(f, s, k) == {i \in 1 .. k : "changed" \in DOMAIN f[i] /\ s \in DOMAIN f[i].changed}
ShownAt(f, s, k) == IF Writes(f, s, k) = {} THEN 0 ELSE f[Max(Writes(f, s, k))].changed[s]

Told(f, now, past, vals, pending) ==
    /\ f \in Seq(Lines) /\ Len(past) = now
    /\ \A i \in DOMAIN f : "time" \in DOMAIN f[i] => f[i].time <= now
    /\ now > 0 => \E i \in DOMAIN f : "time" \in DOMAIN f[i] /\ f[i].time = now
    /\ \A n \in 0 .. now - 1, s \in Signals : ShownUntil(f, s, n) = past[n + 1][s]
    /\ \A s \in Signals \ pending : ShownAt(f, s, Len(f)) = vals[s]

WaveformInv ==
    /\ traceSignals \subseteq Signals /\ dirty \subseteq traceSignals
    /\ values \in [Signals -> Values]
    /\ traceNow \in Nat /\ ticked \in Nat /\ traceNow <= ticked
    /\ said \in Seq([Signals -> Values])
    /\ ~ header => traceNow = 0 /\ said = <<>> /\ \A s \in Signals \ dirty : values[s] = 0
    /\ header => Told(file, traceNow, said, values, dirty)
    /\ closed /\ header => dirty = {}

LEMMA LineKinds ==
    /\ \A e \in [time : Nat] : "time" \in DOMAIN e /\ "changed" \notin DOMAIN e /\ e.time \in Nat
    /\ \A e \in [changed : Moves] : "changed" \in DOMAIN e /\ "time" \notin DOMAIN e /\ e.changed \in Moves
OBVIOUS

LEMMA GreatestBelow ==
    ASSUME NEW k \in Nat, NEW W \in SUBSET (1 .. k), W # {}
    PROVE  Max(W) \in W /\ \A i \in W : i <= Max(W)
<1>. DEFINE T == {k - i : i \in W}
<1>1. T \in SUBSET Nat /\ T # {}
  <2>1. \A i \in W : k - i \in Nat
    OBVIOUS
  <2>2. PICK i \in W : TRUE
    OBVIOUS
  <2>3. k - i \in T
    BY <2>2
  <2>4. \A t \in T : t \in Nat
    <3>. TAKE t \in T
    <3>1. PICK j \in W : t = k - j
      OBVIOUS
    <3>. QED
      BY <2>1, <3>1
  <2>. QED
    BY <2>3, <2>4
<1>2. PICK d \in T : \A e \in T : d <= e
  <2>. HIDE DEF T
  <2>. QED
    BY <1>1, LeastNatural
<1>3. PICK i \in W : d = k - i
  OBVIOUS
<1>4. \A j \in W : k - j \in T
  OBVIOUS
<1>5. \A j \in W : i >= j
  <2>. HIDE DEF T
  <2>. TAKE j \in W
  <2>1. k - i <= k - j
    BY <1>2, <1>3, <1>4
  <2>. QED
    BY <2>1
<1>6. \E x \in W : \A j \in W : x >= j
  BY <1>5
<1>7. Max(W) \in W /\ \A j \in W : Max(W) >= j
  BY <1>6 DEF Max
<1>. QED
  BY <1>7

LEMMA LeastAbove ==
    ASSUME NEW W \in SUBSET Nat, W # {}
    PROVE  Min(W) \in W /\ \A i \in W : Min(W) <= i
<1>1. \E n \in W : \A m \in W : n <= m
  BY LeastNatural
<1>. QED
  BY <1>1 DEF Min

\* What a reader knows is what the lines up to the next time say.
LEMMA UntilIsAt ==
    ASSUME NEW f, NEW s, NEW n
    PROVE  /\ Later(f, n) = {} => ShownUntil(f, s, n) = ShownAt(f, s, Len(f))
           /\ Later(f, n) # {} => ShownUntil(f, s, n) = ShownAt(f, s, Min(Later(f, n)))
BY DEF ShownUntil, ShownAt, Later, Writes

LEMMA SameLines ==
    ASSUME NEW f, NEW g, NEW s, NEW k \in Nat, \A i \in 1 .. k : f[i] = g[i]
    PROVE  ShownAt(f, s, k) = ShownAt(g, s, k)
<1>1. Writes(f, s, k) = Writes(g, s, k)
  BY DEF Writes
<1>2. CASE Writes(f, s, k) = {}
  BY <1>1, <1>2 DEF ShownAt
<1>3. CASE Writes(f, s, k) # {}
  <2>. DEFINE W == Writes(f, s, k)
  <2>1. W \in SUBSET (1 .. k)
    BY DEF Writes
  <2>2. Max(W) \in 1 .. k
    <3>. HIDE DEF W
    <3>1. W # {}
      BY <1>3 DEF W
    <3>. QED
      BY <2>1, <3>1, GreatestBelow
  <2>. QED
    BY <1>1, <1>3, <2>2 DEF ShownAt
<1>. QED
  BY <1>2, <1>3

\* One more line.
LEMMA OneMore ==
    ASSUME NEW f \in Seq(Lines), NEW e \in Lines
    PROVE  /\ f \o <<e>> \in Seq(Lines) /\ Len(f \o <<e>>) = Len(f) + 1 /\ Len(f) \in Nat
           /\ \A i \in 1 .. Len(f) : (f \o <<e>>)[i] = f[i]
           /\ (f \o <<e>>)[Len(f) + 1] = e
           /\ DOMAIN f = 1 .. Len(f) /\ DOMAIN (f \o <<e>>) = 1 .. Len(f) + 1
OBVIOUS

LEMMA MoreShown ==
    ASSUME NEW f \in Seq(Lines), NEW e \in Lines, NEW s
    PROVE  /\ e \in [time : Nat] => ShownAt(f \o <<e>>, s, Len(f) + 1) = ShownAt(f, s, Len(f))
           /\ e \in [changed : Moves] =>
                ShownAt(f \o <<e>>, s, Len(f) + 1) =
                   IF s \in DOMAIN e.changed THEN e.changed[s] ELSE ShownAt(f, s, Len(f))
<1>. DEFINE g == f \o <<e>>
            k == Len(f)
            V == Writes(f, s, k)
            W == Writes(g, s, k + 1)
<1>1. k \in Nat /\ (\A i \in 1 .. k : g[i] = f[i]) /\ g[k + 1] = e
  BY OneMore
<1>. HIDE DEF g
<1>2. W = V \cup (IF "changed" \in DOMAIN e /\ s \in DOMAIN e.changed THEN {k + 1} ELSE {})
  <2>. HIDE DEF k
  <2>. QED
    BY <1>1 DEF Writes
<1>3. CASE "changed" \in DOMAIN e /\ s \in DOMAIN e.changed
  <2>1. k + 1 \in W
    BY <1>2, <1>3
  <2>2. W \in SUBSET (1 .. (k + 1)) /\ k + 1 \in Nat
    BY <1>1 DEF Writes
  <2>3. ShownAt(g, s, k + 1) = g[Max(W)].changed[s]
    BY <2>1 DEF ShownAt
  <2>4. Max(W) = k + 1
    <3>. HIDE DEF W, k
    <3>1. Max(W) \in W /\ \A i \in W : i <= Max(W)
      BY <2>1, <2>2, GreatestBelow
    <3>2. Max(W) \in 1 .. (k + 1) /\ k + 1 <= Max(W)
      BY <2>1, <2>2, <3>1
    <3>. QED
      BY <1>1, <3>2
  <2>5. ShownAt(g, s, k + 1) = e.changed[s]
    BY <1>1, <2>3, <2>4
  <2>. QED
    BY <1>3, <2>5, LineKinds DEF g
<1>4. CASE ~ ("changed" \in DOMAIN e /\ s \in DOMAIN e.changed)
  <2>1. W = V
    BY <1>2, <1>4
  <2>2. ShownAt(g, s, k + 1) = ShownAt(g, s, k)
    <3>1. Writes(g, s, k) = V
      BY <1>1 DEF Writes
    <3>. QED
      BY <2>1, <3>1 DEF ShownAt
  <2>3. ShownAt(g, s, k) = ShownAt(f, s, k)
    <3>. HIDE DEF k
    <3>. QED
      BY <1>1, SameLines
  <2>. QED
    BY <1>4, <2>2, <2>3, LineKinds DEF g
<1>. QED
  BY <1>3, <1>4

LEMMA MoreUntil ==
    ASSUME NEW f \in Seq(Lines), NEW e \in Lines, NEW s, NEW n, Later(f, n) # {}
    PROVE  ShownUntil(f \o <<e>>, s, n) = ShownUntil(f, s, n)
<1>. DEFINE g == f \o <<e>>
            k == Len(f)
            A == Later(f, n)
            B == Later(g, n)
<1>1. /\ k \in Nat /\ (\A i \in 1 .. k : g[i] = f[i])
      /\ DOMAIN f = 1 .. k /\ DOMAIN g = 1 .. k + 1
  BY OneMore
<1>. HIDE DEF g, k
<1>2. A \subseteq B /\ A \in SUBSET (1 .. k) /\ B \subseteq A \cup {k + 1}
  BY <1>1 DEF Later
<1>. HIDE DEF A, B
<1>3. A # {} /\ A \in SUBSET Nat
  BY <1>1, <1>2 DEF A
<1>4. Min(A) \in A /\ \A i \in A : Min(A) <= i
  BY <1>3, LeastAbove
<1>5. B # {} /\ B \in SUBSET Nat
  <2>1. k + 1 \in Nat
    BY <1>1
  <2>. DEFINE l == k + 1
  <2>. HIDE DEF l
  <2>2. B \subseteq A \cup {l} /\ l \in Nat
    BY <1>2, <2>1 DEF l
  <2>. QED
    BY <1>2, <1>3, <2>2
<1>6. Min(B) \in B /\ \A i \in B : Min(B) <= i
  BY <1>5, LeastAbove
<1>7. Min(B) = Min(A)
  <2>1. Min(B) <= Min(A) /\ Min(A) \in 1 .. k
    BY <1>2, <1>4, <1>6
  <2>2. Min(B) \in Nat /\ Min(B) # k + 1
    <3>. DEFINE b == Min(B)
                a == Min(A)
    <3>1. b \in Nat
      BY <1>5, <1>6
    <3>. HIDE DEF a, b
    <3>2. b <= a /\ a \in 1 .. k
      BY <2>1 DEF a, b
    <3>3. b # k + 1
      BY <1>1, <3>1, <3>2
    <3>. QED
      BY <3>1, <3>3 DEF b
  <2>3. Min(B) \in A
    BY <1>2, <1>6, <2>2
  <2>4. Min(A) <= Min(B)
    BY <1>4, <2>3
  <2>. QED
    BY <2>1, <2>2, <2>4
<1>8. Min(A) \in 1 .. k
  BY <1>2, <1>4
<1>9. ShownAt(g, s, Min(A)) = ShownAt(f, s, Min(A))
  <2>. DEFINE m == Min(A)
  <2>1. m \in Nat /\ \A i \in 1 .. m : i \in 1 .. k
    BY <1>1, <1>8
  <2>. HIDE DEF m
  <2>2. \A i \in 1 .. m : g[i] = f[i]
    BY <1>1, <2>1
  <2>3. ShownAt(g, s, m) = ShownAt(f, s, m)
    BY <2>1, <2>2, SameLines
  <2>. QED
    BY <2>3 DEF m
<1>10. ShownUntil(f, s, n) = ShownAt(f, s, Min(A))
  BY <1>3, UntilIsAt DEF A
<1>11. ShownUntil(g, s, n) = ShownAt(g, s, Min(B))
  BY <1>5, UntilIsAt DEF B
<1>. QED
  BY <1>7, <1>9, <1>10, <1>11 DEF g

\* Writing the pending changes tells the present, and nothing of the past anew.
LEMMA TellChanges ==
    ASSUME NEW f, NEW now \in Nat, NEW past \in Seq([Signals -> Values]),
           NEW vals \in [Signals -> Values], NEW pending \in SUBSET Signals,
           Told(f, now, past, vals, pending)
    PROVE  Told(f \o <<[changed |-> [s \in pending |-> vals[s]]]>>, now, past, vals, {})
<1>. DEFINE move == [s \in pending |-> vals[s]]
            e == [changed |-> move]
            g == f \o <<e>>
            k == Len(f)
<1>1. f \in Seq(Lines) /\ e \in [changed : Moves] /\ e \in Lines
  <2>1. move \in [pending -> Values]
    OBVIOUS
  <2>2. move \in Moves
    BY <2>1 DEF Moves
  <2>. QED
    BY <2>2 DEF Told, Lines
<1>2. e.changed = move /\ DOMAIN move = pending /\ \A s \in pending : move[s] = vals[s]
  OBVIOUS
<1>. HIDE DEF move
<1>3. "time" \notin DOMAIN e
  OBVIOUS
<1>. HIDE DEF e
<1>4. /\ g \in Seq(Lines) /\ Len(g) = k + 1 /\ k \in Nat /\ g[k + 1] = e
      /\ \A i \in 1 .. k : g[i] = f[i]
      /\ DOMAIN f = 1 .. k /\ DOMAIN g = 1 .. k + 1
  BY <1>1, OneMore
<1>5. \A s \in Signals : ShownAt(g, s, k + 1) = vals[s]
  <2>. TAKE s \in Signals
  <2>1. ShownAt(g, s, k + 1) = IF s \in pending THEN vals[s] ELSE ShownAt(f, s, k)
    BY <1>1, <1>2, MoreShown
  <2>2. s \notin pending => ShownAt(f, s, k) = vals[s]
    BY DEF Told
  <2>. QED
    BY <2>1, <2>2
<1>6. \A n \in 0 .. now - 1, s \in Signals : ShownUntil(g, s, n) = past[n + 1][s]
  <2>. TAKE n \in 0 .. now - 1, s \in Signals
  <2>1. now > 0 /\ n < now
    OBVIOUS
  <2>2. Later(f, n) # {}
    <3>1. PICK i \in DOMAIN f : "time" \in DOMAIN f[i] /\ f[i].time = now
      BY <2>1 DEF Told
    <3>2. f[i].time > n
      BY <2>1, <3>1
    <3>. QED
      BY <3>1, <3>2 DEF Later
  <2>3. ShownUntil(f, s, n) = past[n + 1][s]
    BY DEF Told
  <2>4. ShownUntil(g, s, n) = ShownUntil(f, s, n)
    BY <1>1, <2>2, MoreUntil
  <2>. QED
    BY <2>3, <2>4
<1>7. \A i \in DOMAIN g : "time" \in DOMAIN g[i] => g[i].time <= now
  <2>1. \A i \in 1 .. k : "time" \in DOMAIN f[i] => f[i].time <= now
    BY <1>4 DEF Told
  <2>2. "time" \notin DOMAIN g[k + 1]
    BY <1>3, <1>4
  <2>. HIDE DEF g, k
  <2>. QED
    BY <1>4, <2>1, <2>2
<1>8. now > 0 => \E i \in DOMAIN g : "time" \in DOMAIN g[i] /\ g[i].time = now
  <2>1. now > 0 => \E i \in 1 .. k : "time" \in DOMAIN f[i] /\ f[i].time = now
    BY <1>4 DEF Told
  <2>. HIDE DEF g, k
  <2>. QED
    BY <1>4, <2>1
<1>9. Len(past) = now
  BY DEF Told
<1>10. Told(g, now, past, vals, {})
  <2>. HIDE DEF g, k
  <2>. QED
    BY <1>4, <1>5, <1>6, <1>7, <1>8, <1>9 DEF Told
<1>. QED
  BY <1>10 DEF e, move

LEMMA TwoParts ==
    ASSUME NEW S, NEW p \in Seq(S), NEW q \in Seq(S)
    PROVE  /\ p \o q \in Seq(S) /\ Len(p \o q) = Len(p) + Len(q)
           /\ \A i \in 1 .. Len(p) : (p \o q)[i] = p[i]
           /\ \A i \in Len(p) + 1 .. Len(p) + Len(q) : (p \o q)[i] = q[i - Len(p)]
OBVIOUS

\* A new time, once the present is told, makes the present the past.
LEMMA TellTime ==
    ASSUME NEW f, NEW now \in Nat, NEW past \in Seq([Signals -> Values]),
           NEW vals \in [Signals -> Values], NEW step \in Nat,
           Told(f, now, past, vals, {})
    PROVE  Told(f \o Stamp(now + step), now + step, past \o [i \in 1 .. step |-> vals], vals, {})
<1>. DEFINE e == [time |-> now + step]
            g == f \o <<e>>
            k == Len(f)
            more == [i \in 1 .. step |-> vals]
            next == past \o more
<1>1. f \in Seq(Lines) /\ e \in [time : Nat] /\ e \in Lines
  BY DEF Told, Lines
<1>2. e.time = now + step /\ "time" \in DOMAIN e
  OBVIOUS
<1>. HIDE DEF e
<1>3. /\ g \in Seq(Lines) /\ Len(g) = k + 1 /\ k \in Nat /\ g[k + 1] = e
      /\ \A i \in 1 .. k : g[i] = f[i]
      /\ DOMAIN f = 1 .. k /\ DOMAIN g = 1 .. k + 1
  BY <1>1, OneMore
<1>4. Len(past) = now
  BY DEF Told
<1>5. /\ Len(next) = now + step
      /\ \A n \in 0 .. now - 1 : next[n + 1] = past[n + 1]
      /\ \A n \in now .. now + step - 1 : next[n + 1] = vals
  <2>1. more \in Seq([Signals -> Values]) /\ Len(more) = step
    OBVIOUS
  <2>2. \A i \in 1 .. step : more[i] = vals
    OBVIOUS
  <2>. HIDE DEF more
  <2>3. Len(next) = Len(past) + Len(more)
    BY <2>1, TwoParts
  <2>4. \A i \in 1 .. Len(past) : next[i] = past[i]
    BY <2>1, TwoParts
  <2>5. \A i \in Len(past) + 1 .. Len(past) + Len(more) : next[i] = more[i - Len(past)]
    BY <2>1, TwoParts
  <2>. HIDE DEF next
  <2>6. \A n \in 0 .. now - 1 : next[n + 1] = past[n + 1]
    BY <1>4, <2>4
  <2>7. \A n \in now .. now + step - 1 : next[n + 1] = vals
    <3>. TAKE n \in now .. now + step - 1
    <3>1. n + 1 \in now + 1 .. now + step /\ n + 1 - now \in 1 .. step
      OBVIOUS
    <3>2. next[n + 1] = more[n + 1 - now]
      BY <1>4, <2>1, <2>5, <3>1
    <3>. QED
      BY <2>2, <3>1, <3>2
  <2>. QED
    BY <1>4, <2>1, <2>3, <2>6, <2>7
<1>. HIDE DEF next
<1>6. \A s \in Signals : ShownAt(g, s, k + 1) = vals[s]
  <2>. TAKE s \in Signals
  <2>1. ShownAt(g, s, k + 1) = ShownAt(f, s, k)
    BY <1>1, MoreShown
  <2>2. ShownAt(f, s, k) = vals[s]
    BY DEF Told
  <2>. QED
    BY <2>1, <2>2
<1>7. ASSUME NEW n \in 0 .. now - 1, NEW s \in Signals
      PROVE  ShownUntil(g, s, n) = next[n + 1][s]
  <2>1. now > 0 /\ n < now
    OBVIOUS
  <2>2. Later(f, n) # {}
    <3>1. PICK i \in DOMAIN f : "time" \in DOMAIN f[i] /\ f[i].time = now
      BY <2>1 DEF Told
    <3>2. f[i].time > n
      BY <2>1, <3>1
    <3>. QED
      BY <3>1, <3>2 DEF Later
  <2>3. ShownUntil(f, s, n) = past[n + 1][s]
    BY DEF Told
  <2>4. ShownUntil(g, s, n) = ShownUntil(f, s, n)
    BY <1>1, <2>2, MoreUntil
  <2>. QED
    BY <1>5, <2>3, <2>4
<1>8. ASSUME NEW n \in now .. now + step - 1, NEW s \in Signals
      PROVE  ShownUntil(g, s, n) = next[n + 1][s]
  <2>. DEFINE B == Later(g, n)
              l == k + 1
  <2>1. \A i \in 1 .. k : "time" \in DOMAIN f[i] => f[i].time <= n
    <3>1. \A i \in 1 .. k : "time" \in DOMAIN f[i] => f[i].time <= now /\ f[i].time \in Nat
      <4>. TAKE i \in 1 .. k
      <4>1. f[i] \in Lines
        BY <1>1, <1>3
      <4>2. "time" \in DOMAIN f[i] => f[i].time \in Nat
        BY <4>1, LineKinds DEF Lines
      <4>. QED
        BY <1>3, <4>2 DEF Told
    <3>2. now <= n /\ n \in Int
      OBVIOUS
    <3>. HIDE DEF k
    <3>. QED
      BY <3>1, <3>2
  <2>2. l \in DOMAIN g /\ g[l] = e /\ e.time > n
    BY <1>2, <1>3
  <2>3. B = {l}
    <3>. DEFINE later(i) == "time" \in DOMAIN g[i] /\ g[i].time > n
    <3>1. later(l)
      BY <1>2, <2>2
    <3>2. \A i \in 1 .. k : ~ later(i)
      <4>. TAKE i \in 1 .. k
      <4>1. g[i] = f[i] /\ f[i] \in Lines
        BY <1>1, <1>3
      <4>2. "time" \in DOMAIN f[i] => f[i].time \in Nat /\ f[i].time <= n
        BY <2>1, <4>1, LineKinds DEF Lines
      <4>. HIDE DEF g, k
      <4>. QED
        BY <4>1, <4>2
    <3>3. \A i \in DOMAIN g : i = l \/ i \in 1 .. k
      <4>. HIDE DEF g, k
      <4>. QED
        BY <1>3
    <3>. HIDE DEF l
    <3>4. B = {i \in DOMAIN g : later(i)}
      BY DEF Later
    <3>. HIDE DEF later, B, g
    <3>. QED
      BY <2>2, <3>1, <3>2, <3>3, <3>4
  <2>4. Min(B) = l
    <3>1. l \in Nat
      BY <1>3
    <3>. HIDE DEF l, B
    <3>2. {l} \in SUBSET Nat /\ {l} # {}
      BY <3>1
    <3>3. Min({l}) \in {l}
      BY <3>2, LeastAbove
    <3>. QED
      BY <2>3, <3>3
  <2>5. ShownUntil(g, s, n) = ShownAt(g, s, l)
    <3>1. B # {}
      BY <2>3
    <3>2. ShownUntil(g, s, n) = ShownAt(g, s, Min(B))
      BY <3>1, UntilIsAt
    <3>. QED
      BY <2>4, <3>2
  <2>. QED
    BY <1>5, <1>6, <2>5
<1>9. \A i \in DOMAIN g : "time" \in DOMAIN g[i] => g[i].time <= now + step
  <2>1. \A i \in 1 .. k : "time" \in DOMAIN g[i] => g[i].time <= now + step
    <3>. TAKE i \in 1 .. k
    <3>1. g[i] = f[i] /\ f[i] \in Lines
      BY <1>1, <1>3
    <3>2. "time" \in DOMAIN f[i] => f[i].time \in Nat /\ f[i].time <= now
      BY <1>3, <3>1, LineKinds DEF Told, Lines
    <3>. HIDE DEF g, k
    <3>. QED
      BY <3>1, <3>2
  <2>2. g[k + 1].time <= now + step
    BY <1>2, <1>3
  <2>. HIDE DEF g, k
  <2>. QED
    BY <1>3, <2>1, <2>2
<1>10. \E i \in DOMAIN g : "time" \in DOMAIN g[i] /\ g[i].time = now + step
  <2>1. k + 1 \in DOMAIN g
    BY <1>3
  <2>. QED
    BY <1>2, <1>3, <2>1
<1>11. Told(g, now + step, next, vals, {})
  <2>1. \A n \in 0 .. now + step - 1, s \in Signals : ShownUntil(g, s, n) = next[n + 1][s]
    <3>. TAKE n \in 0 .. now + step - 1, s \in Signals
    <3>1. n \in 0 .. now - 1 \/ n \in now .. now + step - 1
      OBVIOUS
    <3>. QED
      BY <1>7, <1>8, <3>1
  <2>. HIDE DEF g, k
  <2>. QED
    BY <1>3, <1>5, <1>6, <1>9, <1>10, <2>1 DEF Told
<1>. QED
  BY <1>11 DEF e, next, Stamp

LEMMA WaveformInit == TraceInit => WaveformInv
<1>. SUFFICES ASSUME TraceInit PROVE WaveformInv
  OBVIOUS
<1>1. values \in [Signals -> Values]
  BY DEF TraceInit, Values
<1>2. <<>> \in Seq([Signals -> Values])
  OBVIOUS
<1>3. \A s \in Signals : values[s] = 0
  BY DEF TraceInit
<1>. QED
  BY <1>1, <1>2, <1>3 DEF TraceInit, WaveformInv

LEMMA AddSignalKeeps ==
    ASSUME WaveformInv, NEW s \in Signals, AddSignal(s) PROVE WaveformInv'
<1>1. /\ traceSignals' = traceSignals \cup {s} /\ closed' = closed
      /\ UNCHANGED <<values, dirty, header, traceNow, file, said, ticked>>
  BY DEF AddSignal
<1>. QED
  BY <1>1 DEF WaveformInv

\* What is told but for the pending changes may then change.
LEMMA SetSignalKeeps ==
    ASSUME WaveformInv, NEW s \in Signals, NEW v \in SignalValues, SetSignal(s, v)
    PROVE  WaveformInv'
<1>1. /\ s \in traceSignals /\ ~ closed
      /\ values' = [values EXCEPT ![s] = v]
      /\ dirty' = IF values[s] = v THEN dirty ELSE dirty \cup {s}
      /\ UNCHANGED <<traceSignals, header, traceNow, file, said, ticked, closed>>
  BY DEF SetSignal, TraceCall
<1>2. /\ traceSignals \subseteq Signals /\ dirty \subseteq traceSignals
      /\ values \in [Signals -> Values]
      /\ traceNow \in Nat /\ ticked \in Nat /\ traceNow <= ticked
      /\ said \in Seq([Signals -> Values])
      /\ ~ header => traceNow = 0 /\ said = <<>> /\ \A r \in Signals \ dirty : values[r] = 0
      /\ header => Told(file, traceNow, said, values, dirty)
  BY DEF WaveformInv
<1>3. values' \in [Signals -> Values]
  BY <1>1, <1>2 DEF Values
<1>4. dirty' \subseteq traceSignals /\ dirty \subseteq dirty'
  BY <1>1, <1>2
<1>5. \A r \in Signals \ dirty' : values'[r] = values[r] /\ r \notin dirty
  BY <1>1, <1>2
<1>6. ~ header => \A r \in Signals \ dirty' : values'[r] = 0
  BY <1>2, <1>5
<1>7. header => Told(file, traceNow, said, values', dirty')
  BY <1>2, <1>5 DEF Told
<1>. QED
  BY <1>1, <1>2, <1>3, <1>4, <1>6, <1>7 DEF WaveformInv

\* The header's lines tell time 0.
LEMMA FirstTickKeeps ==
    ASSUME WaveformInv, NEW n \in TickSteps, FirstTick(n)
    PROVE  WaveformInv'
<1>1. /\ header' = TRUE /\ ~ header /\ ~ closed
      /\ file' = <<[changed |-> [s \in traceSignals |-> 0]]>> \o Stamp(0)
      /\ ticked' = ticked + n
      /\ UNCHANGED <<traceSignals, values, dirty, traceNow, said, closed>>
  BY DEF FirstTick, TraceCall
<1>2. /\ traceSignals \subseteq Signals /\ dirty \subseteq traceSignals
      /\ values \in [Signals -> Values]
      /\ traceNow \in Nat /\ ticked \in Nat /\ traceNow <= ticked
      /\ said \in Seq([Signals -> Values])
      /\ traceNow = 0 /\ said = <<>> /\ \A s \in Signals \ dirty : values[s] = 0
  BY <1>1 DEF WaveformInv
<1>3. ticked' \in Nat /\ traceNow <= ticked'
  <2>1. n \in Nat
    BY ObservAssumption
  <2>. QED
    BY <1>1, <1>2, <2>1
<1>. DEFINE zeros == [s \in Signals |-> 0]
            first == [changed |-> [s \in traceSignals |-> zeros[s]]]
<1>4. zeros \in [Signals -> Values] /\ \A s \in Signals : zeros[s] = 0
  BY DEF Values
<1>5. first = [changed |-> [s \in traceSignals |-> 0]]
  BY <1>2
<1>. HIDE DEF zeros
<1>6. Told(<<>>, 0, <<>>, zeros, traceSignals)
  <2>1. <<>> \in Seq(Lines) /\ Len(<<>>) = 0 /\ DOMAIN <<>> = {}
    OBVIOUS
  <2>2. \A s \in Signals : ShownAt(<<>>, s, 0) = 0
    BY DEF ShownAt, Writes
  <2>3. 0 .. 0 - 1 = {}
    OBVIOUS
  <2>. QED
    BY <1>4, <2>1, <2>2, <2>3 DEF Told
<1>7. Told(<<>> \o <<first>>, 0, <<>>, zeros, {})
  <2>1. <<>> \in Seq([Signals -> Values])
    OBVIOUS
  <2>. QED
    BY <1>2, <1>4, <1>6, <2>1, TellChanges
<1>8. <<>> \o <<first>> = <<first>>
  <2>. HIDE DEF first
  <2>. QED
    OBVIOUS
<1>. HIDE DEF first
<1>9. Told(<<first>> \o Stamp(0), 0, <<>>, zeros, {})
  <2>1. Told(<<first>> \o Stamp(0 + 0), 0 + 0, <<>> \o [i \in 1 .. 0 |-> zeros], zeros, {})
    <3>1. <<>> \in Seq([Signals -> Values])
      OBVIOUS
    <3>. QED
      BY <1>4, <1>7, <1>8, <3>1, TellTime
  <2>2. 0 + 0 = 0
    OBVIOUS
  <2>3. <<>> \o [i \in 1 .. 0 |-> zeros] = <<>>
    OBVIOUS
  <2>. QED
    BY <2>1, <2>2, <2>3
<1>10. Told(file', 0, <<>>, values, dirty)
  <2>1. file' = <<first>> \o Stamp(0)
    BY <1>1, <1>5
  <2>2. \A s \in Signals \ dirty : zeros[s] = values[s]
    BY <1>2, <1>4
  <2>. QED
    BY <1>9, <2>1, <2>2 DEF Told
<1>. QED
  BY <1>1, <1>2, <1>3, <1>10 DEF WaveformInv

LEMMA LaterTickKeeps ==
    ASSUME WaveformInv, NEW n \in TickSteps, LaterTick(n)
    PROVE  WaveformInv'
<1>1. /\ header /\ ~ closed
      /\ file' = file \o Changes \o (IF n > 0 THEN Stamp(traceNow + n) ELSE <<>>)
      /\ dirty' = {}
      /\ traceNow' = traceNow + n
      /\ said' = Recall(said, traceNow, traceNow + n)
      /\ ticked' = ticked + n
      /\ UNCHANGED <<traceSignals, values, header, closed>>
  BY DEF LaterTick, TraceCall
<1>2. /\ traceSignals \subseteq Signals /\ dirty \subseteq traceSignals /\ dirty \in SUBSET Signals
      /\ values \in [Signals -> Values]
      /\ traceNow \in Nat /\ ticked \in Nat /\ traceNow <= ticked
      /\ said \in Seq([Signals -> Values])
      /\ Told(file, traceNow, said, values, dirty)
  BY <1>1 DEF WaveformInv
<1>3. n \in Nat
  BY ObservAssumption
<1>4. ticked' \in Nat /\ traceNow' \in Nat /\ traceNow' <= ticked'
  BY <1>1, <1>2, <1>3
<1>. DEFINE g == file \o Changes
            more == [i \in 1 .. n |-> values]
<1>5. Told(g, traceNow, said, values, {})
  BY <1>2, TellChanges DEF Changes
<1>6. said' = said \o more
  <2>1. (traceNow + n) - traceNow = n
    BY <1>2, <1>3
  <2>2. \A d : d = n => said \o [i \in 1 .. d |-> values] = said \o more
    OBVIOUS
  <2>3. said' = said \o [i \in 1 .. ((traceNow + n) - traceNow) |-> values]
    <3>. HIDE DEF more
    <3>. QED
      BY <1>1, Zenon DEF Recall
  <2>. HIDE DEF more
  <2>. QED
    BY <2>1, <2>2, <2>3, Zenon
<1>7. said' \in Seq([Signals -> Values])
  <2>1. more \in Seq([Signals -> Values])
    BY <1>2, <1>3
  <2>. QED
    BY <1>2, <1>6, <2>1, TwoParts
<1>8. Told(file', traceNow', said', values, {})
  <2>1. CASE n > 0
    <3>1. file' = g \o Stamp(traceNow + n)
      BY <1>1, <2>1
    <3>. HIDE DEF g
    <3>. QED
      BY <1>1, <1>2, <1>3, <1>5, <1>6, <3>1, TellTime
  <2>2. CASE n = 0
    <3>1. g \in Seq(Lines)
      BY <1>5 DEF Told
    <3>2. file' = g \o <<>>
      BY <1>1, <2>2
    <3>. HIDE DEF g
    <3>3. file' = g
      BY <3>1, <3>2
    <3>4. more = <<>>
      BY <2>2
    <3>5. said' = said
      <4>1. \A p \in Seq([Signals -> Values]) : p \o <<>> = p
        OBVIOUS
      <4>2. said' = said \o <<>>
        BY <1>6, <3>4
      <4>. QED
        BY <1>2, <4>1, <4>2
    <3>6. traceNow' = traceNow
      BY <1>1, <1>2, <2>2
    <3>. QED
      BY <1>5, <3>3, <3>5, <3>6
  <2>. QED
    BY <1>3, <2>1, <2>2
<1>. QED
  BY <1>1, <1>2, <1>4, <1>7, <1>8 DEF WaveformInv

LEMMA TraceCloseKeeps ==
    ASSUME WaveformInv, TraceClose PROVE WaveformInv'
<1>1. /\ closed' = TRUE
      /\ file' = IF header THEN file \o Changes \o Stamp(traceNow) ELSE file
      /\ dirty' = IF header THEN {} ELSE dirty
      /\ UNCHANGED <<traceSignals, values, header, traceNow, said, ticked>>
  BY DEF TraceClose
<1>2. CASE ~ header
  BY <1>1, <1>2 DEF WaveformInv
<1>3. CASE header
  <2>1. /\ dirty \in SUBSET Signals /\ values \in [Signals -> Values]
        /\ traceNow \in Nat /\ said \in Seq([Signals -> Values])
        /\ Told(file, traceNow, said, values, dirty)
    BY <1>3 DEF WaveformInv
  <2>. DEFINE g == file \o Changes
  <2>2. Told(g, traceNow, said, values, {})
    BY <2>1, TellChanges DEF Changes
  <2>3. file' = g \o Stamp(traceNow)
    BY <1>1, <1>3
  <2>. HIDE DEF g
  <2>4. Told(g \o Stamp(traceNow + 0), traceNow + 0, said \o [i \in 1 .. 0 |-> values], values, {})
    BY <2>1, <2>2, TellTime
  <2>5. traceNow + 0 = traceNow /\ said \o [i \in 1 .. 0 |-> values] = said
    BY <2>1
  <2>6. Told(file', traceNow, said, values, {})
    BY <2>3, <2>4, <2>5
  <2>. QED
    BY <1>1, <1>3, <2>6 DEF WaveformInv
<1>. QED
  BY <1>2, <1>3

LEMMA TraceKeeps ==
    ASSUME WaveformInv, [TraceNext]_traceVars PROVE WaveformInv'
<1>1. CASE TraceNext
  BY <1>1, AddSignalKeeps, SetSignalKeeps, FirstTickKeeps, LaterTickKeeps, TraceCloseKeeps
     DEF TraceNext
<1>2. CASE UNCHANGED traceVars
  BY <1>2 DEF traceVars, WaveformInv
<1>. QED
  BY <1>1, <1>2

\* A reader who sees no later time sees the end of the file.
LEMMA WaveformShows == WaveformInv => WaveformIsHistory
<1>. SUFFICES ASSUME WaveformInv PROVE WaveformIsHistory
  OBVIOUS
<1>1. traceNow \in Nat /\ header => Told(file, traceNow, said, values, dirty)
  BY DEF WaveformInv
<1>2. ASSUME NEW n \in 0 .. (traceNow - 1), NEW s \in Signals
      PROVE  ShownUntil(file, s, n) = said[n + 1][s]
  <2>1. header
    BY DEF WaveformInv
  <2>. QED
    BY <1>1, <2>1 DEF Told, WaveformInv
<1>3. ASSUME closed, header, NEW s \in Signals
      PROVE  ShownUntil(file, s, traceNow) = values[s]
  <2>1. Told(file, traceNow, said, values, {}) /\ traceNow \in Nat
    BY <1>3 DEF WaveformInv
  <2>2. Later(file, traceNow) = {}
    <3>1. \A i \in DOMAIN file : "time" \in DOMAIN file[i] =>
             file[i].time \in Nat /\ file[i].time <= traceNow
      <4>. TAKE i \in DOMAIN file
      <4>1. file[i] \in Lines
        BY <2>1 DEF Told
      <4>. QED
        BY <2>1, <4>1, LineKinds DEF Told, Lines
    <3>2. \A i \in DOMAIN file : ~ ("time" \in DOMAIN file[i] /\ file[i].time > traceNow)
      BY <2>1, <3>1
    <3>. QED
      BY <3>2 DEF Later
  <2>3. ShownUntil(file, s, traceNow) = ShownAt(file, s, Len(file))
    BY <2>2, UntilIsAt
  <2>. QED
    BY <2>1, <2>3 DEF Told
<1>. QED
  BY <1>2, <1>3 DEF WaveformIsHistory

-----------------------------------------------------------------------------
(* Whatever the callers of the tracer and the debugger do, the waveform      *)
(* replays the signals, with the values they had at every time the trace has *)
(* left, and a recording, also one saved and loaded, is an unbroken chain of *)
(* checksums (perf/event_trace.c, infra/tu_debug.c).                         *)
THEOREM ObserversTellTheTruth == ObservSpec => []RecordsFaithful
<1>1. TraceInit /\ DebugInit => WaveformInv /\ RecordingInv
  BY WaveformInit, RecordingInit
<1>2. WaveformInv /\ RecordingInv /\ [ObservNext]_observVars => WaveformInv' /\ RecordingInv'
  <2>. SUFFICES ASSUME WaveformInv, RecordingInv, [ObservNext]_observVars
                PROVE  WaveformInv' /\ RecordingInv'
    OBVIOUS
  <2>1. [TraceNext]_traceVars /\ [DebugNext]_debugVars
    BY DEF ObservNext, observVars
  <2>. QED
    BY <2>1, TraceKeeps, DebugKeeps
<1>3. WaveformInv /\ RecordingInv => RecordsFaithful
  <2>1. RecordingInv => RecordingChains
    BY DEF RecordingInv, RecordingChains, Chained
  <2>2. WaveformInv /\ RecordingInv => ObservTypeOK
    BY DEF WaveformInv, RecordingInv, ObservTypeOK
  <2>. QED
    BY <2>1, <2>2, WaveformShows DEF RecordsFaithful
<1>. QED
  BY <1>1, <1>2, <1>3, PTL DEF ObservSpec


-----------------------------------------------------------------------------
\* Numbers below each of which there are few of them are few.
LEMMA FewBelow ==
    ASSUME NEW S, S \in SUBSET Nat, NEW N \in Nat, \A x \in S : x <= N, NEW M \in Nat,
           \A x \in S : Cardinality({y \in S : y < x}) < M
    PROVE  IsFiniteSet(S) /\ Cardinality(S) <= M
<1>1. IsFiniteSet(S)
  <2>1. IsFiniteSet(0 .. N)
    <3>1. 0 \in Int /\ N \in Int
      OBVIOUS
    <3>. QED
      BY ONLY <3>1, FS_Interval
  <2>2. S \subseteq 0 .. N
    OBVIOUS
  <2>. QED
    BY <2>1, <2>2, FS_Subset
<1>2. CASE S = {}
  BY <1>1, <1>2, FS_EmptySet
<1>3. CASE S # {}
  <2>. DEFINE m == Max(S)
              L == {y \in S : y < m}
  <2>1. m \in S /\ \A y \in S : y <= m
    <3>1. S \in SUBSET Int /\ 0 \in Int /\ N \in Int /\ \A x \in S : 0 <= x /\ x <= N
      OBVIOUS
    <3>. QED
      BY ONLY <1>3, <3>1, GreatestMember
  <2>. HIDE DEF m
  <2>2. L = S \ {m}
    <3>1. m \in Int /\ \A y \in S : y \in Int /\ y <= m
      BY <2>1
    <3>2. \A y \in S : y < m <=> y # m
      BY ONLY <3>1
    <3>. QED
      BY <3>2
  <2>3. Cardinality(S \ {m}) = Cardinality(S) - 1 /\ Cardinality(S) \in Nat
    BY <1>1, <2>1, FS_RemoveElement, FS_CardinalityType
  <2>4. Cardinality(L) < M
    BY <2>1
  <2>. QED
    BY <1>1, <2>2, <2>3, <2>4
<1>. QED
  BY <1>2, <1>3

-----------------------------------------------------------------------------
(* The dependency graph.                                                    *)

\* What a program and the scheduler's limits are.
LEMMA ProgramType ==
    ASSUME program \in UNION {[1 .. n -> Instructions] : n \in 1 .. MaxProgram}
    PROVE  /\ Len(program) \in 1 .. MaxProgram /\ Nodes = 1 .. Len(program)
           /\ Len(program) \in Nat /\ MaxProgram \in Nat /\ MaxDeps \in Nat
           /\ \A i \in Nodes : program[i] \in SchedInstruction
<1>1. PICK n \in 1 .. MaxProgram : program \in [1 .. n -> Instructions]
  OBVIOUS
<1>2. n \in Nat /\ MaxProgram \in Nat /\ MaxDeps \in Nat /\ Instructions \subseteq SchedInstruction
  BY SchedulerAssumption
<1>3. program \in Seq(Instructions)
  BY <1>1, <1>2, SeqDef
<1>4. Len(program) = n
  <2>1. DOMAIN program = 1 .. Len(program) /\ Len(program) \in Nat
    BY <1>3, LenProperties
  <2>2. 1 .. Len(program) = 1 .. n
    BY <1>1, <2>1
  <2>3. \A a, b \in Nat : 1 .. a = 1 .. b => a = b
    OBVIOUS
  <2>. QED
    BY ONLY <1>2, <2>1, <2>2, <2>3
<1>. QED
  BY <1>1, <1>2, <1>4 DEF Nodes

\* What the graph adds for an instruction, consumer by consumer.
AddsEdges(f) ==
    f = [i \in 0 .. MaxProgram |->
            IF i = 0 THEN {} ELSE f[i - 1] \cup {<<j, i>> : j \in Kept(f[i - 1], i)}]

\* The definition of EdgesUpTo, unfolded.
LEMMA EdgesUnfold == EdgesUpTo = CHOOSE f : AddsEdges(f)
BY DEF EdgesUpTo, AddsEdges

\* EdgesUpTo exists: tu_sched_build_dag adds the edges of one consumer after the other.
LEMMA EdgesStep ==
    /\ EdgesUpTo[0] = {}
    /\ \A i \in 1 .. MaxProgram :
          EdgesUpTo[i] = EdgesUpTo[i - 1] \cup {<<j, i>> : j \in Kept(EdgesUpTo[i - 1], i)}
<1>. DEFINE M == MaxProgram
            D == 0 .. M
            V == SUBSET ((1 .. M) \X (1 .. M))
            new(f, i) == IF i = 0 THEN {} ELSE f[i - 1] \cup {<<j, i>> : j \in Kept(f[i - 1], i)}
            rank == [i \in D |-> i]
            G == [i \in D |-> [f \in [D -> V] |-> new(f, i)]]
<1>1. M \in Nat
  BY SchedulerAssumption
<1>2. \A i \in D : i # 0 => i - 1 \in D /\ i \in 1 .. M
  BY <1>1
<1>3. \A b : \A i \in 1 .. M : Kept(b, i) \subseteq 1 .. M
  BY <1>1 DEF Kept, Producers
<1>4. \A i \in D : \A f \in [D -> V] : new(f, i) \in V
  <2>. TAKE i \in D
  <2>. TAKE f \in [D -> V]
  <2>1. CASE i = 0
    BY <2>1
  <2>2. CASE i # 0
    <3>1. f[i - 1] \in V /\ i \in 1 .. M
      BY <1>2, <2>2
    <3>2. Kept(f[i - 1], i) \subseteq 1 .. M
      BY <1>3, <3>1
    <3>3. {<<j, i>> : j \in Kept(f[i - 1], i)} \in V
      BY <3>1, <3>2
    <3>. QED
      BY <2>2, <3>1, <3>3
  <2>. QED
    BY <2>1, <2>2
<1>. HIDE DEF V
<1>5. G \in [D -> [[D -> V] -> V]] /\ rank \in [D -> 0 .. M]
  BY <1>4
<1>6. \A i \in D : \A f, g \in [D -> V] :
         (\A j \in D : rank[j] < rank[i] => f[j] = g[j]) => G[i][f] = G[i][g]
  <2>. TAKE i \in D
  <2>. TAKE f, g \in [D -> V]
  <2>. HAVE \A j \in D : rank[j] < rank[i] => f[j] = g[j]
  <2>1. G[i][f] = new(f, i) /\ G[i][g] = new(g, i)
    OBVIOUS
  <2>2. CASE i = 0
    BY <2>1, <2>2
  <2>3. CASE i # 0
    <3>1. i - 1 \in D /\ rank[i - 1] < rank[i]
      <4>1. i - 1 \in D /\ i - 1 < i
        BY <1>1, <1>2, <2>3
      <4>. QED
        BY <4>1
    <3>2. f[i - 1] = g[i - 1]
      BY <3>1
    <3>3. new(f, i) = new(g, i)
      BY <3>2
    <3>. QED
      BY <2>1, <3>3
  <2>. QED
    BY <2>2, <2>3
<1>7. {} \in V
  BY DEF V
<1>. HIDE DEF G, rank, new, D, M
<1>8. Causal(D, V, rank, G)
  BY <1>6 DEF Causal
<1>. PICK f \in [D -> V] : \A i \in D : f[i] = G[i][f]
  <2>1. Solvable(D, V, G)
    BY ONLY <1>1, <1>5, <1>7, <1>8, BoundedRecursion
  <2>. QED
    BY <2>1 DEF Solvable
<1>9. \A i \in D : f[i] = new(f, i)
  BY DEF G
<1>10. AddsEdges(f)
  BY <1>9 DEF AddsEdges, new, D, M
<1>11. AddsEdges(EdgesUpTo)
  BY <1>10, EdgesUnfold
<1>. DEFINE E == EdgesUpTo
<1>12. \A i \in D : E[i] = new(E, i)
  BY <1>11 DEF AddsEdges, new, D, M
<1>13. 0 \in D /\ \A i \in 1 .. M : i \in D /\ i # 0
  BY <1>1 DEF D
<1>14. E[0] = new(E, 0)
  BY <1>12, <1>13
<1>15. \A i \in 1 .. M : E[i] = new(E, i) /\ i # 0
  BY <1>12, <1>13
<1>. QED
  BY <1>14, <1>15 DEF new, M

\* A graph whose edges come from producers, few from each and few to each.
Bounded(E, n) ==
    /\ \A e \in E : /\ e = <<e[1], e[2]>> /\ e[2] \in 1 .. n
                    /\ e[1] \in Producers(e[2])
    /\ IsFiniteSet(E)
    /\ \A j : Cardinality({e \in E : e[1] = j}) <= MaxDeps
    /\ \A i : Cardinality({e \in E : e[2] = i}) <= MaxDeps

\* A producer stands before its consumer.
LEMMA ProducersBefore ==
    \A i \in Nat : Producers(i) \in SUBSET (1 .. i - 1) /\ Producers(i) \in SUBSET Nat
BY DEF Producers

\* One more consumer keeps the graph bounded.
LEMMA BoundedGrows ==
    ASSUME NEW n \in Nat \ {0}, NEW E, Bounded(E, n - 1), MaxDeps \in Nat
    PROVE  Bounded(E \cup {<<j, n>> : j \in Kept(E, n)}, n)
<1>. DEFINE K == Kept(E, n)
            A == {<<j, n>> : j \in K}
            F == E \cup A
            open == {j \in Producers(n) : Cardinality({e \in E : e[1] = j}) < MaxDeps}
<1>1. K \subseteq Producers(n) /\ Producers(n) \in SUBSET (1 .. n - 1) /\ n - 1 \in Nat
  BY ProducersBefore DEF Kept
<1>2. \A j \in K : Cardinality({e \in E : e[1] = j}) < MaxDeps
  BY DEF Kept
<1>3. IsFiniteSet(K) /\ Cardinality(K) <= MaxDeps
  <2>0. open \in SUBSET (1 .. n - 1) /\ K \in SUBSET open
    BY <1>1 DEF Kept
  <2>1. \A x \in K : Cardinality({y \in K : y < x}) < MaxDeps
    <3>. TAKE x \in K
    <3>1. Cardinality({l \in open : l < x}) < MaxDeps
      BY DEF Kept
    <3>2. {y \in K : y < x} \subseteq {l \in open : l < x}
      BY <2>0
    <3>3. IsFiniteSet({l \in open : l < x})
      <4>1. IsFiniteSet(1 .. n - 1)
        <5>1. 1 \in Int /\ n - 1 \in Int
          BY <1>1
        <5>. QED
          BY ONLY <5>1, FS_Interval
      <4>2. {l \in open : l < x} \subseteq 1 .. n - 1
        BY <2>0
      <4>. QED
        BY <4>1, <4>2, FS_Subset
    <3>. HIDE DEF open, K
    <3>4. Cardinality({y \in K : y < x}) <= Cardinality({l \in open : l < x})
      BY <3>2, <3>3, FS_Subset
    <3>5. /\ Cardinality({y \in K : y < x}) \in Nat /\ Cardinality({l \in open : l < x}) \in Nat
      BY <3>2, <3>3, FS_Subset, FS_CardinalityType
    <3>. QED
      BY <3>1, <3>4, <3>5
  <2>2. K \in SUBSET Nat /\ \A x \in K : x <= n - 1
    BY <1>1
  <2>. HIDE DEF K
  <2>. QED
    BY ONLY <1>1, <2>1, <2>2, MaxDeps \in Nat, FewBelow
<1>. HIDE DEF K
<1>4. IsFiniteSet(A) /\ Cardinality(A) <= Cardinality(K)
  <2>. DEFINE f == [j \in K |-> <<j, n>>]
  <2>1. A = {f[j] : j \in K}
    OBVIOUS
  <2>2. f \in Surjection(K, A)
    BY <2>1 DEF Surjection
  <2>. HIDE DEF f, A
  <2>. QED
    BY <1>3, <2>2, FS_Surjection
<1>5. Cardinality(A) <= MaxDeps /\ Cardinality(A) \in Nat
  BY <1>3, <1>4, FS_CardinalityType
<1>6. IsFiniteSet(F)
  BY <1>4, FS_Union DEF Bounded
<1>7. \A e \in F : e = <<e[1], e[2]>> /\ e[2] \in 1 .. n /\ e[1] \in Producers(e[2])
  <2>1. \A e \in E : e = <<e[1], e[2]>> /\ e[2] \in 1 .. n /\ e[1] \in Producers(e[2])
    BY DEF Bounded
  <2>2. \A e \in A : e = <<e[1], e[2]>> /\ e[2] = n /\ e[1] \in Producers(n)
    BY <1>1
  <2>. QED
    BY <2>1, <2>2
<1>8. ASSUME NEW i PROVE Cardinality({e \in F : e[2] = i}) <= MaxDeps
  <2>1. CASE i = n
    <3>1. {e \in F : e[2] = i} = A
      <4>1. \A e \in E : e[2] # n
        BY DEF Bounded
      <4>2. \A e \in A : e[2] = n
        OBVIOUS
      <4>. QED
        BY <2>1, <4>1, <4>2
    <3>. QED
      BY <1>5, <3>1
  <2>2. CASE i # n
    <3>1. {e \in F : e[2] = i} = {e \in E : e[2] = i}
      <4>1. \A e \in A : e[2] = n
        OBVIOUS
      <4>. QED
        BY <2>2, <4>1
    <3>. QED
      BY <3>1 DEF Bounded
  <2>. QED
    BY <2>1, <2>2
<1>9. ASSUME NEW j PROVE Cardinality({e \in F : e[1] = j}) <= MaxDeps
  <2>. DEFINE B == {e \in E : e[1] = j}
  <2>1. IsFiniteSet(B) /\ Cardinality(B) <= MaxDeps /\ Cardinality(B) \in Nat
    BY FS_Subset, FS_CardinalityType DEF Bounded
  <2>2. CASE j \in K
    <3>1. {e \in F : e[1] = j} = B \cup {<<j, n>>}
      <4>1. \A e \in A : e[1] = j <=> e = <<j, n>>
        OBVIOUS
      <4>2. <<j, n>> \in A /\ <<j, n>>[1] = j
        BY <2>2
      <4>. HIDE DEF A
      <4>. QED
        BY <4>1, <4>2
    <3>2. Cardinality(B) < MaxDeps
      BY <1>2, <2>2
    <3>. HIDE DEF B
    <3>3. Cardinality(B \cup {<<j, n>>}) <= Cardinality(B) + 1
      <4>1. Cardinality(B \cup {<<j, n>>}) = Cardinality(B)
           \/ Cardinality(B \cup {<<j, n>>}) = Cardinality(B) + 1
        BY <2>1, FS_AddElement
      <4>. QED
        BY <2>1, <4>1
    <3>4. Cardinality(B \cup {<<j, n>>}) \in Nat
      BY <2>1, FS_AddElement, FS_CardinalityType
    <3>. QED
      BY <2>1, <3>1, <3>2, <3>3, <3>4
  <2>3. CASE j \notin K
    <3>1. {e \in F : e[1] = j} = B
      <4>1. \A e \in A : e[1] # j
        BY <2>3
      <4>. QED
        BY <4>1
    <3>. QED
      BY <2>1, <3>1
  <2>. QED
    BY <2>2, <2>3
<1>. HIDE DEF F
<1>10. Bounded(F, n)
  BY <1>6, <1>7, <1>8, <1>9 DEF Bounded
<1>. QED
  BY <1>10 DEF F, A, K

\* tu_sched_build_dag keeps its caps, whatever the program.
LEMMA EdgesBounded == \A n \in 0 .. MaxProgram : Bounded(EdgesUpTo[n], n)
<1>. DEFINE T == {n \in Nat : n <= MaxProgram => Bounded(EdgesUpTo[n], n)}
<1>0. MaxProgram \in Nat /\ MaxDeps \in Nat
  BY SchedulerAssumption
<1>1. 0 \in T
  <2>1. Bounded({}, 0)
    <3>1. Cardinality({}) = 0 /\ IsFiniteSet({})
      BY FS_EmptySet
    <3>. QED
      BY <1>0, <3>1 DEF Bounded
  <2>. QED
    BY <2>1, EdgesStep
<1>2. ASSUME NEW n \in T PROVE n + 1 \in T
  <2>1. n + 1 \in Nat \ {0} /\ (n + 1) - 1 = n
    OBVIOUS
  <2>2. ASSUME n + 1 <= MaxProgram PROVE Bounded(EdgesUpTo[n + 1], n + 1)
    <3>1. Bounded(EdgesUpTo[n], n)
      BY <1>0, <2>2
    <3>2. n + 1 \in 1 .. MaxProgram
      BY <1>0, <2>2
    <3>3. EdgesUpTo[n + 1] = EdgesUpTo[n] \cup {<<j, n + 1>> : j \in Kept(EdgesUpTo[n], n + 1)}
      BY <2>1, <3>2, EdgesStep
    <3>. DEFINE m == n + 1
                E == EdgesUpTo[n]
    <3>4. m \in Nat \ {0} /\ m - 1 = n
      BY <2>1
    <3>. HIDE DEF m, E
    <3>5. Bounded(E \cup {<<j, m>> : j \in Kept(E, m)}, m)
      BY <1>0, <3>1, <3>4, BoundedGrows DEF E
    <3>. QED
      BY <3>3, <3>5 DEF m, E
  <2>. QED
    BY <2>1, <2>2
<1>. HIDE DEF T
<1>3. T = Nat
  <2>1. T \in SUBSET Nat
    BY DEF T
  <2>. QED
    BY <1>1, <1>2, <2>1, InductionOnNaturals
<1>. QED
  BY <1>0, <1>3 DEF T

-----------------------------------------------------------------------------
(* Mobility.                                                                *)

\* Edges go forward, between instructions of the program.
Forward == \A e \in edges : e = <<e[1], e[2]>> /\ e[1] \in Nodes /\ e[2] \in Nodes /\ e[1] < e[2]
\* A program within its bound.
Sized == MaxProgram \in Nat /\ Len(program) \in 1 .. MaxProgram /\ Nodes = 1 .. Len(program)

\* Predecessors and successors are the two readings of the edges.
LEMMA Neighbours ==
    ASSUME Sized, Forward
    PROVE  /\ \A i : Preds(i) = {j \in Nodes : <<j, i>> \in edges}
           /\ \A i : Succs(i) = {j \in Nodes : <<i, j>> \in edges}
           /\ \A i : \A j \in Preds(i) : j \in Nodes /\ i \in Nodes /\ j < i /\ i \in Succs(j)
           /\ \A i : \A j \in Succs(i) : j \in Nodes /\ i \in Nodes /\ i < j /\ i \in Preds(j)
<1>1. \A i : Preds(i) = {j \in Nodes : <<j, i>> \in edges}
  <2>. TAKE i
  <2>1. \A j \in Preds(i) : j \in Nodes /\ <<j, i>> \in edges
    BY DEF Preds, Forward
  <2>2. \A j : <<j, i>> \in edges => j \in Preds(i)
    <3>. TAKE j
    <3>. HAVE <<j, i>> \in edges
    <3>1. <<j, i>>[1] = j /\ <<j, i>>[2] = i
      OBVIOUS
    <3>. QED
      BY <3>1 DEF Preds
  <2>. QED
    BY <2>1, <2>2
<1>2. \A i : Succs(i) = {j \in Nodes : <<i, j>> \in edges}
  <2>. TAKE i
  <2>1. \A j \in Succs(i) : j \in Nodes /\ <<i, j>> \in edges
    BY DEF Succs, Forward
  <2>2. \A j : <<i, j>> \in edges => j \in Succs(i)
    <3>. TAKE j
    <3>. HAVE <<i, j>> \in edges
    <3>1. <<i, j>>[1] = i /\ <<i, j>>[2] = j
      OBVIOUS
    <3>. QED
      BY <3>1 DEF Succs
  <2>. QED
    BY <2>1, <2>2
<1>3. \A i, j : <<i, j>> \in edges => i \in Nodes /\ j \in Nodes /\ i < j
  <2>. TAKE i, j
  <2>. HAVE <<i, j>> \in edges
  <2>1. <<i, j>>[1] = i /\ <<i, j>>[2] = j
    OBVIOUS
  <2>. QED
    BY <2>1 DEF Forward
<1>. QED
  BY <1>1, <1>2, <1>3

\* An instruction takes one cycle or four.
LEMMA LatencyType == \A i : Latency(i) \in {1, 4}
BY DEF Latency

\* What the earliest cycle of an instruction must be, given those of others.
AsapOf(f, i) == IF Preds(i) = {} THEN 0 ELSE Max({f[j] + Latency(j) : j \in Preds(i)})

\* The definition of Asap, unfolded.
LEMMA AsapUnfolds == Asap = CHOOSE f : f = [i \in 1 .. MaxProgram |-> AsapOf(f, i)]
BY DEF Asap, AsapOf

\* A bounded maximum over some instructions.
Extremes(P, f) ==
    LET S == {f[j] : j \in P}
    IN  /\ Max(S) \in Int /\ Min(S) \in Int
        /\ \A j \in P : f[j] <= Max(S) /\ Min(S) <= f[j]
        /\ \E j \in P : Max(S) = f[j]
        /\ \E j \in P : Min(S) = f[j]

\* Finitely many values have a largest and a smallest.
LEMMA MaxOver ==
    \A P, f : Sized /\ P \in SUBSET Nodes /\ P # {} /\ (\A j \in P : f[j] \in Int) => Extremes(P, f)
<1>. TAKE P, f
<1>. HAVE Sized /\ P \in SUBSET Nodes /\ P # {} /\ (\A j \in P : f[j] \in Int)
<1>. DEFINE S == {f[j] : j \in P}
<1>1. IsFiniteSet(P)
  <2>1. 1 \in Int /\ Len(program) \in Int
    BY DEF Sized
  <2>2. IsFiniteSet(1 .. Len(program))
    BY ONLY <2>1, FS_Interval
  <2>. QED
    BY <2>2, FS_Subset DEF Sized
<1>2. IsFiniteSet(S)
  <2>. DEFINE g == [j \in P |-> f[j]]
  <2>1. g \in Surjection(P, S)
    <3>1. S = {g[j] : j \in P}
      OBVIOUS
    <3>. QED
      BY <3>1 DEF Surjection
  <2>. HIDE DEF g, S
  <2>. QED
    BY <1>1, <2>1, FS_Surjection
<1>3. S \in SUBSET Int /\ S # {}
  OBVIOUS
<1>. HIDE DEF S
<1>4. \E a, b \in Int : \A x \in S : a <= x /\ x <= b
  BY <1>2, <1>3, FiniteBounds
<1>5. PICK a \in Int, b \in Int : \A x \in S : a <= x /\ x <= b
  BY <1>4
<1>6. Max(S) \in S /\ Max(S) \in Int /\ \A y \in S : y <= Max(S)
  BY <1>3, <1>5, GreatestMember
<1>7. Min(S) \in S /\ Min(S) \in Int /\ \A y \in S : Min(S) <= y
  BY <1>3, <1>5, LeastMember
<1>8. \A j \in P : f[j] \in S
  BY DEF S
<1>9. \A x \in S : \E j \in P : x = f[j]
  BY DEF S
<1>. QED
  BY <1>6, <1>7, <1>8, <1>9 DEF S, Extremes

\* Asap exists, for every forward graph: the forward pass of tu_sched_compute_mobility.
LEMMA AsapStep ==
    ASSUME Sized, Forward
    PROVE  \A i \in 1 .. MaxProgram : Asap[i] = AsapOf(Asap, i) /\ Asap[i] \in Nat
<1>. DEFINE M == MaxProgram
            D == 1 .. M
            V == Nat
            rank == [i \in D |-> i]
            G == [i \in D |-> [f \in [D -> V] |-> AsapOf(f, i)]]
<1>1. M \in Nat /\ Nodes \subseteq D /\ Nodes \subseteq Nat
  BY DEF Sized
<1>2. \A f, i : (\A j \in Preds(i) : f[j] \in Nat) => AsapOf(f, i) \in Nat
  <2>. TAKE f, i
  <2>. HAVE \A j \in Preds(i) : f[j] \in Nat
  <2>1. CASE Preds(i) = {}
    BY <2>1 DEF AsapOf
  <2>2. CASE Preds(i) # {}
    <3>. DEFINE g == [j \in Preds(i) |-> f[j] + Latency(j)]
                P == Preds(i)
    <3>1. \A j \in P : g[j] \in Nat
      BY LatencyType
    <3>2. {f[j] + Latency(j) : j \in P} = {g[j] : j \in P}
      OBVIOUS
    <3>3. P \in SUBSET Nodes /\ P # {}
      BY <2>2, Neighbours
    <3>. HIDE DEF g, P
    <3>4. \E j \in P : Max({g[k] : k \in P}) = g[j]
      <4>1. \A j \in P : g[j] \in Int
        BY <3>1
      <4>2. Extremes(P, g)
        BY <3>3, <4>1, MaxOver
      <4>. QED
        BY <4>2 DEF Extremes
    <3>5. AsapOf(f, i) = Max({g[j] : j \in P})
      BY <2>2, <3>2 DEF AsapOf, P
    <3>. QED
      BY <3>1, <3>4, <3>5
  <2>. QED
    BY <2>1, <2>2
<1>3. \A i : \A j \in Preds(i) : j \in D /\ j < i
  BY <1>1, Neighbours
<1>4. G \in [D -> [[D -> V] -> V]] /\ rank \in [D -> 0 .. M]
  <2>1. \A i \in D : \A f \in [D -> V] : AsapOf(f, i) \in V
    BY <1>2, <1>3
  <2>2. rank \in [D -> 0 .. M]
    BY <1>1
  <2>. QED
    BY <2>1, <2>2
<1>5. Causal(D, V, rank, G)
  <2>1. \A i \in D : \A f, g \in [D -> V] :
           (\A j \in D : rank[j] < rank[i] => f[j] = g[j]) => G[i][f] = G[i][g]
    <3>. TAKE i \in D
    <3>. TAKE f, g \in [D -> V]
    <3>. HAVE \A j \in D : rank[j] < rank[i] => f[j] = g[j]
    <3>1. G[i][f] = AsapOf(f, i) /\ G[i][g] = AsapOf(g, i)
      OBVIOUS
    <3>2. \A j \in Preds(i) : f[j] = g[j]
      BY <1>3
    <3>3. {f[j] + Latency(j) : j \in Preds(i)} = {g[j] + Latency(j) : j \in Preds(i)}
      BY <3>2
    <3>. QED
      BY <3>1, <3>3 DEF AsapOf
  <2>. HIDE DEF G, rank, D, V
  <2>. QED
    BY <2>1 DEF Causal
<1>6. 0 \in V
  OBVIOUS
<1>. HIDE DEF G, rank, D, V, M
<1>. PICK f \in [D -> V] : \A i \in D : f[i] = G[i][f]
  <2>1. Solvable(D, V, G)
    BY ONLY <1>1, <1>4, <1>5, <1>6, BoundedRecursion
  <2>. QED
    BY <2>1 DEF Solvable
<1>7. \A i \in D : f[i] = AsapOf(f, i)
  BY DEF G
<1>8. f = [i \in D |-> AsapOf(f, i)]
  BY <1>7
<1>9. Asap = [i \in D |-> AsapOf(Asap, i)]
  BY <1>8, AsapUnfolds DEF D, M
<1>10. \A i \in D : Asap[i] = AsapOf(Asap, i)
  BY <1>9
<1>. DEFINE Bad == {i \in D : Asap[i] \notin Nat}
<1>11. Bad = {}
  <2>. SUFFICES ASSUME Bad # {} PROVE FALSE
    OBVIOUS
  <2>1. Bad \in SUBSET Nat
    BY DEF D
  <2>2. PICK i \in Bad : \A k \in Bad : i <= k
    BY <2>1, LeastNatural
  <2>3. \A j \in Preds(i) : Asap[j] \in Nat
    <3>. TAKE j \in Preds(i)
    <3>1. j \in D /\ j < i
      BY <1>3
    <3>2. i \in Nat /\ j \in Nat
      BY <2>1, <3>1 DEF D
    <3>3. j \notin Bad
      BY <2>2, <3>1, <3>2
    <3>. QED
      BY <3>1, <3>3
  <2>. QED
    BY <1>2, <1>10, <2>3
<1>. QED
  BY <1>10, <1>11 DEF D, M

\* What the latest cycle of an instruction may be, given those of others.
AlapOf(f, i) ==
    IF Succs(i) = {} THEN LastAsap
    ELSE Max({Asap[i], Min({f[j] - Latency(i) : j \in Succs(i)})})

\* The definition of Alap, unfolded.
LEMMA AlapUnfolds == Alap = CHOOSE f : f = [i \in 1 .. MaxProgram |-> AlapOf(f, i)]
BY DEF Alap, AlapOf

\* The larger of two numbers.
LEMMA LargerOf == \A a, b \in Int : Max({a, b}) \in Int /\ a <= Max({a, b}) /\ b <= Max({a, b})
                                    /\ Max({a, b}) \in {a, b}
<1>. TAKE a, b \in Int
<1>1. \E x \in {a, b} : \A y \in {a, b} : x >= y
  OBVIOUS
<1>2. Max({a, b}) \in {a, b} /\ \A y \in {a, b} : Max({a, b}) >= y
  BY <1>1 DEF Max
<1>. QED
  BY <1>2

\* The last cycle of the forward pass is a number.
LEMMA LastAsapType ==
    ASSUME Sized, Forward
    PROVE  LastAsap \in Nat /\ \A i \in Nodes : Asap[i] <= LastAsap
<1>1. \A i \in Nodes : Asap[i] \in Nat /\ Asap[i] \in Int
  BY AsapStep DEF Sized
<1>2. Nodes \in SUBSET Nodes /\ Nodes # {}
  BY DEF Sized
<1>. DEFINE f == Asap
            P == Nodes
<1>3. Extremes(P, f)
  <2>1. \A j \in P : f[j] \in Int
    BY <1>1
  <2>. HIDE DEF f, P
  <2>2. P \in SUBSET Nodes /\ P # {}
    BY <1>2 DEF P
  <2>. QED
    BY <2>1, <2>2, MaxOver
<1>4. /\ \A j \in Nodes : Asap[j] <= Max({Asap[k] : k \in Nodes})
      /\ \E j \in Nodes : Max({Asap[k] : k \in Nodes}) = Asap[j]
  BY <1>3 DEF Extremes
<1>. QED
  BY <1>1, <1>4 DEF LastAsap

\* The least of what consumers allow.
LEMMA LeastAllowed ==
    \A f, i : Sized /\ Forward /\ Succs(i) # {} /\ (\A j \in Succs(i) : f[j] \in Int) =>
        LET m == Min({f[j] - Latency(i) : j \in Succs(i)})
        IN  m \in Int /\ \A j \in Succs(i) : m + Latency(i) <= f[j]
<1>. TAKE f, i
<1>. HAVE Sized /\ Forward /\ Succs(i) # {} /\ (\A j \in Succs(i) : f[j] \in Int)
<1>. DEFINE P == Succs(i)
            l == Latency(i)
            g == [j \in P |-> f[j] - l]
<1>1. l \in Int /\ P \in SUBSET Nodes /\ P # {}
  BY LatencyType, Neighbours
<1>2. \A j \in P : g[j] \in Int /\ g[j] = f[j] - l
  BY <1>1
<1>3. {f[j] - l : j \in P} = {g[j] : j \in P}
  OBVIOUS
<1>. HIDE DEF P, l, g
<1>4. Extremes(P, g)
  BY <1>1, <1>2, MaxOver
<1>. DEFINE m == Min({g[j] : j \in P})
<1>5. m \in Int /\ \A j \in P : m <= g[j]
  BY <1>4 DEF Extremes
<1>. HIDE DEF m
<1>6. \A j \in P : m + l <= f[j]
  <2>. TAKE j \in P
  <2>1. f[j] \in Int
    BY DEF P
  <2>. QED
    BY <1>1, <1>2, <1>5, <2>1
<1>7. m = Min({f[j] - l : j \in P})
  BY <1>3 DEF m
<1>. QED
  BY <1>5, <1>6, <1>7 DEF P, l

\* What the backward pass computes of numbers is a number.
LEMMA AlapType ==
    \A f, i : Sized /\ Forward /\ i \in 1 .. MaxProgram /\ (\A j \in Succs(i) : f[j] \in Nat) =>
        AlapOf(f, i) \in Nat
<1>. TAKE f, i
<1>. HAVE Sized /\ Forward /\ i \in 1 .. MaxProgram /\ (\A j \in Succs(i) : f[j] \in Nat)
<1>1. CASE Succs(i) = {}
  BY <1>1, LastAsapType DEF AlapOf
<1>2. CASE Succs(i) # {}
  <2>. DEFINE m == Min({f[j] - Latency(i) : j \in Succs(i)})
              a == Asap[i]
  <2>1. m \in Int
    <3>1. \A j \in Succs(i) : f[j] \in Int
      OBVIOUS
    <3>. QED
      BY <1>2, <3>1, LeastAllowed
  <2>2. a \in Nat /\ a \in Int
    BY AsapStep
  <2>3. AlapOf(f, i) = Max({a, m})
    BY <1>2 DEF AlapOf
  <2>. HIDE DEF a, m
  <2>4. Max({a, m}) \in Int /\ a <= Max({a, m})
    BY <2>1, <2>2, LargerOf
  <2>. QED
    BY <2>2, <2>3, <2>4
<1>. QED
  BY <1>1, <1>2

\* Alap exists, for every forward graph: the backward pass.
LEMMA AlapStep ==
    ASSUME Sized, Forward
    PROVE  \A i \in 1 .. MaxProgram : Alap[i] = AlapOf(Alap, i) /\ Alap[i] \in Nat
<1>. DEFINE M == MaxProgram
            D == 1 .. M
            V == Nat
            rank == [i \in D |-> M - i]
            G == [i \in D |-> [f \in [D -> V] |-> AlapOf(f, i)]]
<1>1. M \in Nat /\ Nodes \subseteq D /\ Nodes \subseteq Nat
  BY DEF Sized
<1>2. \A f : \A i \in D : (\A j \in Succs(i) : f[j] \in Nat) => AlapOf(f, i) \in Nat
  BY AlapType
<1>3. \A i : \A j \in Succs(i) : j \in D /\ i < j
  BY <1>1, Neighbours
<1>4. G \in [D -> [[D -> V] -> V]] /\ rank \in [D -> 0 .. M]
  <2>1. \A i \in D : \A f \in [D -> V] : AlapOf(f, i) \in V
    BY <1>2, <1>3
  <2>2. rank \in [D -> 0 .. M]
    BY <1>1
  <2>. QED
    BY <2>1, <2>2
<1>5. Causal(D, V, rank, G)
  <2>1. \A i \in D : \A f, g \in [D -> V] :
           (\A j \in D : rank[j] < rank[i] => f[j] = g[j]) => G[i][f] = G[i][g]
    <3>. TAKE i \in D
    <3>. TAKE f, g \in [D -> V]
    <3>. HAVE \A j \in D : rank[j] < rank[i] => f[j] = g[j]
    <3>1. G[i][f] = AlapOf(f, i) /\ G[i][g] = AlapOf(g, i)
      OBVIOUS
    <3>2. \A j \in Succs(i) : f[j] = g[j]
      <4>. TAKE j \in Succs(i)
      <4>1. j \in D /\ i < j /\ i \in Int /\ j \in Int /\ M \in Int
        BY <1>1, <1>3
      <4>2. rank[j] = M - j /\ rank[i] = M - i
        BY <4>1
      <4>3. rank[j] < rank[i]
        BY <4>1, <4>2
      <4>. QED
        BY <4>1, <4>3
    <3>3. {f[j] - Latency(i) : j \in Succs(i)} = {g[j] - Latency(i) : j \in Succs(i)}
      BY <3>2
    <3>. QED
      BY <3>1, <3>3 DEF AlapOf
  <2>. HIDE DEF G, rank, D, V
  <2>. QED
    BY <2>1 DEF Causal
<1>6. 0 \in V
  OBVIOUS
<1>. HIDE DEF G, rank, D, V, M
<1>. PICK f \in [D -> V] : \A i \in D : f[i] = G[i][f]
  <2>1. Solvable(D, V, G)
    BY ONLY <1>1, <1>4, <1>5, <1>6, BoundedRecursion
  <2>. QED
    BY <2>1 DEF Solvable
<1>7. \A i \in D : f[i] = AlapOf(f, i)
  BY DEF G
<1>8. f = [i \in D |-> AlapOf(f, i)]
  BY <1>7
<1>9. Alap = [i \in D |-> AlapOf(Alap, i)]
  BY <1>8, AlapUnfolds DEF D, M
<1>10. \A i \in D : Alap[i] = AlapOf(Alap, i)
  BY <1>9
<1>. DEFINE Bad == {i \in D : Alap[i] \notin Nat}
            T == {M - i : i \in Bad}
<1>11. Bad = {}
  <2>. SUFFICES ASSUME Bad # {} PROVE FALSE
    OBVIOUS
  <2>1. T \in SUBSET Nat /\ T # {}
    <3>1. \A i \in Bad : M - i \in Nat
      BY <1>1 DEF D
    <3>. QED
      BY <3>1
  <2>2. PICK t \in T : \A k \in T : t <= k
    BY <2>1, LeastNatural
  <2>3. PICK i \in Bad : t = M - i
    OBVIOUS
  <2>4. \A j \in Succs(i) : Alap[j] \in Nat
    <3>. TAKE j \in Succs(i)
    <3>1. j \in D /\ i < j
      BY <1>3
    <3>2. i \in Int /\ j \in Int /\ M \in Int
      BY <1>1, <3>1 DEF D
    <3>3. ASSUME j \in Bad PROVE FALSE
      <4>1. t <= M - j
        BY <2>2, <3>3
      <4>. QED
        BY <2>3, <3>1, <3>2, <4>1
    <3>. QED
      BY <3>1, <3>3
  <2>. QED
    BY <1>2, <1>10, <2>4
<1>. QED
  BY <1>10, <1>11 DEF D, M

\* What mobility promises of an edge.
LEMMA CyclesLeaveRoom ==
    ASSUME Sized, Forward, NEW i, NEW j \in Preds(i)
    PROVE  Asap[j] + Latency(j) <= Asap[i] /\ Alap[j] + Latency(j) <= Alap[i]
<1>1. i \in Nodes /\ j \in Nodes /\ i \in Succs(j) /\ i \in 1 .. MaxProgram /\ j \in 1 .. MaxProgram
  BY Neighbours DEF Sized
<1>2. /\ Asap[i] \in Nat /\ Asap[j] \in Nat /\ Alap[i] \in Nat /\ Alap[j] \in Nat
      /\ Latency(j) \in Nat /\ Asap[i] \in Int /\ Asap[j] \in Int
      /\ Asap[i] = AsapOf(Asap, i) /\ Alap[i] = AlapOf(Alap, i) /\ Alap[j] = AlapOf(Alap, j)
  BY <1>1, AsapStep, AlapStep, LatencyType
<1>3. Asap[j] + Latency(j) <= Asap[i]
  <2>. DEFINE P == Preds(i)
              g == [k \in P |-> Asap[k] + Latency(k)]
  <2>1. P \in SUBSET Nodes /\ P # {} /\ j \in P
    BY Neighbours
  <2>2. \A k \in P : g[k] \in Int
    <3>. TAKE k \in P
    <3>1. Asap[k] \in Nat /\ Latency(k) \in Nat
      BY <2>1, AsapStep, LatencyType DEF Sized
    <3>. QED
      BY <3>1
  <2>3. {Asap[k] + Latency(k) : k \in P} = {g[k] : k \in P}
    OBVIOUS
  <2>4. g[j] = Asap[j] + Latency(j)
    BY <2>1
  <2>5. Asap[i] = Max({g[k] : k \in P})
    BY <1>2, <2>1, <2>3 DEF AsapOf
  <2>. HIDE DEF P, g
  <2>6. Extremes(P, g)
    BY <2>1, <2>2, MaxOver
  <2>7. g[j] <= Max({g[k] : k \in P})
    BY <2>1, <2>6 DEF Extremes
  <2>. QED
    BY <2>4, <2>5, <2>7
<1>4. Asap[i] <= Alap[i]
  <2>1. CASE Succs(i) = {}
    BY <1>1, <1>2, <2>1, LastAsapType DEF AlapOf
  <2>2. CASE Succs(i) # {}
    <3>. DEFINE m == Min({Alap[k] - Latency(i) : k \in Succs(i)})
    <3>1. \A k \in Succs(i) : Alap[k] \in Int
      <4>. TAKE k \in Succs(i)
      <4>1. k \in 1 .. MaxProgram
        BY Neighbours DEF Sized
      <4>. QED
        BY <4>1, AlapStep
    <3>2. m \in Int
      BY <2>2, <3>1, LeastAllowed
    <3>3. Alap[i] = Max({Asap[i], m})
      BY <1>2, <2>2 DEF AlapOf
    <3>. HIDE DEF m
    <3>. QED
      <4>1. Asap[i] \in Int
        BY <1>2
      <4>. QED
        BY <3>2, <3>3, <4>1, LargerOf
  <2>. QED
    BY <2>1, <2>2
<1>5. Alap[j] + Latency(j) <= Alap[i]
  <2>. DEFINE m == Min({Alap[k] - Latency(j) : k \in Succs(j)})
  <2>1. \A k \in Succs(j) : Alap[k] \in Int
    <3>. TAKE k \in Succs(j)
    <3>1. k \in 1 .. MaxProgram
      BY Neighbours DEF Sized
    <3>. QED
      BY <3>1, AlapStep
  <2>2. m \in Int /\ m + Latency(j) <= Alap[i]
    BY <1>1, <2>1, LeastAllowed
  <2>3. Alap[j] = Max({Asap[j], m})
    BY <1>1, <1>2 DEF AlapOf
  <2>. HIDE DEF m
  <2>4. Alap[j] \in {Asap[j], m}
    <3>1. Asap[j] \in Int
      BY <1>2
    <3>. QED
      BY <2>2, <2>3, <3>1, LargerOf
  <2>5. CASE Alap[j] = m
    BY <2>2, <2>5
  <2>6. CASE Alap[j] = Asap[j]
    BY <1>2, <1>3, <1>4, <2>6
  <2>. QED
    BY <2>4, <2>5, <2>6
<1>. QED
  BY <1>3, <1>5

-----------------------------------------------------------------------------
(* The list scheduling.                                                     *)

\* The instructions emitted.
Emitted == ToSet(emitted)

\* No instruction is emitted twice, or before one it waits for.
EmittedInOrder ==
    /\ \A p, q \in DOMAIN emitted : emitted[p] = emitted[q] => p = q
    /\ \A q \in DOMAIN emitted : \A j \in Preds(emitted[q]) :
          \E p \in DOMAIN emitted : p < q /\ emitted[p] = j

\* What is ready waits for nothing, and what the others wait for is counted.
Counted ==
    /\ \A i \in ready : i \in Nodes /\ i \notin Emitted /\ Preds(i) \subseteq Emitted
    /\ schedPc = "emit" => remaining = [i \in Nodes |-> Cardinality(Preds(i) \ Emitted)]

\* list_schedule has begun.
Begun == schedPc \in {"emit", "valid"}

\* The inductive invariant: a bounded forward graph of producers, mobilities that leave
\* room, and a list in order with exact counters.
SchedInv ==
    /\ program \in UNION {[1 .. n -> Instructions] : n \in 1 .. MaxProgram}
    /\ Bounded(edges, Len(program))
    /\ counts \in [hoisted : Nat, barriers : Nat]
    /\ schedPc \in {"build", "analyze", "seed", "emit", "valid", "refused"}
    /\ schedPc \in {"build", "analyze"} => mobility = <<>>
    /\ MobilityConsistent
    /\ emitted \in Seq(Nodes)
    /\ ~Begun => emitted = <<>> /\ ready = {}
    /\ EmittedInOrder /\ Counted
    /\ schedPc = "valid" => Emitted = Nodes

\* The invariant fixes the size of the program, ...
LEMMA SizedInv == SchedInv => Sized
<1>. HAVE SchedInv
<1>1. program \in UNION {[1 .. n -> Instructions] : n \in 1 .. MaxProgram}
  BY DEF SchedInv
<1>. QED
  BY <1>1, ProgramType DEF Sized

\* ... the direction of the edges ...
LEMMA ForwardInv == SchedInv => Forward
<1>. HAVE SchedInv
<1>1. Sized /\ Bounded(edges, Len(program))
  BY SizedInv DEF SchedInv
<1>2. SUFFICES ASSUME NEW e \in edges
               PROVE  e = <<e[1], e[2]>> /\ e[1] \in Nodes /\ e[2] \in Nodes /\ e[1] < e[2]
  BY DEF Forward
<1>3. e = <<e[1], e[2]>> /\ e[2] \in 1 .. Len(program) /\ e[1] \in Producers(e[2])
  BY <1>1 DEF Bounded
<1>4. e[2] \in Nat /\ e[2] \in Nodes
  BY <1>1, <1>3 DEF Sized
<1>5. e[1] \in 1 .. e[2] - 1
  BY <1>3, <1>4, ProducersBefore
<1>6. e[1] \in 1 .. Len(program) /\ e[1] < e[2]
  BY <1>3, <1>4, <1>5
<1>. QED
  BY <1>1, <1>3, <1>4, <1>6 DEF Sized

\* ... and what is emitted.
LEMMA EmittedType ==
    ASSUME SchedInv
    PROVE  /\ Len(emitted) \in Nat /\ DOMAIN emitted = 1 .. Len(emitted)
           /\ \A p \in DOMAIN emitted : emitted[p] \in Nodes /\ emitted[p] \in Emitted
           /\ \A i \in Emitted : \E p \in DOMAIN emitted : emitted[p] = i
           /\ Emitted \subseteq Nodes
<1>1. emitted \in Seq(Nodes)
  BY DEF SchedInv
<1>2. /\ Len(emitted) \in Nat /\ DOMAIN emitted = 1 .. Len(emitted)
      /\ emitted \in [1 .. Len(emitted) -> Nodes]
  BY <1>1, LenProperties
<1>. QED
  BY <1>2 DEF Emitted, ToSet

\* Who emits an instruction has emitted all it waits for.
LEMMA DoneClosed == SchedInv => \A i \in Emitted : Preds(i) \subseteq Emitted
<1>. HAVE SchedInv
<1>. SUFFICES ASSUME NEW i \in Emitted, NEW j \in Preds(i) PROVE j \in Emitted
  OBVIOUS
<1>1. PICK q \in DOMAIN emitted : emitted[q] = i
  BY EmittedType
<1>2. PICK p \in DOMAIN emitted : emitted[p] = j
  BY <1>1 DEF SchedInv, EmittedInOrder
<1>. QED
  BY <1>2, EmittedType

\* What an instruction waits for is finite.
LEMMA PredsFinite == SchedInv => \A i : IsFiniteSet(Preds(i)) /\ \A S : IsFiniteSet(Preds(i) \ S)
<1>. HAVE SchedInv
<1>. TAKE i
<1>1. Sized /\ Forward
  BY SizedInv, ForwardInv
<1>2. IsFiniteSet(Nodes)
  <2>1. 1 \in Int /\ Len(program) \in Int
    BY <1>1 DEF Sized
  <2>2. IsFiniteSet(1 .. Len(program))
    BY ONLY <2>1, FS_Interval
  <2>. QED
    BY <1>1, <2>2 DEF Sized
<1>3. Preds(i) \subseteq Nodes
  BY <1>1, Neighbours
<1>4. IsFiniteSet(Preds(i))
  BY <1>2, <1>3, FS_Subset
<1>5. \A S : (Preds(i) \ S) \in SUBSET Preds(i)
  OBVIOUS
<1>. QED
  BY <1>4, <1>5, FS_Subset

\* Steps before the list scheduling begins.
LEMMA NotBegun ==
    ASSUME SchedInv, ~Begun', UNCHANGED <<program, emitted, ready>>, Bounded(edges, Len(program))',
           emitted = <<>>, ready = {},
           counts' \in [hoisted : Nat, barriers : Nat],
           schedPc' \in {"build", "analyze", "seed", "refused"},
           schedPc' \in {"build", "analyze"} => mobility' = <<>>,
           MobilityConsistent'
    PROVE  SchedInv'
<1>1. DOMAIN <<>> = {}
  OBVIOUS
<1>2. (program \in UNION {[1 .. n -> Instructions] : n \in 1 .. MaxProgram})'
      /\ (emitted \in Seq(Nodes))'
  BY DEF SchedInv, Nodes
<1>3. EmittedInOrder'
  BY <1>1 DEF EmittedInOrder
<1>4. Counted'
  BY DEF Counted
<1>. QED
  BY <1>2, <1>3, <1>4 DEF SchedInv, Begun

\* A refused program changes nothing else.
LEMMA RefuseKeeps == SchedInv /\ SchedRefuse => SchedInv'
<1>. SUFFICES ASSUME SchedInv, SchedRefuse PROVE SchedInv'
  OBVIOUS
<1>1. /\ schedPc = "build" /\ schedPc' = "refused"
      /\ UNCHANGED <<program, policy, edges, mobility, counts, remaining, ready, emitted>>
  BY DEF SchedRefuse
<1>2. emitted = <<>> /\ ready = {} /\ mobility = <<>> /\ counts \in [hoisted : Nat, barriers : Nat]
      /\ Bounded(edges, Len(program))
  BY <1>1 DEF SchedInv, Begun
<1>3. MobilityConsistent'
  BY <1>1, <1>2 DEF MobilityConsistent
<1>4. Bounded(edges, Len(program))'
  BY <1>1, <1>2 DEF Bounded, Producers
<1>. QED
  BY <1>1, <1>2, <1>3, <1>4, NotBegun DEF Begun

\* tu_sched_build_dag leaves a bounded graph.
LEMMA BuildKeeps == SchedInv /\ SchedBuild => SchedInv'
<1>. SUFFICES ASSUME SchedInv, SchedBuild PROVE SchedInv'
  OBVIOUS
<1>1. /\ schedPc = "build" /\ schedPc' = "analyze" /\ edges' = EdgesUpTo[Len(program)]
      /\ UNCHANGED <<program, policy, mobility, counts, remaining, ready, emitted>>
  BY DEF SchedBuild
<1>2. emitted = <<>> /\ ready = {} /\ mobility = <<>> /\ counts \in [hoisted : Nat, barriers : Nat]
  BY <1>1 DEF SchedInv, Begun
<1>3. MobilityConsistent'
  BY <1>1, <1>2 DEF MobilityConsistent
<1>4. Bounded(EdgesUpTo[Len(program)], Len(program))
  <2>1. Len(program) \in 0 .. MaxProgram
    BY SizedInv DEF Sized
  <2>. QED
    BY <2>1, EdgesBounded
<1>5. Bounded(edges, Len(program))'
  BY <1>1, <1>4 DEF Bounded, Producers
<1>. QED
  BY <1>1, <1>2, <1>3, <1>5, NotBegun DEF Begun

\* The passes of tu_sched_run leave room for every latency.
LEMMA AnalyzeKeeps == SchedInv /\ SchedAnalyze => SchedInv'
<1>. SUFFICES ASSUME SchedInv, SchedAnalyze PROVE SchedInv'
  OBVIOUS
<1>1. /\ schedPc = "analyze" /\ schedPc' = "seed"
      /\ mobility' = [i \in Nodes |-> [asap |-> Asap[i], alap |-> Alap[i]]]
      /\ counts' = [hoisted |-> Cardinality(Hoistable), barriers |-> Cardinality(Fenceable)]
      /\ UNCHANGED <<program, policy, edges, remaining, ready, emitted>>
  BY DEF SchedAnalyze
<1>0. Sized /\ Forward
  BY SizedInv, ForwardInv
<1>2. emitted = <<>> /\ ready = {}
  BY <1>1 DEF SchedInv, Begun
<1>3. counts' \in [hoisted : Nat, barriers : Nat]
  <2>1. IsFiniteSet(Nodes)
    <3>1. 1 \in Int /\ Len(program) \in Int
      BY <1>0 DEF Sized
    <3>2. IsFiniteSet(1 .. Len(program))
      BY ONLY <3>1, FS_Interval
    <3>. QED
      BY <1>0, <3>2 DEF Sized
  <2>2. Hoistable \in SUBSET Nodes /\ Fenceable \in SUBSET Nodes
    BY DEF Hoistable, Fenceable
  <2>3. Cardinality(Hoistable) \in Nat /\ Cardinality(Fenceable) \in Nat
    BY <2>1, <2>2, FS_Subset, FS_CardinalityType
  <2>. QED
    BY <1>1, <2>3
<1>4. MobilityConsistent'
  <2>1. \A e \in edges : /\ mobility'[e[1]].asap + Latency(e[1]) <= mobility'[e[2]].asap
                         /\ mobility'[e[1]].alap + Latency(e[1]) <= mobility'[e[2]].alap
    <3>. TAKE e \in edges
    <3>1. e = <<e[1], e[2]>> /\ e[1] \in Nodes /\ e[2] \in Nodes /\ e[1] \in Preds(e[2])
      BY <1>0, Neighbours DEF Forward
    <3>2. Asap[e[1]] + Latency(e[1]) <= Asap[e[2]] /\ Alap[e[1]] + Latency(e[1]) <= Alap[e[2]]
      BY <1>0, <3>1, CyclesLeaveRoom
    <3>3. \A i \in Nodes : mobility'[i].asap = Asap[i] /\ mobility'[i].alap = Alap[i]
      BY <1>1
    <3>. QED
      BY <3>1, <3>2, <3>3
  <2>2. edges' = edges /\ \A i : Latency(i)' = Latency(i)
    BY <1>1 DEF Latency, IsDma
  <2>. QED
    BY <2>1, <2>2 DEF MobilityConsistent
<1>5. Bounded(edges, Len(program))'
  BY <1>1 DEF SchedInv, Bounded, Producers
<1>. QED
  BY <1>1, <1>2, <1>3, <1>4, <1>5, NotBegun DEF Begun

\* list_schedule begins with nothing emitted and everything to wait for.
LEMMA SeedKeeps == SchedInv /\ SchedSeed => SchedInv'
<1>. SUFFICES ASSUME SchedInv, SchedSeed PROVE SchedInv'
  OBVIOUS
<1>1. /\ schedPc = "seed" /\ schedPc' = "emit"
      /\ remaining' = [i \in Nodes |-> Cardinality(Preds(i))]
      /\ ready' = {i \in Nodes : Preds(i) = {} /\ ~IsBarrier(program[i])}
      /\ counts' = [hoisted |-> 0, barriers |-> 0]
      /\ UNCHANGED <<program, policy, edges, mobility, emitted>>
  BY DEF SchedSeed
<1>2. emitted = <<>>
  BY <1>1 DEF SchedInv, Begun
<1>3. Emitted = {}
  <2>1. DOMAIN <<>> = {}
    OBVIOUS
  <2>. QED
    BY <1>2, <2>1 DEF Emitted, ToSet
<1>4. Nodes' = Nodes /\ Emitted' = Emitted /\ \A i : Preds(i)' = Preds(i)
  BY <1>1 DEF Nodes, Emitted, Preds
<1>5. Counted'
  <2>1. \A i \in ready' : i \in Nodes /\ i \notin Emitted /\ Preds(i) \subseteq Emitted
    BY <1>1, <1>3
  <2>2. \A i : Preds(i) \ Emitted = Preds(i)
    BY <1>3
  <2>3. remaining' = [i \in Nodes |-> Cardinality(Preds(i) \ Emitted)]
    BY <1>1, <2>2
  <2>. QED
    BY <1>4, <2>1, <2>3 DEF Counted
<1>6. EmittedInOrder'
  BY <1>1 DEF SchedInv, EmittedInOrder, Preds
<1>7. MobilityConsistent'
  <2>1. \A i : Latency(i)' = Latency(i)
    BY <1>1 DEF Latency, IsDma
  <2>. QED
    BY <1>1, <2>1 DEF SchedInv, MobilityConsistent
<1>8. Bounded(edges, Len(program))'
  BY <1>1 DEF SchedInv, Bounded, Producers
<1>. QED
  BY <1>1, <1>4, <1>5, <1>6, <1>7, <1>8 DEF SchedInv, Begun

\* What the steps of list_schedule leave alone.
Listing ==
    /\ schedPc = "emit" /\ UNCHANGED <<program, edges, mobility, counts>>

\* A step of list_schedule keeps the invariant if it keeps its own part of it.
LEMMA ListKeeps ==
    ASSUME SchedInv, Listing, schedPc' \in {"emit", "valid"}, (emitted \in Seq(Nodes))',
           EmittedInOrder', Counted', schedPc' = "valid" => Emitted' = Nodes
    PROVE  SchedInv'
<1>1. MobilityConsistent'
  <2>1. \A i : Latency(i)' = Latency(i)
    BY DEF Latency, IsDma, Listing
  <2>. QED
    BY <2>1 DEF SchedInv, MobilityConsistent, Listing
<1>2. Bounded(edges, Len(program))'
  BY DEF SchedInv, Bounded, Producers, Listing
<1>3. Nodes' = Nodes
  BY DEF Listing, Nodes
<1>. QED
  BY <1>1, <1>2, <1>3 DEF SchedInv, Begun, Listing

\* The counter of an instruction is zero once all it waits for is emitted.
LEMMA RemainingNone ==
    ASSUME SchedInv, schedPc = "emit", NEW i \in Nodes
    PROVE  /\ remaining[i] \in Nat /\ remaining[i] = Cardinality(Preds(i) \ Emitted)
           /\ remaining[i] = 0 <=> Preds(i) \subseteq Emitted
<1>1. remaining[i] = Cardinality(Preds(i) \ Emitted)
  BY DEF SchedInv, Counted
<1>2. IsFiniteSet(Preds(i) \ Emitted)
  BY PredsFinite
<1>3. Cardinality(Preds(i) \ Emitted) = 0 <=> Preds(i) \ Emitted = {}
  BY <1>2, FS_EmptySet
<1>4. Preds(i) \ Emitted = {} <=> Preds(i) \subseteq Emitted
  OBVIOUS
<1>. QED
  BY <1>1, <1>2, <1>3, <1>4, FS_CardinalityType

\* What is taken with nothing ready waits for nothing.
LEMMA UnblockKeeps == SchedInv /\ SchedUnblock => SchedInv'
<1>. SUFFICES ASSUME SchedInv, SchedUnblock PROVE SchedInv'
  OBVIOUS
<1>1. /\ schedPc = "emit"
      /\ UNCHANGED <<program, policy, edges, mobility, counts, remaining, emitted, schedPc>>
  BY DEF SchedUnblock
<1>2. PICK i \in Unscheduled : remaining[i] = 0 /\ ready' = {i}
  BY DEF SchedUnblock
<1>3. i \in Nodes /\ i \notin Emitted
  BY <1>2 DEF Unscheduled, Emitted
<1>4. Preds(i) \subseteq Emitted
  BY <1>1, <1>2, <1>3, RemainingNone
<1>5. Nodes' = Nodes /\ Emitted' = Emitted /\ \A j : Preds(j)' = Preds(j)
  BY <1>1 DEF Nodes, Emitted, Preds
<1>6. Counted'
  <2>1. remaining' = [j \in Nodes |-> Cardinality(Preds(j) \ Emitted)]
    BY <1>1 DEF SchedInv, Counted
  <2>. QED
    BY <1>2, <1>3, <1>4, <1>5, <2>1 DEF Counted
<1>7. EmittedInOrder'
  BY <1>1 DEF SchedInv, EmittedInOrder, Preds
<1>8. (emitted \in Seq(Nodes))'
  BY <1>1, <1>5 DEF SchedInv
<1>9. Listing /\ schedPc' = "emit"
  BY <1>1 DEF Listing
<1>. QED
  BY <1>6, <1>7, <1>8, <1>9, ListKeeps

\* Emitting what is ready releases exactly those that waited for it last.
LEMMA EmitKeeps == SchedInv /\ SchedEmit => SchedInv'
<1>. SUFFICES ASSUME SchedInv, SchedEmit PROVE SchedInv'
  OBVIOUS
<1>1. PICK i \in ready :
        /\ schedPc = "emit"
        /\ emitted' = Append(emitted, i)
        /\ ready' = (ready \ {i}) \cup Released(i)
        /\ remaining' = [j \in Nodes |-> IF j \in Succs(i) THEN remaining[j] - 1 ELSE remaining[j]]
        /\ UNCHANGED <<program, policy, edges, mobility, counts, schedPc>>
  BY DEF SchedEmit
<1>2. i \in Nodes /\ i \notin Emitted /\ Preds(i) \subseteq Emitted
  BY DEF SchedInv, Counted
<1>3. Nodes' = Nodes /\ \A j : Preds(j)' = Preds(j)
  BY <1>1 DEF Nodes, Preds
<1>4. /\ \A j : j \in Succs(i) <=> (j \in Nodes /\ i \in Preds(j))
      /\ i \notin Preds(i)
  <2>1. Sized /\ Forward
    BY SizedInv, ForwardInv
  <2>2. \A j : /\ j \in Succs(i) => j \in Nodes /\ i \in Preds(j)
               /\ i \in Preds(j) => j \in Succs(i)
    BY <2>1, Neighbours
  <2>3. ASSUME i \in Preds(i) PROVE FALSE
    <3>1. i < i
      BY <2>1, <2>3, Neighbours
    <3>2. i \in Int
      BY <1>2, <2>1 DEF Sized
    <3>. QED
      BY <3>1, <3>2
  <2>. QED
    BY <2>2, <2>3
<1>. DEFINE L == Len(emitted)
<1>5. /\ L \in Nat /\ DOMAIN emitted = 1 .. L /\ emitted' \in Seq(Nodes) /\ Len(emitted') = L + 1
      /\ DOMAIN emitted' = 1 .. L + 1
      /\ \A p \in 1 .. L : emitted'[p] = emitted[p]
      /\ emitted'[L + 1] = i
  <2>1. emitted \in Seq(Nodes) /\ emitted' = Append(emitted, i)
    BY <1>1 DEF SchedInv
  <2>. QED
    BY <1>2, <2>1, AppendProperties, LenProperties
<1>. HIDE DEF L
<1>6. Emitted' = Emitted \cup {i}
  <2>1. Emitted' = {emitted'[p] : p \in 1 .. L + 1}
    BY <1>5 DEF Emitted, ToSet
  <2>2. Emitted = {emitted[p] : p \in 1 .. L}
    BY <1>5 DEF Emitted, ToSet
  <2>3. 1 .. L + 1 = (1 .. L) \cup {L + 1}
    BY <1>5
  <2>. QED
    BY <1>5, <2>1, <2>2, <2>3
<1>7. EmittedInOrder'
  <2>1. \A p, q \in 1 .. L + 1 : emitted'[p] = emitted'[q] => p = q
    <3>. TAKE p, q \in 1 .. L + 1
    <3>1. \A r \in 1 .. L + 1 : r \in 1 .. L \/ r = L + 1
      BY <1>5
    <3>2. \A r \in 1 .. L : emitted[r] # i
      BY <1>2, <1>5 DEF Emitted, ToSet
    <3>3. \A r, s \in 1 .. L : emitted[r] = emitted[s] => r = s
      BY <1>5 DEF SchedInv, EmittedInOrder
    <3>. QED
      BY <1>5, <3>1, <3>2, <3>3
  <2>2. \A q \in 1 .. L + 1 : \A j \in Preds(emitted'[q]) :
           \E p \in 1 .. L + 1 : p < q /\ emitted'[p] = j
    <3>. TAKE q \in 1 .. L + 1
    <3>. TAKE j \in Preds(emitted'[q])
    <3>1. CASE q \in 1 .. L
      <4>1. PICK p \in 1 .. L : p < q /\ emitted[p] = j
        BY <1>5, <3>1 DEF SchedInv, EmittedInOrder
      <4>2. p \in 1 .. L + 1
        BY <1>5
      <4>. QED
        BY <1>5, <4>1, <4>2
    <3>2. CASE q = L + 1
      <4>1. j \in Emitted
        BY <1>2, <1>5, <3>2
      <4>2. PICK p \in 1 .. L : emitted[p] = j
        BY <1>5, <4>1, EmittedType
      <4>3. p < q /\ p \in 1 .. L + 1
        BY <1>5, <3>2
      <4>. QED
        BY <1>5, <4>2, <4>3
    <3>. QED
      BY <1>5, <3>1, <3>2
  <2>. QED
    BY <1>3, <1>5, <2>1, <2>2 DEF EmittedInOrder
<1>8. \A j \in Nodes : /\ j \in Succs(i) => /\ j \notin Emitted
                                            /\ Preds(j) \ Emitted' = (Preds(j) \ Emitted) \ {i}
                                            /\ i \in Preds(j) \ Emitted
                       /\ j \notin Succs(i) => Preds(j) \ Emitted' = Preds(j) \ Emitted
  <2>. TAKE j \in Nodes
  <2>1. j \in Emitted => Preds(j) \subseteq Emitted
    BY DoneClosed
  <2>2. Preds(j) \ Emitted' = (Preds(j) \ Emitted) \ {i}
    BY <1>6
  <2>. QED
    BY <1>2, <1>4, <2>1, <2>2
<1>9. Counted'
  <2>1. \A j \in Nodes : remaining'[j] = Cardinality(Preds(j) \ Emitted')
    <3>. TAKE j \in Nodes
    <3>1. remaining[j] = Cardinality(Preds(j) \ Emitted)
      BY <1>1, RemainingNone
    <3>2. CASE j \in Succs(i)
      <4>. DEFINE P == Preds(j) \ Emitted
      <4>1. IsFiniteSet(P) /\ i \in P /\ Preds(j) \ Emitted' = P \ {i}
        BY <1>8, <3>2, PredsFinite
      <4>. HIDE DEF P
      <4>2. Cardinality(P \ {i}) = Cardinality(P) - 1
        BY <4>1, FS_RemoveElement
      <4>3. remaining'[j] = remaining[j] - 1
        BY <1>1, <3>2
      <4>. QED
        BY <3>1, <4>1, <4>2, <4>3 DEF P
    <3>3. CASE j \notin Succs(i)
      BY <1>1, <1>8, <3>1, <3>3
    <3>. QED
      BY <3>2, <3>3
  <2>2. remaining' = [j \in Nodes |-> Cardinality(Preds(j) \ Emitted')]
    <3>1. remaining' = [j \in Nodes |-> remaining'[j]]
      BY <1>1
    <3>. QED
      BY <2>1, <3>1
  <2>3. \A j \in ready' : j \in Nodes /\ j \notin Emitted' /\ Preds(j) \subseteq Emitted'
    <3>. TAKE j \in ready'
    <3>1. CASE j \in ready \ {i}
      <4>1. j \in Nodes /\ j \notin Emitted /\ Preds(j) \subseteq Emitted /\ j # i
        BY <3>1 DEF SchedInv, Counted
      <4>. QED
        BY <1>6, <4>1
    <3>2. CASE j \in Released(i)
      <4>1. j \in Succs(i) /\ remaining[j] = 1 /\ j \in Nodes
        BY <1>4, <3>2 DEF Released
      <4>2. remaining'[j] = 0
        BY <1>1, <4>1
      <4>3. Cardinality(Preds(j) \ Emitted') = 0
        BY <2>1, <4>1, <4>2
      <4>4. Preds(j) \ Emitted' = {}
        BY <4>3, PredsFinite, FS_EmptySet
      <4>5. j \notin Emitted /\ j # i
        BY <1>4, <1>8, <4>1
      <4>. QED
        BY <1>6, <4>1, <4>4, <4>5
    <3>. QED
      BY <1>1, <3>1, <3>2
  <2>. QED
    BY <1>3, <2>2, <2>3 DEF Counted
<1>10. (emitted \in Seq(Nodes))' /\ Listing /\ schedPc' = "emit"
  BY <1>1, <1>3, <1>5 DEF Listing
<1>. QED
  BY <1>7, <1>9, <1>10, ListKeeps

\* list_schedule never ends stuck: the first instruction left waits for none.
LEMMA EndKeeps == SchedInv /\ SchedEnd => SchedInv'
<1>. SUFFICES ASSUME SchedInv, SchedEnd PROVE SchedInv'
  OBVIOUS
<1>1. /\ schedPc = "emit" /\ \A i \in Unscheduled : remaining[i] # 0
      /\ schedPc' = IF Unscheduled = {} THEN "valid" ELSE "stuck"
      /\ ready = {}
      /\ UNCHANGED <<program, policy, edges, mobility, counts, remaining, ready, emitted>>
  BY DEF SchedEnd
<1>2. Unscheduled = {}
  <2>. SUFFICES ASSUME Unscheduled # {} PROVE FALSE
    OBVIOUS
  <2>1. Sized /\ Forward
    BY SizedInv, ForwardInv
  <2>2. Unscheduled \in SUBSET Nat
    BY <2>1 DEF Unscheduled, Sized
  <2>3. PICK i \in Unscheduled : \A k \in Unscheduled : i <= k
    BY <2>2, LeastNatural
  <2>4. i \in Nodes
    BY DEF Unscheduled
  <2>5. Preds(i) \subseteq Emitted
    <3>. SUFFICES ASSUME NEW j \in Preds(i), j \notin Emitted PROVE FALSE
      OBVIOUS
    <3>1. j \in Unscheduled /\ j < i
      BY <2>1, Neighbours DEF Unscheduled, Emitted
    <3>2. i <= j /\ i \in Int /\ j \in Int
      BY <2>2, <2>3, <3>1
    <3>. QED
      BY <3>1, <3>2
  <2>. QED
    BY <1>1, <2>3, <2>4, <2>5, RemainingNone
<1>3. Emitted = Nodes
  BY <1>2, EmittedType DEF Unscheduled, Emitted
<1>4. Nodes' = Nodes /\ Emitted' = Emitted /\ \A j : Preds(j)' = Preds(j)
  BY <1>1 DEF Nodes, Emitted, Preds
<1>5. schedPc' = "valid"
  BY <1>1, <1>2
<1>6. Counted' /\ EmittedInOrder' /\ (emitted \in Seq(Nodes))'
  BY <1>1, <1>4, <1>5 DEF SchedInv, Counted, EmittedInOrder
<1>7. Listing
  BY <1>1 DEF Listing
<1>. QED
  BY <1>3, <1>4, <1>5, <1>6, <1>7, ListKeeps

\* The invariant behind the theorems on the scheduler.
THEOREM SchedInvariant == SchedSpec => []SchedInv
<1>1. SchedInit => SchedInv
  <2>. SUFFICES ASSUME SchedInit PROVE SchedInv
    OBVIOUS
  <2>1. /\ program \in UNION {[1 .. n -> Instructions] : n \in 1 .. MaxProgram}
        /\ edges = {} /\ mobility = <<>> /\ counts = [hoisted |-> 0, barriers |-> 0]
        /\ remaining = <<>> /\ ready = {} /\ emitted = <<>> /\ schedPc = "build"
    BY DEF SchedInit
  <2>2. Bounded(edges, Len(program))
    <3>1. Cardinality({}) = 0 /\ IsFiniteSet({}) /\ MaxDeps \in Nat
      BY FS_EmptySet, SchedulerAssumption
    <3>. QED
      BY <2>1, <3>1 DEF Bounded
  <2>3. DOMAIN <<>> = {} /\ <<>> \in Seq(Nodes)
    OBVIOUS
  <2>. QED
    BY <2>1, <2>2, <2>3 DEF SchedInv, MobilityConsistent, EmittedInOrder, Counted, Begun
<1>2. SchedInv /\ [SchedNext]_schedVars => SchedInv'
  <2>. SUFFICES ASSUME SchedInv, [SchedNext]_schedVars PROVE SchedInv'
    OBVIOUS
  <2>1. CASE UNCHANGED schedVars
    <3>1. /\ Nodes' = Nodes /\ Emitted' = Emitted
          /\ (\A i : Preds(i)' = Preds(i)) /\ (\A i : Latency(i)' = Latency(i))
      BY <2>1 DEF schedVars, Nodes, Emitted, Preds, Latency, IsDma
    <3>2. Counted' /\ (emitted \in Seq(Nodes))'
      BY <2>1, <3>1 DEF schedVars, SchedInv, Counted
    <3>3. EmittedInOrder'
      BY <2>1, <3>1 DEF schedVars, SchedInv, EmittedInOrder
    <3>4. MobilityConsistent'
      BY <2>1, <3>1 DEF schedVars, SchedInv, MobilityConsistent
    <3>5. Bounded(edges, Len(program))'
      BY <2>1 DEF schedVars, SchedInv, Bounded, Producers
    <3>. QED
      BY <2>1, <3>1, <3>2, <3>3, <3>4, <3>5 DEF schedVars, SchedInv, Begun
  <2>. QED
    BY <2>1, RefuseKeeps, BuildKeeps, AnalyzeKeeps, SeedKeeps, UnblockKeeps, EmitKeeps, EndKeeps
    DEF SchedNext
<1>. QED
  BY <1>1, <1>2, PTL DEF SchedSpec

\* A finished schedule has as many instructions as the program: the same ones.
LEMMA AllEmitted ==
    ASSUME SchedInv, schedPc = "valid"
    PROVE  Len(emitted) = Len(program) /\ Emitted = Nodes
<1>. DEFINE S == 1 .. Len(emitted)
            f == [p \in S |-> emitted[p]]
<1>1. Emitted = Nodes /\ Sized
  BY SizedInv DEF SchedInv
<1>2. Len(emitted) \in Nat /\ DOMAIN emitted = S
  BY EmittedType
<1>3. f \in [S -> Nodes] /\ \A i \in Nodes : \E p \in S : f[p] = i
  BY <1>1, <1>2, EmittedType
<1>4. \A p, q \in S : f[p] = f[q] => p = q
  BY <1>2 DEF SchedInv, EmittedInOrder
<1>5. \A k \in Nat : IsFiniteSet(1 .. k) /\ Cardinality(1 .. k) = k
  <2>. TAKE k \in Nat
  <2>1. 1 \in Int /\ k \in Int
    OBVIOUS
  <2>. QED
    BY <2>1, FS_Interval
<1>6. IsFiniteSet(S) /\ Cardinality(S) = Len(emitted)
  BY <1>2, <1>5
<1>. HIDE DEF f, S
<1>7. ExistsBijection(S, Nodes)
  BY <1>3, <1>4 DEF ExistsBijection, Bijection, Injection, Surjection, IsInjective
<1>8. Cardinality(Nodes) = Len(emitted)
  BY <1>6, <1>7, FS_Bijection
<1>9. Len(program) \in Nat /\ Nodes = 1 .. Len(program)
  BY <1>1 DEF Sized
<1>10. Cardinality(Nodes) = Len(program)
  BY <1>5, <1>9
<1>. QED
  BY <1>1, <1>8, <1>10

\* Told apart, every instruction is found where it was emitted.
LEMMA FoundWhereEmitted ==
    ASSUME SchedInv, schedPc = "valid",
           \A i, j \in Nodes : Alike(program[i], program[j]) => i = j,
           NEW i \in Nodes
    PROVE  FoundAt(i) \in DOMAIN emitted /\ emitted[FoundAt(i)] = i
<1>1. Sized /\ Emitted = Nodes
  BY SizedInv, AllEmitted
<1>2. PICK p \in DOMAIN emitted : emitted[p] = i
  BY <1>1, EmittedType
<1>3. \A j : Alike(program[j], program[j])
  BY DEF Alike
<1>4. {j \in 1 .. i : Alike(program[j], program[i])} = {i}
  <2>1. i \in 1 .. i /\ \A j \in 1 .. i : j \in Nodes
    BY <1>1 DEF Sized
  <2>. QED
    BY <1>3, <2>1
<1>5. {q \in 1 .. p : Alike(program[emitted[q]], program[i])} = {p}
  <2>1. p \in 1 .. p /\ \A q \in 1 .. p : q \in DOMAIN emitted
    BY EmittedType
  <2>2. \A q \in DOMAIN emitted : Alike(program[emitted[q]], program[i]) => emitted[q] = i
    BY EmittedType
  <2>3. \A q \in DOMAIN emitted : emitted[q] = i => q = p
    BY <1>2 DEF SchedInv, EmittedInOrder
  <2>4. Alike(program[emitted[p]], program[i])
    BY <1>2, <1>3
  <2>. QED
    BY <2>1, <2>2, <2>3, <2>4
<1>6. Cardinality({i}) = 1 /\ Cardinality({p}) = 1
  BY FS_Singleton
<1>. DEFINE rank == Cardinality({j \in 1 .. i : Alike(program[j], program[i])})
            Fits(r) == /\ Alike(program[emitted[r]], program[i])
                       /\ Cardinality({q \in 1 .. r :
                                         Alike(program[emitted[q]], program[i])}) = rank
<1>7. FoundAt(i) = CHOOSE r \in DOMAIN emitted : Fits(r)
  BY DEF FoundAt
<1>8. Fits(p)
  <2>1. Alike(program[emitted[p]], program[i])
    BY <1>2, <1>3
  <2>. QED
    BY <1>4, <1>5, <1>6, <2>1
<1>9. \A r \in DOMAIN emitted : Fits(r) => emitted[r] = i
  BY EmittedType
<1>. HIDE DEF Fits
<1>. QED
  BY <1>2, <1>7, <1>8, <1>9

\* The three parts of ScheduleSound.
LEMMA SoundNow == SchedInv => ScheduleSound
<1>. HAVE SchedInv
<1>1. ScheduleCompletes
  BY AllEmitted DEF SchedInv, ScheduleCompletes, Emitted
<1>2. MobilityConsistent
  BY DEF SchedInv
<1>3. ValidatorAccepts
  <2>. SUFFICES ASSUME schedPc = "valid",
                       \A i, j \in Nodes : Alike(program[i], program[j]) => i = j,
                       NEW e \in edges
                PROVE  FoundAt(e[1]) < FoundAt(e[2])
    BY DEF ValidatorAccepts, Validated
  <2>. DEFINE p == FoundAt(e[1])
              q == FoundAt(e[2])
  <2>1. e[1] \in Nodes /\ e[2] \in Nodes /\ e[1] \in Preds(e[2])
    BY SizedInv, ForwardInv, Neighbours DEF Forward
  <2>2. p \in DOMAIN emitted /\ emitted[p] = e[1] /\ q \in DOMAIN emitted /\ emitted[q] = e[2]
    BY <2>1, FoundWhereEmitted
  <2>. HIDE DEF p, q
  <2>3. PICK r \in DOMAIN emitted : r < q /\ emitted[r] = e[1]
    BY <2>1, <2>2 DEF SchedInv, EmittedInOrder
  <2>4. r = p
    BY <2>2, <2>3 DEF SchedInv, EmittedInOrder
  <2>. QED
    BY <2>3, <2>4 DEF p, q
<1>. QED
  BY <1>1, <1>2, <1>3 DEF ScheduleSound

\* For every program, policy and limit: the list scheduling (list_schedule) ends with every
\* instruction emitted once, both mobilities of tu_sched_compute_mobility leave every
\* dependency its latency, and tu_sched_validate accepts what was emitted.
THEOREM ScheduleIsSound == SchedSpec => []ScheduleSound
<1>1. SchedInv => ScheduleSound
  BY SoundNow
<1>. QED
  BY <1>1, SchedInvariant, PTL

\* The bounds and counts of SchedTypeOK.
LEMMA TypeNow == SchedInv => SchedTypeOK
<1>. HAVE SchedInv
<1>1. Sized /\ Forward
  BY SizedInv, ForwardInv
<1>2. edges \subseteq Nodes \X Nodes /\ \A e \in edges : e[1] < e[2]
  <2>. SUFFICES ASSUME NEW e \in edges PROVE e \in Nodes \X Nodes /\ e[1] < e[2]
    OBVIOUS
  <2>1. e = <<e[1], e[2]>> /\ e[1] \in Nodes /\ e[2] \in Nodes /\ e[1] < e[2]
    BY <1>1 DEF Forward
  <2>. QED
    BY <2>1
<1>3. IsFiniteSet(edges) /\ MaxDeps \in Nat
      /\ (\A j : Cardinality({e \in edges : e[1] = j}) <= MaxDeps)
      /\ (\A i : Cardinality({e \in edges : e[2] = i}) <= MaxDeps)
  BY SchedulerAssumption DEF SchedInv, Bounded
<1>4. ASSUME NEW E, E \in SUBSET edges, NEW T, Cardinality(E) <= MaxDeps,
             NEW k, T = {e[k] : e \in E}
      PROVE  Cardinality(T) <= MaxDeps
  <2>. DEFINE f == [e \in E |-> e[k]]
  <2>1. IsFiniteSet(E)
    BY <1>3, <1>4, FS_Subset
  <2>2. f \in [E -> T] /\ \A t \in T : \E e \in E : f[e] = t
    BY <1>4
  <2>. HIDE DEF f
  <2>3. f \in Surjection(E, T)
    BY <2>2 DEF Surjection
  <2>4. IsFiniteSet(T) /\ Cardinality(T) <= Cardinality(E)
    BY <2>1, <2>3, FS_Surjection
  <2>5. Cardinality(T) \in Nat /\ Cardinality(E) \in Nat
    BY <2>1, <2>4, FS_CardinalityType
  <2>. QED
    BY <1>3, <1>4, <2>4, <2>5
<1>5. \A i \in Nodes : Cardinality(Preds(i)) <= MaxDeps /\ Cardinality(Succs(i)) <= MaxDeps
  <2>. TAKE i \in Nodes
  <2>. DEFINE before == {f \in edges : f[2] = i}
              after == {f \in edges : f[1] = i}
  <2>1. before \in SUBSET edges /\ after \in SUBSET edges
    OBVIOUS
  <2>4. Cardinality(before) <= MaxDeps /\ Cardinality(after) <= MaxDeps
    BY <1>3
  <2>5. Preds(i) = {e[1] : e \in before} /\ Succs(i) = {e[2] : e \in after}
    BY DEF Preds, Succs
  <2>. HIDE DEF before, after
  <2>2. Cardinality(Preds(i)) <= MaxDeps
    BY <1>4, <2>1, <2>4, <2>5
  <2>3. Cardinality(Succs(i)) <= MaxDeps
    BY <1>4, <2>1, <2>4, <2>5
  <2>. QED
    BY <2>2, <2>3
<1>6. ready \subseteq Nodes
  BY DEF SchedInv, Counted
<1>7. schedPc = "emit" =>
        \A i \in Unscheduled : remaining[i] = Cardinality(Preds(i) \ ToSet(emitted))
  BY DEF SchedInv, Counted, Unscheduled, Emitted
<1>8. /\ counts \in [hoisted : Nat, barriers : Nat] /\ emitted \in Seq(Nodes)
      /\ schedPc \in {"build", "analyze", "seed", "emit", "valid", "stuck", "refused"}
  BY DEF SchedInv
<1>. QED
  BY <1>2, <1>5, <1>6, <1>7, <1>8 DEF SchedTypeOK

\* What waits for an instruction comes after it in the schedule.
LEMMA WaitsBehind ==
    ASSUME SchedInv, NEW p \in DOMAIN emitted, NEW q \in DOMAIN emitted,
           emitted[p] \in Preds(emitted[q])
    PROVE  p < q
<1>1. PICK r \in DOMAIN emitted : r < q /\ emitted[r] = emitted[p]
  BY DEF SchedInv, EmittedInOrder
<1>2. r = p
  BY <1>1 DEF SchedInv, EmittedInOrder
<1>. QED
  BY <1>1, <1>2

\* A barrier waits for all before it, as long as there is room for the edges.
LEMMA BarriersNow == SchedInv => BarriersHold
<1>. SUFFICES ASSUME SchedInv, schedPc = "valid", Untruncated,
                     NEW p \in DOMAIN emitted, NEW q \in DOMAIN emitted,
                     IsBarrier(program[emitted[q]]), ~IsBarrier(program[emitted[p]]),
                     emitted[p] < emitted[q]
              PROVE  p < q
  BY DEF BarriersHold
<1>1. emitted[p] \in Nodes /\ emitted[q] \in Nodes /\ Sized
  BY EmittedType, SizedInv
<1>2. emitted[p] \in 1 .. emitted[q] - 1
  BY <1>1 DEF Sized
<1>3. emitted[p] \in Preds(emitted[q])
  BY <1>1, <1>2 DEF Untruncated, Producers
<1>. QED
  BY <1>3, WaitsBehind

-----------------------------------------------------------------------------
\* Accesses are intervals of bytes of known banks.
AccessType == [kind : {"read", "write"}, bank : {"W", "A", "O"}, lo : Nat, hi : Nat]

\* What an instruction touches are such intervals.
LEMMA AccessesTyped ==
    ASSUME NEW instr \in SchedInstruction
    PROVE  Touches(instr) \in SUBSET AccessType
<1>1. instr.dim0 \in Nat /\ instr.dim1 \in Nat /\ instr.dim2 \in Nat /\ instr.immLow \in Nat
      /\ instr.immHigh \in Nat
  BY DEF SchedInstruction
<1>2. \A a, b \in Nat : a * b \in Nat
  OBVIOUS
<1>3. \A kind \in {"read", "write"}, bank \in {"W", "A", "O"}, lo, size \in Nat :
         Touch(kind, bank, lo, size) \in AccessType
  BY DEF Touch, AccessType
<1>4. Channel(instr) \in {"W", "A", "O"}
  BY DEF Channel
<1>5. DmaAccess(instr) \in SUBSET AccessType
  <2>1. (IF instr.dim1 = 0 THEN 1 ELSE instr.dim1) \in Nat
    BY <1>1
  <2>. QED
    BY <1>1, <1>3, <1>4, <2>1 DEF DmaAccess
<1>6. ComputeAccess(instr) \in SUBSET AccessType
  <2>. DEFINE plane == instr.dim2 * instr.dim1 * 2
              area == instr.dim0 * instr.dim1 * 4
              row == instr.dim1 * 4
              out == instr.dim2 * 4
  <2>1. plane \in Nat /\ area \in Nat /\ row \in Nat /\ out \in Nat
    BY <1>1, <1>2
  <2>2. 65536 \in Nat /\ Whole \in Nat /\ 0 \in Nat
    BY DEF Whole
  <2>. HIDE DEF plane, area, row, out
  <2>3. ComputeAccess(instr) =
          CASE instr.op = "MMA" ->
                 {Touch("read", "W", instr.dim0, plane), Touch("read", "A", instr.immLow, plane),
                  Touch("write", "O", instr.immHigh, area)}
            [] instr.op \in {"ATTENTION", "POOL"} ->
                 {Touch("read", "A", instr.dim0, 65536), Touch("write", "O", instr.immHigh, 65536)}
            [] instr.op = "CONV" ->
                 {Touch("read", "W", 0, Whole), Touch("read", "A", 0, Whole),
                  Touch("write", "O", 0, Whole)}
            [] instr.op = "ELEMENTWISE" ->
                 {Touch(kind, "O", instr.dim0, row) : kind \in {"read", "write"}}
            [] instr.op \in {"SOFTMAX", "GROUP_NORM"} ->
                 {Touch("read", "A", instr.dim0, row), Touch("write", "O", instr.immHigh, row)}
            [] instr.op = "REDUCE" ->
                 {Touch("read", "A", instr.dim0, row), Touch("write", "O", instr.immHigh, out)}
            [] OTHER -> {}
    BY DEF ComputeAccess, plane, area, row, out
  <2>4. CASE instr.op = "MMA"
    BY <1>1, <1>3, <2>1, <2>3, <2>4
  <2>5. CASE instr.op \in {"ATTENTION", "POOL"}
    BY <1>1, <1>3, <2>2, <2>3, <2>5
  <2>6. CASE instr.op = "CONV"
    BY <1>3, <2>2, <2>3, <2>6
  <2>7. CASE instr.op = "ELEMENTWISE"
    BY <1>1, <1>3, <2>1, <2>3, <2>7
  <2>8. CASE instr.op \in {"SOFTMAX", "GROUP_NORM", "REDUCE"}
    BY <1>1, <1>3, <2>1, <2>3, <2>8
  <2>9. CASE instr.op \notin {"MMA", "ATTENTION", "POOL", "CONV", "ELEMENTWISE", "SOFTMAX",
                              "GROUP_NORM", "REDUCE"}
    BY <2>3, <2>9
  <2>. QED
    BY <2>4, <2>5, <2>6, <2>7, <2>8, <2>9
<1>. QED
  BY <1>5, <1>6 DEF Touches

\* The analysis sees every access of instructions but group normalizations.
LEMMA AccessesKnown ==
    ASSUME NEW instr \in SchedInstruction, instr.op # "GROUP_NORM"
    PROVE  Access(instr) = Touches(instr) /\ (IsBarrier(instr) => Touches(instr) = {})
<1>1. instr.op \in Loads \cup Stores \cup Computing \cup Barriers \cup Others
  BY DEF SchedInstruction
<1>2. CASE IsDma(instr)
  <2>1. ~IsBarrier(instr)
    BY <1>2 DEF IsDma, IsBarrier, Loads, Stores, Barriers
  <2>. QED
    BY <1>2, <2>1 DEF Access, Touches
<1>3. CASE ~IsDma(instr) /\ instr.op \in Computing
  <2>1. ~IsBarrier(instr)
    BY <1>3 DEF IsBarrier, Computing, Barriers
  <2>. QED
    BY <1>3, <2>1 DEF Access, Touches
<1>4. CASE ~IsDma(instr) /\ instr.op \notin Computing
  <2>1. instr.op \in {"BARRIER", "NOP"}
    BY <1>1, <1>4 DEF IsDma, Barriers, Others
  <2>2. ComputeAccess(instr) = {}
    BY <2>1 DEF ComputeAccess
  <2>. QED
    BY <1>4, <2>2 DEF Access, Touches
<1>. QED
  BY <1>2, <1>3, <1>4

\* Instructions meeting in a byte one of them writes stay in their order.
LEMMA ConflictsOrdered ==
    ASSUME SchedInv, schedPc = "valid", Untruncated, AccessesSeen,
           NEW p \in DOMAIN emitted, NEW q \in DOMAIN emitted, NEW pt \in Points,
           NEW k, NEW l, "write" \in {k, l},
           TouchesAt(emitted[p], k, pt), TouchesAt(emitted[q], l, pt),
           emitted[p] < emitted[q]
    PROVE  p < q
<1>. DEFINE i == emitted[p]
            j == emitted[q]
<1>1. Sized /\ i \in Nodes /\ j \in Nodes
  BY SizedInv, EmittedType
<1>2. \A n \in Nodes : /\ Touches(program[n]) \in SUBSET AccessType
                       /\ Access(program[n]) = Touches(program[n])
                       /\ IsBarrier(program[n]) => Touches(program[n]) = {}
  <2>. TAKE n \in Nodes
  <2>1. program[n] \in SchedInstruction
    BY ProgramType DEF SchedInv
  <2>2. program[n].op # "GROUP_NORM"
    BY DEF AccessesSeen
  <2>. QED
    BY <2>1, <2>2, AccessesTyped, AccessesKnown
<1>3. pt[2] \in Nat
  <2>1. PICK n \in Nodes : pt \in {<<a.bank, a.lo>> : a \in Touches(program[n])}
    BY DEF Points
  <2>2. PICK a \in Touches(program[n]) : pt = <<a.bank, a.lo>>
    BY <2>1
  <2>. QED
    BY <1>2, <2>2 DEF AccessType
<1>4. PICK a \in Touches(program[i]) : a.kind = k /\ a.bank = pt[1] /\ a.lo <= pt[2] /\ pt[2] < a.hi
  BY DEF TouchesAt
<1>5. PICK b \in Touches(program[j]) : b.kind = l /\ b.bank = pt[1] /\ b.lo <= pt[2] /\ pt[2] < b.hi
  BY DEF TouchesAt
<1>. HIDE DEF i, j
<1>6. HasDependency(program[i], program[j])
  <2>1. a.lo \in Nat /\ a.hi \in Nat /\ b.lo \in Nat /\ b.hi \in Nat
    BY <1>1, <1>2, <1>4, <1>5 DEF AccessType
  <2>2. a.lo < b.hi /\ b.lo < a.hi
    BY <1>3, <1>4, <1>5, <2>1
  <2>3. RangesOverlap(a, b)
    BY <2>2 DEF RangesOverlap
  <2>4. "write" \in {a.kind, b.kind} /\ a.bank = b.bank
    BY <1>4, <1>5
  <2>5. a \in Access(program[i]) /\ b \in Access(program[j])
    BY <1>1, <1>2, <1>4, <1>5
  <2>. QED
    BY <2>3, <2>4, <2>5 DEF HasDependency
<1>7. ~IsBarrier(program[i])
  BY <1>1, <1>2, <1>4
<1>8. i \in 1 .. j - 1
  <2>1. i < j
    BY DEF i, j
  <2>. QED
    BY <1>1, <2>1 DEF Sized
<1>9. i \in Preds(j)
  BY <1>1, <1>6, <1>7, <1>8 DEF Untruncated, Producers
<1>. QED
  BY <1>9, WaitsBehind DEF i, j

\* The last writer found among n positions.
LEMMA LastWriterType ==
    ASSUME NEW order, NEW n \in Nat, NEW pt
    PROVE  LET m == LastWriter(order, n, pt)
           IN  /\ m \in 0 .. n
               /\ m # 0 => TouchesAt(order[m], "write", pt)
               /\ \A p \in 1 .. n : TouchesAt(order[p], "write", pt) => p <= m
<1>. DEFINE S == {0} \cup {p \in 1 .. n : TouchesAt(order[p], "write", pt)}
<1>1. S \in SUBSET Int /\ S # {} /\ 0 \in Int /\ n \in Int /\ \A x \in S : 0 <= x /\ x <= n
  OBVIOUS
<1>2. LastWriter(order, n, pt) = Max(S)
  BY DEF LastWriter
<1>3. \A x \in S : x \in 0 .. n /\ (x # 0 => TouchesAt(order[x], "write", pt))
  OBVIOUS
<1>4. \A p \in 1 .. n : TouchesAt(order[p], "write", pt) => p \in S
  OBVIOUS
<1>. HIDE DEF S
<1>5. Max(S) \in S /\ \A y \in S : y <= Max(S)
  BY ONLY <1>1, GreatestMember
<1>. QED
  BY <1>2, <1>3, <1>4, <1>5

\* The order of the program itself.
Original == [i \in Nodes |-> i]

\* Two places before which the same instructions write a byte see the same writer.
LEMMA SameWriter ==
    ASSUME SchedInv, schedPc = "valid", Untruncated, AccessesSeen, NEW pt \in Points,
           NEW p0 \in 1 .. Len(emitted) + 1, NEW i0 \in 1 .. Len(emitted) + 1,
           \A p \in DOMAIN emitted :
              TouchesAt(emitted[p], "write", pt) => (p < p0 <=> emitted[p] < i0)
    PROVE  WriterAt(emitted, p0 - 1, pt) = WriterAt(Original, i0 - 1, pt)
<1>. DEFINE a == LastWriter(emitted, p0 - 1, pt)
            b == LastWriter(Original, i0 - 1, pt)
            L == Len(emitted)
            WritesAt(i) == TouchesAt(i, "write", pt)
<1>1. /\ L \in Nat /\ DOMAIN emitted = 1 .. L /\ Nodes = 1 .. L
      /\ \A p \in 1 .. L : emitted[p] \in 1 .. L
      /\ \A i \in 1 .. L : \E p \in 1 .. L : emitted[p] = i
  BY SizedInv, AllEmitted, EmittedType DEF Sized
<1>2. p0 \in Nat /\ i0 \in Nat /\ p0 - 1 \in Nat /\ i0 - 1 \in Nat /\ p0 <= L + 1 /\ i0 <= L + 1
  BY <1>1
<1>3. \A i \in 1 .. L : Original[i] = i
  BY <1>1 DEF Original
<1>4. /\ a \in 0 .. p0 - 1
      /\ a # 0 => WritesAt(emitted[a])
      /\ \A p \in 1 .. p0 - 1 : WritesAt(emitted[p]) => p <= a
  BY <1>2, LastWriterType
<1>5. /\ b \in 0 .. i0 - 1
      /\ b # 0 => WritesAt(Original[b])
      /\ \A i \in 1 .. i0 - 1 : WritesAt(Original[i]) => i <= b
  BY <1>2, LastWriterType
<1>6. \A p \in 1 .. L : WritesAt(emitted[p]) => (p < p0 <=> emitted[p] < i0)
  BY <1>1
<1>7. \A p, q \in 1 .. L :
         WritesAt(emitted[p]) /\ WritesAt(emitted[q]) /\ emitted[p] < emitted[q] => p < q
  BY <1>1, ConflictsOrdered
<1>8. /\ WriterAt(emitted, p0 - 1, pt) = IF a = 0 THEN 0 ELSE emitted[a]
      /\ WriterAt(Original, i0 - 1, pt) = IF b = 0 THEN 0 ELSE Original[b]
  BY DEF WriterAt
<1>. HIDE DEF a, b, L, WritesAt
<1>9. CASE b = 0
  <2>1. ASSUME a # 0 PROVE FALSE
    <3>1. a \in 1 .. L /\ a < p0
      BY <1>1, <1>2, <1>4, <2>1
    <3>2. emitted[a] \in 1 .. L /\ emitted[a] < i0
      BY <1>1, <1>4, <1>6, <2>1, <3>1
    <3>3. emitted[a] \in 1 .. i0 - 1
      BY <1>1, <1>2, <3>2
    <3>4. WritesAt(Original[emitted[a]])
      BY <1>3, <1>4, <2>1, <3>2
    <3>. QED
      BY <1>5, <1>9, <3>2, <3>3, <3>4
  <2>. QED
    BY <1>8, <1>9, <2>1
<1>10. CASE b # 0
  <2>1. b \in 1 .. i0 - 1 /\ b \in 1 .. L /\ b < i0
    BY <1>1, <1>2, <1>5, <1>10
  <2>2. PICK q \in 1 .. L : emitted[q] = b
    BY <1>1, <2>1
  <2>3. WritesAt(emitted[q]) /\ Original[b] = b
    BY <1>3, <1>5, <1>10, <2>1, <2>2
  <2>4. q < p0
    BY <1>6, <2>1, <2>2, <2>3
  <2>5. q \in 1 .. p0 - 1
    BY <1>1, <1>2, <2>4
  <2>6. q <= a /\ a # 0 /\ a \in 1 .. L
    <3>1. q <= a
      BY <1>4, <2>3, <2>5
    <3>2. q \in Int /\ 1 <= q /\ L \in Int /\ a \in Int /\ a <= p0 - 1 /\ p0 \in Int /\ p0 <= L + 1
      BY <1>1, <1>2, <1>4, <2>2
    <3>. QED
      BY ONLY <3>1, <3>2
  <2>7. emitted[a] < i0 /\ emitted[a] \in 1 .. L
    BY <1>1, <1>2, <1>4, <1>6, <2>6
  <2>8. emitted[a] <= b
    <3>1. emitted[a] \in 1 .. i0 - 1
      BY <1>1, <1>2, <2>7
    <3>2. WritesAt(Original[emitted[a]])
      BY <1>3, <1>4, <2>6, <2>7
    <3>. QED
      BY <1>5, <3>1, <3>2
  <2>9. ~(emitted[a] < b)
    <3>1. emitted[a] < b => a < q
      BY <1>4, <1>7, <2>2, <2>3, <2>6
    <3>2. ~(a < q)
      BY <2>2, <2>6
    <3>. QED
      BY <3>1, <3>2
  <2>10. emitted[a] = b
    BY <2>1, <2>7, <2>8, <2>9
  <2>. QED
    BY <1>8, <1>10, <2>3, <2>6, <2>10
<1>. QED
  BY <1>9, <1>10

\* The meaning of the schedule is that of the program.
LEMMA MeaningNow == SchedInv => ScheduleKeepsMeaning
<1>. SUFFICES ASSUME SchedInv, schedPc = "valid", Untruncated, AccessesSeen
              PROVE  Meaning(emitted) = Meaning(Original)
  BY DEF ScheduleKeepsMeaning, Original
<1>. DEFINE L == Len(emitted)
<1>1. /\ L \in Nat /\ DOMAIN emitted = 1 .. L /\ Nodes = 1 .. L
      /\ \A p \in 1 .. L : emitted[p] \in 1 .. L
      /\ \A i \in 1 .. L : \E p \in 1 .. L : emitted[p] = i
  BY SizedInv, AllEmitted, EmittedType DEF Sized
<1>2. DOMAIN Original = 1 .. L /\ Len(Original) = L /\ \A i \in 1 .. L : Original[i] = i
  BY <1>1 DEF Original
<1>0. (\A i \in 1 .. L : i \in 1 .. L + 1 /\ i < L + 1) /\ L + 1 \in 1 .. L + 1 /\ (L + 1) - 1 = L
  <2>1. L \in Nat
    BY <1>1
  <2>. HIDE DEF L
  <2>. QED
    BY <2>1
<1>3. ASSUME NEW pt \in Points, NEW p \in 1 .. L, TouchesAt(emitted[p], "read", pt)
      PROVE  WriterAt(emitted, p - 1, pt) = WriterAt(Original, emitted[p] - 1, pt)
  <2>1. \A q \in DOMAIN emitted :
           TouchesAt(emitted[q], "write", pt) => (q < p <=> emitted[q] < emitted[p])
    <3>. TAKE q \in DOMAIN emitted
    <3>. HAVE TouchesAt(emitted[q], "write", pt)
    <3>1. emitted[q] \in Int /\ emitted[p] \in Int /\ q \in Int /\ p \in Int
      BY <1>1
    <3>2. emitted[q] < emitted[p] => q < p
      BY <1>1, <1>3, ConflictsOrdered
    <3>3. emitted[p] < emitted[q] => p < q
      BY <1>1, <1>3, ConflictsOrdered
    <3>4. emitted[p] = emitted[q] => p = q
      BY <1>1 DEF SchedInv, EmittedInOrder
    <3>. QED
      BY <3>1, <3>2, <3>3, <3>4
  <2>2. p \in 1 .. L + 1 /\ emitted[p] \in 1 .. L + 1
    BY <1>0, <1>1
  <2>. QED
    BY <2>1, <2>2, SameWriter
<1>4. \A pt \in Points : WriterAt(emitted, Len(emitted), pt) = WriterAt(Original, Len(Original), pt)
  <2>. TAKE pt \in Points
  <2>1. \A q \in DOMAIN emitted : q < L + 1 /\ emitted[q] < L + 1
    BY <1>0, <1>1
  <2>3. WriterAt(emitted, (L + 1) - 1, pt) = WriterAt(Original, (L + 1) - 1, pt)
    BY <1>0, <2>1, SameWriter
  <2>. QED
    BY <1>0, <1>2, <2>3
<1>5. Meaning(emitted).final = Meaning(Original).final
  BY <1>4 DEF Meaning
<1>. DEFINE Reading(order) == {y \in (DOMAIN order) \X Points :
                                 TouchesAt(order[y[1]], "read", y[2])}
            Sees(order, x) == <<order[x[1]], x[2], WriterAt(order, x[1] - 1, x[2])>>
<1>6. \A x \in Reading(emitted) : <<emitted[x[1]], x[2]>> \in Reading(Original)
                                  /\ Sees(Original, <<emitted[x[1]], x[2]>>) = Sees(emitted, x)
  <2>. TAKE x \in Reading(emitted)
  <2>. DEFINE p == x[1]
              pt == x[2]
  <2>1. p \in 1 .. L /\ pt \in Points /\ TouchesAt(emitted[p], "read", pt)
    BY <1>1
  <2>2. emitted[p] \in 1 .. L /\ Original[emitted[p]] = emitted[p]
    BY <1>1, <1>2, <2>1
  <2>. HIDE DEF p, pt
  <2>3. <<emitted[p], pt>> \in Reading(Original)
    BY <1>2, <2>1, <2>2
  <2>4. Sees(Original, <<emitted[p], pt>>) = <<emitted[p], pt, WriterAt(emitted, p - 1, pt)>>
    BY <1>3, <2>1, <2>2
  <2>. QED
    BY <2>3, <2>4 DEF p, pt
<1>7. \A y \in Reading(Original) : \E x \in Reading(emitted) : Sees(emitted, x) = Sees(Original, y)
  <2>. TAKE y \in Reading(Original)
  <2>. DEFINE i == y[1]
              pt == y[2]
  <2>1. i \in 1 .. L /\ pt \in Points /\ TouchesAt(i, "read", pt) /\ y = <<i, pt>>
    BY <1>2
  <2>2. PICK p \in 1 .. L : emitted[p] = i
    BY <1>1, <2>1
  <2>3. <<p, pt>> \in Reading(emitted)
    BY <1>1, <2>1, <2>2
  <2>. HIDE DEF i, pt
  <2>4. Sees(Original, <<emitted[p], pt>>) = Sees(emitted, <<p, pt>>)
    <3>1. <<p, pt>>[1] = p /\ <<p, pt>>[2] = pt
      OBVIOUS
    <3>. HIDE DEF Reading, Sees
    <3>. QED
      BY <1>6, <2>3, <3>1
  <2>. QED
    BY <2>1, <2>2, <2>3, <2>4
<1>8. Meaning(emitted).reads = Meaning(Original).reads
  <2>1. \A order : Meaning(order).reads = {Sees(order, x) : x \in Reading(order)}
    BY DEF Meaning
  <2>2. \A x \in Reading(emitted) : \E y \in Reading(Original) :
           Sees(Original, y) = Sees(emitted, x)
    BY <1>6
  <2>. HIDE DEF Reading, Sees
  <2>3. {Sees(emitted, x) : x \in Reading(emitted)} = {Sees(Original, x) : x \in Reading(Original)}
    BY <1>7, <2>2
  <2>. QED
    BY <2>1, <2>3
<1>9. \A order : Meaning(order) = [reads |-> Meaning(order).reads, final |-> Meaning(order).final]
  BY DEF Meaning
<1>. QED
  BY <1>5, <1>8, <1>9

\* For every program, policy and limit: what tu_sched_run emits reads and leaves the values
\* the program does, barriers hold, and the graph stays within its caps, with exact
\* counters.
THEOREM ScheduleIsFaithful == SchedSpec => []ScheduleFaithful
<1>1. SchedInv => ScheduleFaithful
  BY TypeNow, MeaningNow, BarriersNow DEF ScheduleFaithful
<1>. QED
  BY <1>1, SchedInvariant, PTL

-----------------------------------------------------------------------------
(* Pruning and packing one group of weights. *)

\* A group of four weights and an order of its places.
GroupTyped(group) == group \in [InGroup -> Int]
Places4(o) == o \in [InGroup -> InGroup] /\ \A i, j \in InGroup : o[i] = o[j] => i = j

\* Magnitudes are naturals, and only that of zero is zero.
LEMMA MagnitudeType == ASSUME NEW n \in Int PROVE Magnitude(n) \in Nat /\ (Magnitude(n) = 0 <=> n = 0)
BY DEF Magnitude

\* An exchange of places i and j puts the smaller first.
Ordered(group, o, q, i, j) ==
    LET before(k) == Magnitude(group[o[k]])
        after(k) == Magnitude(group[q[k]])
    IN  /\ Places4(q)
        /\ \A k \in InGroup \ {i, j} : after(k) = before(k)
        /\ after(i) <= after(j)
        /\ \/ after(i) = before(i) /\ after(j) = before(j)
           \/ after(i) = before(j) /\ after(j) = before(i)

LEMMA ExchangeOrders ==
    ASSUME NEW group, GroupTyped(group), NEW o, Places4(o), NEW i \in InGroup, NEW j \in InGroup, i < j
    PROVE  Ordered(group, o, Exchange(o, group, i, j), i, j)
<1>. DEFINE q == Exchange(o, group, i, j)
<1>1. \A k \in InGroup : o[k] \in InGroup /\ group[o[k]] \in Int /\ Magnitude(group[o[k]]) \in Nat
  BY MagnitudeType DEF GroupTyped, Places4
<1>2. CASE Magnitude(group[o[i]]) > Magnitude(group[o[j]])
  <2>1. q = [o EXCEPT ![i] = o[j], ![j] = o[i]]
    BY SMTT(60), <1>2 DEF Exchange
  <2>2. /\ q \in [InGroup -> InGroup] /\ q[i] = o[j] /\ q[j] = o[i]
        /\ \A k \in InGroup \ {i, j} : q[k] = o[k]
    BY <2>1 DEF Places4
  <2>3. Places4(q)
    <3>. HIDE DEF q
    <3>. QED
      BY <2>2 DEF Places4
  <2>. HIDE DEF q
  <2>4. \A k \in InGroup \ {i, j} : Magnitude(group[q[k]]) = Magnitude(group[o[k]])
    BY <2>2
  <2>5. Magnitude(group[q[i]]) = Magnitude(group[o[j]]) /\ Magnitude(group[q[j]]) = Magnitude(group[o[i]])
    BY <2>2
  <2>6. Magnitude(group[q[i]]) <= Magnitude(group[q[j]])
    BY <1>1, <1>2, <2>5
  <2>. QED
    BY <2>3, <2>4, <2>5, <2>6 DEF q, Ordered
<1>3. CASE ~ (Magnitude(group[o[i]]) > Magnitude(group[o[j]]))
  <2>1. q = o
    BY SMTT(60), <1>3 DEF Exchange
  <2>. HIDE DEF q
  <2>2. Magnitude(group[q[i]]) <= Magnitude(group[q[j]])
    BY <1>1, <1>3, <2>1
  <2>. QED
    BY <2>1, <2>2 DEF q, Ordered
<1>. QED
  BY <1>2, <1>3

\* The two loops leave no place of the first two above one of the last two.
LEMMA OrderSorts ==
    ASSUME NEW group, GroupTyped(group)
    PROVE  /\ Places4(Order(group))
           /\ \A a \in {1, 2} : \A b \in {3, 4} :
                 Magnitude(group[Order(group)[a]]) <= Magnitude(group[Order(group)[b]])
<1>. DEFINE o1 == <<1, 2, 3, 4>>
            o2 == Exchange(o1, group, 1, 2)
            o3 == Exchange(o2, group, 1, 3)
            o4 == Exchange(o3, group, 1, 4)
            o5 == Exchange(o4, group, 2, 3)
            o6 == Exchange(o5, group, 2, 4)
            o7 == Exchange(o6, group, 3, 4)
            M(o, k) == Magnitude(group[o[k]])
<1>0. Order(group) = o7
  BY DEF Order
<1>1. Places4(o1)
  BY DEF Places4, InGroup
<1>. HIDE DEF o1
<1>2. /\ Places4(o2) /\ M(o2, 1) <= M(o2, 2)
  <2>1. Ordered(group, o1, o2, 1, 2)
    BY <1>1, ExchangeOrders DEF InGroup
  <2>. HIDE DEF o2
  <2>. QED
    BY <2>1 DEF Ordered, M, InGroup
<1>. HIDE DEF o2
<1>3. /\ Places4(o3) /\ M(o3, 1) <= M(o3, 3) /\ M(o3, 2) = M(o2, 2)
      /\ \/ M(o3, 1) = M(o2, 1)
         \/ M(o3, 1) = M(o2, 3) /\ M(o3, 3) = M(o2, 1)
  <2>1. Ordered(group, o2, o3, 1, 3)
    BY <1>2, ExchangeOrders DEF InGroup
  <2>. HIDE DEF o3
  <2>. QED
    BY <2>1 DEF Ordered, M, InGroup
<1>. HIDE DEF o3
<1>4. /\ Places4(o4) /\ M(o4, 1) <= M(o4, 4) /\ M(o4, 2) = M(o3, 2) /\ M(o4, 3) = M(o3, 3)
      /\ \/ M(o4, 1) = M(o3, 1)
         \/ M(o4, 1) = M(o3, 4) /\ M(o4, 4) = M(o3, 1)
  <2>1. Ordered(group, o3, o4, 1, 4)
    BY <1>3, ExchangeOrders DEF InGroup
  <2>. HIDE DEF o4
  <2>. QED
    BY <2>1 DEF Ordered, M, InGroup
<1>. HIDE DEF o4
<1>5. /\ Places4(o5) /\ M(o5, 2) <= M(o5, 3) /\ M(o5, 1) = M(o4, 1) /\ M(o5, 4) = M(o4, 4)
      /\ \/ M(o5, 2) = M(o4, 2) /\ M(o5, 3) = M(o4, 3)
         \/ M(o5, 2) = M(o4, 3) /\ M(o5, 3) = M(o4, 2)
  <2>1. Ordered(group, o4, o5, 2, 3)
    BY <1>4, ExchangeOrders DEF InGroup
  <2>. HIDE DEF o5
  <2>. QED
    BY <2>1 DEF Ordered, M, InGroup
<1>. HIDE DEF o5
<1>6. /\ Places4(o6) /\ M(o6, 2) <= M(o6, 4) /\ M(o6, 1) = M(o5, 1) /\ M(o6, 3) = M(o5, 3)
      /\ \/ M(o6, 2) = M(o5, 2) /\ M(o6, 4) = M(o5, 4)
         \/ M(o6, 2) = M(o5, 4) /\ M(o6, 4) = M(o5, 2)
  <2>1. Ordered(group, o5, o6, 2, 4)
    BY <1>5, ExchangeOrders DEF InGroup
  <2>. HIDE DEF o6
  <2>. QED
    BY <2>1 DEF Ordered, M, InGroup
<1>. HIDE DEF o6
<1>7. /\ Places4(o7) /\ M(o7, 1) = M(o6, 1) /\ M(o7, 2) = M(o6, 2)
      /\ \/ M(o7, 3) = M(o6, 3) /\ M(o7, 4) = M(o6, 4)
         \/ M(o7, 3) = M(o6, 4) /\ M(o7, 4) = M(o6, 3)
  <2>1. Ordered(group, o6, o7, 3, 4)
    BY <1>6, ExchangeOrders DEF InGroup
  <2>. HIDE DEF o7
  <2>. QED
    BY <2>1 DEF Ordered, M, InGroup
<1>. HIDE DEF o7
<1>8. ASSUME NEW o, Places4(o), NEW k \in InGroup PROVE M(o, k) \in Nat
  BY <1>8, MagnitudeType DEF Places4, GroupTyped
<1>. HIDE DEF M
<1>9. \A k \in 1 .. 4 : M(o2, k) \in Nat /\ M(o3, k) \in Nat /\ M(o4, k) \in Nat /\ M(o5, k) \in Nat
                        /\ M(o6, k) \in Nat /\ M(o7, k) \in Nat
  BY <1>2, <1>3, <1>4, <1>5, <1>6, <1>7, <1>8 DEF InGroup
<1>10. M(o4, 1) <= M(o4, 2) /\ M(o4, 1) <= M(o4, 3) /\ M(o4, 1) <= M(o4, 4)
  BY <1>2, <1>3, <1>4, <1>9
<1>11. M(o6, 1) <= M(o6, 3) /\ M(o6, 1) <= M(o6, 4) /\ M(o6, 2) <= M(o6, 3) /\ M(o6, 2) <= M(o6, 4)
  BY <1>5, <1>6, <1>9, <1>10
<1>12. M(o7, 1) <= M(o7, 3) /\ M(o7, 1) <= M(o7, 4) /\ M(o7, 2) <= M(o7, 3) /\ M(o7, 2) <= M(o7, 4)
  BY <1>7, <1>9, <1>11
<1>. QED
  BY <1>0, <1>7, <1>12 DEF M

\* Two places are kept; none dropped has a weight larger than one kept.
LEMMA KeptTwo ==
    ASSUME NEW group, GroupTyped(group)
    PROVE  /\ KeptPlaces(group) \subseteq InGroup
           /\ \E a, b \in InGroup : a < b /\ KeptPlaces(group) = {a, b}
           /\ \A p \in KeptPlaces(group), q \in InGroup \ KeptPlaces(group) :
                 Magnitude(group[q]) <= Magnitude(group[p])
<1>. DEFINE o == Order(group)
<1>1. /\ Places4(o)
      /\ \A a \in {1, 2} : \A b \in {3, 4} : Magnitude(group[o[a]]) <= Magnitude(group[o[b]])
  BY OrderSorts
<1>2. KeptPlaces(group) = {o[3], o[4]}
  BY DEF KeptPlaces
<1>. HIDE DEF o
<1>3. /\ o[1] \in 1 .. 4 /\ o[2] \in 1 .. 4 /\ o[3] \in 1 .. 4 /\ o[4] \in 1 .. 4
      /\ o[1] # o[2] /\ o[1] # o[3] /\ o[1] # o[4] /\ o[2] # o[3] /\ o[2] # o[4] /\ o[3] # o[4]
  BY <1>1 DEF Places4, InGroup
<1>4. \A q \in 1 .. 4 : q \notin {o[3], o[4]} => q = o[1] \/ q = o[2]
  BY <1>3
<1>5. \E a, b \in InGroup : a < b /\ KeptPlaces(group) = {a, b}
  <2>1. CASE o[3] < o[4]
    BY <1>2, <1>3, <2>1 DEF InGroup
  <2>2. CASE o[4] < o[3]
    <3>1. KeptPlaces(group) = {o[4], o[3]}
      BY <1>2
    <3>. QED
      BY <1>3, <2>2, <3>1 DEF InGroup
  <2>. QED
    BY <1>3, <2>1, <2>2
<1>6. \A p \in {o[3], o[4]}, q \in InGroup \ {o[3], o[4]} : Magnitude(group[q]) <= Magnitude(group[p])
  BY <1>1, <1>4 DEF InGroup
<1>. QED
  BY <1>2, <1>3, <1>5, <1>6 DEF InGroup

\* A pair has two members.
LEMMA PairSize == ASSUME NEW a, NEW b, a # b PROVE IsFiniteSet({a, b}) /\ Cardinality({a, b}) = 2
<1>1. {a, b} = {a} \cup {b} /\ {a} \cap {b} = {}
  OBVIOUS
<1>2. IsFiniteSet({a}) /\ IsFiniteSet({b}) /\ Cardinality({a}) = 1 /\ Cardinality({b}) = 1
  BY FS_Singleton
<1>3. Cardinality({a} \cup {b}) = 1 + 1 - Cardinality({a} \cap {b}) /\ IsFiniteSet({a} \cup {b})
  BY <1>2, FS_Union
<1>. QED
  BY <1>1, <1>3, FS_EmptySet

\* The places of a mask of two, in order.
LEMMA NthOfPair ==
    ASSUME NEW a \in Int, NEW b \in Int, a < b
    PROVE  NthBit({a, b}, 1) = a /\ NthBit({a, b}, 2) = b
<1>1. Min({a, b}) = a
  BY DEF Min
<1>2. Max({a, b}) = b
  BY DEF Max
<1>. QED
  BY <1>1, <1>2 DEF NthBit

\* A mask the validator accepts has a first and a second place.
LEMMA ValidMask ==
    ASSUME NEW mask \in SUBSET InGroup, MaskValid(mask)
    PROVE  \E a, b \in InGroup : a < b /\ mask = {a, b}
<1>1. IsFiniteSet(InGroup) /\ IsFiniteSet(mask) /\ Cardinality(mask) = 2
  <2>1. IsFiniteSet(InGroup)
    <3>1. IsFiniteSet(1 .. 4)
      <4>1. 1 \in Int /\ 4 \in Int
        OBVIOUS
      <4>. QED
        BY <4>1, FS_Interval
    <3>. QED
      BY <3>1 DEF InGroup
  <2>. QED
    BY <2>1, FS_Subset DEF MaskValid
<1>2. mask # {}
  BY <1>1, FS_EmptySet
<1>3. PICK x \in mask : TRUE
  BY <1>2
<1>4. IsFiniteSet(mask \ {x}) /\ Cardinality(mask \ {x}) = 1
  BY <1>1, <1>3, FS_RemoveElement
<1>5. PICK y \in mask \ {x} : TRUE
  BY <1>4, FS_EmptySet
<1>6. Cardinality((mask \ {x}) \ {y}) = 0 /\ IsFiniteSet((mask \ {x}) \ {y})
  BY <1>4, <1>5, FS_RemoveElement
<1>7. (mask \ {x}) \ {y} = {}
  BY <1>6, FS_EmptySet
<1>8. mask = {x, y} /\ x # y /\ x \in 1 .. 4 /\ y \in 1 .. 4 /\ mask = {y, x}
  <2>1. mask = {x, y} /\ mask = {y, x} /\ x # y
    BY <1>3, <1>5, <1>7
  <2>. QED
    BY <1>3, <1>5, <2>1 DEF InGroup
<1>9. x < y \/ y < x
  BY <1>8
<1>. QED
  BY <1>8, <1>9 DEF InGroup

-----------------------------------------------------------------------------
(* The matrices: what pruning and packing make of the weights. *)

GroupCount == Depth \div 4

\* The functions Prune and Compress leave.
PrunedOf(w) == [m \in DOMAIN w |-> [g \in DOMAIN Groups(w[m]) |-> PruneGroup(Groups(w[m])[g])]]
MasksOf(w) == [m \in DOMAIN w |-> [g \in DOMAIN Groups(w[m]) |-> KeptPlaces(Groups(w[m])[g])]]
PackedOf(w) ==
    [m \in DOMAIN w |-> [g \in DOMAIN Groups(w[m]) |->
        EncodeGroup(PruneGroup(Groups(w[m])[g]), KeptPlaces(Groups(w[m])[g]))]]

\* Matrices that may be multiplied.
Given == weights \in Weights /\ activations \in Activations /\ Len(weights[1]) = Len(activations)

\* Accepted matrices are rectangles of integers, a multiple of four deep.
LEMMA GivenShapes ==
    ASSUME Given
    PROVE  /\ Rows \in Nat \ {0} /\ Columns \in Nat \ {0} /\ Depth \in Nat \ {0}
           /\ GroupCount \in Nat \ {0} /\ Depth = 4 * GroupCount
           /\ DOMAIN weights = 1 .. Rows /\ weights # <<>>
           /\ \A m \in 1 .. Rows : weights[m] \in [1 .. Depth -> Int] /\ Len(weights[m]) = Depth
           /\ DOMAIN activations = 1 .. Depth
           /\ \A k \in 1 .. Depth : activations[k] \in [1 .. Columns -> Int]
<1>1. /\ weights \in Seq(Seq(Int)) /\ weights # <<>> /\ Len(weights[1]) > 0 /\ Len(weights[1]) % 4 = 0
      /\ \A m \in DOMAIN weights : Len(weights[m]) = Len(weights[1])
  BY SparsityAssumption DEF Given
<1>2. /\ activations \in Seq(Seq(Int)) /\ activations # <<>> /\ Len(activations[1]) > 0
      /\ \A k \in DOMAIN activations : Len(activations[k]) = Len(activations[1])
  BY SparsityAssumption DEF Given
<1>3. Len(weights) \in Nat \ {0} /\ DOMAIN weights = 1 .. Len(weights) /\ 1 \in DOMAIN weights
  BY <1>1
<1>4. \A m \in DOMAIN weights : weights[m] \in Seq(Int)
  BY <1>1
<1>5. Depth \in Nat \ {0} /\ Depth % 4 = 0
  BY <1>1, <1>3, <1>4 DEF Depth
<1>6. \A m \in 1 .. Rows : weights[m] \in [1 .. Depth -> Int] /\ Len(weights[m]) = Depth
  <2>. SUFFICES ASSUME NEW m \in DOMAIN weights
                PROVE  weights[m] \in [1 .. Len(weights[1]) -> Int] /\ Len(weights[m]) = Len(weights[1])
    BY <1>3 DEF Rows, Depth
  <2>1. weights[m] \in Seq(Int) /\ Len(weights[m]) = Len(weights[1])
    BY <1>1, <1>4
  <2>2. weights[m] \in [1 .. Len(weights[m]) -> Int]
    BY <2>1
  <2>. QED
    BY <2>1, <2>2
<1>7. Len(activations) \in Nat \ {0} /\ DOMAIN activations = 1 .. Len(activations) /\ 1 \in DOMAIN activations
  BY <1>2
<1>8. \A k \in DOMAIN activations : activations[k] \in Seq(Int)
  BY <1>2
<1>9. Columns \in Nat \ {0}
  BY <1>2, <1>7, <1>8 DEF Columns
<1>10. \A k \in DOMAIN activations : activations[k] \in [1 .. Columns -> Int]
  BY <1>2, <1>7, <1>8 DEF Columns
<1>11. DOMAIN activations = 1 .. Depth
  BY <1>7 DEF Given, Depth
<1>12. GroupCount \in Nat \ {0} /\ Depth = 4 * GroupCount
  BY <1>5 DEF GroupCount
<1>. QED
  BY <1>1, <1>3, <1>5, <1>6, <1>9, <1>10, <1>11, <1>12 DEF Rows

\* The groups of a row are its quarters.
LEMMA GroupsOfRow ==
    ASSUME NEW n \in Nat \ {0}, NEW row, row \in [1 .. 4 * n -> Int], Len(row) = 4 * n
    PROVE  /\ DOMAIN Groups(row) = 1 .. n
           /\ \A g \in 1 .. n : /\ GroupTyped(Groups(row)[g])
                                /\ \A p \in InGroup : Groups(row)[g][p] = row[4 * (g - 1) + p]
<1>1. Len(row) \div 4 = n
  OBVIOUS
<1>2. Groups(row) = [g \in 1 .. n |-> SubSeq(row, 4 * g - 3, 4 * g)]
  BY <1>1 DEF Groups
<1>3. ASSUME NEW g \in 1 .. n
      PROVE  SubSeq(row, 4 * g - 3, 4 * g) = [p \in 1 .. 4 |-> row[4 * g - 3 + p - 1]]
  <2>1. 4 * g - (4 * g - 3) + 1 = 4
    OBVIOUS
  <2>. QED
    BY <2>1 DEF SubSeq
<1>4. ASSUME NEW g \in 1 .. n, NEW p \in 1 .. 4
      PROVE  4 * g - 3 + p - 1 = 4 * (g - 1) + p /\ 4 * (g - 1) + p \in 1 .. 4 * n
  OBVIOUS
<1>5. ASSUME NEW g \in 1 .. n PROVE Groups(row)[g] = [p \in 1 .. 4 |-> row[4 * (g - 1) + p]]
  <2>1. \A p \in 1 .. 4 : row[4 * g - 3 + p - 1] = row[4 * (g - 1) + p]
    BY <1>4
  <2>2. Groups(row)[g] = [p \in 1 .. 4 |-> row[4 * g - 3 + p - 1]]
    BY <1>2, <1>3
  <2>. QED
    BY <2>1, <2>2
<1>6. ASSUME NEW g \in 1 .. n, NEW p \in 1 .. 4 PROVE row[4 * (g - 1) + p] \in Int
  BY <1>4
<1>7. DOMAIN Groups(row) = 1 .. n
  BY ONLY <1>2
<1>8. ASSUME NEW g \in 1 .. n
      PROVE  /\ GroupTyped(Groups(row)[g])
             /\ \A p \in InGroup : Groups(row)[g][p] = row[4 * (g - 1) + p]
  <2>. DEFINE q == [p \in 1 .. 4 |-> row[4 * (g - 1) + p]]
  <2>1. Groups(row)[g] = q
    BY <1>5
  <2>2. \A p \in 1 .. 4 : q[p] = row[4 * (g - 1) + p] /\ q[p] \in Int
    BY <1>6
  <2>3. q \in [1 .. 4 -> Int]
    BY <1>6
  <2>. HIDE DEF q
  <2>. QED
    BY ONLY <2>1, <2>2, <2>3 DEF GroupTyped, InGroup
<1>. QED
  BY <1>7, <1>8

\* What is kept of group g of row m: two places and their weights; the rest is
\* zero, and none of it was larger.
LEMMA GivenGroups ==
    ASSUME Given
    PROVE  /\ DOMAIN PrunedOf(weights) = 1 .. Rows /\ DOMAIN MasksOf(weights) = 1 .. Rows
           /\ DOMAIN PackedOf(weights) = 1 .. Rows
           /\ \A m \in 1 .. Rows : /\ DOMAIN Groups(weights[m]) = 1 .. GroupCount
                                   /\ DOMAIN PrunedOf(weights)[m] = 1 .. GroupCount
                                   /\ DOMAIN MasksOf(weights)[m] = 1 .. GroupCount
                                   /\ DOMAIN PackedOf(weights)[m] = 1 .. GroupCount
           /\ \A m \in 1 .. Rows : \A g \in 1 .. GroupCount :
                 /\ GroupTyped(Groups(weights[m])[g])
                 /\ PrunedOf(weights)[m][g] = PruneGroup(Groups(weights[m])[g])
                 /\ MasksOf(weights)[m][g] = KeptPlaces(Groups(weights[m])[g])
                 /\ PackedOf(weights)[m][g] = EncodeGroup(PrunedOf(weights)[m][g], MasksOf(weights)[m][g])
<1>. DEFINE w == weights
            n == GroupCount
<1>1. /\ DOMAIN w = 1 .. Rows /\ n \in Nat \ {0} /\ Depth = 4 * n
      /\ \A m \in 1 .. Rows : w[m] \in [1 .. Depth -> Int] /\ Len(w[m]) = Depth
  BY GivenShapes
<1>. HIDE DEF n
<1>2. ASSUME NEW m \in 1 .. Rows
      PROVE  /\ DOMAIN Groups(w[m]) = 1 .. n
             /\ \A g \in 1 .. n : GroupTyped(Groups(w[m])[g])
  BY <1>1, GroupsOfRow
<1>. QED
  BY <1>1, <1>2 DEF PrunedOf, MasksOf, PackedOf, n

\* The weights packed for a group.
PairKept(group, pruning, mask, pack) ==
    \E a, b \in InGroup :
        /\ a < b /\ mask = {a, b} /\ NthBit(mask, 1) = a /\ NthBit(mask, 2) = b
        /\ pruning[a] = group[a] /\ pruning[b] = group[b]
        /\ \A p \in InGroup \ {a, b} : pruning[p] = 0
        /\ pack.mask = mask /\ pack.values = <<pruning[a], pruning[b]>>
        /\ MaskValid(mask)

\* Pruning and packing keep the same two weights of a group.
LEMMA GroupKept ==
    ASSUME NEW group, GroupTyped(group)
    PROVE  LET pruning == PruneGroup(group)
               mask == KeptPlaces(group)
           IN  /\ pruning \in [InGroup -> Int] /\ mask \in SUBSET InGroup
               /\ PairKept(group, pruning, mask, EncodeGroup(pruning, mask))
<1>. DEFINE pruning == PruneGroup(group)
            mask == KeptPlaces(group)
            pack == EncodeGroup(pruning, mask)
<1>1. mask \subseteq InGroup
  BY KeptTwo
<1>2. PICK a \in InGroup, b \in InGroup : a < b /\ mask = {a, b}
  BY KeptTwo
<1>3. pruning = [p \in InGroup |-> IF p \in mask THEN group[p] ELSE 0]
  BY DEF PruneGroup
<1>4. pruning \in [InGroup -> Int]
  BY <1>3 DEF GroupTyped
<1>5. pack.mask = mask /\ pack.values = <<pruning[NthBit(mask, 1)], pruning[NthBit(mask, 2)]>>
  BY DEF EncodeGroup
<1>6. NthBit(mask, 1) = a /\ NthBit(mask, 2) = b
  <2>. HIDE DEF mask
  <2>. QED
    BY <1>2, NthOfPair DEF InGroup
<1>7. MaskValid(mask)
  <2>1. a # b
    BY <1>2 DEF InGroup
  <2>. HIDE DEF mask
  <2>. QED
    BY <1>2, <2>1, PairSize DEF MaskValid
<1>. HIDE DEF mask, pruning, pack
<1>8. pruning[a] = group[a] /\ pruning[b] = group[b] /\ \A p \in InGroup \ {a, b} : pruning[p] = 0
  BY <1>2, <1>3
<1>9. PairKept(group, pruning, mask, pack)
  BY <1>2, <1>5, <1>6, <1>7, <1>8 DEF PairKept
<1>. QED
  BY <1>1, <1>4, <1>9 DEF mask, pruning, pack

-----------------------------------------------------------------------------
(* The terms of a product. *)

\* Packed weights and the masks they were packed with.
Ready ==
    /\ Given /\ pruned = PrunedOf(weights) /\ packed = PackedOf(weights)
    /\ masks = MasksOf(weights)

\* The place in its group and the value of the i-th weight kept.
Bit(m, g, i) == NthBit(masks[m + 1][g], i)
KeptValue(m, g, i) == packed[m + 1][g].values[i]

\* Behind masks that agree each packed value is the weight of its place.
LEMMA ReadyWeights ==
    ASSUME Ready, NEW m \in 0 .. Rows - 1
    PROVE  /\ Len(packed[m + 1]) = GroupCount
           /\ \A g \in 1 .. GroupCount :
                 /\ pruned[m + 1][g] \in [InGroup -> Int]
                 /\ Bit(m, g, 1) < Bit(m, g, 2)
                 /\ \A i \in {1, 2} : /\ Bit(m, g, i) \in InGroup
                                      /\ KeptValue(m, g, i) = pruned[m + 1][g][Bit(m, g, i)]
                                      /\ KeptValue(m, g, i) \in Int
                 /\ \A p \in InGroup : p # Bit(m, g, 1) /\ p # Bit(m, g, 2) => pruned[m + 1][g][p] = 0
                 /\ packed[m + 1][g].mask = masks[m + 1][g] /\ MaskValid(masks[m + 1][g])
<1>1. Given /\ Rows \in Nat /\ GroupCount \in Nat /\ m + 1 \in 1 .. Rows
  BY GivenShapes DEF Ready
<1>2. Len(packed[m + 1]) = GroupCount
  <2>1. packed[m + 1] = [g \in 1 .. GroupCount |-> packed[m + 1][g]]
    BY <1>1, GivenGroups DEF Ready, PackedOf
  <2>. DEFINE s == packed[m + 1]
  <2>. HIDE DEF s
  <2>2. s = [g \in 1 .. GroupCount |-> s[g]]
    BY <2>1 DEF s
  <2>3. Len(s) = GroupCount
    BY <1>1, <2>2
  <2>. QED
    BY <2>3 DEF s
<1>3. ASSUME NEW g \in 1 .. GroupCount
      PROVE  /\ pruned[m + 1][g] \in [InGroup -> Int]
             /\ \E group : PairKept(group, pruned[m + 1][g], masks[m + 1][g], packed[m + 1][g])
  <2>. DEFINE group == Groups(weights[m + 1])[g]
  <2>1. /\ GroupTyped(group)
        /\ pruned[m + 1][g] = PruneGroup(group) /\ masks[m + 1][g] = KeptPlaces(group)
        /\ packed[m + 1][g] = EncodeGroup(pruned[m + 1][g], masks[m + 1][g])
    BY <1>1, GivenGroups DEF Ready
  <2>. HIDE DEF group
  <2>. QED
    BY <2>1, GroupKept
<1>4. ASSUME NEW g \in 1 .. GroupCount
      PROVE  /\ pruned[m + 1][g] \in [InGroup -> Int]
             /\ Bit(m, g, 1) < Bit(m, g, 2)
             /\ \A i \in {1, 2} : /\ Bit(m, g, i) \in InGroup
                                  /\ KeptValue(m, g, i) = pruned[m + 1][g][Bit(m, g, i)]
                                  /\ KeptValue(m, g, i) \in Int
             /\ \A p \in InGroup : p # Bit(m, g, 1) /\ p # Bit(m, g, 2) => pruned[m + 1][g][p] = 0
             /\ packed[m + 1][g].mask = masks[m + 1][g] /\ MaskValid(masks[m + 1][g])
  <2>. DEFINE pruning == pruned[m + 1][g]
              mask == masks[m + 1][g]
              pack == packed[m + 1][g]
  <2>1. pruning \in [InGroup -> Int]
    BY <1>3
  <2>2. PICK group : PairKept(group, pruning, mask, pack)
    BY <1>3
  <2>. HIDE DEF pruning, mask, pack
  <2>3. PICK a \in InGroup, b \in InGroup :
           /\ a < b /\ NthBit(mask, 1) = a /\ NthBit(mask, 2) = b
           /\ \A p \in InGroup \ {a, b} : pruning[p] = 0
           /\ pack.mask = mask /\ pack.values = <<pruning[a], pruning[b]>>
           /\ MaskValid(mask)
    BY <2>2 DEF PairKept
  <2>4. /\ pack.values[1] = pruning[NthBit(mask, 1)] /\ pack.values[2] = pruning[NthBit(mask, 2)]
        /\ pruning[a] \in Int /\ pruning[b] \in Int
    BY <2>1, <2>3
  <2>5. \A i \in {1, 2} : /\ NthBit(mask, i) \in InGroup /\ pack.values[i] = pruning[NthBit(mask, i)]
                          /\ pack.values[i] \in Int
    BY <2>3, <2>4
  <2>. QED
    BY <2>1, <2>3, <2>5 DEF pruning, mask, pack, Bit, KeptValue
<1>. QED
  BY <1>2, <1>4

\* Where the kept weights stand in their row.
LEMMA KeptPosition ==
    ASSUME Ready, NEW m \in 0 .. Rows - 1, NEW g \in 1 .. GroupCount, NEW i \in {1, 2}
    PROVE  /\ KeptAt(m, g, i) \in 1 .. Depth
           /\ (KeptAt(m, g, i) - 1) \div 4 = g - 1
           /\ (KeptAt(m, g, i) - 1) % 4 = Bit(m, g, i) - 1
<1>1. Bit(m, g, i) \in 1 .. 4
  BY ReadyWeights DEF InGroup
<1>2. KeptAt(m, g, i) = 4 * (g - 1) + Bit(m, g, i)
  BY DEF KeptAt, Bit
<1>3. Depth = 4 * GroupCount /\ GroupCount \in Nat
  BY GivenShapes DEF Ready
<1>. QED
  BY <1>1, <1>2, <1>3

\* No two kept weights of a row share a k.
LEMMA KeptApart ==
    ASSUME Ready, NEW m \in 0 .. Rows - 1,
           NEW g \in 1 .. GroupCount, NEW i \in {1, 2}, NEW h \in 1 .. GroupCount, NEW j \in {1, 2},
           KeptAt(m, g, i) = KeptAt(m, h, j)
    PROVE  g = h /\ i = j
<1>1. g - 1 = h - 1 /\ Bit(m, g, i) - 1 = Bit(m, h, j) - 1
  BY KeptPosition
<1>2. g = h
  <2>1. g \in Int /\ h \in Int
    BY GivenShapes DEF Ready
  <2>. QED
    BY <1>1, <2>1
<1>3. Bit(m, g, i) \in Int /\ Bit(m, g, j) \in Int /\ Bit(m, g, 1) < Bit(m, g, 2)
  BY SMTT(60), ReadyWeights DEF InGroup
<1>4. Bit(m, g, i) = Bit(m, g, j)
  BY <1>1, <1>2, <1>3
<1>. QED
  BY <1>2, <1>3, <1>4

\* Terms are finite, and their products integers.
AllTerms == (1 .. GroupCount) \X {1, 2}
Term(m, n, gi) ==
    packed[m + 1][gi[1]].values[gi[2]] * activations[KeptAt(m, gi[1], gi[2])][n + 1]

\* Two terms for each group of a row.
LEMMA AllTermsFinite ==
    ASSUME Given
    PROVE  IsFiniteSet(AllTerms) /\ Cardinality(AllTerms) = GroupCount * 2
<1>1. GroupCount \in Nat
  BY GivenShapes
<1>2. IsFiniteSet(1 .. GroupCount) /\ Cardinality(1 .. GroupCount) = GroupCount
  BY <1>1, FS_Interval
<1>3. IsFiniteSet({1, 2}) /\ Cardinality({1, 2}) = 2
  <2>1. 1 # 2
    OBVIOUS
  <2>. QED
    BY <2>1, PairSize
<1>. DEFINE A == 1 .. GroupCount
            B == {1, 2}
<1>4. AllTerms = A \X B
  BY DEF AllTerms
<1>5. /\ IsFiniteSet(A) /\ Cardinality(A) = GroupCount
      /\ IsFiniteSet(B) /\ Cardinality(B) = 2
  BY <1>2, <1>3
<1>. HIDE DEF A, B
<1>6. IsFiniteSet(A \X B) /\ Cardinality(A \X B) = Cardinality(A) * Cardinality(B)
  BY <1>5, FS_Product
<1>. QED
  BY <1>4, <1>5, <1>6

\* The terms of a range of k: the kept weights in it that are not zero.
LEMMA TermsAre ==
    ASSUME Ready, NEW m \in 0 .. Rows - 1, NEW ks
    PROVE  /\ \A gi : gi \in Terms(m, ks) <=>
                         /\ gi \in AllTerms
                         /\ KeptAt(m, gi[1], gi[2]) - 1 \in ks
                         /\ KeptValue(m, gi[1], gi[2]) # 0
           /\ Terms(m, ks) \subseteq AllTerms /\ IsFiniteSet(Terms(m, ks))
           /\ \A n \in 0 .. Columns - 1 : \A gi \in AllTerms : Term(m, n, gi) \in Int
<1>1. Len(packed[m + 1]) = GroupCount
  BY ReadyWeights
<1>2. \A gi : gi \in Terms(m, ks) <=> /\ gi \in AllTerms
                                      /\ KeptAt(m, gi[1], gi[2]) - 1 \in ks
                                      /\ KeptValue(m, gi[1], gi[2]) # 0
  BY <1>1 DEF Terms, AllTerms, KeptValue
<1>3. Terms(m, ks) \subseteq AllTerms
  BY <1>2
<1>4. IsFiniteSet(Terms(m, ks))
  BY <1>3, AllTermsFinite, FS_Subset DEF Ready
<1>5. ASSUME NEW n \in 0 .. Columns - 1, NEW gi \in AllTerms PROVE Term(m, n, gi) \in Int
  <2>1. gi[1] \in 1 .. GroupCount /\ gi[2] \in {1, 2}
    BY DEF AllTerms
  <2>2. KeptAt(m, gi[1], gi[2]) \in 1 .. Depth
    BY <2>1, KeptPosition
  <2>3. KeptValue(m, gi[1], gi[2]) \in Int
    BY <2>1, ReadyWeights
  <2>4. n + 1 \in 1 .. Columns
    BY GivenShapes DEF Ready
  <2>5. activations[KeptAt(m, gi[1], gi[2])] \in [1 .. Columns -> Int]
    BY <2>2, GivenShapes DEF Ready
  <2>6. activations[KeptAt(m, gi[1], gi[2])][n + 1] \in Int
    BY <2>4, <2>5
  <2>. QED
    BY <2>3, <2>6 DEF Term, KeptValue
<1>. QED
  BY <1>2, <1>3, <1>4, <1>5

\* A sum of terms is a balance, an integer.
LEMMA SumBalance ==
    ASSUME Ready, NEW m \in 0 .. Rows - 1, NEW n \in 0 .. Columns - 1, NEW ks
    PROVE  /\ SumTerms(m, ks, n) = Balance([gi \in Terms(m, ks) |-> Term(m, n, gi)])
           /\ [gi \in Terms(m, ks) |-> Term(m, n, gi)] \in [Terms(m, ks) -> Int]
           /\ SumTerms(m, ks, n) \in Int
<1>. DEFINE T == Terms(m, ks)
            f == [gi \in T |-> Term(m, n, gi)]
<1>1. IsFiniteSet(T) /\ T \subseteq AllTerms /\ \A gi \in AllTerms : Term(m, n, gi) \in Int
  BY TermsAre
<1>2. SumTerms(m, ks, n) = SumFunction(f)
  BY DEF SumTerms, Term
<1>. HIDE DEF T
<1>3. f \in [T -> Int]
  BY <1>1
<1>. HIDE DEF f
<1>4. SumFunction(f) = Balance(f) /\ Balance(f) \in Int
  BY <1>1, <1>3, SumIsBalance, BalanceParts
<1>. QED
  BY <1>2, <1>3, <1>4 DEF f, T

\* The terms below l are those below k and those from k on.
LEMMA SumJoins ==
    ASSUME Ready, NEW m \in 0 .. Rows - 1, NEW n \in 0 .. Columns - 1, NEW k \in Nat, NEW l \in Nat, k <= l
    PROVE  SumTerms(m, 0 .. l - 1, n) = SumTerms(m, 0 .. k - 1, n) + SumTerms(m, k .. l - 1, n)
<1>. DEFINE S == Terms(m, 0 .. l - 1)
            A == Terms(m, 0 .. k - 1)
            B == Terms(m, k .. l - 1)
            f == [gi \in S |-> Term(m, n, gi)]
<1>1. A \subseteq S /\ B = S \ A
  <2>1. \A gi \in AllTerms : KeptAt(m, gi[1], gi[2]) - 1 \in Nat
    <3>. SUFFICES ASSUME NEW gi \in AllTerms PROVE KeptAt(m, gi[1], gi[2]) - 1 \in Nat
      OBVIOUS
    <3>1. gi[1] \in 1 .. GroupCount /\ gi[2] \in {1, 2}
      BY DEF AllTerms
    <3>2. KeptAt(m, gi[1], gi[2]) \in 1 .. Depth
      BY <3>1, KeptPosition
    <3>. QED
      BY <3>2, GivenShapes DEF Ready
  <2>2. \A x \in Nat : /\ x \in 0 .. l - 1 <=> x \in 0 .. k - 1 \/ x \in k .. l - 1
                       /\ ~ (x \in 0 .. k - 1 /\ x \in k .. l - 1)
    OBVIOUS
  <2>3. \A gi : /\ gi \in S <=> gi \in A \/ gi \in B
                /\ ~ (gi \in A /\ gi \in B)
    BY <2>1, <2>2, TermsAre
  <2>. HIDE DEF S, A, B
  <2>. QED
    BY <2>3
<1>2. IsFiniteSet(S)
  BY TermsAre
<1>7. f \in [S -> Int]
  BY SumBalance
<1>3. /\ SumTerms(m, 0 .. l - 1, n) = Balance(f)
      /\ SumTerms(m, 0 .. k - 1, n) = Balance([gi \in A |-> Term(m, n, gi)])
      /\ SumTerms(m, k .. l - 1, n) = Balance([gi \in B |-> Term(m, n, gi)])
  BY SumBalance
<1>. HIDE DEF S, A, B
<1>4. [gi \in A |-> f[gi]] = [gi \in A |-> Term(m, n, gi)] /\ [gi \in S \ A |-> f[gi]] = [gi \in B |-> Term(m, n, gi)]
  BY <1>1
<1>. HIDE DEF f
<1>5. A \in SUBSET S
  BY <1>1
<1>6. Balance(f) = Balance([gi \in A |-> f[gi]]) + Balance([gi \in S \ A |-> f[gi]])
  BY ONLY <1>2, <1>5, <1>7, BalanceJoined
<1>. QED
  BY <1>3, <1>4, <1>6

\* A range without a k adds nothing.
LEMMA SumOfNone ==
    ASSUME Ready, NEW m \in 0 .. Rows - 1, NEW n \in 0 .. Columns - 1
    PROVE  SumTerms(m, 0 .. 0 - 1, n) = 0 /\ Terms(m, 0 .. 0 - 1) = {}
<1>1. Terms(m, 0 .. 0 - 1) = {}
  BY TermsAre
<1>2. \A gi \in DOMAIN [gi \in {} |-> Term(m, n, gi)] : [x \in {} |-> Term(m, n, x)][gi] = 0
  OBVIOUS
<1>3. Balance([gi \in {} |-> Term(m, n, gi)]) = 0
  BY <1>2, BalanceNone
<1>4. SumTerms(m, 0 .. 0 - 1, n) = Balance([gi \in Terms(m, 0 .. 0 - 1) |-> Term(m, n, gi)])
  BY SumBalance
<1>. QED
  BY <1>1, <1>3, <1>4

\* All terms together are the dense product of the pruned weights.
LEMMA SumIsDense ==
    ASSUME Ready, NEW m \in 0 .. Rows - 1, NEW n \in 0 .. Columns - 1
    PROVE  SumTerms(m, 0 .. Depth - 1, n) = DenseProduct(m + 1, n + 1)
<1>. DEFINE S == 1 .. Depth
            T == Terms(m, 0 .. Depth - 1)
            weight(k) == pruned[m + 1][1 + (k - 1) \div 4][1 + ((k - 1) % 4)]
            f == [k \in S |-> weight(k) * activations[k][n + 1]]
            g == [gi \in T |-> Term(m, n, gi)]
            p == [gi \in T |-> KeptAt(m, gi[1], gi[2])]
<1>1. /\ Depth \in Nat /\ GroupCount \in Nat /\ Depth = 4 * GroupCount /\ n + 1 \in 1 .. Columns
      /\ \A k \in S : activations[k] \in [1 .. Columns -> Int]
  BY GivenShapes DEF Ready
<1>2. ASSUME NEW k \in S
      PROVE  /\ 1 + (k - 1) \div 4 \in 1 .. GroupCount /\ 1 + ((k - 1) % 4) \in InGroup
             /\ k = 4 * ((1 + (k - 1) \div 4) - 1) + (1 + ((k - 1) % 4))
  BY <1>1 DEF InGroup
<1>3. f \in [S -> Int]
  <2>. SUFFICES ASSUME NEW k \in S PROVE weight(k) * activations[k][n + 1] \in Int
    OBVIOUS
  <2>1. weight(k) \in Int
    BY <1>2, ReadyWeights
  <2>2. activations[k][n + 1] \in Int
    BY <1>1
  <2>. HIDE DEF weight
  <2>. QED
    BY <2>1, <2>2
<1>4. IsFiniteSet(S)
  BY <1>1, FS_Interval
<1>5. /\ IsFiniteSet(T) /\ T \subseteq AllTerms /\ g \in [T -> Int]
      /\ SumTerms(m, 0 .. Depth - 1, n) = Balance(g)
  BY TermsAre, SumBalance
<1>6. DenseProduct(m + 1, n + 1) = SumFunction(f)
  BY DEF DenseProduct
<1>7. ASSUME NEW gi \in AllTerms
      PROVE  /\ gi[1] \in 1 .. GroupCount /\ gi[2] \in {1, 2} /\ gi = <<gi[1], gi[2]>>
             /\ KeptAt(m, gi[1], gi[2]) \in S
             /\ weight(KeptAt(m, gi[1], gi[2])) = KeptValue(m, gi[1], gi[2])
  <2>1. gi[1] \in 1 .. GroupCount /\ gi[2] \in {1, 2} /\ gi = <<gi[1], gi[2]>>
    BY DEF AllTerms
  <2>2. /\ KeptAt(m, gi[1], gi[2]) \in 1 .. Depth
        /\ (KeptAt(m, gi[1], gi[2]) - 1) \div 4 = gi[1] - 1
        /\ (KeptAt(m, gi[1], gi[2]) - 1) % 4 = Bit(m, gi[1], gi[2]) - 1
    BY <2>1, KeptPosition
  <2>3. KeptValue(m, gi[1], gi[2]) = pruned[m + 1][gi[1]][Bit(m, gi[1], gi[2])] /\ Bit(m, gi[1], gi[2]) \in InGroup
    BY <2>1, ReadyWeights
  <2>4. 1 + (gi[1] - 1) = gi[1] /\ 1 + (Bit(m, gi[1], gi[2]) - 1) = Bit(m, gi[1], gi[2])
    BY <1>1, <2>1, <2>3 DEF InGroup
  <2>5. weight(KeptAt(m, gi[1], gi[2])) = KeptValue(m, gi[1], gi[2])
    BY <2>2, <2>3, <2>4
  <2>. QED
    BY <2>1, <2>2, <2>5
<1>8. p \in Injection(T, S)
  <2>1. p \in [T -> S]
    BY <1>5, <1>7
  <2>2. ASSUME NEW x \in T, NEW y \in T, p[x] = p[y] PROVE x = y
    <3>1. x \in AllTerms /\ y \in AllTerms /\ KeptAt(m, x[1], x[2]) = KeptAt(m, y[1], y[2])
      BY <1>5, <2>2
    <3>2. x[1] = y[1] /\ x[2] = y[2]
      BY <1>7, <3>1, KeptApart
    <3>. QED
      BY <1>7, <3>1, <3>2
  <2>. QED
    BY <2>1, <2>2 DEF Injection, IsInjective
<1>9. \A t \in T : f[p[t]] = g[t]
  <2>. SUFFICES ASSUME NEW t \in T PROVE f[p[t]] = g[t]
    OBVIOUS
  <2>1. /\ KeptAt(m, t[1], t[2]) \in S
        /\ weight(KeptAt(m, t[1], t[2])) = KeptValue(m, t[1], t[2])
    BY <1>5, <1>7
  <2>2. f[p[t]] = KeptValue(m, t[1], t[2]) * activations[KeptAt(m, t[1], t[2])][n + 1]
    <3>. HIDE DEF weight
    <3>. QED
      BY <2>1
  <2>. QED
    BY <2>2 DEF Term, KeptValue
<1>10. ASSUME NEW k \in S, \A t \in T : p[t] # k PROVE f[k] = 0
  <2>. DEFINE h == 1 + (k - 1) \div 4
              q == 1 + ((k - 1) % 4)
  <2>1. h \in 1 .. GroupCount /\ q \in InGroup /\ k = 4 * (h - 1) + q /\ weight(k) = pruned[m + 1][h][q]
    BY <1>2
  <2>. HIDE DEF h, q
  <2>2. ASSUME NEW i \in {1, 2}, q = Bit(m, h, i) PROVE pruned[m + 1][h][q] = 0
    <3>1. KeptAt(m, h, i) = k
      BY <2>1, <2>2 DEF KeptAt, Bit
    <3>2. KeptValue(m, h, i) = pruned[m + 1][h][q]
      BY <2>1, <2>2, ReadyWeights
    <3>3. <<h, i>> \in AllTerms /\ <<h, i>>[1] = h /\ <<h, i>>[2] = i
      BY <2>1 DEF AllTerms
    <3>4. <<h, i>> \notin T
      BY <1>10, <3>1, <3>3
    <3>5. k - 1 \in 0 .. Depth - 1
      BY <1>1
    <3>. QED
      BY <3>1, <3>2, <3>3, <3>4, <3>5, TermsAre
  <2>3. pruned[m + 1][h][q] = 0
    BY <2>1, <2>2, ReadyWeights
  <2>4. activations[k][n + 1] \in Int
    BY <1>1
  <2>. HIDE DEF weight
  <2>. QED
    BY <2>1, <2>3, <2>4
<1>. HIDE DEF S, T, f, g, p
<1>11. Balance(f) = Balance(g)
  BY <1>3, <1>4, <1>5, <1>8, <1>9, <1>10, BalanceMoved
<1>12. SumFunction(f) = Balance(f)
  BY <1>3, <1>4, SumIsBalance
<1>. QED
  BY <1>5, <1>6, <1>11, <1>12

-----------------------------------------------------------------------------
(* The tiles: how far each sum has come when a tile is at hand. *)

Positions == (0 .. Rows - 1) \X (0 .. Columns - 1) \X (0 .. Depth - 1)

\* The terms of column n of row m below this one are added.
ReachedAt(here, m, n) ==
    IF here = Done \/ m < here[1] \/ (m < here[1] + blocking[1] /\ n < here[2]) THEN Depth
    ELSE IF m < here[1] + blocking[1] /\ n < here[2] + blocking[2] THEN here[3] ELSE 0

\* A tile is cut off at the border of the matrix.
LEMMA TileRangeIs ==
    ASSUME NEW from \in Nat, NEW size \in Nat \ {0}, NEW limit \in Nat, from < limit
    PROVE  \E last \in Nat :
              /\ TileRange(from, size, limit) = from .. last - 1
              /\ from < last /\ last = IF from + size < limit THEN from + size ELSE limit
<1>. DEFINE a == from + size
<1>1. a \in Nat
  OBVIOUS
<1>. HIDE DEF a
<1>2. Min({a, limit}) = IF a < limit THEN a ELSE limit
  BY <1>1 DEF Min
<1>3. TileRange(from, size, limit) = from .. Min({a, limit}) - 1
  BY DEF TileRange, a
<1>. QED
  BY <1>2, <1>3 DEF a

\* No tile leaves the matrix.
LEMMA TileRangeInside ==
    ASSUME NEW from \in Nat, NEW size \in Nat \ {0}, NEW limit \in Nat, from < limit
    PROVE  TileRange(from, size, limit) \subseteq 0 .. limit - 1
<1>1. PICK last \in Nat : /\ TileRange(from, size, limit) = from .. last - 1
                         /\ from < last /\ last = IF from + size < limit THEN from + size ELSE limit
  BY TileRangeIs
<1>2. last <= limit
  BY <1>1
<1>. QED
  BY <1>1, <1>2

BlockingTyped == blocking \in (Nat \ {0}) \X (Nat \ {0}) \X (Nat \ {0})

\* A tile moves the sums of its block on, and no others.
LEMMA TileReaches ==
    ASSUME Rows \in Nat, Columns \in Nat, Depth \in Nat, BlockingTyped, NEW here \in Positions,
           NEW m \in 0 .. Rows - 1, NEW n \in 0 .. Columns - 1
    PROVE  /\ ReachedAt(here, m, n) \in 0 .. Depth
           /\ ReachedAt(Advance(here), m, n) =
                IF m \in TileRange(here[1], blocking[1], Rows) /\ n \in TileRange(here[2], blocking[2], Columns)
                THEN IF here[3] + blocking[3] < Depth THEN here[3] + blocking[3] ELSE Depth
                ELSE ReachedAt(here, m, n)
           /\ m \in TileRange(here[1], blocking[1], Rows) /\ n \in TileRange(here[2], blocking[2], Columns)
                 => ReachedAt(here, m, n) = here[3]
           /\ Advance(here) = Done \/ Advance(here) \in Positions
<1>. DEFINE a == here[1]
            b == here[2]
            c == here[3]
            p == blocking[1]
            q == blocking[2]
            r == blocking[3]
            M == Rows
            N == Columns
            K == Depth
<1>1. /\ a \in 0 .. M - 1 /\ b \in 0 .. N - 1 /\ c \in 0 .. K - 1 /\ here # Done /\ M \in Nat /\ N \in Nat /\ K \in Nat
      /\ p \in Nat \ {0} /\ q \in Nat \ {0} /\ r \in Nat \ {0}
  <2>1. here = <<a, b, c>> /\ a \in 0 .. M - 1 /\ b \in 0 .. N - 1 /\ c \in 0 .. K - 1
    BY DEF Positions
  <2>2. p \in Nat \ {0} /\ q \in Nat \ {0} /\ r \in Nat \ {0}
    BY DEF BlockingTyped
  <2>3. \A x, y, z : <<x, y, z>> # <<>>
    OBVIOUS
  <2>. QED
    BY <2>1, <2>2, <2>3 DEF Done
<1>2. m \in TileRange(a, p, M) <=> a <= m /\ m < a + p
  <2>. HIDE DEF a, p, M
  <2>1. m \in 0 .. M - 1
    BY DEF M
  <2>2. PICK last \in Nat : TileRange(a, p, M) = a .. last - 1 /\ last = IF a + p < M THEN a + p ELSE M
    <3>1. a \in Nat /\ p \in Nat \ {0} /\ M \in Nat /\ a < M
      BY <1>1
    <3>. QED
      BY <3>1, TileRangeIs
  <2>. QED
    BY <1>1, <2>1, <2>2
<1>3. n \in TileRange(b, q, N) <=> b <= n /\ n < b + q
  <2>. HIDE DEF b, q, N
  <2>1. n \in 0 .. N - 1
    BY DEF N
  <2>2. PICK last \in Nat : TileRange(b, q, N) = b .. last - 1 /\ last = IF b + q < N THEN b + q ELSE N
    <3>1. b \in Nat /\ q \in Nat \ {0} /\ N \in Nat /\ b < N
      BY <1>1
    <3>. QED
      BY <3>1, TileRangeIs
  <2>. QED
    BY <1>1, <2>1, <2>2
<1>. DEFINE Reached(x, y, z) ==
              IF m < x \/ (m < x + p /\ n < y) THEN K ELSE IF m < x + p /\ n < y + q THEN z ELSE 0
<1>4. ReachedAt(here, m, n) = Reached(a, b, c)
  BY <1>1 DEF ReachedAt
<1>5. \A x, y, z : ReachedAt(<<x, y, z>>, m, n) = Reached(x, y, z) /\ <<x, y, z>> # Done
  BY DEF ReachedAt, Done
<1>6. ReachedAt(Done, m, n) = K
  BY DEF ReachedAt
<1>7. Advance(here) = IF c + r < K THEN <<a, b, c + r>> ELSE IF b + q < N THEN <<a, b + q, 0>>
                      ELSE IF a + p < M THEN <<a + p, 0, 0>> ELSE Done
  BY DEF Advance
<1>8. m \in 0 .. M - 1 /\ n \in 0 .. N - 1
  OBVIOUS
<1>. DEFINE R == IF a <= m /\ m < a + p /\ b <= n /\ n < b + q THEN IF c + r < K THEN c + r ELSE K
                 ELSE Reached(a, b, c)
            L == Advance(here)
<1>9. Positions = (0 .. M - 1) \X (0 .. N - 1) \X (0 .. K - 1)
  BY DEF Positions
<1>. HIDE DEF a, b, c, p, q, r, M, N, K, L
<1>10. /\ Reached(a, b, c) \in 0 .. K
       /\ a <= m /\ m < a + p /\ b <= n /\ n < b + q => Reached(a, b, c) = c
  BY <1>1, <1>8
<1>11. ReachedAt(L, m, n) = R /\ (L = Done \/ L \in Positions)
  <2>1. CASE c + r < K
    <3>1. L = <<a, b, c + r>>
      BY <1>7, <2>1 DEF L
    <3>2. Reached(a, b, c + r) = R
      BY <1>1, <1>8, <2>1
    <3>3. <<a, b, c + r>> \in Positions
      BY <1>1, <1>9, <2>1
    <3>. QED
      BY <1>5, <3>1, <3>2, <3>3
  <2>2. CASE ~ (c + r < K) /\ b + q < N
    <3>1. L = <<a, b + q, 0>>
      BY <1>7, <2>2 DEF L
    <3>2. Reached(a, b + q, 0) = R
      BY <1>1, <1>8, <2>2
    <3>3. <<a, b + q, 0>> \in Positions
      BY <1>1, <1>9, <2>2
    <3>. QED
      BY <1>5, <3>1, <3>2, <3>3
  <2>3. CASE ~ (c + r < K) /\ ~ (b + q < N) /\ a + p < M
    <3>1. L = <<a + p, 0, 0>>
      BY <1>7, <2>3 DEF L
    <3>2. Reached(a + p, 0, 0) = R
      BY <1>1, <1>8, <2>3
    <3>3. <<a + p, 0, 0>> \in Positions
      BY <1>1, <1>9, <2>3
    <3>. QED
      BY <1>5, <3>1, <3>2, <3>3
  <2>4. CASE ~ (c + r < K) /\ ~ (b + q < N) /\ ~ (a + p < M)
    <3>1. L = Done
      BY <1>7, <2>4 DEF L
    <3>2. R = K
      BY <1>1, <1>8, <2>4
    <3>. QED
      BY <1>6, <3>1, <3>2
  <2>. QED
    BY <2>1, <2>2, <2>3, <2>4
<1>. HIDE DEF Reached
<1>. QED
  BY <1>2, <1>3, <1>4, <1>10, <1>11 DEF a, b, c, p, q, r, M, N, K, L

-----------------------------------------------------------------------------
(* Counting: the terms of the tiles multiplied. *)

\* A product of three finite sets is finite, and its size is the product of theirs.
LEMMA TripleProduct ==
    ASSUME NEW A, IsFiniteSet(A), NEW B, IsFiniteSet(B), NEW C, IsFiniteSet(C)
    PROVE  /\ IsFiniteSet(A \X B \X C)
           /\ Cardinality(A \X B \X C) = Cardinality(A) * (Cardinality(B) * Cardinality(C))
<1>. DEFINE S == A \X (B \X C)
            T == A \X B \X C
            f == [x \in S |-> <<x[1], x[2][1], x[2][2]>>]
<1>1. /\ IsFiniteSet(B \X C) /\ Cardinality(B \X C) = Cardinality(B) * Cardinality(C)
  BY FS_Product
<1>2. IsFiniteSet(S) /\ Cardinality(S) = Cardinality(A) * Cardinality(B \X C)
  BY <1>1, FS_Product
<1>3. f \in Bijection(S, T)
  <2>1. f \in [S -> T]
    OBVIOUS
  <2>2. \A x, y \in S : f[x] = f[y] => x = y
    OBVIOUS
  <2>3. ASSUME NEW t \in T PROVE \E x \in S : f[x] = t
    <3>1. <<t[1], <<t[2], t[3]>>>> \in S /\ f[<<t[1], <<t[2], t[3]>>>>] = t
      OBVIOUS
    <3>. QED
      BY <3>1
  <2>. HIDE DEF S, T, f
  <2>. QED
    BY <2>1, <2>2, <2>3 DEF Bijection, Injection, Surjection, IsInjective
<1>. HIDE DEF S, T, f
<1>4. IsFiniteSet(T) /\ Cardinality(T) = Cardinality(S)
  BY <1>2, <1>3, FS_Bijection DEF ExistsBijection
<1>. QED
  BY <1>1, <1>2, <1>4 DEF T

\* One triple for each multiplication: row, column and term.
Triples == (0 .. Rows - 1) \X (0 .. Columns - 1) \X AllTerms
Multiplied(here) ==
    {x \in Triples : x[3] \in Terms(x[1], 0 .. ReachedAt(here, x[1], x[2]) - 1)}
TileTriples(ms, ns, ks) ==
    {x \in ms \X ns \X ((1 .. (Depth \div 4)) \X {1, 2}) : x[3] \in Terms(x[1], ks)}

\* Multiplications are finitely many.
LEMMA TriplesFinite ==
    ASSUME Given
    PROVE  /\ IsFiniteSet(Triples)
           /\ Cardinality(Triples) = Rows * (Columns * (GroupCount * 2))
           /\ \A here : IsFiniteSet(Multiplied(here))
<1>1. Rows \in Nat /\ Columns \in Nat
  BY GivenShapes
<1>2. ASSUME NEW n \in Nat PROVE IsFiniteSet(0 .. n - 1) /\ Cardinality(0 .. n - 1) = n
  <2>1. 0 \in Int /\ n - 1 \in Int
    OBVIOUS
  <2>2. IsFiniteSet(0 .. n - 1) /\ Cardinality(0 .. n - 1) = IF 0 > n - 1 THEN 0 ELSE (n - 1) - 0 + 1
    BY <2>1, FS_Interval
  <2>. QED
    BY <2>2
<1>3. IsFiniteSet(AllTerms) /\ Cardinality(AllTerms) = GroupCount * 2
  BY AllTermsFinite
<1>. DEFINE A == 0 .. Rows - 1
            B == 0 .. Columns - 1
            C == AllTerms
            T == A \X B \X C
<1>4. /\ IsFiniteSet(A) /\ IsFiniteSet(B) /\ IsFiniteSet(C)
      /\ Cardinality(A) = Rows /\ Cardinality(B) = Columns /\ Cardinality(C) = GroupCount * 2
  BY <1>1, <1>2, <1>3
<1>5. Triples = T
  BY DEF Triples
<1>6. ASSUME NEW here PROVE Multiplied(here) \in SUBSET Triples
  BY DEF Multiplied
<1>. HIDE DEF A, B, C
<1>7. IsFiniteSet(T) /\ Cardinality(T) = Cardinality(A) * (Cardinality(B) * Cardinality(C))
  BY <1>4, TripleProduct
<1>. HIDE DEF T
<1>8. ASSUME NEW here PROVE IsFiniteSet(Multiplied(here))
  BY <1>5, <1>6, <1>7, FS_Subset
<1>. QED
  BY <1>4, <1>5, <1>7, <1>8

\* The terms below l are those below k and those from k on.
LEMMA TermsJoin ==
    ASSUME Ready, NEW m \in 0 .. Rows - 1, NEW k \in Nat, NEW l \in Nat, k <= l
    PROVE  \A gi : /\ gi \in Terms(m, 0 .. l - 1) <=> gi \in Terms(m, 0 .. k - 1) \/ gi \in Terms(m, k .. l - 1)
                   /\ ~ (gi \in Terms(m, 0 .. k - 1) /\ gi \in Terms(m, k .. l - 1))
<1>1. \A gi \in AllTerms : KeptAt(m, gi[1], gi[2]) - 1 \in Nat
  <2>. SUFFICES ASSUME NEW gi \in AllTerms PROVE KeptAt(m, gi[1], gi[2]) - 1 \in Nat
    OBVIOUS
  <2>1. gi[1] \in 1 .. GroupCount /\ gi[2] \in {1, 2}
    BY DEF AllTerms
  <2>2. KeptAt(m, gi[1], gi[2]) \in 1 .. Depth
    BY <2>1, KeptPosition
  <2>. QED
    BY <2>2, GivenShapes DEF Ready
<1>2. \A x \in Nat : /\ x \in 0 .. l - 1 <=> x \in 0 .. k - 1 \/ x \in k .. l - 1
                     /\ ~ (x \in 0 .. k - 1 /\ x \in k .. l - 1)
  OBVIOUS
<1>. QED
  BY <1>1, <1>2, TermsAre

\* A tile counts the terms it adds.
LEMMA TileCounts ==
    ASSUME Ready, BlockingTyped, NEW here \in Positions,
           NEW ms, ms = TileRange(here[1], blocking[1], Rows),
           NEW ns, ns = TileRange(here[2], blocking[2], Columns),
           NEW ks, ks = TileRange(here[3], blocking[3], Depth)
    PROVE  Cardinality(Multiplied(Advance(here))) = Cardinality(Multiplied(here)) + TileMacs(ms, ns, ks)
<1>. DEFINE A == Multiplied(here)
            B == TileTriples(ms, ns, ks)
            C == Multiplied(Advance(here))
<1>1. Rows \in Nat /\ Columns \in Nat /\ Depth \in Nat /\ Given
  BY GivenShapes DEF Ready
<1>2. /\ here[1] \in 0 .. Rows - 1 /\ here[2] \in 0 .. Columns - 1 /\ here[3] \in 0 .. Depth - 1
      /\ blocking[1] \in Nat \ {0} /\ blocking[2] \in Nat \ {0} /\ blocking[3] \in Nat \ {0}
  BY DEF Positions, BlockingTyped
<1>3. ms \subseteq 0 .. Rows - 1
  <2>. DEFINE a == here[1]
              p == blocking[1]
              M == Rows
  <2>1. a \in Nat /\ p \in Nat \ {0} /\ M \in Nat /\ a < M
    BY <1>1, <1>2
  <2>. HIDE DEF a, p, M
  <2>2. TileRange(a, p, M) \subseteq 0 .. M - 1
    BY <2>1, TileRangeInside
  <2>. QED
    BY <2>2 DEF a, p, M
<1>4. ns \subseteq 0 .. Columns - 1
  <2>. DEFINE a == here[2]
              p == blocking[2]
              M == Columns
  <2>1. a \in Nat /\ p \in Nat \ {0} /\ M \in Nat /\ a < M
    BY <1>1, <1>2
  <2>. HIDE DEF a, p, M
  <2>2. TileRange(a, p, M) \subseteq 0 .. M - 1
    BY <2>1, TileRangeInside
  <2>. QED
    BY <2>2 DEF a, p, M
<1>5. PICK last \in Nat : /\ ks = here[3] .. last - 1 /\ here[3] < last
                          /\ last = IF here[3] + blocking[3] < Depth THEN here[3] + blocking[3] ELSE Depth
  <2>. DEFINE a == here[3]
              p == blocking[3]
              M == Depth
  <2>1. a \in Nat /\ p \in Nat \ {0} /\ M \in Nat /\ a < M
    BY <1>1, <1>2
  <2>. HIDE DEF a, p, M
  <2>2. \E last \in Nat : TileRange(a, p, M) = a .. last - 1 /\ a < last /\ last = IF a + p < M THEN a + p ELSE M
    BY <2>1, TileRangeIs
  <2>. QED
    BY <2>2 DEF a, p, M
<1>6. \A x : x \in B <=> x \in Triples /\ x[1] \in ms /\ x[2] \in ns /\ x[3] \in Terms(x[1], ks)
  BY <1>3, <1>4 DEF TileTriples, Triples, AllTerms, GroupCount
<1>7. ASSUME NEW x \in Triples
      PROVE  /\ x \in C <=> x \in A \/ x \in B
             /\ ~ (x \in A /\ x \in B)
  <2>. DEFINE m == x[1]
              n == x[2]
              gi == x[3]
  <2>1. m \in 0 .. Rows - 1 /\ n \in 0 .. Columns - 1
    BY DEF Triples
  <2>2. /\ x \in A <=> gi \in Terms(m, 0 .. ReachedAt(here, m, n) - 1)
        /\ x \in C <=> gi \in Terms(m, 0 .. ReachedAt(Advance(here), m, n) - 1)
        /\ x \in B <=> m \in ms /\ n \in ns /\ gi \in Terms(m, ks)
    BY <1>6 DEF Multiplied
  <2>. HIDE DEF m, n, gi, A, B, C
  <2>3. CASE m \in ms /\ n \in ns
    <3>1. ReachedAt(here, m, n) = here[3] /\ ReachedAt(Advance(here), m, n) = last
      BY <1>1, <1>5, <2>1, <2>3, TileReaches
    <3>2. here[3] \in Nat /\ here[3] <= last
      BY <1>1, <1>2, <1>5
    <3>3. /\ gi \in Terms(m, 0 .. last - 1) <=> gi \in Terms(m, 0 .. here[3] - 1) \/ gi \in Terms(m, ks)
          /\ ~ (gi \in Terms(m, 0 .. here[3] - 1) /\ gi \in Terms(m, ks))
      BY <1>5, <2>1, <3>2, TermsJoin
    <3>. QED
      BY <2>2, <2>3, <3>1, <3>3
  <2>4. CASE ~ (m \in ms /\ n \in ns)
    <3>1. ReachedAt(Advance(here), m, n) = ReachedAt(here, m, n)
      BY <1>1, <2>1, <2>4, TileReaches
    <3>. QED
      BY <2>2, <2>4, <3>1
  <2>. QED
    BY <2>3, <2>4
<1>8. A \subseteq Triples /\ B \subseteq Triples /\ C \subseteq Triples
  BY <1>6 DEF Multiplied
<1>9. IsFiniteSet(A) /\ IsFiniteSet(B)
  <2>1. IsFiniteSet(A) /\ IsFiniteSet(Triples)
    BY <1>1, TriplesFinite
  <2>2. B \in SUBSET Triples
    BY <1>8
  <2>. HIDE DEF A, B
  <2>. QED
    BY <2>1, <2>2, FS_Subset
<1>10. TileMacs(ms, ns, ks) = Cardinality(B)
  BY DEF TileMacs, TileTriples
<1>. HIDE DEF A, B, C
<1>11. C = A \cup B /\ A \cap B = {}
  BY <1>7, <1>8
<1>12. Cardinality(A \cup B) = Cardinality(A) + Cardinality(B) - Cardinality(A \cap B)
  BY <1>9, FS_Union
<1>13. Cardinality(A) \in Nat /\ Cardinality(B) \in Nat
  BY <1>9, FS_CardinalityType
<1>14. Cardinality(C) = Cardinality(A) + Cardinality(B)
  BY <1>11, <1>12, <1>13, FS_EmptySet
<1>. QED
  BY <1>10, <1>14 DEF A, C

-----------------------------------------------------------------------------
(* What holds of the sparse path between its steps. *)

\* A row of masks for each row of the weights.
MaskRows == [1 .. Rows -> [1 .. GroupCount -> SUBSET InGroup]]

\* The tiles before the one at hand are added and counted.
Progress ==
    /\ position = Done \/ position \in Positions
    /\ product = [m \in 1 .. Rows |-> [n \in 1 .. Columns |->
                    SumTerms(m - 1, 0 .. ReachedAt(position, m - 1, n - 1) - 1, n - 1)]]
    /\ macs = Cardinality(Multiplied(position))

\* Nothing is added behind masks that are not the packed ones.
Untouched ==
    /\ position = Done /\ macs = 0
    /\ product = [m \in 1 .. Rows |-> [n \in 1 .. Columns |-> 0]]

NothingGiven ==
    pruned = Empty /\ masks = Empty /\ packed = Empty /\ product = Empty /\ position = Done /\ macs = 0

SomethingGiven ==
    /\ Given /\ pruned = PrunedOf(weights) /\ masks \in MaskRows
    /\ packed = Empty => masks = MasksOf(weights) /\ product = Empty
    /\ packed # Empty => packed = PackedOf(weights)
    /\ product = Empty => position = Done /\ macs = 0
    /\ product # Empty => /\ BlockingTyped
                          /\ MasksAgree(masks, packed) => Progress
                          /\ ~ MasksAgree(masks, packed) => Untouched

SparseInv == NothingGiven \/ SomethingGiven

\* The masks that agree are those that were packed.
LEMMA AgreeReady ==
    ASSUME SomethingGiven, packed # Empty, MasksAgree(masks, packed)
    PROVE  Ready
<1>1. Given /\ packed = PackedOf(weights) /\ masks \in MaskRows /\ pruned = PrunedOf(weights)
  BY DEF SomethingGiven
<1>2. \A m \in 1 .. Rows : \A g \in 1 .. GroupCount : masks[m][g] = packed[m][g].mask
  BY <1>1 DEF MasksAgree, MaskRows
<1>3. ASSUME NEW m \in 1 .. Rows, NEW g \in 1 .. GroupCount
      PROVE  packed[m][g].mask = MasksOf(weights)[m][g]
  <2>1. \A a, b : EncodeGroup(a, b).mask = b
    BY DEF EncodeGroup
  <2>. QED
    BY <1>1, <2>1, GivenGroups
<1>4. masks = [m \in 1 .. Rows |-> [g \in 1 .. GroupCount |-> masks[m][g]]]
  BY <1>1 DEF MaskRows
<1>5. MasksOf(weights) = [m \in 1 .. Rows |-> [g \in 1 .. GroupCount |-> MasksOf(weights)[m][g]]]
  <2>1. MasksOf(weights) = [m \in 1 .. Rows |-> MasksOf(weights)[m]]
    BY <1>1, GivenGroups DEF MasksOf
  <2>2. \A m \in 1 .. Rows : MasksOf(weights)[m] = [g \in 1 .. GroupCount |-> MasksOf(weights)[m][g]]
    BY <1>1, GivenGroups, GivenShapes DEF MasksOf
  <2>. QED
    BY <2>1, <2>2
<1>6. masks = MasksOf(weights)
  BY <1>2, <1>3, <1>4, <1>5
<1>. QED
  BY <1>1, <1>6 DEF Ready

\* Pruning leaves one mask of places for each group.
LEMMA MasksTyped ==
    ASSUME Given
    PROVE  MasksOf(weights) \in MaskRows
<1>1. ASSUME NEW m \in 1 .. Rows, NEW g \in 1 .. GroupCount
      PROVE  MasksOf(weights)[m][g] \in SUBSET InGroup
  <2>. DEFINE group == Groups(weights[m])[g]
  <2>1. GroupTyped(group) /\ MasksOf(weights)[m][g] = KeptPlaces(group)
    BY GivenGroups
  <2>. HIDE DEF group
  <2>. QED
    BY <2>1, KeptTwo
<1>2. MasksOf(weights) = [m \in 1 .. Rows |-> [g \in 1 .. GroupCount |-> MasksOf(weights)[m][g]]]
  <2>1. MasksOf(weights) = [m \in 1 .. Rows |-> MasksOf(weights)[m]]
    BY GivenGroups DEF MasksOf
  <2>2. \A m \in 1 .. Rows : MasksOf(weights)[m] = [g \in 1 .. GroupCount |-> MasksOf(weights)[m][g]]
    BY GivenGroups, GivenShapes DEF MasksOf
  <2>. QED
    BY <2>1, <2>2
<1>. DEFINE s == MasksOf(weights)
<1>. HIDE DEF s
<1>3. s \in [1 .. Rows -> [1 .. GroupCount -> SUBSET InGroup]]
  BY <1>1, <1>2 DEF s
<1>. QED
  BY <1>3 DEF s, MaskRows

\* No matrix is empty.
LEMMA GivenNonempty ==
    ASSUME Given
    PROVE  PrunedOf(weights) # Empty /\ PackedOf(weights) # Empty
<1>1. 1 \in DOMAIN PrunedOf(weights) /\ 1 \in DOMAIN PackedOf(weights)
  BY GivenGroups, GivenShapes
<1>. QED
  BY <1>1 DEF Empty

\* Nothing is given at the start.
LEMMA SparseInitial == SparseInit => SparseInv
BY DEF SparseInit, SparseInv, NothingGiven, Done, Empty

\* Before its first tile no sum has a term.
LEMMA StartsProgress ==
    ASSUME Ready, BlockingTyped, position = <<0, 0, 0>>, macs = 0,
           product = [m \in 1 .. Rows |-> [n \in 1 .. Columns |-> 0]]
    PROVE  Progress
<1>1. Rows \in Nat \ {0} /\ Columns \in Nat \ {0} /\ Depth \in Nat \ {0} /\ Given
  BY GivenShapes DEF Ready
<1>2. ASSUME NEW m \in 0 .. Rows - 1, NEW n \in 0 .. Columns - 1
      PROVE  ReachedAt(position, m, n) = 0
  <2>1. position # Done /\ position[1] = 0 /\ position[2] = 0 /\ position[3] = 0
    BY DEF Done
  <2>2. m \in Nat /\ n \in Nat
    BY <1>1
  <2>. QED
    BY <2>1, <2>2 DEF ReachedAt
<1>3. position \in Positions
  BY <1>1 DEF Positions
<1>4. product = [m \in 1 .. Rows |-> [n \in 1 .. Columns |->
                    SumTerms(m - 1, 0 .. ReachedAt(position, m - 1, n - 1) - 1, n - 1)]]
  <2>1. ASSUME NEW m \in 1 .. Rows, NEW n \in 1 .. Columns
        PROVE  SumTerms(m - 1, 0 .. ReachedAt(position, m - 1, n - 1) - 1, n - 1) = 0
    <3>1. m - 1 \in 0 .. Rows - 1 /\ n - 1 \in 0 .. Columns - 1
      BY <1>1
    <3>2. ReachedAt(position, m - 1, n - 1) = 0
      BY <1>2, <3>1
    <3>. QED
      BY <3>1, <3>2, SumOfNone
  <2>. QED
    BY <2>1
<1>5. Multiplied(position) = {}
  <2>1. ASSUME NEW x \in Triples PROVE x[3] \notin Terms(x[1], 0 .. ReachedAt(position, x[1], x[2]) - 1)
    <3>1. x[1] \in 0 .. Rows - 1 /\ x[2] \in 0 .. Columns - 1
      BY DEF Triples
    <3>2. ReachedAt(position, x[1], x[2]) = 0
      BY <1>2, <3>1
    <3>. QED
      BY <3>1, <3>2, <1>1, SumOfNone
  <2>. QED
    BY <2>1 DEF Multiplied
<1>. QED
  BY <1>3, <1>4, <1>5, FS_EmptySet DEF Progress

-----------------------------------------------------------------------------
(* The steps of the sparse path. *)

\* What a step finds is so for the state it leaves as well.
Starting ==
    /\ Ready /\ BlockingTyped /\ position = <<0, 0, 0>> /\ macs = 0
    /\ product = [m \in 1 .. Rows |-> [n \in 1 .. Columns |-> 0]]

LEMMA AfterStep ==
    /\ Given' => (MasksOf(weights) \in MaskRows)'
    /\ Starting' => Progress'
<1>1. Given => MasksOf(weights) \in MaskRows
  BY MasksTyped
<1>2. Starting => Progress
  BY StartsProgress DEF Starting
<1>. QED
  BY <1>1, <1>2, PTL

\* Pruning makes the masks of the weights it is given.
LEMMA PruneStep ==
    ASSUME SparseInv, NEW w \in Weights, NEW a \in Activations, Len(w[1]) = Len(a), Prune(w, a)
    PROVE  SparseInv'
<1>1. NothingGiven
  <2>1. ~ SomethingGiven
    <3>. SUFFICES ASSUME SomethingGiven PROVE FALSE
      OBVIOUS
    <3>1. Given /\ pruned = PrunedOf(weights) /\ pruned = Empty
      BY DEF SomethingGiven, Prune
    <3>. QED
      BY <3>1, GivenNonempty
  <2>. QED
    BY <2>1 DEF SparseInv
<1>2. Given' /\ weights' = w
  BY DEF Prune, Given
<1>3. pruned' = PrunedOf(weights)' /\ masks' = MasksOf(weights)'
  BY DEF Prune, PrunedOf, MasksOf
<1>4. masks' \in MaskRows'
  BY <1>2, <1>3, AfterStep
<1>5. packed' = Empty /\ product' = Empty /\ position' = Done /\ macs' = 0
  BY <1>1 DEF Prune, NothingGiven
<1>6. SomethingGiven'
  BY <1>2, <1>3, <1>4, <1>5 DEF SomethingGiven, Empty, Done
<1>. QED
  BY <1>6 DEF SparseInv

\* What was given stays.
LEMMA GivenStays ==
    ASSUME SomethingGiven, UNCHANGED <<weights, activations, pruned>>
    PROVE  /\ Given' /\ pruned' = PrunedOf(weights)' /\ MaskRows' = MaskRows
           /\ PackedOf(weights)' = PackedOf(weights) /\ MasksOf(weights)' = MasksOf(weights)
BY DEF SomethingGiven, Given, PrunedOf, PackedOf, MasksOf, MaskRows, Rows, GroupCount, Depth

\* Compression packs what pruning kept.
LEMMA CompressStep ==
    ASSUME SparseInv, Compress
    PROVE  SparseInv'
<1>1. SomethingGiven /\ packed = Empty /\ pruned # Empty
  BY DEF SparseInv, NothingGiven, Compress
<1>2. Given /\ pruned = PrunedOf(weights) /\ masks = MasksOf(weights) /\ product = Empty /\ position = Done /\ macs = 0
  BY <1>1 DEF SomethingGiven
<1>3. packed' = PackedOf(weights)
  <2>1. packed' = [m \in DOMAIN pruned |-> [g \in DOMAIN pruned[m] |-> EncodeGroup(pruned[m][g], masks[m][g])]]
    BY DEF Compress
  <2>2. /\ DOMAIN pruned = 1 .. Rows
        /\ \A m \in 1 .. Rows : DOMAIN pruned[m] = 1 .. GroupCount
        /\ \A m \in 1 .. Rows : \A g \in 1 .. GroupCount :
              EncodeGroup(pruned[m][g], masks[m][g]) = PackedOf(weights)[m][g]
    BY <1>2, GivenGroups
  <2>3. packed' = [m \in 1 .. Rows |-> [g \in 1 .. GroupCount |-> PackedOf(weights)[m][g]]]
    BY <2>1, <2>2
  <2>4. PackedOf(weights) = [m \in 1 .. Rows |-> PackedOf(weights)[m]]
    BY <1>2, GivenGroups DEF PackedOf
  <2>5. \A m \in 1 .. Rows : PackedOf(weights)[m] = [g \in 1 .. GroupCount |-> PackedOf(weights)[m][g]]
    BY <1>2, GivenGroups, GivenShapes DEF PackedOf
  <2>6. [m \in 1 .. Rows |-> PackedOf(weights)[m]]
            = [m \in 1 .. Rows |-> [g \in 1 .. GroupCount |-> PackedOf(weights)[m][g]]]
    BY <2>5
  <2>. QED
    BY <2>3, <2>4, <2>6
<1>4. UNCHANGED <<weights, activations, pruned, masks, blocking, position, product, macs>>
  BY DEF Compress
<1>5. /\ Given' /\ pruned' = PrunedOf(weights)' /\ MaskRows' = MaskRows
      /\ PackedOf(weights)' = PackedOf(weights) /\ MasksOf(weights)' = MasksOf(weights)
  BY <1>1, <1>4, GivenStays
<1>6. packed' # Empty /\ masks \in MaskRows
  BY <1>1, <1>2, <1>3, GivenNonempty DEF SomethingGiven
<1>7. SomethingGiven'
  BY <1>2, <1>3, <1>4, <1>5, <1>6 DEF SomethingGiven, Done, Empty
<1>. QED
  BY <1>7 DEF SparseInv

\* A mask that is mistaken leaves the packed weights as they are.
LEMMA MistakeStep ==
    ASSUME SparseInv, NEW m \in DOMAIN packed, NEW g \in DOMAIN packed[m], NEW mask \in SUBSET InGroup,
           MistakeMask(m, g, mask)
    PROVE  SparseInv'
<1>1. packed # Empty /\ product = Empty /\ masks' = [masks EXCEPT ![m][g] = mask]
  BY DEF MistakeMask
<1>2. SomethingGiven
  BY <1>1 DEF SparseInv, NothingGiven
<1>3. Given /\ packed = PackedOf(weights) /\ masks \in MaskRows /\ position = Done /\ macs = 0
  BY <1>1, <1>2 DEF SomethingGiven
<1>4. m \in 1 .. Rows /\ g \in 1 .. GroupCount
  BY <1>3, GivenGroups
<1>5. masks' \in MaskRows
  <2>. DEFINE R == 1 .. Rows
              G == 1 .. GroupCount
              B == SUBSET InGroup
  <2>1. masks \in [R -> [G -> B]] /\ m \in R /\ g \in G /\ mask \in B
    BY <1>3, <1>4 DEF MaskRows
  <2>. HIDE DEF R, G, B
  <2>2. [masks EXCEPT ![m][g] = mask] \in [R -> [G -> B]]
    BY <2>1
  <2>. QED
    BY <1>1, <2>2 DEF MaskRows, R, G, B
<1>6. UNCHANGED <<weights, activations, pruned, packed, blocking, position, product, macs>>
  BY DEF MistakeMask
<1>7. /\ Given' /\ pruned' = PrunedOf(weights)' /\ MaskRows' = MaskRows
      /\ PackedOf(weights)' = PackedOf(weights)
  BY <1>2, <1>6, GivenStays
<1>8. SomethingGiven'
  BY <1>1, <1>3, <1>5, <1>6, <1>7 DEF SomethingGiven, Done, Empty
<1>. QED
  BY <1>8 DEF SparseInv

\* A product starts from zeros, behind masks that agree, or not at all.
LEMMA StartStep ==
    ASSUME SparseInv, NEW t \in Tiles, StartTiled(t)
    PROVE  SparseInv'
<1>1. packed # Empty /\ product = Empty
  BY DEF StartTiled
<1>2. SomethingGiven
  BY <1>1 DEF SparseInv, NothingGiven
<1>3. Given /\ packed = PackedOf(weights) /\ masks \in MaskRows /\ macs = 0
  BY <1>1, <1>2 DEF SomethingGiven
<1>4. UNCHANGED <<weights, activations, pruned, masks, packed, macs>>
  BY DEF StartTiled
<1>5. /\ Given' /\ pruned' = PrunedOf(weights)' /\ MaskRows' = MaskRows
      /\ PackedOf(weights)' = PackedOf(weights)
  BY <1>2, <1>4, GivenStays
<1>6. BlockingTyped'
  BY SparsityAssumption DEF StartTiled, BlockingTyped
<1>7. product' = [x \in 1 .. Rows' |-> [n \in 1 .. Columns' |-> 0]] /\ Rows' = Rows /\ Rows \in Nat \ {0}
  BY <1>3, <1>4, GivenShapes DEF StartTiled, Rows, Columns
<1>8. product' # Empty
  <2>1. 1 \in DOMAIN product'
    BY <1>7
  <2>. QED
    BY <2>1 DEF Empty
<1>9. CASE MasksAgree(masks, packed)
  <2>1. Ready
    BY <1>1, <1>2, <1>9, AgreeReady
  <2>2. Ready'
    BY <1>4, <2>1 DEF Ready, Given, PrunedOf, PackedOf, MasksOf, StartTiled
  <2>3. position' = <<0, 0, 0>> /\ macs' = 0
    BY <1>3, <1>9 DEF StartTiled
  <2>4. Progress'
    BY <1>6, <1>7, <2>2, <2>3, AfterStep DEF Starting
  <2>5. MasksAgree(masks, packed)'
    BY <1>4, <1>9 DEF MasksAgree
  <2>6. SomethingGiven'
    BY <1>1, <1>3, <1>4, <1>5, <1>6, <1>8, <2>4, <2>5 DEF SomethingGiven, Empty
  <2>. QED
    BY <2>6 DEF SparseInv
<1>10. CASE ~ MasksAgree(masks, packed)
  <2>1. position' = Done /\ macs' = 0
    BY <1>3, <1>10 DEF StartTiled
  <2>2. Untouched'
    BY <1>7, <2>1 DEF Untouched, Done
  <2>3. ~ MasksAgree(masks, packed)'
    BY <1>4, <1>10 DEF MasksAgree
  <2>4. SomethingGiven'
    BY <1>1, <1>3, <1>4, <1>5, <1>6, <1>8, <2>2, <2>3 DEF SomethingGiven, Empty
  <2>. QED
    BY <2>4 DEF SparseInv
<1>. QED
  BY <1>9, <1>10

\* A tile leaves the given and its own size alone.
LEMMA MultiplyStep ==
    ASSUME SparseInv, MultiplyTile
    PROVE  SparseInv'
<1>1. position # Done
  BY DEF MultiplyTile
<1>2. SomethingGiven
  BY <1>1 DEF SparseInv, NothingGiven
<1>3. product # Empty /\ packed # Empty
  BY <1>1, <1>2 DEF SomethingGiven
<1>4. BlockingTyped /\ MasksAgree(masks, packed) /\ Progress
  BY <1>1, <1>2, <1>3 DEF SomethingGiven, Untouched
<1>5. Ready
  BY <1>2, <1>3, <1>4, AgreeReady
<1>6. Given /\ packed = PackedOf(weights) /\ masks \in MaskRows
  BY <1>2, <1>3 DEF SomethingGiven
<1>7. UNCHANGED <<weights, activations, pruned, masks, packed, blocking>>
  BY DEF MultiplyTile
<1>8. /\ Given' /\ pruned' = PrunedOf(weights)' /\ MaskRows' = MaskRows
      /\ PackedOf(weights)' = PackedOf(weights)
  BY <1>2, <1>7, GivenStays
<1>. DEFINE ms == TileRange(position[1], blocking[1], Rows)
            ns == TileRange(position[2], blocking[2], Columns)
            ks == TileRange(position[3], blocking[3], Depth)
<1>9. /\ product' = AddTile(product, ms, ns, ks)
      /\ macs' = macs + TileMacs(ms, ns, ks) /\ position' = Advance(position)
  BY DEF MultiplyTile
<1>10. Rows' = Rows /\ Columns' = Columns /\ Depth' = Depth /\ Positions' = Positions /\ AllTerms' = AllTerms
  BY <1>7 DEF Rows, Columns, Depth, Positions, AllTerms, GroupCount
<1>11. ASSUME NEW m, NEW n
       PROVE  ReachedAt(position, m, n)' = ReachedAt(Advance(position), m, n)
  BY <1>7, <1>9, <1>10 DEF ReachedAt, Done
<1>12. ASSUME NEW m, NEW n
       PROVE  /\ Terms(m, 0 .. ReachedAt(position, m, n) - 1)'
                     = Terms(m, 0 .. ReachedAt(Advance(position), m, n) - 1)
              /\ SumTerms(m, 0 .. ReachedAt(position, m, n) - 1, n)'
                     = SumTerms(m, 0 .. ReachedAt(Advance(position), m, n) - 1, n)
  <2>1. \A x, g, i : KeptAt(x, g, i)' = KeptAt(x, g, i)
    BY <1>7 DEF KeptAt
  <2>2. ReachedAt(position, m, n)' = ReachedAt(Advance(position), m, n)
    BY <1>11
  <2>3. Terms(m, 0 .. ReachedAt(position, m, n) - 1)' = Terms(m, 0 .. ReachedAt(Advance(position), m, n) - 1)
    BY <1>7, <2>1, <2>2 DEF Terms
  <2>. QED
    BY <1>7, <2>1, <2>3 DEF SumTerms
<1>13. /\ Rows \in Nat \ {0} /\ Columns \in Nat \ {0} /\ Depth \in Nat \ {0} /\ position \in Positions
       /\ product = [m \in 1 .. Rows |-> [n \in 1 .. Columns |->
                       SumTerms(m - 1, 0 .. ReachedAt(position, m - 1, n - 1) - 1, n - 1)]]
       /\ macs = Cardinality(Multiplied(position))
  BY <1>1, <1>4, <1>6, GivenShapes DEF Progress
<1>14. PICK last \in Nat : /\ ks = position[3] .. last - 1 /\ position[3] < last
                           /\ last = IF position[3] + blocking[3] < Depth THEN position[3] + blocking[3] ELSE Depth
  <2>. DEFINE a == position[3]
              p == blocking[3]
              M == Depth
  <2>1. a \in Nat /\ p \in Nat \ {0} /\ M \in Nat /\ a < M
    BY <1>4, <1>13 DEF Positions, BlockingTyped
  <2>. HIDE DEF a, p, M
  <2>2. \E last \in Nat : TileRange(a, p, M) = a .. last - 1 /\ a < last /\ last = IF a + p < M THEN a + p ELSE M
    BY <2>1, TileRangeIs
  <2>. QED
    BY <2>2 DEF a, p, M
<1>. HIDE DEF ms, ns, ks
<1>15. ASSUME NEW m \in 1 .. Rows, NEW n \in 1 .. Columns
       PROVE  AddTile(product, ms, ns, ks)[m][n]
                  = SumTerms(m - 1, 0 .. ReachedAt(Advance(position), m - 1, n - 1) - 1, n - 1)
  <2>. DEFINE x == m - 1
              y == n - 1
              r == ReachedAt(position, x, y)
              q == ReachedAt(Advance(position), x, y)
  <2>1. x \in 0 .. Rows - 1 /\ y \in 0 .. Columns - 1
    BY <1>13
  <2>2. product[m][n] = SumTerms(x, 0 .. r - 1, y)
    BY <1>13
  <2>3. AddTile(product, ms, ns, ks)[m][n]
            = IF x \in ms /\ y \in ns THEN product[m][n] + SumTerms(x, ks, y) ELSE product[m][n]
    BY <1>13 DEF AddTile
  <2>. HIDE DEF x, y
  <2>4. CASE x \in ms /\ y \in ns
    <3>1. r = position[3] /\ q = last
      BY <1>4, <1>13, <1>14, <2>1, <2>4, TileReaches DEF ms, ns
    <3>. HIDE DEF r, q
    <3>2. position[3] \in Nat /\ position[3] <= last
      BY <1>13, <1>14 DEF Positions
    <3>3. SumTerms(x, 0 .. last - 1, y) = SumTerms(x, 0 .. position[3] - 1, y) + SumTerms(x, position[3] .. last - 1, y)
      BY <1>5, <2>1, <3>2, SumJoins
    <3>4. SumTerms(x, 0 .. last - 1, y) = AddTile(product, ms, ns, ks)[m][n]
      BY <1>14, <2>2, <2>3, <2>4, <3>1, <3>3
    <3>5. SumTerms(x, 0 .. last - 1, y) = SumTerms(x, 0 .. q - 1, y)
      BY <3>1
    <3>. QED
      BY <3>4, <3>5 DEF q, x, y
  <2>5. CASE ~ (x \in ms /\ y \in ns)
    <3>1. q = r
      BY <1>4, <1>13, <2>1, <2>5, TileReaches DEF ms, ns
    <3>. HIDE DEF r, q
    <3>2. SumTerms(x, 0 .. r - 1, y) = SumTerms(x, 0 .. q - 1, y)
      BY <3>1
    <3>. QED
      BY <2>2, <2>3, <2>5, <3>2 DEF q, x, y
  <2>. QED
    BY <2>4, <2>5
<1>16. AddTile(product, ms, ns, ks) = [m \in 1 .. Rows |-> [n \in 1 .. Columns |->
                       SumTerms(m - 1, 0 .. ReachedAt(Advance(position), m - 1, n - 1) - 1, n - 1)]]
  <2>1. /\ DOMAIN product = 1 .. Rows
        /\ \A m \in 1 .. Rows : DOMAIN product[m] = 1 .. Columns
    BY <1>13
  <2>2. AddTile(product, ms, ns, ks) = [m \in 1 .. Rows |-> [n \in 1 .. Columns |->
            AddTile(product, ms, ns, ks)[m][n]]]
    BY <2>1 DEF AddTile
  <2>. DEFINE f(m, n) == AddTile(product, ms, ns, ks)[m][n]
              h(m, n) == SumTerms(m - 1, 0 .. ReachedAt(Advance(position), m - 1, n - 1) - 1, n - 1)
  <2>3. \A m \in 1 .. Rows, n \in 1 .. Columns : f(m, n) = h(m, n)
    BY <1>15
  <2>4. AddTile(product, ms, ns, ks) = [m \in 1 .. Rows |-> [n \in 1 .. Columns |-> f(m, n)]]
    BY <2>2
  <2>. HIDE DEF f, h
  <2>5. [m \in 1 .. Rows |-> [n \in 1 .. Columns |-> f(m, n)]]
            = [m \in 1 .. Rows |-> [n \in 1 .. Columns |-> h(m, n)]]
    BY <2>3
  <2>. QED
    BY <2>4, <2>5 DEF h
<1>17. Progress'
  <2>1. position' = Done \/ position' \in Positions
    <3>1. 0 \in 0 .. Rows - 1 /\ 0 \in 0 .. Columns - 1
      BY <1>13
    <3>2. Advance(position) = Done \/ Advance(position) \in Positions
      BY <1>4, <1>13, <3>1, TileReaches
    <3>. QED
      BY <1>9, <3>2
  <2>2. product' = [m \in 1 .. Rows |-> [n \in 1 .. Columns |->
                       SumTerms(m - 1, 0 .. ReachedAt(Advance(position), m - 1, n - 1) - 1, n - 1)]]
    BY <1>9, <1>16
  <2>3. product' = [m \in 1 .. Rows |-> [n \in 1 .. Columns |->
                       SumTerms(m - 1, 0 .. ReachedAt(position, m - 1, n - 1) - 1, n - 1)]]'
    BY <2>2, <1>10, <1>12
  <2>4. Multiplied(position)' = Multiplied(Advance(position))
    <3>1. Triples' = Triples
      BY <1>10 DEF Triples
    <3>2. ASSUME NEW x \in Triples
          PROVE  x[3] \in Terms(x[1], 0 .. ReachedAt(position, x[1], x[2]) - 1)'
                   <=> x[3] \in Terms(x[1], 0 .. ReachedAt(Advance(position), x[1], x[2]) - 1)
      BY <1>12
    <3>. QED
      BY <3>1, <3>2 DEF Multiplied
  <2>5. macs' = Cardinality(Multiplied(Advance(position)))
    BY <1>4, <1>5, <1>9, <1>13, TileCounts DEF ms, ns, ks
  <2>. QED
    BY <1>9, <1>10, <2>1, <2>3, <2>4, <2>5 DEF Progress, Done
<1>18. product' # Empty
  <2>1. 1 \in DOMAIN product'
    BY <1>9, <1>13, <1>16
  <2>. QED
    BY <2>1 DEF Empty
<1>19. MasksAgree(masks, packed)' /\ BlockingTyped'
  BY <1>4, <1>7 DEF MasksAgree, BlockingTyped
<1>20. SomethingGiven'
  BY <1>3, <1>6, <1>7, <1>8, <1>17, <1>18, <1>19 DEF SomethingGiven, Empty
<1>. QED
  BY <1>20 DEF SparseInv

-----------------------------------------------------------------------------
(* What the invariant says of each property. *)

\* The types of masks, position and count.
LEMMA SparseTypes == ASSUME SparseInv PROVE SparseTypeOK
<1>1. CASE NothingGiven
  BY <1>1 DEF NothingGiven, SparseTypeOK, Empty, Done
<1>2. CASE SomethingGiven
  <2>1. Given /\ masks \in MaskRows /\ Rows \in Nat /\ GroupCount \in Nat
    BY <1>2, GivenShapes DEF SomethingGiven
  <2>2. masks \in Seq(Seq(SUBSET InGroup))
    <3>. DEFINE B == SUBSET InGroup
    <3>. HIDE DEF B
    <3>1. masks \in [1 .. Rows -> [1 .. GroupCount -> B]]
      BY <2>1 DEF MaskRows, B
    <3>2. \A f \in [1 .. GroupCount -> B] : f \in Seq(B)
      BY <2>1
    <3>3. masks \in [1 .. Rows -> Seq(B)]
      BY <3>1, <3>2
    <3>4. masks \in Seq(Seq(B))
      BY <2>1, <3>3
    <3>. QED
      BY <3>4 DEF B
  <2>3. IsFiniteSet(Multiplied(position))
    BY <2>1, TriplesFinite
  <2>4. Cardinality(Multiplied(position)) \in Nat
    BY <2>3, FS_CardinalityType
  <2>5. macs \in Nat /\ (position = Done \/ position \in Positions)
    BY <1>2, <2>4 DEF SomethingGiven, Progress, Untouched
  <2>. QED
    BY <2>2, <2>5 DEF SparseTypeOK, Positions
<1>. QED
  BY <1>1, <1>2 DEF SparseInv

\* One group: the kept weights are the largest.
LEMMA GroupLargest ==
    ASSUME NEW group, GroupTyped(group), NEW pruning, pruning = PruneGroup(group)
    PROVE  LET kept == {p \in InGroup : pruning[p] = group[p] /\ group[p] # 0}
           IN  /\ Cardinality(kept) <= 2
               /\ \A p \in InGroup \ kept : pruning[p] = 0
               /\ \A p \in kept, q \in InGroup \ kept : Magnitude(group[q]) <= Magnitude(group[p])
               /\ Cardinality(kept) < 2 => \A q \in InGroup \ kept : group[q] = 0
<1>. DEFINE places == KeptPlaces(group)
            kept == {p \in InGroup : pruning[p] = group[p] /\ group[p] # 0}
<1>1. PICK a \in InGroup, b \in InGroup : a < b /\ places = {a, b}
  BY KeptTwo
<1>2. \A p \in places, q \in InGroup \ places : Magnitude(group[q]) <= Magnitude(group[p])
  BY KeptTwo
<1>3. \A p \in InGroup : pruning[p] = IF p \in places THEN group[p] ELSE 0
  BY DEF PruneGroup
<1>4. \A p \in InGroup : group[p] \in Int /\ Magnitude(group[p]) \in Nat /\ (Magnitude(group[p]) = 0 <=> group[p] = 0)
  BY MagnitudeType DEF GroupTyped
<1>. HIDE DEF places
<1>5. \A p : p \in kept <=> p \in places /\ group[p] # 0
  BY <1>1, <1>3
<1>. HIDE DEF kept
<1>6. IsFiniteSet(places) /\ Cardinality(places) = 2
  <2>1. a # b
    BY <1>1 DEF InGroup
  <2>. QED
    BY <1>1, <2>1, PairSize
<1>7. kept \in SUBSET places
  BY <1>5
<1>8. Cardinality(kept) <= 2 /\ IsFiniteSet(kept) /\ (Cardinality(kept) = 2 => kept = places)
  BY <1>6, <1>7, FS_Subset
<1>9. \A p \in InGroup \ kept : pruning[p] = 0
  BY <1>3, <1>5
<1>10. ASSUME NEW p \in kept, NEW q \in InGroup \ kept
       PROVE  Magnitude(group[q]) <= Magnitude(group[p])
  <2>1. p \in places /\ p \in InGroup
    BY <1>1, <1>5
  <2>2. CASE q \in places
    <3>1. Magnitude(group[q]) = 0
      BY <1>4, <1>5, <2>2
    <3>. QED
      BY <1>4, <2>1, <3>1
  <2>3. CASE q \notin places
    BY <1>2, <2>1, <2>3
  <2>. QED
    BY <2>2, <2>3
<1>11. ASSUME Cardinality(kept) < 2, NEW q \in InGroup \ kept
       PROVE  group[q] = 0
  <2>1. kept # places
    BY <1>6, <1>11
  <2>2. PICK p \in places : p \notin kept
    BY <1>7, <2>1
  <2>3. p \in InGroup /\ group[p] = 0 /\ Magnitude(group[p]) = 0
    BY <1>1, <1>4, <1>5, <2>2
  <2>4. CASE q \in places
    BY <1>5, <2>4
  <2>5. CASE q \notin places
    <3>1. Magnitude(group[q]) <= Magnitude(group[p])
      BY <1>2, <2>2, <2>5
    <3>. QED
      BY <1>4, <2>3, <3>1
  <2>. QED
    BY <2>4, <2>5
<1>. QED
  BY <1>8, <1>9, <1>10, <1>11 DEF kept

\* Each group keeps its two largest.
LEMMA KeptAreLargest == ASSUME SparseInv PROVE LargestKept
<1>1. CASE NothingGiven
  BY <1>1 DEF NothingGiven, LargestKept, Empty
<1>2. CASE SomethingGiven
  <2>1. Given /\ pruned = PrunedOf(weights)
    BY <1>2 DEF SomethingGiven
  <2>2. /\ DOMAIN pruned = 1 .. Rows
        /\ \A m \in 1 .. Rows : DOMAIN pruned[m] = 1 .. GroupCount
        /\ \A m \in 1 .. Rows : \A g \in 1 .. GroupCount :
              GroupTyped(Groups(weights[m])[g]) /\ pruned[m][g] = PruneGroup(Groups(weights[m])[g])
    BY <2>1, GivenGroups
  <2>3. ASSUME NEW m \in 1 .. Rows, NEW g \in 1 .. GroupCount
        PROVE  LET group == Groups(weights[m])[g]
                   kept == {p \in InGroup : pruned[m][g][p] = group[p] /\ group[p] # 0}
               IN  /\ Cardinality(kept) <= 2
                   /\ \A p \in InGroup \ kept : pruned[m][g][p] = 0
                   /\ \A p \in kept, q \in InGroup \ kept : Magnitude(group[q]) <= Magnitude(group[p])
                   /\ Cardinality(kept) < 2 => \A q \in InGroup \ kept : group[q] = 0
    <3>. DEFINE group == Groups(weights[m])[g]
                pruning == pruned[m][g]
    <3>1. GroupTyped(group) /\ pruning = PruneGroup(group)
      BY <2>2
    <3>. HIDE DEF group, pruning
    <3>2. LET kept == {p \in InGroup : pruning[p] = group[p] /\ group[p] # 0}
          IN  /\ Cardinality(kept) <= 2
              /\ \A p \in InGroup \ kept : pruning[p] = 0
              /\ \A p \in kept, q \in InGroup \ kept : Magnitude(group[q]) <= Magnitude(group[p])
              /\ Cardinality(kept) < 2 => \A q \in InGroup \ kept : group[q] = 0
      BY <3>1, GroupLargest
    <3>. QED
      BY <3>2 DEF group, pruning
  <2>. DEFINE P(m, g) ==
                LET group == Groups(weights[m])[g]
                    kept == {p \in InGroup : pruned[m][g][p] = group[p] /\ group[p] # 0}
                IN  /\ Cardinality(kept) <= 2
                    /\ \A p \in InGroup \ kept : pruned[m][g][p] = 0
                    /\ \A p \in kept, q \in InGroup \ kept : Magnitude(group[q]) <= Magnitude(group[p])
                    /\ Cardinality(kept) < 2 => \A q \in InGroup \ kept : group[q] = 0
  <2>4. (\A m \in DOMAIN pruned : \A g \in DOMAIN pruned[m] : P(m, g)) => LargestKept
    BY Zenon DEF LargestKept
  <2>5. ASSUME NEW m \in 1 .. Rows, NEW g \in 1 .. GroupCount PROVE P(m, g)
    BY <2>3
  <2>. HIDE DEF P
  <2>6. \A m \in DOMAIN pruned : \A g \in DOMAIN pruned[m] : P(m, g)
    BY <2>2, <2>5
  <2>. QED
    BY <2>4, <2>6
<1>. QED
  BY <1>1, <1>2 DEF SparseInv

\* One group: unpacking undoes packing.
LEMMA GroupUnpacks ==
    ASSUME NEW group, NEW pruning \in [InGroup -> Int], NEW mask, NEW pack, PairKept(group, pruning, mask, pack)
    PROVE  DecodeGroup(pack) = pruning
<1>1. PICK a \in InGroup, b \in InGroup :
         /\ a < b /\ NthBit(mask, 1) = a /\ NthBit(mask, 2) = b
         /\ \A p \in InGroup \ {a, b} : pruning[p] = 0
         /\ pack.mask = mask /\ pack.values = <<pruning[a], pruning[b]>>
         /\ MaskValid(mask)
  BY DEF PairKept
<1>2. DecodeGroup(pack) = [k \in InGroup |-> IF k = a THEN pruning[a] ELSE IF k = b THEN pruning[b] ELSE 0]
  BY <1>1 DEF DecodeGroup
<1>3. \A k \in InGroup : (IF k = a THEN pruning[a] ELSE IF k = b THEN pruning[b] ELSE 0) = pruning[k]
  BY <1>1
<1>. QED
  BY <1>2, <1>3

\* Packed groups unpack to the pruned ones.
LEMMA PackingIsLossless == ASSUME SparseInv PROVE PackingLossless
<1>1. CASE packed = Empty
  BY <1>1 DEF PackingLossless, Empty
<1>2. CASE packed # Empty
  <2>1. Given /\ pruned = PrunedOf(weights) /\ packed = PackedOf(weights)
    BY <1>2 DEF SparseInv, NothingGiven, SomethingGiven
  <2>2. /\ DOMAIN packed = 1 .. Rows
        /\ \A m \in 1 .. Rows : DOMAIN packed[m] = 1 .. GroupCount
    BY <2>1, GivenGroups
  <2>3. ASSUME NEW m \in 1 .. Rows, NEW g \in 1 .. GroupCount
        PROVE  DecodeGroup(packed[m][g]) = pruned[m][g]
    <3>. DEFINE group == Groups(weights[m])[g]
                pruning == pruned[m][g]
                mask == KeptPlaces(group)
                pack == packed[m][g]
    <3>1. GroupTyped(group) /\ pruning = PruneGroup(group) /\ pack = EncodeGroup(pruning, mask)
      BY <2>1, GivenGroups
    <3>. HIDE DEF group, pruning, pack
    <3>2. pruning \in [InGroup -> Int] /\ PairKept(group, pruning, mask, pack)
      BY <3>1, GroupKept
    <3>. HIDE DEF mask
    <3>3. DecodeGroup(pack) = pruning
      BY <3>2, GroupUnpacks
    <3>. QED
      BY <3>3 DEF pruning, pack
  <2>. QED
    BY <2>2, <2>3 DEF PackingLossless
<1>. QED
  BY <1>1, <1>2

\* The finished product is the dense one of the pruned weights.
LEMMA TiledDense == ASSUME SparseInv PROVE TiledIsDense
<1>. SUFFICES ASSUME Finished, NEW m \in 1 .. Rows, NEW n \in 1 .. Columns
              PROVE  product[m][n] = IF MasksAgree(masks, packed) THEN DenseProduct(m, n) ELSE 0
  BY DEF TiledIsDense
<1>1. SomethingGiven /\ product # Empty /\ packed # Empty /\ position = Done
  BY DEF Finished, SparseInv, NothingGiven, SomethingGiven
<1>2. CASE MasksAgree(masks, packed)
  <2>1. Progress /\ Ready
    BY <1>1, <1>2, AgreeReady DEF SomethingGiven
  <2>2. ReachedAt(position, m - 1, n - 1) = Depth
    BY <1>1 DEF ReachedAt
  <2>3. product[m][n] = SumTerms(m - 1, 0 .. ReachedAt(position, m - 1, n - 1) - 1, n - 1)
    BY <2>1 DEF Progress
  <2>4. product[m][n] = SumTerms(m - 1, 0 .. Depth - 1, n - 1)
    BY <2>2, <2>3
  <2>5. m - 1 \in 0 .. Rows - 1 /\ n - 1 \in 0 .. Columns - 1 /\ (m - 1) + 1 = m /\ (n - 1) + 1 = n
    BY <2>1, GivenShapes DEF Ready
  <2>6. SumTerms(m - 1, 0 .. Depth - 1, n - 1) = DenseProduct((m - 1) + 1, (n - 1) + 1)
    BY <2>1, <2>5, SumIsDense
  <2>. QED
    BY <1>2, <2>4, <2>5, <2>6
<1>3. CASE ~ MasksAgree(masks, packed)
  BY <1>1, <1>3 DEF SomethingGiven, Untouched
<1>. QED
  BY <1>2, <1>3

\* A product behind masks that disagree stays zero.
LEMMA DisagreementIsHarmless == ASSUME SparseInv PROVE DisagreementHarmless
<1>. SUFFICES ASSUME Finished, NEW m \in DOMAIN masks, NEW g \in DOMAIN masks[m], masks[m][g] # packed[m][g].mask
              PROVE  macs = 0 /\ \A i \in 1 .. Rows, n \in 1 .. Columns : product[i][n] = 0
  BY DEF DisagreementHarmless
<1>1. SomethingGiven /\ product # Empty
  BY DEF Finished, SparseInv, NothingGiven
<1>2. ~ MasksAgree(masks, packed)
  BY DEF MasksAgree
<1>3. Untouched
  BY <1>1, <1>2 DEF SomethingGiven
<1>. QED
  BY <1>3 DEF Untouched

\* A quotient rounded up grows with what is divided.
LEMMA CeilingGrows ==
    ASSUME NEW k \in Nat \ {0}, NEW x \in Nat, NEW y \in Nat, x <= y
    PROVE  Ceiling(x, k) \in Nat /\ Ceiling(x, k) <= Ceiling(y, k)
<1>. DEFINE a == x \div k
            b == y \div k
            r == x % k
            s == y % k
<1>1. a \in Nat /\ b \in Nat /\ r \in 0 .. k - 1 /\ s \in 0 .. k - 1 /\ x = k * a + r /\ y = k * b + s
  BY Division
<1>2. Ceiling(x, k) = a + (IF r = 0 THEN 0 ELSE 1) /\ Ceiling(y, k) = b + (IF s = 0 THEN 0 ELSE 1)
  BY DEF Ceiling
<1>. HIDE DEF a, b, r, s
<1>3. a <= b
  <2>. SUFFICES ASSUME a > b PROVE FALSE
    BY <1>1
  <2>1. k * a >= k * (b + 1)
    BY <1>1
  <2>2. k * (b + 1) = k * b + k
    BY <1>1
  <2>. DEFINE p == k * a
              q == k * b
  <2>3. p \in Nat /\ q \in Nat /\ p >= q + k /\ x = p + r /\ y = q + s
    BY <1>1, <2>1, <2>2
  <2>. HIDE DEF p, q
  <2>. QED
    BY <1>1, <2>3
<1>4. CASE a = b
  <2>1. r <= s
    <3>. DEFINE q == k * b
    <3>1. q \in Nat /\ x = q + r /\ y = q + s
      BY <1>1, <1>4
    <3>. HIDE DEF q
    <3>. QED
      BY <1>1, <3>1
  <2>. QED
    BY <1>1, <1>2, <1>4, <2>1
<1>5. CASE a < b
  BY <1>1, <1>2, <1>5
<1>. QED
  BY <1>1, <1>3, <1>4, <1>5

\* The packed groups are fewer bytes than the weights.
LEMMA FewerBytes ==
    ASSUME NEW m \in Nat, NEW n \in Nat, NEW k \in Nat
    PROVE  /\ m * k \in Nat /\ m * n * k \in Nat /\ 2 * k * n + 4 * m * n \in Nat
           /\ 5 * ((m * k) \div 4) \in Nat /\ 5 * ((m * k) \div 4) <= 2 * m * k /\ 2 * m * k \in Nat
<1>. DEFINE x == m * k
<1>1. x \in Nat /\ 2 * m * k = 2 * x
  OBVIOUS
<1>2. m * n * k \in Nat
  <2>. DEFINE p == m * n
  <2>1. p \in Nat
    OBVIOUS
  <2>. HIDE DEF p
  <2>2. p * k \in Nat
    BY <2>1
  <2>. QED
    BY <2>2 DEF p
<1>3. 2 * k * n + 4 * m * n \in Nat
  <2>. DEFINE p == k * n
              q == m * n
  <2>1. p \in Nat /\ q \in Nat /\ 2 * k * n = 2 * p /\ 4 * m * n = 4 * q
    OBVIOUS
  <2>. HIDE DEF p, q
  <2>2. 2 * p + 4 * q \in Nat
    BY <2>1
  <2>. QED
    BY <2>1, <2>2
<1>. HIDE DEF x
<1>4. 5 * (x \div 4) \in Nat /\ 5 * (x \div 4) <= 2 * x /\ 2 * x \in Nat
  BY <1>1
<1>. QED
  BY <1>1, <1>2, <1>3, <1>4 DEF x

\* The estimate of the sparse product.
LEMMA NoSlower == ASSUME SparseInv PROVE SparseNoSlower
<1>. SUFFICES ASSUME product # Empty, NEW machine \in Machines,
                     EstimateCycles(Rows, Columns, Depth, machine).sparse > EstimateCycles(Rows, Columns, Depth, machine).dense
              PROVE  EstimateCycles(Rows, Columns, Depth, machine).decode
                        > EstimateCycles(Rows, Columns, Depth, machine).compute
  BY DEF SparseNoSlower
<1>1. Rows \in Nat /\ Columns \in Nat /\ Depth \in Nat
  BY GivenShapes DEF SparseInv, NothingGiven, SomethingGiven
<1>2. machine.pes \in Nat \ {0} /\ machine.depth \in Nat /\ machine.busBytes \in Nat \ {0} /\ machine.groups \in Nat \ {0}
  BY SparsityAssumption
<1>. DEFINE m == Rows
            n == Columns
            k == Depth
            fill == IF machine.depth = 0 THEN 0 ELSE 2 * machine.depth - 1
            shared == 2 * k * n + 4 * m * n
            groups == (m * k) \div 4
            read == Ceiling(2 * m * k + shared, machine.busBytes)
            done == Ceiling(m * n * k, machine.pes)
            less == Ceiling(5 * groups + shared, machine.busBytes)
            half == Ceiling((m * n * k) \div 2, machine.pes)
            decode == Ceiling(groups, machine.groups)
<1>3. /\ EstimateCycles(Rows, Columns, Depth, machine).dense = read + done + fill
      /\ EstimateCycles(Rows, Columns, Depth, machine).sparse = less + Max({half + fill, decode})
      /\ EstimateCycles(Rows, Columns, Depth, machine).decode = decode
      /\ EstimateCycles(Rows, Columns, Depth, machine).compute = half + fill
  BY DEF EstimateCycles, GroupBytes
<1>4. /\ fill \in Nat /\ shared \in Nat /\ groups \in Nat
      /\ 5 * groups \in Nat /\ 5 * groups <= 2 * m * k /\ 2 * m * k \in Nat /\ m * n * k \in Nat
  <2>1. fill \in Nat
    BY <1>2
  <2>2. m \in Nat /\ n \in Nat /\ k \in Nat
    BY <1>1
  <2>. HIDE DEF m, n, k
  <2>3. /\ m * k \in Nat /\ m * n * k \in Nat /\ 2 * k * n + 4 * m * n \in Nat
        /\ 5 * ((m * k) \div 4) \in Nat /\ 5 * ((m * k) \div 4) <= 2 * m * k /\ 2 * m * k \in Nat
    BY <2>2, FewerBytes
  <2>4. \A x \in Nat : x \div 4 \in Nat
    OBVIOUS
  <2>. QED
    BY <2>1, <2>3, <2>4
<1>5. read \in Nat /\ less \in Nat /\ less <= read
  <2>. DEFINE x == 5 * groups + shared
              y == 2 * m * k + shared
  <2>1. x \in Nat /\ y \in Nat /\ x <= y
    <3>. DEFINE u == 5 * groups
                v == 2 * m * k
    <3>1. u \in Nat /\ v \in Nat /\ u <= v /\ shared \in Nat
      BY <1>4
    <3>. HIDE DEF u, v, shared
    <3>2. u + shared \in Nat /\ v + shared \in Nat /\ u + shared <= v + shared
      BY <3>1
    <3>. QED
      BY <3>2 DEF u, v
  <2>. HIDE DEF x, y
  <2>2. /\ Ceiling(x, machine.busBytes) \in Nat /\ Ceiling(x, machine.busBytes) <= Ceiling(y, machine.busBytes)
        /\ Ceiling(y, machine.busBytes) \in Nat
    BY <1>2, <2>1, CeilingGrows
  <2>. QED
    BY <2>2 DEF x, y
<1>6. done \in Nat /\ half \in Nat /\ half <= done
  <2>. DEFINE y == m * n * k
              x == y \div 2
  <2>1. y \in Nat
    BY <1>4
  <2>. HIDE DEF y
  <2>2. x \in Nat /\ x <= y
    BY <2>1
  <2>. HIDE DEF x
  <2>3. /\ Ceiling(x, machine.pes) \in Nat /\ Ceiling(x, machine.pes) <= Ceiling(y, machine.pes)
        /\ Ceiling(y, machine.pes) \in Nat
    BY <1>2, <2>1, <2>2, CeilingGrows
  <2>. QED
    BY <2>3 DEF x, y
<1>7. decode \in Nat
  <2>1. groups \in Nat
    BY <1>4
  <2>. HIDE DEF groups
  <2>. QED
    BY <1>2, <2>1, CeilingGrows
<1>8. less + Max({half + fill, decode}) > read + done + fill
  BY <1>3
<1>9. fill \in Nat
  BY <1>4
<1>. HIDE DEF fill, read, done, less, half, decode
<1>10. ASSUME decode <= half + fill PROVE FALSE
  <2>. DEFINE c == half + fill
  <2>1. c \in Nat /\ decode <= c
    BY <1>6, <1>9, <1>10
  <2>. HIDE DEF c
  <2>2. Max({c, decode}) = c
    BY <1>7, <2>1 DEF Max
  <2>3. less + c > read + done + fill
    BY <1>8, <2>2 DEF c
  <2>. QED
    BY <1>5, <1>6, <1>9, <2>3 DEF c
<1>11. decode > half + fill
  BY <1>6, <1>7, <1>9, <1>10
<1>. QED
  BY <1>3, <1>11

\* The kept weights that are zero, each for every column.
ZeroTriples == {x \in Triples : KeptValue(x[1], x[3][1], x[3][2]) = 0}
ZeroKept == {x \in (1 .. Rows) \X (1 .. (Depth \div 4)) \X {1, 2} : packed[x[1]][x[2]].values[x[3]] = 0}

\* A kept weight that is zero spares one multiplication a column.
LEMMA ZerosCounted ==
    ASSUME Given
    PROVE  /\ IsFiniteSet(ZeroKept) /\ IsFiniteSet(ZeroTriples)
           /\ Cardinality(ZeroTriples) = Cardinality(ZeroKept) * Columns
<1>. DEFINE W == 0 .. Columns - 1
            S == ZeroKept \X W
            T == ZeroTriples
            f == [x \in S |-> <<x[1][1] - 1, x[2], <<x[1][2], x[1][3]>>>>]
<1>1. Rows \in Nat /\ Columns \in Nat /\ GroupCount \in Nat
  BY GivenShapes
<1>2. ASSUME NEW n \in Nat PROVE IsFiniteSet(1 .. n)
  <2>1. 1 \in Int /\ n \in Int
    OBVIOUS
  <2>. QED
    BY <2>1, FS_Interval
<1>3. IsFiniteSet({1, 2})
  <2>1. 1 # 2
    OBVIOUS
  <2>. QED
    BY <2>1, PairSize
<1>4. IsFiniteSet(ZeroKept)
  <2>. DEFINE A == 1 .. Rows
              B == 1 .. GroupCount
              C == {1, 2}
  <2>1. IsFiniteSet(A) /\ IsFiniteSet(B) /\ IsFiniteSet(C)
    BY <1>1, <1>2, <1>3
  <2>2. ZeroKept \in SUBSET (A \X B \X C)
    BY DEF ZeroKept, GroupCount
  <2>. HIDE DEF A, B, C
  <2>3. IsFiniteSet(A \X B \X C)
    BY <2>1, TripleProduct
  <2>. QED
    BY <2>2, <2>3, FS_Subset
<1>5. IsFiniteSet(W) /\ Cardinality(W) = Columns
  <2>1. 0 \in Int /\ Columns - 1 \in Int
    BY <1>1
  <2>2. IsFiniteSet(W) /\ Cardinality(W) = IF 0 > Columns - 1 THEN 0 ELSE (Columns - 1) - 0 + 1
    BY <2>1, FS_Interval
  <2>. HIDE DEF W
  <2>. QED
    BY <1>1, <2>2
<1>6. IsFiniteSet(T)
  <2>1. T \in SUBSET Triples
    BY DEF ZeroTriples
  <2>. HIDE DEF T
  <2>. QED
    BY <2>1, TriplesFinite, FS_Subset
<1>7. ASSUME NEW e \in ZeroKept
      PROVE  /\ e = <<e[1], e[2], e[3]>> /\ e[1] \in 1 .. Rows /\ e[1] - 1 \in 0 .. Rows - 1
             /\ e[2] \in 1 .. GroupCount /\ e[3] \in {1, 2} /\ packed[e[1]][e[2]].values[e[3]] = 0
             /\ (e[1] - 1) + 1 = e[1]
  BY <1>1 DEF ZeroKept, GroupCount
<1>8. \A x : x \in T <=> /\ x \in Triples /\ packed[x[1] + 1][x[3][1]].values[x[3][2]] = 0
  BY DEF ZeroTriples, KeptValue
<1>9. f \in Bijection(S, T)
  <2>1. ASSUME NEW x \in S PROVE f[x] \in T
    <3>. DEFINE e == x[1]
                n == x[2]
                t == <<e[1] - 1, n, <<e[2], e[3]>>>>
    <3>1. e \in ZeroKept /\ n \in W
      OBVIOUS
    <3>2. t \in Triples
      BY <1>7, <3>1 DEF Triples, AllTerms
    <3>3. packed[t[1] + 1][t[3][1]].values[t[3][2]] = 0
      BY <1>7, <3>1
    <3>4. t \in T
      BY <1>8, <3>2, <3>3
    <3>. QED
      BY <3>4
  <2>2. ASSUME NEW x \in S, NEW y \in S, f[x] = f[y] PROVE x = y
    <3>1. x[1] \in ZeroKept /\ y[1] \in ZeroKept /\ x = <<x[1], x[2]>> /\ y = <<y[1], y[2]>>
      OBVIOUS
    <3>2. /\ x[1][1] - 1 = y[1][1] - 1 /\ x[2] = y[2] /\ x[1][2] = y[1][2] /\ x[1][3] = y[1][3]
      BY <2>2
    <3>3. x[1][1] = y[1][1]
      BY <1>7, <3>1, <3>2
    <3>4. x[1] = y[1]
      BY <1>7, <3>1, <3>2, <3>3
    <3>. QED
      BY <3>1, <3>2, <3>4
  <2>3. ASSUME NEW t \in T PROVE \E x \in S : f[x] = t
    <3>. DEFINE e == <<t[1] + 1, t[3][1], t[3][2]>>
                x == <<e, t[2]>>
    <3>1. /\ t \in Triples /\ packed[t[1] + 1][t[3][1]].values[t[3][2]] = 0
      BY <1>8
    <3>2. /\ t = <<t[1], t[2], <<t[3][1], t[3][2]>>>> /\ t[1] \in 0 .. Rows - 1 /\ t[2] \in W
          /\ t[3][1] \in 1 .. GroupCount /\ t[3][2] \in {1, 2}
      BY <3>1 DEF Triples, AllTerms
    <3>3. t[1] + 1 \in 1 .. Rows /\ (t[1] + 1) - 1 = t[1]
      BY <1>1, <3>2
    <3>4. e \in ZeroKept
      BY <3>1, <3>2, <3>3 DEF ZeroKept, GroupCount
    <3>5. x \in S /\ f[x] = t
      BY <3>2, <3>3, <3>4
    <3>. QED
      BY <3>5
  <2>4. f \in [S -> T]
    <3>1. \A x \in S : f[x] \in T
      BY <2>1
    <3>2. f = [x \in S |-> f[x]]
      OBVIOUS
    <3>. HIDE DEF S, T, f
    <3>. QED
      BY <3>1, <3>2
  <2>. HIDE DEF S, T, f
  <2>. QED
    BY <2>2, <2>3, <2>4 DEF Bijection, Injection, Surjection, IsInjective
<1>. HIDE DEF W, T, f
<1>10. IsFiniteSet(S) /\ Cardinality(S) = Cardinality(ZeroKept) * Cardinality(W)
  BY <1>4, <1>5, FS_Product
<1>. HIDE DEF S
<1>11. Cardinality(T) = Cardinality(S)
  BY <1>9, <1>10, FS_Bijection DEF ExistsBijection
<1>. QED
  BY <1>4, <1>5, <1>6, <1>10, <1>11 DEF T

\* Half of the dense multiplications, as naturals.
LEMMA HalfOfProduct ==
    ASSUME NEW m \in Nat, NEW n \in Nat, NEW g \in Nat
    PROVE  (m * n * (4 * g)) \div 2 = m * (n * (g * 2))
<1>. DEFINE p == m * n
            q == p * g
<1>1. p \in Nat
  OBVIOUS
<1>2. q \in Nat
  <2>. HIDE DEF p
  <2>. QED
    BY <1>1
<1>3. p * (4 * g) = 4 * q
  <2>. HIDE DEF p
  <2>. QED
    BY <1>1
<1>4. m * (n * (g * 2)) = 2 * q
  OBVIOUS
<1>. HIDE DEF q
<1>5. (4 * q) \div 2 = 2 * q
  BY <1>2
<1>. QED
  BY <1>3, <1>4, <1>5 DEF p

\* The multiplications counted and spared are those estimated.
LEMMA MacsEstimated == ASSUME SparseInv PROVE MacsAsEstimated
<1>. SUFFICES ASSUME Finished, MasksAgree(masks, packed)
              PROVE  macs + Cardinality(ZeroKept) * Columns = (Rows * Columns * Depth) \div 2
  BY DEF MacsAsEstimated, EstimateCycles, ZeroKept
<1>1. SomethingGiven /\ product # Empty /\ packed # Empty /\ position = Done
  BY DEF Finished, SparseInv, NothingGiven, SomethingGiven
<1>2. Progress /\ Ready /\ Given
  BY <1>1, AgreeReady DEF SomethingGiven
<1>3. macs = Cardinality(Multiplied(position)) /\ IsFiniteSet(Multiplied(position)) /\ IsFiniteSet(Triples)
      /\ Cardinality(Triples) = Rows * (Columns * (GroupCount * 2))
  BY <1>2, TriplesFinite DEF Progress
<1>. DEFINE A == Multiplied(position)
            B == ZeroTriples
<1>4. ASSUME NEW x \in Triples PROVE x \in A <=> x \notin B
  <2>1. /\ x[1] \in 0 .. Rows - 1 /\ x[3] \in AllTerms /\ x[3][1] \in 1 .. GroupCount /\ x[3][2] \in {1, 2}
    BY DEF Triples, AllTerms
  <2>2. ReachedAt(position, x[1], x[2]) = Depth
    BY <1>1 DEF ReachedAt
  <2>3. KeptAt(x[1], x[3][1], x[3][2]) \in 1 .. Depth
    BY <1>2, <2>1, KeptPosition
  <2>4. KeptAt(x[1], x[3][1], x[3][2]) - 1 \in 0 .. Depth - 1
    BY <1>2, <2>3, GivenShapes
  <2>5. x[3] \in Terms(x[1], 0 .. Depth - 1) <=> KeptValue(x[1], x[3][1], x[3][2]) # 0
    BY <1>2, <2>1, <2>4, TermsAre
  <2>. QED
    BY <2>2, <2>5 DEF Multiplied, ZeroTriples
<1>5. A \subseteq Triples /\ B \subseteq Triples
  BY DEF Multiplied, ZeroTriples
<1>6. IsFiniteSet(A) /\ IsFiniteSet(B) /\ Cardinality(B) = Cardinality(ZeroKept) * Columns
  BY <1>2, <1>3, ZerosCounted
<1>7. macs = Cardinality(A)
  BY <1>3
<1>. HIDE DEF A, B
<1>8. Triples = A \cup B /\ A \cap B = {}
  BY <1>4, <1>5
<1>9. Cardinality(A \cup B) = Cardinality(A) + Cardinality(B) - Cardinality(A \cap B)
  BY <1>6, FS_Union
<1>10. Cardinality(A) \in Nat /\ Cardinality(B) \in Nat
  BY <1>6, FS_CardinalityType
<1>11. Cardinality(Triples) = macs + Cardinality(ZeroKept) * Columns
  <2>1. Cardinality(Triples) = Cardinality(A) + Cardinality(B)
    BY <1>8, <1>9, <1>10, FS_EmptySet
  <2>. QED
    BY <1>6, <1>7, <2>1
<1>12. Rows \in Nat /\ Columns \in Nat /\ GroupCount \in Nat /\ Depth = 4 * GroupCount
  BY <1>2, GivenShapes
<1>13. (Rows * Columns * (4 * GroupCount)) \div 2 = Rows * (Columns * (GroupCount * 2))
  BY <1>12, HalfOfProduct
<1>. QED
  BY <1>3, <1>11, <1>12, <1>13

\* Steps of others leave the invariant.
LEMMA StutterSparse ==
    ASSUME SparseInv, UNCHANGED sparseVars
    PROVE  SparseInv'
<1>1. CASE NothingGiven
  <2>1. NothingGiven'
    BY <1>1 DEF NothingGiven, sparseVars, Empty, Done
  <2>. QED
    BY <2>1 DEF SparseInv
<1>2. CASE SomethingGiven
  <2>1. UNCHANGED <<weights, activations, pruned, masks, packed, blocking, position, product, macs>>
    BY DEF sparseVars
  <2>3. /\ Given' /\ pruned' = PrunedOf(weights)' /\ MaskRows' = MaskRows
        /\ PackedOf(weights)' = PackedOf(weights) /\ MasksOf(weights)' = MasksOf(weights)
    BY <1>2, <2>1, GivenStays
  <2>4. MasksAgree(masks, packed)' = MasksAgree(masks, packed) /\ BlockingTyped' = BlockingTyped
    BY <2>1 DEF MasksAgree, BlockingTyped
  <2>5. Rows' = Rows /\ Columns' = Columns /\ Depth' = Depth /\ Positions' = Positions /\ Triples' = Triples
    BY <2>1 DEF Rows, Columns, Depth, Positions, Triples, AllTerms, GroupCount
  <2>6. ASSUME NEW m, NEW n
        PROVE  /\ Terms(m, 0 .. ReachedAt(position, m, n) - 1)' = Terms(m, 0 .. ReachedAt(position, m, n) - 1)
               /\ SumTerms(m, 0 .. ReachedAt(position, m, n) - 1, n)'
                    = SumTerms(m, 0 .. ReachedAt(position, m, n) - 1, n)
    <3>1. \A x, g, i : KeptAt(x, g, i)' = KeptAt(x, g, i)
      BY <2>1 DEF KeptAt
    <3>2. ReachedAt(position, m, n)' = ReachedAt(position, m, n)
      BY <2>1, <2>5 DEF ReachedAt, Done
    <3>3. Terms(m, 0 .. ReachedAt(position, m, n) - 1)' = Terms(m, 0 .. ReachedAt(position, m, n) - 1)
      BY <2>1, <3>1, <3>2 DEF Terms
    <3>. QED
      BY <2>1, <3>1, <3>3 DEF SumTerms
  <2>7. Multiplied(position)' = Multiplied(position)
    BY <2>5, <2>6 DEF Multiplied
  <2>8. Progress => Progress'
    BY <2>1, <2>5, <2>6, <2>7 DEF Progress, Done
  <2>9. Untouched => Untouched'
    BY <2>1, <2>5 DEF Untouched, Done
  <2>2. SomethingGiven'
    BY <1>2, <2>1, <2>3, <2>4, <2>8, <2>9 DEF SomethingGiven, Done, Empty
  <2>. QED
    BY <2>2 DEF SparseInv
<1>. QED
  BY <1>1, <1>2 DEF SparseInv

\* Every step keeps the invariant.
LEMMA SparseSteps == SparseInv /\ [SparseNext]_sparseVars => SparseInv'
<1>. SUFFICES ASSUME SparseInv, [SparseNext]_sparseVars PROVE SparseInv'
  OBVIOUS
<1>1. CASE \E w \in Weights, a \in Activations : Len(w[1]) = Len(a) /\ Prune(w, a)
  BY <1>1, PruneStep
<1>2. CASE Compress
  BY <1>2, CompressStep
<1>3. CASE \E m \in DOMAIN packed : \E g \in DOMAIN packed[m], mask \in SUBSET InGroup : MistakeMask(m, g, mask)
  BY <1>3, MistakeStep
<1>4. CASE \E t \in Tiles : StartTiled(t)
  BY <1>4, StartStep
<1>5. CASE MultiplyTile
  BY <1>5, MultiplyStep
<1>6. CASE UNCHANGED sparseVars
  BY <1>6, StutterSparse
<1>. QED
  BY <1>1, <1>2, <1>3, <1>4, <1>5, <1>6 DEF SparseNext

\* For all weights, activations, tile sizes and machines: pruning keeps the two largest
\* weights of each group, packing loses none of them, tu_sparsity_2of4_mma_tiled leaves
\* the dense product of the pruned weights, or zeros behind masks that disagree, and the
\* estimates count the multiplications done.
THEOREM SparseIsExact == SparseSpec => []SparsityExact
<1>1. SparseInit => SparseInv
  BY SparseInitial
<1>2. SparseInv /\ [SparseNext]_sparseVars => SparseInv'
  BY SparseSteps
<1>3. SparseInv => SparsityExact
  BY SparseTypes, KeptAreLargest, PackingIsLossless, TiledDense, DisagreementIsHarmless, MacsEstimated, NoSlower
     DEF SparsityExact
<1>. QED
  BY <1>1, <1>2, <1>3, PTL DEF SparseSpec

=============================================================================
