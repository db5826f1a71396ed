-------------------------- MODULE DmaEngine_proofs --------------------------
(***************************************************************************)
(* Proofs about DmaEngine for every number of channels, depth, mode and    *)
(* policy: its types, the exclusive use of a shared bus, the exactness of  *)
(* its counters while single descriptors are submitted, the order in which *)
(* a grant may pass a channel over, and the bound on DRR credits.          *)
(***************************************************************************)
EXTENDS DmaEngine, SequenceTheorems, TLAPS

\* What the proofs need of the constants.
LEMMA Constants ==
    /\ NumChannels \in Nat \ {0}
    /\ DepthModulus \in Nat \ {0} /\ MaxDepth \in 1 .. DepthModulus - 1
    /\ CreditMax \in Nat
    /\ \A c \in Channels : c \in Nat /\ c < NumChannels /\ Grant[c] \in Nat \ {0}
    /\ \A k \in Kinds : k.cost \in Nat /\ k.cycles \in Nat /\ k.cost <= CreditMax
    /\ None \notin Transfer /\ None \notin Channels
    /\ MaxPriority \in Nat /\ AgingQuantum \in Nat \ {0}
BY EngineAssumption, NoneAssumption DEF EngineAssumption, NoneAssumption, Channels

\* Ages are natural numbers that never pass the cap.
LEMMA AgeCapType == AgeCap \in Nat
BY Constants DEF AgeCap

\* No step changes the configuration.
LEMMA ModeFixed == [Next]_vars => mode' = mode
BY DEF Next, vars, Submit, Tick, TickIndependent, TickShared, Arbitrate,
       GrantPolicy, GrantNothing, DrrSkip, DrrShort, DrrServe, DrrRoundEnd, Flush

\* The depth limit fits the counter.
LEMMA DepthConstants ==
    /\ MaxDepth \in Nat /\ DepthModulus \in Nat
    /\ 1 <= MaxDepth /\ MaxDepth < DepthModulus
BY Constants

\* A channel serves nothing or one transfer.
LEMMA InServiceType == \A c : InService(c) \in 0 .. 1
BY DEF InService

\* A counter that wraps keeps its width.
LEMMA Wraps == \A x \in Int : x % DepthModulus \in 0 .. DepthModulus - 1
BY Constants

\* A cursor that advances past a channel stays a channel.
LEMMA AfterType == \A c \in Channels : After(c) \in Channels
BY Constants DEF After, Channels

\* The distance from a cursor is a natural number below the channel count.
LEMMA BehindType ==
    \A cursor, c \in Channels : Behind(cursor, c) \in 0 .. NumChannels - 1
BY Constants DEF Behind, Channels

-----------------------------------------------------------------------------
(* What the helpers of the actions return.                                 *)

\* A submitted chain is a non-empty sequence of queue items.
LEMMA ItemsType ==
    \A chain \in Chains : /\ Items(chain) \in Seq(Item)
                         /\ Len(Items(chain)) \in 1 .. MaxChain
<1> SUFFICES ASSUME NEW n \in 1 .. MaxChain, NEW chain \in [1 .. n -> Kinds]
             PROVE  Items(chain) \in Seq(Item) /\ Len(Items(chain)) = n
  BY EngineAssumption DEF Chains, EngineAssumption
<1>1. MaxChain \in Nat
  BY EngineAssumption DEF EngineAssumption
<1>2. \A k \in 1 .. n : [kind |-> chain[k], age |-> 0] \in Item
  BY AgeCapType DEF Item
<1> QED
  BY <1>1, <1>2 DEF Items

\* Linking a chain gives a queue that holds its own tail.
LEMMA LinkedType ==
    ASSUME NEW c \in Channels, NEW chain \in Chains,
           queue[c] \in Seq(Item), tailpos[c] \in 0 .. Len(queue[c])
    PROVE  /\ Linked(c, chain) \in Seq(Item)
           /\ LinkedTail(c) \in 0 .. Len(Linked(c, chain))
<1>1. Items(chain) \in Seq(Item) /\ Len(Items(chain)) \in Nat \ {0}
  BY ItemsType
<1>2. CASE queue[c] = <<>> \/ tailpos[c] = 0
  BY <1>1, <1>2 DEF Linked, LinkedTail
<1>3. CASE queue[c] # <<>> /\ tailpos[c] # 0
  <2>1. /\ SubSeq(queue[c], 1, tailpos[c]) \in Seq(Item)
        /\ Len(SubSeq(queue[c], 1, tailpos[c])) = tailpos[c]
    OBVIOUS
  <2> QED
    BY <1>1, <1>3, <2>1 DEF Linked, LinkedTail
<1> QED
  BY <1>2, <1>3

\* Issuing a queued item gives a transfer.
LEMMA IssuedType == \A item \in Item : Issued(item) \in Transfer
BY Constants DEF Issued, Item, Transfer

\* A clock cycle leaves a transfer or nothing.
LEMMA RemainingType ==
    ASSUME NEW c \in Channels, active[c] \in Transfer \cup {None}
    PROVE  Remaining(c) \in Transfer \cup {None}
<1>1. CASE c \notin Busy \/ active[c].left <= 1
  BY <1>1 DEF Remaining
<1>2. CASE c \in Busy /\ ~(active[c].left <= 1)
  BY <1>2 DEF Remaining, Busy, Transfer
<1> QED
  BY <1>1, <1>2

\* Ageing a queue changes neither its type nor its length.
LEMMA AgeAllType ==
    ASSUME NEW qs \in [Channels -> Seq(Item)]
    PROVE  /\ AgeAll(qs) \in [Channels -> Seq(Item)]
           /\ \A c \in Channels : Len(AgeAll(qs)[c]) = Len(qs[c])
<1>1. \A item \in Item : Aged(item) \in Item
  BY AgeCapType DEF Aged, Least, Item
<1>2. ASSUME NEW c \in Channels
      PROVE  /\ [k \in DOMAIN qs[c] |-> Aged(qs[c][k])] \in Seq(Item)
             /\ Len([k \in DOMAIN qs[c] |-> Aged(qs[c][k])]) = Len(qs[c])
  <2> DEFINE q == qs[c]
             n == Len(q)
  <2>1. q \in Seq(Item) /\ n \in Nat /\ DOMAIN q = 1 .. n
    OBVIOUS
  <2>2. \A k \in 1 .. n : Aged(q[k]) \in Item
    BY <1>1, <2>1
  <2> QED
    BY <2>1, <2>2
<1> QED
  BY <1>2 DEF AgeAll

\* A grant takes the head of its channel's queue and no other item.
LEMMA QueuesAfterGrantType ==
    ASSUME NEW c \in Channels, queue \in [Channels -> Seq(Item)], queue[c] # <<>>
    PROVE  /\ QueuesAfterGrant(c) \in [Channels -> Seq(Item)]
           /\ \A d \in Channels : Len(QueuesAfterGrant(c)[d]) =
                    IF d = c THEN Len(queue[d]) - 1 ELSE Len(queue[d])
<1> DEFINE popped == [queue EXCEPT ![c] = Tail(@)]
           older == IF mode.byCycles THEN popped ELSE AgeAll(popped)
<1>1. /\ popped \in [Channels -> Seq(Item)]
      /\ \A d \in Channels : Len(popped[d]) =
             IF d = c THEN Len(queue[d]) - 1 ELSE Len(queue[d])
  OBVIOUS
<1>2. /\ older \in [Channels -> Seq(Item)]
      /\ \A d \in Channels : Len(older[d]) = Len(popped[d])
  <2> HIDE DEF popped
  <2> QED
    BY <1>1, AgeAllType
<1> HIDE DEF popped, older
<1>3. CASE mode.fromHead /\ older[c] # <<>>
  <2> DEFINE q == older[c]
  <2>1. q \in Seq(Item) /\ q # <<>>
    BY <1>2, <1>3
  <2>2. /\ [q EXCEPT ![1].age = 0] \in Seq(Item)
        /\ Len([q EXCEPT ![1].age = 0]) = Len(q)
    <3> DEFINE x == [q[1] EXCEPT !.age = 0]
               r == [q EXCEPT ![1] = x]
    <3>1. x \in Item
      <4>1. q[1] \in Item /\ 0 \in 0 .. AgeCap
        BY <2>1, AgeCapType
      <4> HIDE DEF q
      <4> QED
        BY <4>1 DEF Item
    <3>2. Len(q) \in Nat \ {0} /\ q \in [1 .. Len(q) -> Item]
      BY <2>1
    <3>3. [q EXCEPT ![1].age = 0] = r
      OBVIOUS
    <3> HIDE DEF x, q
    <3>4. r \in [1 .. Len(q) -> Item]
      BY <3>1, <3>2
    <3> HIDE DEF r
    <3>5. r \in Seq(Item) /\ Len(r) = Len(q)
      BY <3>2, <3>4
    <3> QED
      BY <3>3, <3>5
  <2>3. QueuesAfterGrant(c) = [older EXCEPT ![c] = [q EXCEPT ![1].age = 0]]
    BY <1>3 DEF QueuesAfterGrant, popped, older
  <2> DEFINE s == [q EXCEPT ![1].age = 0]
  <2> HIDE DEF q
  <2>4. s \in Seq(Item) /\ Len(s) = Len(older[c])
    BY <2>2 DEF q
  <2>5. QueuesAfterGrant(c) = [older EXCEPT ![c] = s]
    BY <2>3
  <2> HIDE DEF s
  <2> QED
    BY <1>1, <1>2, <2>4, <2>5
<1>4. CASE ~(mode.fromHead /\ older[c] # <<>>)
  <2>1. QueuesAfterGrant(c) = older
    BY <1>4 DEF QueuesAfterGrant, popped, older
  <2> QED
    BY <1>1, <1>2, <2>1
<1> QED
  BY <1>3, <1>4

\* DRR never hands out more than the saturation point.
LEMMA FundsType ==
    ASSUME NEW c \in Channels, credits[c] \in 0 .. CreditMax
    PROVE  Funds(c) \in 0 .. CreditMax
BY Constants DEF Funds, Least

\* A DRR probe looks at a channel.
LEMMA ProbedType ==
    ASSUME next_shared \in Channels, probe \in 0 .. NumChannels, probe < NumChannels
    PROVE  Probed \in Channels
BY Constants DEF Probed, Channels

-----------------------------------------------------------------------------
(* Type correctness, one lemma per group of actions.                       *)

\* The engine tu_dma_init leaves behind has its types.
LEMMA TypeInit == Init => TypeOK
<1>1. /\ 0 \in Channels /\ 0 \in 0 .. DepthModulus - 1 /\ 0 \in 0 .. CreditMax
      /\ 0 \in 0 .. NumChannels
  BY Constants DEF Channels
<1>2. <<>> \in Seq(Item) /\ Len(<<>>) = 0
  OBVIOUS
<1> QED
  BY <1>1, <1>2 DEF Init, TypeOK

\* A submission keeps the types, queued or executed at once.
LEMMA TypeSubmit ==
    ASSUME TypeOK, NEW requested \in 0 .. NumChannels, NEW chain \in Chains,
           Submit(requested, chain)
    PROVE  TypeOK'
<1>1. PICK c \in Channels :
        /\ IF mode.async THEN Enqueue(c, chain) ELSE ExecuteAtOnce(c, chain)
        /\ next_binding' = IF mode.binding = "explicit" THEN next_binding ELSE After(c)
        /\ UNCHANGED <<mode, active, next_shared, drrVars, pc>>
  BY DEF Submit
<1>2. /\ queue_depth[c] \in Nat /\ unfinished[c] \in Int
      /\ queue[c] \in Seq(Item) /\ tailpos[c] \in 0 .. Len(queue[c])
  BY Constants DEF TypeOK
<1>3. next_binding' \in Channels
  BY <1>1, AfterType DEF TypeOK
<1>3a. /\ queue \in [Channels -> Seq(Item)] /\ tailpos \in [Channels -> Nat]
       /\ \A d \in Channels : tailpos[d] <= Len(queue[d])
  BY DEF TypeOK
<1>3b. /\ queue_depth \in [Channels -> 0 .. DepthModulus - 1]
       /\ unfinished \in [Channels -> Int]
  BY DEF TypeOK
<1>4. CASE mode.async
  <2>1. Enqueue(c, chain)
    BY <1>1, <1>4
  <2>2. /\ Linked(c, chain) \in Seq(Item)
        /\ LinkedTail(c) \in 0 .. Len(Linked(c, chain))
    BY <1>2, LinkedType
  <2>3. (queue_depth[c] + 1) % DepthModulus \in 0 .. DepthModulus - 1
    <3>1. queue_depth[c] + 1 \in Int
      BY <1>2
    <3> QED
      BY <3>1, Wraps
  <2>4. /\ queue' \in [Channels -> Seq(Item)]
        /\ tailpos' \in [Channels -> Nat]
        /\ \A d \in Channels : tailpos'[d] <= Len(queue'[d])
    <3>1. /\ queue' = [queue EXCEPT ![c] = Linked(c, chain)]
          /\ tailpos' = [tailpos EXCEPT ![c] = LinkedTail(c)]
      BY <2>1 DEF Enqueue
    <3>2. LinkedTail(c) \in Nat /\ LinkedTail(c) <= Len(Linked(c, chain))
      BY <2>2
    <3> QED
      BY <1>3a, <2>2, <3>1, <3>2
  <2>5. /\ queue_depth' \in [Channels -> 0 .. DepthModulus - 1]
        /\ unfinished' \in [Channels -> Int]
    <3>1. unfinished[c] + 1 \in Int
      BY <1>2
    <3> QED
      BY <1>3b, <2>1, <2>3, <3>1, Zenon DEF Enqueue
  <2> QED
    BY <1>1, <1>3, <2>4, <2>5 DEF TypeOK, drrVars
<1>5. CASE ~mode.async
  <2>1. ExecuteAtOnce(c, chain)
    BY <1>1, <1>5
  <2>2. Len(chain) \in Int
    BY EngineAssumption DEF Chains, EngineAssumption
  <2>3. (queue_depth[c] + 1 - Len(chain)) % DepthModulus \in 0 .. DepthModulus - 1
    <3>1. queue_depth[c] + 1 - Len(chain) \in Int
      BY <1>2, <2>2
    <3> QED
      BY <3>1, Wraps
  <2>4. /\ queue_depth' \in [Channels -> 0 .. DepthModulus - 1]
        /\ unfinished' \in [Channels -> Int]
    <3>1. unfinished[c] + 1 - Len(chain) \in Int
      BY <1>2, <2>2
    <3> QED
      BY <1>3b, <2>1, <2>3, <3>1, Zenon DEF ExecuteAtOnce
  <2> QED
    BY <1>1, <1>3, <2>1, <2>4 DEF ExecuteAtOnce, TypeOK, drrVars
<1> QED
  BY <1>4, <1>5

\* Popping the heads of backlogged channels.
LEMMA PopType ==
    ASSUME TypeOK, NEW S \in SUBSET Backlogged, Pop(S),
           queue' \in [Channels -> Seq(Item)],
           \A c \in Channels : Len(queue'[c]) =
               IF c \in S THEN Len(queue[c]) - 1 ELSE Len(queue[c])
    PROVE  /\ tailpos' \in [Channels -> Nat]
           /\ \A c \in Channels : tailpos'[c] <= Len(queue'[c])
           /\ queue_depth' \in [Channels -> 0 .. DepthModulus - 1]
<1>1. \A c \in Channels : /\ queue_depth[c] \in 0 .. DepthModulus - 1
                          /\ (queue_depth[c] - 1) % DepthModulus \in 0 .. DepthModulus - 1
  <2> TAKE c \in Channels
  <2>1. queue_depth[c] \in 0 .. DepthModulus - 1 /\ queue_depth[c] - 1 \in Int
    <3>1. queue_depth[c] \in 0 .. DepthModulus - 1
      BY DEF TypeOK
    <3> QED
      BY <3>1
  <2>2. (queue_depth[c] - 1) % DepthModulus \in 0 .. DepthModulus - 1
    BY <2>1, Wraps
  <2> QED
    BY <2>1, <2>2
<1>2. queue_depth' \in [Channels -> 0 .. DepthModulus - 1]
  BY <1>1 DEF Pop
<1>3. \A c \in Channels : c \in S => Len(queue[c]) \in Nat \ {0}
  BY DEF Backlogged, TypeOK
<1>4. \A c \in Channels : tailpos'[c] \in Nat /\ tailpos'[c] <= Len(queue'[c])
  <2> SUFFICES ASSUME NEW c \in Channels
               PROVE  tailpos'[c] \in Nat /\ tailpos'[c] <= Len(queue'[c])
    OBVIOUS
  <2>1. tailpos[c] \in Nat /\ tailpos[c] <= Len(queue[c]) /\ Len(queue[c]) \in Nat
    BY DEF TypeOK
  <2>2. tailpos'[c] = IF c \in S /\ tailpos[c] > 0 THEN tailpos[c] - 1 ELSE tailpos[c]
    BY DEF Pop
  <2> QED
    BY <1>3, <2>1, <2>2
<1>5. tailpos' \in [Channels -> Nat]
  BY <1>4 DEF Pop
<1> QED
  BY <1>2, <1>4, <1>5

\* A tick of independent data paths keeps the types.
LEMMA TypeTickIndependent == TypeOK /\ TickIndependent => TypeOK'
<1> SUFFICES ASSUME TypeOK, TickIndependent PROVE TypeOK'
  OBVIOUS
<1> DEFINE starts == {c \in Backlogged : Remaining(c) = None}
<1>1. \A c \in starts : /\ c \in Channels /\ queue[c] \in Seq(Item) /\ queue[c] # <<>>
                        /\ Head(queue[c]) \in Item
                        /\ Tail(queue[c]) \in Seq(Item)
                        /\ Len(Tail(queue[c])) = Len(queue[c]) - 1
  <2>1. \A c \in starts : c \in Channels /\ queue[c] \in Seq(Item) /\ queue[c] # <<>>
    BY DEF Backlogged, TypeOK
  <2> HIDE DEF starts
  <2> QED
    BY <2>1
<1>2. starts \in SUBSET Backlogged /\ Pop(starts)
  BY DEF TickIndependent
<1>3. /\ queue' \in [Channels -> Seq(Item)]
      /\ \A c \in Channels : Len(queue'[c]) =
             IF c \in starts THEN Len(queue[c]) - 1 ELSE Len(queue[c])
  <2> HIDE DEF starts
  <2>1. queue' = [c \in Channels |-> IF c \in starts THEN Tail(queue[c]) ELSE queue[c]]
    BY DEF TickIndependent, starts
  <2> QED
    BY <1>1, <2>1 DEF TypeOK
<1>4. active' \in [Channels -> Transfer \cup {None}]
  <2>1. \A c \in Channels : Remaining(c) \in Transfer \cup {None}
    BY RemainingType DEF TypeOK
  <2>2. \A c \in starts : Issued(Head(queue[c])) \in Transfer
    BY <1>1, IssuedType
  <2> QED
    BY <2>1, <2>2 DEF TickIndependent
<1>5. unfinished' \in [Channels -> Int]
  <2>1. unfinished' = [c \in Channels |-> IF c \in Retired THEN unfinished[c] - 1
                                         ELSE unfinished[c]]
    BY DEF TickIndependent
  <2> QED
    BY <2>1 DEF TypeOK
<1> HIDE DEF starts
<1> QED
  BY <1>2, <1>3, <1>4, <1>5, PopType DEF TickIndependent, TypeOK, drrVars

\* The clock half of a shared-bus tick keeps the types.
LEMMA TypeTickShared == TypeOK /\ TickShared => TypeOK'
<1> SUFFICES ASSUME TypeOK, TickShared PROVE TypeOK'
  OBVIOUS
<1>1. active' \in [Channels -> Transfer \cup {None}]
  BY RemainingType DEF TickShared, TypeOK
<1>2. /\ queue' \in [Channels -> Seq(Item)]
      /\ \A c \in Channels : Len(queue'[c]) = Len(queue[c])
  BY AgeAllType DEF TickShared, TypeOK
<1>3. unfinished' \in [Channels -> Int]
  <2>1. unfinished' = [c \in Channels |-> IF c \in Retired THEN unfinished[c] - 1
                                         ELSE unfinished[c]]
    BY DEF TickShared
  <2> QED
    BY <2>1 DEF TypeOK
<1>4. pc' \in {"idle", "grant", "drr"} /\ probe' \in 0 .. NumChannels /\ any' \in BOOLEAN
  <2>1. 0 \in 0 .. NumChannels
    BY Constants
  <2> QED
    BY <2>1 DEF TickShared
<1>5. \A c \in Channels : tailpos'[c] <= Len(queue'[c])
  <2>1. \A c \in Channels : tailpos[c] <= Len(queue[c]) /\ tailpos' = tailpos
    BY DEF TickShared, TypeOK
  <2> QED
    BY <1>2, <2>1
<1>6. /\ mode' \in Modes
      /\ tailpos' \in [Channels -> Nat]
      /\ queue_depth' \in [Channels -> 0 .. DepthModulus - 1]
      /\ next_binding' \in Channels /\ next_shared' \in Channels
      /\ credits' \in [Channels -> 0 .. CreditMax]
      /\ continuing' \in Channels \cup {None}
  BY DEF TickShared, TypeOK
<1> QED
  BY <1>1, <1>2, <1>3, <1>4, <1>5, <1>6 DEF TypeOK

\* A transfer that starts is typed, and so is the queue it leaves.
LEMMA StartType ==
    ASSUME TypeOK, NEW c \in Channels, queue[c] # <<>>, Start(c),
           queue' \in [Channels -> Seq(Item)],
           \A d \in Channels : Len(queue'[d]) =
               IF d = c THEN Len(queue[d]) - 1 ELSE Len(queue[d])
    PROVE  /\ active' \in [Channels -> Transfer \cup {None}]
           /\ tailpos' \in [Channels -> Nat]
           /\ \A d \in Channels : tailpos'[d] <= Len(queue'[d])
           /\ queue_depth' \in [Channels -> 0 .. DepthModulus - 1]
<1>1. Head(queue[c]) \in Item
  <2>1. queue[c] \in Seq(Item) /\ queue[c] # <<>>
    BY DEF TypeOK
  <2> QED
    BY <2>1
<1>2. active' \in [Channels -> Transfer \cup {None}]
  BY <1>1, IssuedType DEF Start, TypeOK
<1>3. {c} \in SUBSET Backlogged /\ Pop({c})
  BY DEF Backlogged, Start
<1>4. \A d \in Channels : Len(queue'[d]) =
               IF d \in {c} THEN Len(queue[d]) - 1 ELSE Len(queue[d])
  OBVIOUS
<1> QED
  BY <1>2, <1>3, <1>4, PopType

\* A round robin or priority grant keeps the types.
LEMMA TypeGrantPolicy == TypeOK /\ GrantPolicy => TypeOK'
<1> SUFFICES ASSUME TypeOK, GrantPolicy PROVE TypeOK'
  OBVIOUS
<1>1. PICK c \in Channels : /\ IsFirst(c, next_shared, MostUrgent)
                            /\ Start(c)
                            /\ queue' = QueuesAfterGrant(c)
                            /\ next_shared' = After(c)
  BY DEF GrantPolicy
<1>2. queue[c] # <<>> /\ queue \in [Channels -> Seq(Item)]
  BY <1>1 DEF IsFirst, MostUrgent, Backlogged, TypeOK
<1>3. /\ queue' \in [Channels -> Seq(Item)]
      /\ \A d \in Channels : Len(queue'[d]) =
             IF d = c THEN Len(queue[d]) - 1 ELSE Len(queue[d])
  BY <1>1, <1>2, QueuesAfterGrantType
<1>4. next_shared' \in Channels
  BY <1>1, AfterType
<1> QED
  BY <1>1, <1>2, <1>3, <1>4, StartType DEF GrantPolicy, TypeOK, drrVars

\* Every step of the DRR scan keeps the types.
LEMMA TypeDrr ==
    TypeOK /\ (DrrSkip \/ DrrShort \/ DrrServe \/ DrrRoundEnd) => TypeOK'
<1> SUFFICES ASSUME TypeOK PROVE DrrSkip \/ DrrShort \/ DrrServe \/ DrrRoundEnd => TypeOK'
  OBVIOUS
<1>1. probe < NumChannels => /\ Probed \in Channels
                             /\ Funds(Probed) \in 0 .. CreditMax
                             /\ probe + 1 \in 0 .. NumChannels
  BY ProbedType, FundsType, Constants DEF TypeOK
<1>0. 0 \in 0 .. CreditMax /\ 0 \in 0 .. NumChannels
  BY Constants
<1>2. CASE DrrSkip
  BY <1>1, <1>0, <1>2 DEF DrrSkip, TypeOK, channelVars
<1>3. CASE DrrShort
  BY <1>1, <1>3 DEF DrrShort, TypeOK, channelVars
<1>4. CASE DrrServe
  <2> DEFINE c == Probed
             rest == Tail(queue[c])
             left == IF rest = <<>> /\ ~mode.retain THEN 0
                     ELSE Funds(c) - Head(queue[c]).kind.cost
  <2>1. /\ c \in Channels /\ Funds(c) \in 0 .. CreditMax
        /\ queue[c] # <<>> /\ Funds(c) >= Head(queue[c]).kind.cost
        /\ Start(c)
        /\ queue' = [queue EXCEPT ![c] = rest]
        /\ credits' = [credits EXCEPT ![c] = left]
        /\ next_shared' \in {c, After(c)}
        /\ continuing' \in {c, None}
        /\ pc' = "idle" /\ probe' = 0 /\ any' = FALSE
        /\ UNCHANGED <<mode, unfinished, next_binding>>
    BY <1>1, <1>4 DEF DrrServe
  <2>2. /\ Head(queue[c]) \in Item
        /\ rest \in Seq(Item) /\ Len(rest) = Len(queue[c]) - 1
    <3>1. queue[c] \in Seq(Item) /\ queue[c] # <<>>
      BY <2>1 DEF TypeOK
    <3> QED
      BY <3>1
  <2>3. left \in 0 .. CreditMax
    <3>1. Head(queue[c]).kind.cost \in Nat /\ CreditMax \in Nat
      BY <2>2, Constants DEF Item
    <3> HIDE DEF c, rest
    <3> QED
      BY <2>1, <3>1
  <2> HIDE DEF c, rest, left
  <2>4. /\ queue' \in [Channels -> Seq(Item)]
        /\ \A d \in Channels : Len(queue'[d]) =
               IF d = c THEN Len(queue[d]) - 1 ELSE Len(queue[d])
    BY <2>1, <2>2 DEF TypeOK
  <2>5. credits' \in [Channels -> 0 .. CreditMax]
    BY <2>1, <2>3 DEF TypeOK
  <2>6. next_shared' \in Channels
    BY <2>1, AfterType
  <2> QED
    BY <1>0, <2>1, <2>4, <2>5, <2>6, StartType DEF TypeOK
<1>5. CASE DrrRoundEnd
  BY <1>0, <1>5 DEF DrrRoundEnd, TypeOK, channelVars
<1> QED
  BY <1>2, <1>3, <1>4, <1>5

\* A flush keeps the types, of one channel or of all.
LEMMA TypeFlush == ASSUME TypeOK, NEW S \in SUBSET Channels, Flush(S) PROVE TypeOK'
<1>1. \A c \in Channels :
        /\ queue_depth[c] \in Int /\ Len(queue[c]) \in Nat /\ unfinished[c] \in Int
        /\ (queue_depth[c] - Len(queue[c])) % DepthModulus \in 0 .. DepthModulus - 1
  <2> TAKE c \in Channels
  <2>1. /\ queue_depth[c] \in Int /\ Len(queue[c]) \in Nat /\ unfinished[c] \in Int
        /\ queue_depth[c] - Len(queue[c]) \in Int
    <3>1. /\ queue_depth[c] \in 0 .. DepthModulus - 1
          /\ queue[c] \in Seq(Item) /\ unfinished[c] \in Int
      BY DEF TypeOK
    <3> QED
      BY <3>1
  <2>2. (queue_depth[c] - Len(queue[c])) % DepthModulus \in 0 .. DepthModulus - 1
    BY <2>1, Wraps
  <2> QED
    BY <2>1, <2>2
<1>2. queue_depth' \in [Channels -> 0 .. DepthModulus - 1]
  <2>1. queue_depth \in [Channels -> 0 .. DepthModulus - 1]
    BY DEF TypeOK
  <2> QED
    BY <1>1, <2>1 DEF Flush
<1>3. unfinished' \in [Channels -> Int]
  BY <1>1, InServiceType DEF Flush
<1>4. /\ queue' \in [Channels -> Seq(Item)]
      /\ tailpos' \in [Channels -> Nat]
      /\ \A c \in Channels : tailpos'[c] <= Len(queue'[c])
      /\ active' \in [Channels -> Transfer \cup {None}]
  <2>1. /\ queue \in [Channels -> Seq(Item)] /\ tailpos \in [Channels -> Nat]
        /\ \A c \in Channels : tailpos[c] <= Len(queue[c])
        /\ active \in [Channels -> Transfer \cup {None}]
    BY DEF TypeOK
  <2>2. /\ queue' = [c \in Channels |-> IF c \in S THEN <<>> ELSE queue[c]]
        /\ tailpos' = [c \in Channels |-> IF c \in S THEN 0 ELSE tailpos[c]]
        /\ active' = [c \in Channels |-> IF c \in S THEN None ELSE active[c]]
    BY DEF Flush
  <2>3. queue' \in [Channels -> Seq(Item)]
    BY <2>1, <2>2
  <2>4. \A c \in Channels : tailpos'[c] \in Nat /\ tailpos'[c] <= Len(queue'[c])
    BY <2>1, <2>2
  <2> QED
    BY <2>1, <2>2, <2>3, <2>4
<1> QED
  BY <1>2, <1>3, <1>4 DEF Flush, TypeOK, drrVars

\* No step of the engine leaves the types.
LEMMA TypeStep == TypeOK /\ [Next]_vars => TypeOK'
<1> SUFFICES ASSUME TypeOK, [Next]_vars PROVE TypeOK'
  OBVIOUS
<1>1. CASE \E requested \in 0 .. NumChannels, chain \in Chains : Submit(requested, chain)
  BY <1>1, TypeSubmit
<1>2. CASE Tick
  BY <1>2, TypeTickIndependent, TypeTickShared DEF Tick
<1>3. CASE GrantPolicy
  BY <1>3, TypeGrantPolicy
<1>4. CASE GrantNothing
  BY <1>4 DEF GrantNothing, TypeOK, channelVars, drrVars
<1>5. CASE DrrSkip \/ DrrShort \/ DrrServe \/ DrrRoundEnd
  BY <1>5, TypeDrr
<1>6. CASE (\E c \in Channels : Flush({c})) \/ Flush(Channels)
  BY <1>6, TypeFlush
<1>7. CASE UNCHANGED vars
  BY <1>7 DEF vars, channelVars, drrVars, TypeOK
<1> QED
  BY <1>1, <1>2, <1>3, <1>4, <1>5, <1>6, <1>7 DEF Next, Arbitrate

\* The engine keeps its types, whatever is submitted to it.
THEOREM TypeCorrectness == Spec => []TypeOK
<1>1. Init => TypeOK
  BY TypeInit
<1>2. TypeOK /\ [Next]_vars => TypeOK'
  BY TypeStep
<1> QED
  BY <1>1, <1>2, PTL DEF Spec

-----------------------------------------------------------------------------
(* The shared bus.  Exclusive use is not inductive as it stands: that the   *)
(* tick found the bus free has to last until its arbitration has granted.  *)

\* One transfer on the bus, and arbitration only when there is none: what
\* makes OneTransferOnBus inductive.
SharedInv ==
    /\ OneTransferOnBus
    /\ pc # "idle" => mode.shared /\ Busy = {}

\* A grant on a free bus makes its channel the only busy one.
LEMMA StartAlone ==
    ASSUME TypeOK, NEW c \in Channels, queue[c] # <<>>, Start(c), Busy = {}
    PROVE  Busy' = {c}
<1>1. Head(queue[c]) \in Item
  BY DEF TypeOK
<1>2. Issued(Head(queue[c])) # None
  BY <1>1, IssuedType, Constants
<1>3. active' = [active EXCEPT ![c] = Issued(Head(queue[c]))]
  BY DEF Start
<1> QED
  BY <1>2, <1>3 DEF Busy, TypeOK

\* The two grants, as the invariants see them.
LEMMA GrantStep ==
    ASSUME TypeOK, GrantPolicy \/ DrrServe
    PROVE  \E c \in Channels : queue[c] # <<>> /\ Start(c) /\ pc' = "idle" /\ pc # "idle"
<1>1. CASE GrantPolicy
  BY <1>1 DEF GrantPolicy, IsFirst, MostUrgent, Backlogged
<1>2. CASE DrrServe
  BY <1>2, ProbedType DEF DrrServe, TypeOK
<1> QED
  BY <1>1, <1>2

\* A shared bus stays exclusive in every step: only arbitration starts a
\* transfer, and tu_dma_tick arbitrates only when nothing is in service.
LEMMA SharedStep == TypeOK /\ SharedInv /\ [Next]_vars => SharedInv'
<1> SUFFICES ASSUME TypeOK, SharedInv, [Next]_vars PROVE SharedInv'
  OBVIOUS
<1>0. mode' = mode
  BY ModeFixed
<1>1. CASE UNCHANGED <<active, pc>>
  BY <1>0, <1>1 DEF SharedInv, OneTransferOnBus, Busy
<1>2. CASE TickIndependent
  BY <1>0, <1>2 DEF TickIndependent, SharedInv, OneTransferOnBus
<1>3. CASE TickShared
  <2>1. Busy' = Busy \ Retired
    BY <1>3 DEF TickShared, Busy, Retired, Remaining
  <2>2. pc' # "idle" => Busy = Retired
    BY <1>3 DEF TickShared, BusFree
  <2> QED
    BY <1>3, <2>1, <2>2 DEF SharedInv, OneTransferOnBus, TickShared
<1>4. CASE GrantPolicy \/ DrrServe
  <2>1. PICK c \in Channels :
           queue[c] # <<>> /\ Start(c) /\ pc' = "idle" /\ pc # "idle"
    BY <1>4, GrantStep
  <2>2. Busy' = {c}
    BY <2>1, StartAlone DEF SharedInv
  <2> QED
    BY <1>0, <2>1, <2>2 DEF SharedInv, OneTransferOnBus
<1>5. CASE GrantNothing \/ DrrSkip \/ DrrShort \/ DrrRoundEnd
  <2>1. UNCHANGED active /\ pc # "idle"
    BY <1>5 DEF GrantNothing, DrrSkip, DrrShort, DrrRoundEnd
  <2> QED
    BY <1>0, <2>1 DEF SharedInv, OneTransferOnBus, Busy
<1>6. ASSUME NEW S \in SUBSET Channels, Flush(S) PROVE SharedInv'
  <2>1. Busy' \subseteq Busy /\ pc' = "idle"
    BY <1>6 DEF Flush, Busy
  <2> QED
    BY <1>0, <2>1 DEF SharedInv, OneTransferOnBus
<1>7. ASSUME NEW requested \in 0 .. NumChannels, NEW chain \in Chains,
             Submit(requested, chain)
      PROVE  UNCHANGED <<active, pc>>
  BY <1>7 DEF Submit
<1> QED
  BY <1>1, <1>2, <1>3, <1>4, <1>5, <1>6, <1>7 DEF Next, Tick, Arbitrate, vars

\* Whatever the policy, a shared serial bus carries one transfer at a time.
THEOREM BusExclusive == Spec => []OneTransferOnBus
<1>1. Init => SharedInv
  BY DEF Init, SharedInv, OneTransferOnBus, Busy
<1>2. TypeOK /\ SharedInv /\ [Next]_vars => SharedInv'
  BY SharedStep
<1>3. SharedInv => OneTransferOnBus
  BY DEF SharedInv
<1> QED
  BY <1>1, <1>2, <1>3, TypeCorrectness, PTL DEF Spec

-----------------------------------------------------------------------------
(* The order of grants.                                                    *)

\* What arbitration compares are natural numbers.
LEMMA UrgencyType ==
    ASSUME TypeOK, NEW c \in Backlogged
    PROVE  Urgency(c) \in Int
<1>1. Head(queue[c]) \in Item
  BY DEF TypeOK, Backlogged
<1>2. Head(queue[c]).kind.priority \in Int /\ Head(queue[c]).age \in Nat
  BY <1>1, EngineAssumption, AgeCapType DEF Item, EngineAssumption
<1>3. Effective(Head(queue[c])) \in Int
  <2> DEFINE age == Head(queue[c]).age
             quantum == IF mode.byCycles THEN AgingQuantum ELSE 1
             steps == (age \div quantum) * AgingIncrement
  <2>1. age \div quantum \in Int
    <3>1. quantum \in Nat \ {0}
      BY Constants
    <3> HIDE DEF quantum
    <3> QED
      BY <1>2, <3>1
  <2>2. steps \in Int /\ AgingMaxBoost \in Int /\ MaxPriority \in Int
    BY <2>1, EngineAssumption DEF EngineAssumption
  <2> HIDE DEF steps
  <2>3. Effective(Head(queue[c])) =
          Least(Head(queue[c]).kind.priority
                  + (IF AgingMaxBoost = 0 THEN steps ELSE Least(steps, AgingMaxBoost)),
                MaxPriority)
    BY DEF Effective, steps
  <2> QED
    BY <1>2, <2>2, <2>3 DEF Least
<1> QED
  BY <1>2, <1>3 DEF Urgency

\* Advancing the cursor past the first of several channels brings it nearer
\* to each of the others.
LEMMA CursorAdvances ==
    ASSUME NEW cursor \in Channels, NEW c \in Channels, NEW d \in Channels, c # d,
           Behind(cursor, d) <= Behind(cursor, c)
    PROVE  Behind(After(d), c) < Behind(cursor, c)
BY Constants DEF Behind, After, Channels

\* A waiting channel is passed over only for a more urgent head, or for an
\* equal one that the rotation owes its turn first.
THEOREM OvertakingIsFair == Spec => FairOvertaking
<1> DEFINE A == \A c, d \in Channels :
                  /\ pc = "grant" /\ c # d
                  /\ c \in Backlogged
                  /\ d \notin Busy /\ d \in Busy'
                  => \/ Urgency(d) > Urgency(c)
                     \/ /\ Urgency(d) = Urgency(c)
                        /\ Behind(next_shared', c) < Behind(next_shared, c)
<1>1. TypeOK /\ [Next]_vars => [A]_vars
  <2> SUFFICES ASSUME TypeOK, Next, NEW c \in Channels, NEW d \in Channels,
                      pc = "grant", c # d, c \in Backlogged, d \notin Busy, d \in Busy'
               PROVE  \/ Urgency(d) > Urgency(c)
                      \/ /\ Urgency(d) = Urgency(c)
                         /\ Behind(next_shared', c) < Behind(next_shared, c)
    OBVIOUS
  <2>1. GrantPolicy
    <3>1. CASE GrantNothing
      BY <3>1 DEF GrantNothing, Busy
    <3> QED
      BY <3>1 DEF Next, Submit, Tick, TickIndependent, TickShared, Arbitrate,
           DrrSkip, DrrShort, DrrServe, DrrRoundEnd, Flush
  <2>2. PICK w \in Channels : /\ IsFirst(w, next_shared, MostUrgent)
                              /\ Start(w)
                              /\ next_shared' = After(w)
    BY <2>1 DEF GrantPolicy
  <2>3. w = d
    BY <2>2 DEF Start, Busy, TypeOK
  <2>4. d \in Backlogged /\ Urgency(c) <= Urgency(d)
    BY <2>2, <2>3 DEF IsFirst, MostUrgent
  <2>5. Urgency(c) \in Int /\ Urgency(d) \in Int
    BY <2>4, UrgencyType
  <2>6. ASSUME Urgency(d) = Urgency(c)
        PROVE  Behind(next_shared', c) < Behind(next_shared, c)
    <3>1. c \in MostUrgent
      BY <2>2, <2>3, <2>6 DEF IsFirst, MostUrgent
    <3>2. Behind(next_shared, d) <= Behind(next_shared, c)
      BY <2>2, <2>3, <3>1 DEF IsFirst
    <3>3. next_shared \in Channels
      BY DEF TypeOK
    <3> QED
      BY <2>2, <2>3, <3>2, <3>3, CursorAdvances
  <2> QED
    BY <2>4, <2>5, <2>6
<1> QED
  BY <1>1, TypeCorrectness, PTL DEF Spec, FairOvertaking

-----------------------------------------------------------------------------
(* The counters, while descriptors are submitted one by one.  Exactness    *)
(* needs the depth limit: it is what keeps queue_depth from wrapping.      *)

\* The counters are exact and within the limit: together inductive.
CountersInv == CountersExact /\ DepthRespected

\* A number within the counter's width is not changed by it.
LEMMA Fit == \A x \in 0 .. DepthModulus - 1 : x % DepthModulus = x
BY Constants

\* Appending one item behind the last one.
LEMMA AppendOne ==
    ASSUME NEW q \in Seq(Item), NEW s \in Seq(Item), Len(s) = 1
    PROVE  /\ SubSeq(q, 1, Len(q)) = q
           /\ Len(q \o s) = Len(q) + 1
<1>1. SubSeq(q, 1, Len(q)) = q
  OBVIOUS
<1>2. Len(q \o s) = Len(q) + Len(s)
  BY ConcatProperties
<1> QED
  BY <1>1, <1>2

\* What the invariant says of one channel.
LEMMA CountersOf ==
    ASSUME TypeOK, CountersInv, NEW c \in Channels
    PROVE  /\ Len(queue[c]) \in Nat
           /\ queue_depth[c] = Len(queue[c]) /\ tailpos[c] = Len(queue[c])
           /\ unfinished[c] = Len(queue[c]) + InService(c)
           /\ Len(queue[c]) + InService(c) <= MaxDepth
           /\ InService(c) \in 0 .. 1
           /\ Len(queue[c]) + InService(c) \in 0 .. DepthModulus - 1
           /\ Len(queue[c]) \in 0 .. DepthModulus - 1
<1>1. Len(queue[c]) \in Nat
  BY DEF TypeOK
<1>2. /\ queue_depth[c] = Len(queue[c]) /\ tailpos[c] = Len(queue[c])
      /\ unfinished[c] = Len(queue[c]) + InService(c)
      /\ Len(queue[c]) + InService(c) <= MaxDepth
  BY DEF CountersInv, CountersExact, DepthRespected
<1> QED
  BY <1>1, <1>2, InServiceType, DepthConstants

\* A single descriptor is counted once by each counter, behind the last.
LEMMA CountersSubmit ==
    ASSUME TypeOK, CountersInv, MaxChain = 1, NEW requested \in 0 .. NumChannels,
           NEW chain \in Chains, Submit(requested, chain)
    PROVE  CountersInv'
<1>1. PICK c \in Channels :
        /\ Fits(c)
        /\ IF mode.async THEN Enqueue(c, chain) ELSE ExecuteAtOnce(c, chain)
        /\ UNCHANGED active
  BY DEF Submit
<1>2. Busy' = Busy
  BY <1>1 DEF Busy
<1>3. /\ Items(chain) \in Seq(Item) /\ Len(Items(chain)) = 1
      /\ Len(chain) = 1
  BY ItemsType DEF Chains
<1> DEFINE n == Len(queue[c])
           b == InService(c)
<1>4. /\ n \in Nat /\ b \in 0 .. 1 /\ n + b \in 0 .. DepthModulus - 1
      /\ n \in 0 .. DepthModulus - 1 /\ queue_depth[c] = n /\ tailpos[c] = n
      /\ unfinished[c] = n + b /\ n + b <= MaxDepth
      /\ queue[c] \in Seq(Item)
  BY CountersOf DEF TypeOK
<1>5. n + b < MaxDepth
  <2>1. Outstanding(c) = (n + b) % DepthModulus
    BY <1>4 DEF Outstanding
  <2>2. (n + b) % DepthModulus = n + b
    BY <1>4, Fit
  <2> QED
    BY <1>1, <2>1, <2>2 DEF Fits
<1>8. InService(c)' = b /\ \A d : InService(d)' = InService(d)
  BY <1>2 DEF InService
<1>6. CASE mode.async
  <2>1. Enqueue(c, chain)
    BY <1>1, <1>6
  <2>2. Len(Linked(c, chain)) = n + 1 /\ LinkedTail(c) = n + 1
    <3>1. CASE queue[c] = <<>>
      BY <1>3, <3>1 DEF Linked, LinkedTail
    <3>2. CASE queue[c] # <<>>
      <4>1. /\ SubSeq(queue[c], 1, Len(queue[c])) = queue[c]
            /\ Len(queue[c] \o Items(chain)) = Len(queue[c]) + 1
        BY <1>3, <1>4, AppendOne
      <4>2. tailpos[c] = Len(queue[c]) /\ tailpos[c] # 0
        BY <1>4, <3>2
      <4>3. Linked(c, chain) = queue[c] \o Items(chain)
        BY <3>2, <4>1, <4>2 DEF Linked
      <4>4. LinkedTail(c) = tailpos[c] + 1
        BY <3>2, <4>2 DEF LinkedTail
      <4> QED
        BY <4>1, <4>2, <4>3, <4>4
    <3> QED
      BY <3>1, <3>2
  <2>3. (queue_depth[c] + 1) % DepthModulus = n + 1
    <3>1. n + 1 \in 0 .. DepthModulus - 1
      BY <1>4, <1>5, DepthConstants
    <3> QED
      BY <1>4, <3>1, Fit
  <2>4. /\ Len(queue'[c]) = n + 1 /\ tailpos'[c] = n + 1
        /\ queue_depth'[c] = n + 1 /\ unfinished'[c] = n + b + 1
        /\ \A d \in Channels \ {c} :
              /\ queue'[d] = queue[d] /\ tailpos'[d] = tailpos[d]
              /\ queue_depth'[d] = queue_depth[d] /\ unfinished'[d] = unfinished[d]
    BY <1>4, <2>1, <2>2, <2>3 DEF Enqueue, TypeOK
  <2> HIDE DEF n
  <2> QED
    <3>1. n + 1 + b <= MaxDepth /\ n + b + 1 = n + 1 + b
      BY <1>4, <1>5, DepthConstants
    <3>2. \A d \in Channels \ {c} :
            /\ queue_depth[d] = Len(queue[d]) /\ tailpos[d] = Len(queue[d])
            /\ unfinished[d] = Len(queue[d]) + InService(d)
            /\ Len(queue[d]) + InService(d) <= MaxDepth
      BY CountersOf
    <3> HIDE DEF b
    <3> QED
      BY <1>8, <2>4, <3>1, <3>2 DEF CountersInv, CountersExact, DepthRespected
<1>7. CASE ~mode.async
  <2>1. ExecuteAtOnce(c, chain)
    BY <1>1, <1>7
  <2>2. (queue_depth[c] + 1 - Len(chain)) % DepthModulus = n
    <3>1. queue_depth[c] + 1 - Len(chain) = n
      BY <1>3, <1>4
    <3> QED
      BY <1>4, <3>1, Fit
  <2>3. UNCHANGED <<queue, tailpos, queue_depth, unfinished>>
    <3>1. /\ queue_depth \in [Channels -> 0 .. DepthModulus - 1]
          /\ unfinished \in [Channels -> Int]
      BY DEF TypeOK
    <3>2. unfinished[c] + 1 - Len(chain) = unfinished[c]
      BY <1>3, <3>1
    <3> QED
      BY <1>4, <2>1, <2>2, <3>1, <3>2 DEF ExecuteAtOnce
  <2> QED
    BY <1>8, <2>3 DEF CountersInv, CountersExact, DepthRespected
<1> QED
  BY <1>6, <1>7

\* Popping heads: each counter loses what its queue does.
LEMMA CountersPop ==
    ASSUME TypeOK, CountersInv, NEW S \in SUBSET Backlogged, Pop(S),
           NEW c \in Channels
    PROVE  /\ tailpos'[c] = IF c \in S THEN Len(queue[c]) - 1 ELSE Len(queue[c])
           /\ queue_depth'[c] = IF c \in S THEN Len(queue[c]) - 1 ELSE Len(queue[c])
<1>1. /\ Len(queue[c]) \in 0 .. DepthModulus - 1
      /\ queue_depth[c] = Len(queue[c]) /\ tailpos[c] = Len(queue[c])
  BY CountersOf
<1>2. CASE c \in S
  <2>1. Len(queue[c]) > 0
    BY <1>2 DEF Backlogged, TypeOK
  <2>2. Len(queue[c]) - 1 \in 0 .. DepthModulus - 1
    BY <1>1, <2>1, DepthConstants
  <2>3. (Len(queue[c]) - 1) % DepthModulus = Len(queue[c]) - 1
    BY <2>2, Fit
  <2> QED
    BY <1>1, <1>2, <2>1, <2>3 DEF Pop
<1>3. CASE c \notin S
  BY <1>1, <1>3 DEF Pop
<1> QED
  BY <1>2, <1>3

\* Every channel's counters follow what retires and what starts.
LEMMA CountersTickIndependent ==
    ASSUME TypeOK, CountersInv, TickIndependent
    PROVE  CountersInv'
<1> DEFINE starts == {c \in Backlogged : Remaining(c) = None}
<1> SUFFICES ASSUME NEW c \in Channels
             PROVE  /\ queue_depth'[c] = Len(queue'[c]) /\ tailpos'[c] = Len(queue'[c])
                    /\ unfinished'[c] = Len(queue'[c]) + InService(c)'
                    /\ Len(queue'[c]) + InService(c)' <= MaxDepth
  BY DEF CountersInv, CountersExact, DepthRespected
<1>1. /\ Len(queue[c]) \in Nat /\ MaxDepth \in Nat /\ InService(c) \in 0 .. 1
      /\ unfinished[c] = Len(queue[c]) + InService(c)
      /\ Len(queue[c]) + InService(c) <= MaxDepth
  BY CountersOf, DepthConstants
<1>2. /\ tailpos'[c] = IF c \in starts THEN Len(queue[c]) - 1 ELSE Len(queue[c])
      /\ queue_depth'[c] = IF c \in starts THEN Len(queue[c]) - 1 ELSE Len(queue[c])
  BY CountersPop DEF TickIndependent
<1>3. unfinished'[c] = IF c \in Retired THEN unfinished[c] - 1 ELSE unfinished[c]
  BY DEF TickIndependent
<1>4. CASE c \in starts
  <2>1. /\ queue[c] \in Seq(Item) /\ queue[c] # <<>> /\ Head(queue[c]) \in Item
        /\ Len(queue[c]) > 0
    <3>1. queue[c] \in Seq(Item) /\ queue[c] # <<>>
      BY <1>4 DEF Backlogged, TypeOK
    <3> QED
      BY <3>1
  <2>2. queue'[c] = Tail(queue[c]) /\ active'[c] = Issued(Head(queue[c]))
    BY <1>4 DEF TickIndependent
  <2>3. c \in Busy'
    BY <2>1, <2>2, IssuedType, Constants DEF Busy
  <2>4. c \in Retired <=> c \in Busy
    BY <1>4 DEF Retired
  <2>5. Len(queue'[c]) = Len(queue[c]) - 1
    BY <2>1, <2>2
  <2>6. InService(c)' = 1 /\ InService(c) = IF c \in Retired THEN 1 ELSE 0
    BY <2>3, <2>4 DEF InService
  <2> HIDE DEF starts
  <2> QED
    <3>1. unfinished'[c] = Len(queue[c])
      BY <1>1, <1>3, <2>6
    <3>2. Len(queue[c]) - 1 + 1 = Len(queue[c]) /\ Len(queue[c]) <= MaxDepth
      BY <1>1
    <3> QED
      BY <1>2, <1>4, <2>5, <2>6, <3>1, <3>2
<1>5. CASE c \notin starts
  <2>1. queue'[c] = queue[c] /\ active'[c] = Remaining(c)
    BY <1>5 DEF TickIndependent
  <2>2. c \in Busy' <=> c \in Busy \ Retired
    BY <2>1 DEF Busy, Retired, Remaining
  <2>3. Retired \subseteq Busy
    BY DEF Retired
  <2>4. InService(c)' = InService(c) - (IF c \in Retired THEN 1 ELSE 0)
    BY <2>2, <2>3 DEF InService
  <2> HIDE DEF starts
  <2> QED
    BY <1>1, <1>2, <1>3, <1>5, <2>1, <2>4
<1> QED
  BY <1>4, <1>5

\* On a shared bus the clock only retires.
LEMMA CountersTickShared ==
    ASSUME TypeOK, CountersInv, TickShared
    PROVE  CountersInv'
<1> SUFFICES ASSUME NEW c \in Channels
             PROVE  /\ queue_depth'[c] = Len(queue'[c]) /\ tailpos'[c] = Len(queue'[c])
                    /\ unfinished'[c] = Len(queue'[c]) + InService(c)'
                    /\ Len(queue'[c]) + InService(c)' <= MaxDepth
  BY DEF CountersInv, CountersExact, DepthRespected
<1>1. Len(queue'[c]) = Len(queue[c])
  BY AgeAllType DEF TickShared, TypeOK
<1>2. c \in Busy' <=> c \in Busy \ Retired
  BY DEF TickShared, Busy, Retired, Remaining
<1>3. Retired \subseteq Busy
  BY DEF Retired
<1>4. /\ unfinished'[c] = IF c \in Retired THEN unfinished[c] - 1 ELSE unfinished[c]
      /\ tailpos'[c] = tailpos[c] /\ queue_depth'[c] = queue_depth[c]
  BY DEF TickShared
<1>5. InService(c)' = InService(c) - (IF c \in Retired THEN 1 ELSE 0)
  BY <1>2, <1>3 DEF InService
<1>6. /\ Len(queue[c]) \in Nat /\ MaxDepth \in Nat /\ InService(c) \in 0 .. 1
      /\ queue_depth[c] = Len(queue[c]) /\ tailpos[c] = Len(queue[c])
      /\ unfinished[c] = Len(queue[c]) + InService(c)
      /\ Len(queue[c]) + InService(c) <= MaxDepth
  BY CountersOf, DepthConstants
<1> QED
  BY <1>1, <1>4, <1>5, <1>6

\* Arbitration moves one descriptor from its queue into service.
LEMMA CountersGrant ==
    ASSUME TypeOK, CountersInv, SharedInv, GrantPolicy \/ DrrServe
    PROVE  CountersInv'
<1>1. PICK w \in Channels :
        /\ queue[w] # <<>> /\ Start(w) /\ pc # "idle" /\ UNCHANGED unfinished
        /\ \A d \in Channels : Len(queue'[d]) =
              IF d = w THEN Len(queue[d]) - 1 ELSE Len(queue[d])
  <2>1. CASE GrantPolicy
    <3>1. PICK w \in Channels : /\ IsFirst(w, next_shared, MostUrgent)
                                /\ Start(w) /\ queue' = QueuesAfterGrant(w)
      BY <2>1 DEF GrantPolicy
    <3>2. queue[w] # <<>> /\ queue \in [Channels -> Seq(Item)]
      BY <3>1 DEF IsFirst, MostUrgent, Backlogged, TypeOK
    <3> QED
      BY <2>1, <3>1, <3>2, QueuesAfterGrantType DEF GrantPolicy
  <2>2. CASE DrrServe
    <3>1. Probed \in Channels
      BY <2>2, ProbedType DEF DrrServe, TypeOK
    <3>2. /\ queue[Probed] # <<>> /\ Start(Probed)
          /\ queue' = [queue EXCEPT ![Probed] = Tail(queue[Probed])]
          /\ pc = "drr" /\ UNCHANGED unfinished
      BY <2>2 DEF DrrServe
    <3> DEFINE w == Probed
    <3> HIDE DEF w
    <3>3. /\ w \in Channels /\ queue[w] # <<>> /\ Start(w)
          /\ queue' = [queue EXCEPT ![w] = Tail(queue[w])]
      BY <3>1, <3>2 DEF w
    <3>4. \A d \in Channels : Len(queue'[d]) =
              IF d = w THEN Len(queue[d]) - 1 ELSE Len(queue[d])
      BY <3>3 DEF TypeOK
    <3> QED
      BY <3>2, <3>3, <3>4
  <2> QED
    BY <2>1, <2>2
<1>2. Busy = {} /\ Busy' = {w}
  BY <1>1, StartAlone DEF SharedInv
<1>3. \A d \in Channels :
        /\ tailpos'[d] = IF d = w THEN Len(queue[d]) - 1 ELSE Len(queue[d])
        /\ queue_depth'[d] = IF d = w THEN Len(queue[d]) - 1 ELSE Len(queue[d])
  <2>1. {w} \in SUBSET Backlogged /\ Pop({w})
    BY <1>1 DEF Backlogged, Start
  <2> QED
    BY <2>1, CountersPop
<1> SUFFICES ASSUME NEW c \in Channels
             PROVE  /\ queue_depth'[c] = Len(queue'[c]) /\ tailpos'[c] = Len(queue'[c])
                    /\ unfinished'[c] = Len(queue'[c]) + InService(c)'
                    /\ Len(queue'[c]) + InService(c)' <= MaxDepth
  BY DEF CountersInv, CountersExact, DepthRespected
<1> QED
  <2>1. /\ Len(queue[c]) \in Nat /\ unfinished'[c] = Len(queue[c])
        /\ Len(queue[c]) <= MaxDepth /\ MaxDepth \in Nat
    BY <1>1, <1>2, CountersOf, DepthConstants DEF InService
  <2>2. InService(c)' = IF c = w THEN 1 ELSE 0
    BY <1>2 DEF InService
  <2>3. c = w => Len(queue[c]) > 0
    BY <1>1 DEF TypeOK
  <2>4. CASE c = w
    <3>1. /\ Len(queue'[c]) = Len(queue[c]) - 1 /\ InService(c)' = 1
          /\ queue_depth'[c] = Len(queue[c]) - 1 /\ tailpos'[c] = Len(queue[c]) - 1
      BY <1>1, <1>3, <2>2, <2>4
    <3> QED
      BY <2>1, <2>3, <2>4, <3>1
  <2>5. CASE c # w
    <3>1. /\ Len(queue'[c]) = Len(queue[c]) /\ InService(c)' = 0
          /\ queue_depth'[c] = Len(queue[c]) /\ tailpos'[c] = Len(queue[c])
      BY <1>1, <1>3, <2>2, <2>5
    <3> QED
      BY <2>1, <3>1
  <2> QED
    BY <2>4, <2>5

\* A flush takes off each counter exactly what it completes.
LEMMA CountersFlush ==
    ASSUME TypeOK, CountersInv, NEW S \in SUBSET Channels, Flush(S)
    PROVE  CountersInv'
<1> SUFFICES ASSUME NEW c \in Channels
             PROVE  /\ queue_depth'[c] = Len(queue'[c]) /\ tailpos'[c] = Len(queue'[c])
                    /\ unfinished'[c] = Len(queue'[c]) + InService(c)'
                    /\ Len(queue'[c]) + InService(c)' <= MaxDepth
  BY DEF CountersInv, CountersExact, DepthRespected
<1>1. CASE c \in S
  <2>1. /\ queue'[c] = <<>> /\ tailpos'[c] = 0 /\ c \notin Busy'
        /\ queue_depth'[c] = (queue_depth[c] - Len(queue[c])) % DepthModulus
        /\ unfinished'[c] = unfinished[c] - Len(queue[c]) - InService(c)
    BY <1>1 DEF Flush, Busy
  <2>2. queue_depth[c] - Len(queue[c]) = 0 /\ 0 \in 0 .. DepthModulus - 1
    BY CountersOf, DepthConstants
  <2>3. queue_depth'[c] = 0
    BY <2>1, <2>2, Fit
  <2>4. InService(c)' = 0
    BY <2>1 DEF InService
  <2>5. unfinished'[c] = 0
    <3>1. /\ unfinished'[c] = unfinished[c] - Len(queue[c]) - InService(c)
          /\ unfinished[c] = Len(queue[c]) + InService(c)
          /\ Len(queue[c]) \in Nat /\ InService(c) \in 0 .. 1
      BY <2>1, CountersOf
    <3> QED
      BY <3>1
  <2>6. Len(queue'[c]) = 0
    BY <2>1
  <2> QED
    BY <2>1, <2>3, <2>4, <2>5, <2>6, DepthConstants
<1>2. CASE c \notin S
  <2>1. /\ queue'[c] = queue[c] /\ tailpos'[c] = tailpos[c]
        /\ c \in Busy' <=> c \in Busy
        /\ queue_depth'[c] = queue_depth[c] /\ unfinished'[c] = unfinished[c]
    BY <1>2 DEF Flush, Busy
  <2> QED
    BY <2>1, CountersOf DEF InService
<1> QED
  BY <1>1, <1>2

\* While single descriptors are submitted no step makes a counter wrong.
LEMMA CountersStep ==
    ASSUME MaxChain = 1
    PROVE  TypeOK /\ SharedInv /\ CountersInv /\ [Next]_vars => CountersInv'
<1> SUFFICES ASSUME TypeOK, SharedInv, CountersInv, [Next]_vars PROVE CountersInv'
  OBVIOUS
<1>1. CASE \E requested \in 0 .. NumChannels, chain \in Chains : Submit(requested, chain)
  BY <1>1, CountersSubmit
<1>2. CASE Tick
  BY <1>2, CountersTickIndependent, CountersTickShared DEF Tick
<1>3. CASE GrantPolicy \/ DrrServe
  BY <1>3, CountersGrant
<1>4. CASE GrantNothing \/ DrrSkip \/ DrrShort \/ DrrRoundEnd \/ UNCHANGED vars
  <2>1. UNCHANGED <<queue, tailpos, queue_depth, active, unfinished>>
    BY <1>4 DEF GrantNothing, DrrSkip, DrrShort, DrrRoundEnd, vars, channelVars
  <2> QED
    BY <2>1 DEF CountersInv, CountersExact, DepthRespected, InService, Busy
<1>5. CASE (\E c \in Channels : Flush({c})) \/ Flush(Channels)
  BY <1>5, CountersFlush
<1> QED
  BY <1>1, <1>2, <1>3, <1>4, <1>5 DEF Next, Arbitrate

\* While clients submit single descriptors, queue_depth, the submission counts
\* and the tail tell the truth about every queue, and max_outstanding bounds
\* active plus pending descriptors.
THEOREM CountersAreExact ==
    ASSUME MaxChain = 1
    PROVE  Spec => [](CountersExact /\ DepthRespected)
<1>1. Init => CountersInv /\ SharedInv
  BY DepthConstants DEF Init, CountersInv, CountersExact, DepthRespected, InService,
      SharedInv, OneTransferOnBus, Busy
<1>2. TypeOK /\ SharedInv /\ [Next]_vars => SharedInv'
  BY SharedStep
<1>3. TypeOK /\ SharedInv /\ CountersInv /\ [Next]_vars => CountersInv'
  BY CountersStep
<1>4. CountersInv => CountersExact /\ DepthRespected
  BY DEF CountersInv
<1> QED
  BY <1>1, <1>2, <1>3, <1>4, TypeCorrectness, PTL DEF Spec

\* Binding to the least outstanding channel rejects a submission only when no
\* channel could have taken it, whatever was submitted, flushed or served.
THEOREM LeastOutstandingRejectsLast == Spec => []RejectsOnlyWhenFull
<1>1. TypeOK => RejectsOnlyWhenFull
  <2> SUFFICES ASSUME TypeOK, mode.binding = "outstanding",
                      NEW c \in Channels, NEW requested \in 0 .. NumChannels,
                      BoundTo(c, requested), ~Fits(c), NEW d \in Channels
               PROVE  ~Fits(d)
    BY DEF RejectsOnlyWhenFull
  <2>1. Load(c) <= Load(d)
    BY DEF BoundTo, IsFirst
  <2>2. Load(c) = Outstanding(c) /\ Load(d) = Outstanding(d)
    BY DEF Load
  <2>3. \A e \in Channels : Outstanding(e) \in Int
    <3> TAKE e \in Channels
    <3>1. queue_depth[e] \in Int /\ InService(e) \in Int
      BY InServiceType, Constants DEF TypeOK
    <3>2. queue_depth[e] + InService(e) \in Int
      BY <3>1
    <3> QED
      BY <3>2, Wraps, Constants DEF Outstanding
  <2> QED
    BY <2>1, <2>2, <2>3, DepthConstants DEF Fits
<1> QED
  BY <1>1, TypeCorrectness, PTL

\* While clients submit single descriptors, tu_dma_submit_desc, tu_dma_tick and
\* the flushes keep every channel's counters, tail and limit true to its queue,
\* and binding to the least outstanding channel rejects nothing needlessly.
THEOREM QueuesAreSound ==
    ASSUME MaxChain = 1
    PROVE  Spec => []QueuesSound
<1>1. (CountersExact /\ DepthRespected) /\ RejectsOnlyWhenFull => QueuesSound
  BY DEF QueuesSound
<1> QED
  BY <1>1, CountersAreExact, LeastOutstandingRejectsLast, PTL

-----------------------------------------------------------------------------
(* DRR credits with a work-conserving visit and RESET.  The bound is       *)
(* inductive once it says that only a visit that goes on leaves a channel  *)
(* with more than its dearest descriptor lacked, and that such a visit is  *)
(* the next thing the scan looks at, before it could be forgotten.         *)

\* The channel whose DRR visit goes on holds the cursor, and the scan of the
\* next tick looks at it first; each arbitration runs under its own policy.
VisitInv ==
    /\ continuing # None => /\ continuing = next_shared
                            /\ mode.arbitration = "drr"
                            /\ pc = "drr" => probe = 0
    /\ pc = "drr" => mode.arbitration = "drr"
    /\ pc = "grant" => mode.arbitration # "drr"

\* Every channel holds less than the dearest descriptor's cost, the one
\* whose visit goes on less than that and its grant.
Hoard(dearest) ==
    \A c \in Channels :
        credits[c] < dearest + (IF continuing = c THEN Grant[c] ELSE 0)

\* A bound on hoards that holds for every price the kinds keep to.
CreditsInv ==
    mode.conserving /\ ~mode.retain =>
        \A dearest \in 1 .. CreditMax :
            (\A k \in Kinds : k.cost <= dearest) => Hoard(dearest)

\* A scan that starts looks at the channel under the cursor.
LEMMA ProbedFirst == TypeOK /\ probe = 0 => Probed = next_shared
BY Constants DEF Probed, TypeOK, Channels

\* No step breaks the promise of a visit that goes on: the scan starts at
\* the cursor, and only serving, a flush or an empty queue ends the visit.
LEMMA VisitStep == TypeOK /\ VisitInv /\ [Next]_vars => VisitInv'
<1> SUFFICES ASSUME TypeOK, VisitInv, [Next]_vars PROVE VisitInv'
  OBVIOUS
<1>0. mode' = mode
  BY ModeFixed
<1>1. CASE UNCHANGED <<continuing, next_shared, pc, probe>>
  BY <1>0, <1>1 DEF VisitInv
<1>2. CASE TickShared
  BY <1>0, <1>2 DEF TickShared, VisitInv
<1>3. CASE GrantPolicy \/ GrantNothing
  <2>1. UNCHANGED continuing /\ pc = "grant" /\ pc' = "idle"
    BY <1>3 DEF GrantPolicy, GrantNothing, drrVars
  <2> QED
    BY <1>0, <2>1 DEF VisitInv
<1>4. CASE DrrSkip
  <2>1. /\ continuing' = IF continuing = Probed THEN None ELSE continuing
        /\ pc = "drr" /\ pc' = pc /\ next_shared' = next_shared
    BY <1>4 DEF DrrSkip
  <2>2. continuing' = None
    BY <2>1, ProbedFirst DEF VisitInv
  <2> QED
    BY <1>0, <2>1, <2>2 DEF VisitInv
<1>5. CASE DrrShort
  BY <1>0, <1>5 DEF DrrShort, VisitInv
<1>6. CASE DrrServe
  <2>1. /\ continuing' \in {Probed, None} /\ pc = "drr" /\ pc' = "idle"
        /\ continuing' = Probed => next_shared' = Probed
    <3>1. Probed \in Channels
      BY <1>6, ProbedType DEF DrrServe, TypeOK
    <3> QED
      BY <1>6, <3>1, Constants DEF DrrServe
  <2> QED
    BY <1>0, <2>1 DEF VisitInv
<1>7. CASE DrrRoundEnd
  <2>1. /\ pc = "drr" /\ pc' \in {"drr", "idle"} /\ probe' = 0
        /\ UNCHANGED <<continuing, next_shared>>
    BY <1>7 DEF DrrRoundEnd
  <2> QED
    BY <1>0, <2>1 DEF VisitInv
<1>8. ASSUME NEW requested \in 0 .. NumChannels, NEW chain \in Chains,
             Submit(requested, chain)
      PROVE  UNCHANGED <<continuing, next_shared, pc, probe>>
  BY <1>8 DEF Submit, drrVars
<1>9. ASSUME NEW S \in SUBSET Channels, Flush(S)
      PROVE  UNCHANGED <<continuing, next_shared, pc, probe>>
  BY <1>9 DEF Flush, drrVars
<1>10. CASE TickIndependent \/ UNCHANGED vars
  BY <1>1, <1>10 DEF TickIndependent, vars, drrVars
<1> QED
  BY <1>1, <1>2, <1>3, <1>4, <1>5, <1>6, <1>7, <1>8, <1>9, <1>10
  DEF Next, Tick, Arbitrate

\* No step makes a channel hoard: credit is added only to a channel that
\* could not pay before, and a visit ends when the rest cannot pay.
LEMMA HoardStep ==
    ASSUME mode.conserving, ~mode.retain, TypeOK, VisitInv, [Next]_vars,
           NEW dearest \in 1 .. CreditMax, \A k \in Kinds : k.cost <= dearest,
           Hoard(dearest)
    PROVE  Hoard(dearest)'
<1>1. CASE UNCHANGED <<credits, continuing>>
  BY <1>1 DEF Hoard
<1>2. /\ \A d \in Channels : credits[d] \in Int /\ Grant[d] \in Nat \ {0}
      /\ None \notin Channels
      /\ credits \in [Channels -> 0 .. CreditMax]
  <2>1. credits \in [Channels -> 0 .. CreditMax]
    BY DEF TypeOK
  <2>2. \A d \in Channels : credits[d] \in Int
    BY <2>1
  <2> QED
    BY <2>1, <2>2, Constants
<1> DEFINE c == Probed
           cost == Head(queue[c]).kind.cost
\* What a probe finds.
<1>3. ASSUME pc = "drr", probe < NumChannels
      PROVE  /\ c \in Channels
             /\ Funds(c) \in Int /\ Funds(c) < dearest + Grant[c]
             /\ \A d \in Channels \ {c} : credits[d] < dearest
  <2>1. c \in Channels
    BY <1>3, ProbedType DEF TypeOK
  <2>2. \A d \in Channels \ {c} : continuing # d
    <3>1. continuing # None => continuing = c
      BY <1>3, ProbedFirst DEF VisitInv
    <3> QED
      BY <1>2, <3>1
  <2> HIDE DEF c
  <2>3. credits[c] \in Int /\ Grant[c] \in Nat \ {0} /\ CreditMax \in Nat
    BY <1>2, <2>1, Constants
  <2>4. credits[c] < dearest + (IF continuing = c THEN Grant[c] ELSE 0)
    BY <2>1 DEF Hoard
  <2>5. Funds(c) \in Int /\ Funds(c) < dearest + Grant[c]
    BY <2>3, <2>4 DEF Funds, Least
  <2>6. \A d \in Channels \ {c} : credits[d] < dearest
    BY <1>2, <2>2 DEF Hoard
  <2> QED
    BY <2>1, <2>5, <2>6
<1>4. ASSUME pc = "drr", probe < NumChannels, queue[c] # <<>>
      PROVE  cost \in Nat /\ cost <= dearest
  <2>1. Head(queue[c]) \in Item
    <3>1. queue[c] \in Seq(Item) /\ queue[c] # <<>>
      BY <1>3, <1>4 DEF TypeOK
    <3> HIDE DEF c
    <3> QED
      BY <3>1
  <2> QED
    BY <2>1, Constants DEF Item
<1>5. CASE DrrSkip
  <2>1. /\ pc = "drr" /\ probe < NumChannels
        /\ credits' = [credits EXCEPT ![c] = 0]
    BY <1>5 DEF DrrSkip
  <2>2. continuing' = None
    BY <1>5, <2>1, ProbedFirst DEF DrrSkip, VisitInv
  <2>3. c \in Channels /\ \A d \in Channels \ {c} : credits[d] < dearest
    BY <1>3, <2>1
  <2> HIDE DEF c
  <2> QED
    BY <1>2, <2>1, <2>2, <2>3 DEF Hoard
<1>6. CASE DrrShort
  <2>1. /\ pc = "drr" /\ probe < NumChannels /\ queue[c] # <<>>
        /\ Funds(c) < cost
        /\ credits' = [credits EXCEPT ![c] = Funds(c)]
        /\ continuing' = None
    BY <1>6 DEF DrrShort
  <2>2. /\ c \in Channels /\ \A d \in Channels \ {c} : credits[d] < dearest
        /\ Funds(c) < dearest
    BY <1>3, <1>4, <2>1
  <2> HIDE DEF c, cost
  <2> QED
    BY <1>2, <2>1, <2>2 DEF Hoard
<1>7. CASE DrrServe
  <2> DEFINE rest == Tail(queue[c])
             left == IF rest = <<>> THEN 0 ELSE Funds(c) - cost
  <2>1. /\ pc = "drr" /\ probe < NumChannels /\ queue[c] # <<>>
        /\ Funds(c) >= cost
        /\ credits' = [credits EXCEPT ![c] = left]
        /\ continuing' = IF rest # <<>> /\ left >= Head(rest).kind.cost THEN c ELSE None
    BY <1>7 DEF DrrServe
  <2>2. /\ c \in Channels /\ \A d \in Channels \ {c} : credits[d] < dearest
        /\ Funds(c) \in Int /\ Funds(c) < dearest + Grant[c]
        /\ cost \in Nat
    BY <1>3, <1>4, <2>1
  <2>3. left \in Int /\ left < dearest + Grant[c]
    <3>1. Grant[c] \in Nat \ {0} /\ dearest \in Nat \ {0}
      BY <1>2, <2>2
    <3> HIDE DEF c, cost, rest
    <3> QED
      BY <2>2, <3>1
  <2>4. continuing' # c => left < dearest
    <3>1. CASE rest = <<>>
      BY <3>1
    <3>2. CASE rest # <<>>
      <4>1. rest \in Seq(Item)
        BY <2>1, <2>2 DEF TypeOK
      <4> HIDE DEF rest
      <4>2. Head(rest) \in Item
        BY <3>2, <4>1
      <4>3. Head(rest).kind \in Kinds
        BY <4>2 DEF Item
      <4>4. Head(rest).kind.cost \in Int /\ Head(rest).kind.cost <= dearest
        BY <4>3, Constants
      <4> HIDE DEF left, rest, c
      <4> QED
        BY <2>1, <2>3, <3>2, <4>4
    <3> QED
      BY <3>1, <3>2
  <2> HIDE DEF c, left, rest
  <2> QED
    BY <1>2, <2>1, <2>2, <2>3, <2>4 DEF Hoard
<1>8. ASSUME NEW requested \in 0 .. NumChannels, NEW chain \in Chains,
             Submit(requested, chain)
      PROVE  UNCHANGED <<credits, continuing>>
  BY <1>8 DEF Submit, drrVars
<1>9. ASSUME NEW S \in SUBSET Channels, Flush(S)
      PROVE  UNCHANGED <<credits, continuing>>
  BY <1>9 DEF Flush, drrVars
<1>10. CASE Tick \/ GrantPolicy \/ GrantNothing \/ DrrRoundEnd \/ UNCHANGED vars
  <2>1. UNCHANGED <<credits, continuing>>
    BY <1>10 DEF Tick, TickIndependent, TickShared, GrantPolicy, GrantNothing,
         DrrRoundEnd, vars, drrVars
  <2> QED
    BY <1>1, <2>1
<1> QED
  BY <1>1, <1>5, <1>6, <1>7, <1>8, <1>9, <1>10 DEF Next, Arbitrate

\* With a work-conserving visit and RESET a channel hoards less than its
\* dearest descriptor and one grant together: DRR credit is no token bucket.
THEOREM CreditsAreBounded == Spec => []CreditsBounded
<1>1. Init => VisitInv /\ CreditsInv
  BY Constants DEF Init, VisitInv, CreditsInv, Hoard
<1>2. TypeOK /\ VisitInv /\ [Next]_vars => VisitInv'
  BY VisitStep
<1>3. TypeOK /\ VisitInv /\ CreditsInv /\ [Next]_vars => CreditsInv'
  <2> SUFFICES ASSUME TypeOK, VisitInv, CreditsInv, [Next]_vars,
                      mode.conserving, ~mode.retain,
                      NEW dearest \in 1 .. CreditMax, \A k \in Kinds : k.cost <= dearest
               PROVE  Hoard(dearest)'
    BY ModeFixed DEF CreditsInv
  <2>1. Hoard(dearest)
    BY DEF CreditsInv
  <2> QED
    BY <2>1, HoardStep
<1>4. TypeOK /\ CreditsInv => CreditsBounded
  <2> SUFFICES ASSUME TypeOK, NEW c \in Channels, NEW dearest \in 1 .. CreditMax,
                      Hoard(dearest)
               PROVE  credits[c] < dearest + Grant[c]
    BY DEF CreditsInv, CreditsBounded
  <2>1. credits[c] \in Int /\ Grant[c] \in Nat \ {0}
    BY Constants DEF TypeOK
  <2> QED
    BY <2>1 DEF Hoard
<1> QED
  BY <1>1, <1>2, <1>3, <1>4, TypeCorrectness, PTL DEF Spec

-----------------------------------------------------------------------------
(* A tick never leaves the bus idle before a backlog. *)

\* A round of the DRR scan that met no queue so far has passed only empty ones.
ScanInv ==
    pc = "drr" /\ ~any =>
        \A c \in Channels : Behind(next_shared, c) < probe => queue[c] = <<>>

\* The queue probed next is the only one as far behind the cursor.
LEMMA ProbedBehind ==
    ASSUME TypeOK, probe < NumChannels, NEW c \in Channels, Behind(next_shared, c) < probe + 1
    PROVE  c = Probed \/ Behind(next_shared, c) < probe
BY Constants DEF TypeOK, Behind, Probed, Channels

LEMMA ScanStep == TypeOK /\ ScanInv /\ [Next]_vars => ScanInv'
<1>. SUFFICES ASSUME TypeOK, ScanInv, [Next]_vars, pc' = "drr", ~any'
              PROVE  \A c \in Channels : Behind(next_shared', c) < probe' => queue'[c] = <<>>
  BY DEF ScanInv
<1>1. CASE UNCHANGED vars
  BY <1>1 DEF vars, channelVars, drrVars, ScanInv
<1>2. CASE \E requested \in 0 .. NumChannels, chain \in Chains : Submit(requested, chain)
  BY <1>2 DEF Submit
<1>3. CASE TickIndependent
  BY <1>3 DEF TickIndependent
<1>4. CASE TickShared \/ DrrRoundEnd
  <2>1. probe' = 0 /\ next_shared' = next_shared
    BY <1>4 DEF TickShared, DrrRoundEnd
  <2>2. \A c \in Channels : Behind(next_shared, c) \in Nat
    BY BehindType DEF TypeOK
  <2>3. \A c \in Channels : ~(Behind(next_shared', c) < probe')
    BY <2>1, <2>2
  <2>. QED
    BY <2>3
<1>5. CASE GrantPolicy \/ GrantNothing \/ DrrServe
  BY <1>5 DEF GrantPolicy, GrantNothing, DrrServe
<1>6. CASE DrrSkip
  <2>1. /\ pc = "drr" /\ probe < NumChannels /\ queue[Probed] = <<>> /\ probe' = probe + 1
        /\ UNCHANGED <<queue, next_shared, any>>
    BY <1>6 DEF DrrSkip, channelVars
  <2>2. \A c \in Channels : Behind(next_shared, c) < probe => queue[c] = <<>>
    BY <2>1 DEF ScanInv
  <2>. QED
    BY <2>1, <2>2, ProbedBehind
<1>7. CASE DrrShort
  BY <1>7 DEF DrrShort
<1>8. CASE (\E c \in Channels : Flush({c})) \/ Flush(Channels)
  BY <1>8 DEF Flush
<1>. QED
  BY <1>1, <1>2, <1>3, <1>4, <1>5, <1>6, <1>7, <1>8 DEF Next, Tick, Arbitrate

\* The arbitration of a shared bus returns with a transfer in service or with
\* every queue empty, whatever the policy: a scan that grants nothing has met
\* every channel, and one that met a queue without credit goes round again.
THEOREM BusNeverIdles == Spec => NeverIdleWithBacklog
<1>. DEFINE A == pc # "idle" /\ pc' = "idle" => Busy' # {} \/ Backlogged' = {}
<1>1. TypeOK /\ SharedInv /\ ScanInv /\ [Next]_vars => A
  <2>. SUFFICES ASSUME TypeOK, SharedInv, ScanInv, [Next]_vars, pc # "idle", pc' = "idle"
                PROVE  Busy' # {} \/ Backlogged' = {}
    OBVIOUS
  <2>1. CASE GrantPolicy \/ DrrServe
    <3>1. PICK c \in Channels : queue[c] # <<>> /\ Start(c)
      BY <2>1, GrantStep
    <3>2. Busy = {}
      BY DEF SharedInv
    <3>3. Busy' = {c}
      BY <3>1, <3>2, StartAlone
    <3>. QED
      BY <3>3
  <2>2. CASE GrantNothing
    BY <2>2 DEF GrantNothing, Backlogged, channelVars
  <2>3. CASE DrrRoundEnd
    <3>1. pc = "drr" /\ probe = NumChannels /\ ~any /\ queue' = queue
      BY <2>3 DEF DrrRoundEnd, channelVars
    <3>2. \A c \in Channels : Behind(next_shared, c) < NumChannels
      <4>1. \A c \in Channels : Behind(next_shared, c) \in 0 .. NumChannels - 1
        BY BehindType DEF TypeOK
      <4>2. NumChannels \in Nat
        BY Constants
      <4>. QED
        BY <4>1, <4>2
    <3>3. \A c \in Channels : queue[c] = <<>>
      BY <3>1, <3>2 DEF ScanInv
    <3>4. \A c \in Channels : queue'[c] = <<>>
      BY <3>1, <3>3
    <3>. QED
      BY <3>4 DEF Backlogged
  <2>4. CASE DrrSkip \/ DrrShort
    BY <2>4 DEF DrrSkip, DrrShort
  <2>5. CASE UNCHANGED vars
    BY <2>5 DEF vars
  <2>6. CASE (\E requested \in 0 .. NumChannels, chain \in Chains : Submit(requested, chain)) \/ Tick
    BY <2>6 DEF Submit, Tick, TickIndependent, TickShared
  <2>7. CASE (\E c \in Channels : Flush({c})) \/ Flush(Channels)
    BY <2>7 DEF Flush
  <2>. QED
    BY <2>1, <2>2, <2>3, <2>4, <2>5, <2>6, <2>7 DEF Next, Arbitrate
<1>2. Init => SharedInv /\ ScanInv
  BY DEF Init, SharedInv, OneTransferOnBus, Busy, ScanInv
<1>3. TypeOK /\ SharedInv /\ [Next]_vars => SharedInv'
  BY SharedStep
<1>4. TypeOK /\ ScanInv /\ [Next]_vars => ScanInv'
  BY ScanStep
<1>5. Spec => [][A]_vars
  BY <1>1, <1>2, <1>3, <1>4, TypeCorrectness, PTL DEF Spec
<1>. QED
  BY <1>5 DEF NeverIdleWithBacklog

=============================================================================
