-------------------------- MODULE AgentReport_proofs --------------------------
(***************************************************************************)
(* Proofs about the report pipeline, for any items, queues of any size and *)
(* any of its configurations.  First the types and where the consumers     *)
(* stand, then what queue.join() counts, then the order of delivery, then  *)
(* that the pipeline does what Pipeline promises, and at last what stop()  *)
(* leaves in the queues.                                                   *)
(***************************************************************************)
EXTENDS AgentReport, SequenceLemmas, TLAPS

-----------------------------------------------------------------------------
(* Types.                                                                  *)

DataType ==
  /\ queue \in [Channels -> Seq(Items)]
  /\ \A ch \in Channels : Len(queue[ch]) <= Capacity[ch]
  /\ unfinished \in [Channels -> Int]
  /\ archived \subseteq Items /\ waiting \subseteq Items /\ abandoned \subseteq Items
  /\ delivered \subseteq Items /\ lost \subseteq Items

GenType ==
  /\ gen \in [Channels -> [Consumers -> GenPoints]]
  /\ hand \in [Channels -> [Consumers -> Seq(Items)]]
  /\ expired \in [Channels -> [Consumers -> BOOLEAN]]

ThreadType ==
  /\ config \in Configs
  /\ loop \in [Channels -> LoopPoints]
  /\ wait \in [Channels -> 0 .. MaxWait]
  /\ finished \in BOOLEAN /\ up \in BOOLEAN
  /\ fini \in FiniPoints /\ finiPos \in DOMAIN Order
  /\ stopSet \subseteq Items

\* A consumer has a call only while its thread is in it.
InCall ==
  /\ \A ch \in Channels : loop[ch] # "call" => gen[ch]["loop"] = "idle"
  /\ \A ch \in Channels : fini # "report" \/ ch # FiniChannel => gen[ch]["fini"] = "idle"

Types == DataType /\ GenType /\ ThreadType

LEMMA OrderIsSeq ==
  ASSUME config \in Configs
  PROVE  /\ Order \in Seq(Channels) /\ DOMAIN Order = 1 .. Len(Order) /\ 1 \in DOMAIN Order
         /\ Active \subseteq Channels
<1>1. Order \in Orders
  BY ConfigsAssumption DEF Order
<1>2. Order \in Seq(Channels) /\ Len(Order) \in 1 .. 3
  <2>1. <<"trace">> \in Seq(Channels) /\ Len(<<"trace">>) = 1
    BY DEF Channels
  <2>2. <<"trace", "log">> \in Seq(Channels) /\ Len(<<"trace", "log">>) = 2
    BY DEF Channels
  <2>3. <<"trace", "snapshot">> \in Seq(Channels) /\ Len(<<"trace", "snapshot">>) = 2
    BY DEF Channels
  <2>4. <<"trace", "log", "snapshot">> \in Seq(Channels) /\ Len(<<"trace", "log", "snapshot">>) = 3
    BY DEF Channels
  <2>5. /\ \/ Order = <<"trace">> \/ Order = <<"trace", "log">>
           \/ Order = <<"trace", "snapshot">> \/ Order = <<"trace", "log", "snapshot">>
    BY <1>1, Zenon DEF Orders
  <2>6. CASE Order = <<"trace">>
    BY <2>1, <2>6
  <2>7. CASE Order = <<"trace", "log">>
    BY <2>2, <2>7
  <2>8. CASE Order = <<"trace", "snapshot">>
    BY <2>3, <2>8
  <2>9. CASE Order = <<"trace", "log", "snapshot">>
    BY <2>4, <2>9
  <2> QED
    BY <2>5, <2>6, <2>7, <2>8, <2>9
<1> HIDE DEF Order
<1>3. DOMAIN Order = 1 .. Len(Order) /\ 1 \in DOMAIN Order
  BY <1>2
<1> QED
  BY <1>2, <1>3 DEF Active

-----------------------------------------------------------------------------
(* What the steps do.                                                      *)

\* Only the consumer k of ch goes on.
Moves(ch, k, points) ==
  /\ gen' \in [Channels -> [Consumers -> GenPoints]]
  /\ gen'[ch][k] \in points
  /\ \A c \in Channels, j \in Consumers : c # ch \/ j # k => gen'[c][j] = gen[c][j]

LEMMA SetGenMoves ==
  ASSUME GenType, NEW ch \in Channels, NEW k \in Consumers, NEW points \in SUBSET GenPoints,
         NEW point \in points, SetGen(ch, k, point)
  PROVE  Moves(ch, k, points) /\ Moves(ch, k, GenPoints)
<1>1. gen' = [gen EXCEPT ![ch][k] = point] /\ gen \in [Channels -> [Consumers -> GenPoints]] /\ point \in GenPoints
  BY DEF SetGen, GenType
<1>2. /\ gen' \in [Channels -> [Consumers -> GenPoints]] /\ gen'[ch][k] = point
      /\ \A c \in Channels, j \in Consumers : c # ch \/ j # k => gen'[c][j] = gen[c][j]
  BY <1>1
<1> QED
  BY <1>2 DEF Moves

\* What a consumer holds.
Holds(ch, k, items) ==
  /\ hand' \in [Channels -> [Consumers -> Seq(Items)]]
  /\ hand'[ch][k] = items
  /\ \A c \in Channels, j \in Consumers : c # ch \/ j # k => hand'[c][j] = hand[c][j]

LEMMA HandHolds ==
  ASSUME GenType, NEW ch \in Channels, NEW k \in Consumers, NEW items \in Seq(Items),
         hand' = [hand EXCEPT ![ch][k] = items]
  PROVE  Holds(ch, k, items)
<1>1. hand \in [Channels -> [Consumers -> Seq(Items)]]
  BY DEF GenType
<1>2. /\ hand' \in [Channels -> [Consumers -> Seq(Items)]] /\ hand'[ch][k] = items
      /\ \A c \in Channels, j \in Consumers : c # ch \/ j # k => hand'[c][j] = hand[c][j]
  BY <1>1
<1> QED
  BY <1>2 DEF Holds

LEMMA HandEmpties ==
  ASSUME GenType, NEW ch \in Channels, NEW k \in Consumers, hand' = [hand EXCEPT ![ch][k] = <<>>]
  PROVE  Holds(ch, k, <<>>)
<1>1. <<>> \in Seq(Items)
  OBVIOUS
<1> QED
  BY <1>1, HandHolds

LEMMA OpenCallDoes ==
  ASSUME GenType, NEW ch \in Channels, NEW k \in Consumers, OpenCall(ch, k)
  PROVE  Moves(ch, k, {"get", "end"}) /\ Moves(ch, k, GenPoints)
         /\ expired' \in [Channels -> [Consumers -> BOOLEAN]]
         /\ UNCHANGED <<hand, dataVars>>
<1>1. Moves(ch, k, {"get", "end"}) /\ Moves(ch, k, GenPoints)
  BY SetGenMoves DEF OpenCall, GenPoints
<1>2. expired' \in [Channels -> [Consumers -> BOOLEAN]]
  BY DEF OpenCall, GenType
<1> QED
  BY <1>1, <1>2 DEF OpenCall

LEMMA TakeHead ==
  ASSUME DataType, NEW ch \in Channels, queue[ch] # <<>>
  PROVE  /\ Head(queue[ch]) \in Items /\ Tail(queue[ch]) \in Seq(Items)
         /\ Len(Tail(queue[ch])) = Len(queue[ch]) - 1 /\ Len(queue[ch]) \in Nat
         /\ \A q : q = [queue EXCEPT ![ch] = Tail(queue[ch])] =>
              /\ q \in [Channels -> Seq(Items)] /\ q[ch] = Tail(queue[ch])
              /\ \A c \in Channels \ {ch} : q[c] = queue[c]
              /\ \A c \in Channels : Len(q[c]) <= Capacity[c]
<1>1. queue[ch] \in Seq(Items) /\ queue \in [Channels -> Seq(Items)] /\ Capacity[ch] \in Nat
  BY CapacityAssumption DEF DataType
<1>2. /\ Head(queue[ch]) \in Items /\ Tail(queue[ch]) \in Seq(Items)
      /\ Len(Tail(queue[ch])) = Len(queue[ch]) - 1 /\ Len(queue[ch]) \in Nat
  BY <1>1
<1>3. ASSUME NEW q, q = [queue EXCEPT ![ch] = Tail(queue[ch])]
      PROVE  /\ q \in [Channels -> Seq(Items)] /\ q[ch] = Tail(queue[ch])
             /\ \A c \in Channels \ {ch} : q[c] = queue[c]
             /\ \A c \in Channels : Len(q[c]) <= Capacity[c]
  <2>1. /\ q \in [Channels -> Seq(Items)] /\ q[ch] = Tail(queue[ch])
        /\ \A c \in Channels \ {ch} : q[c] = queue[c]
    BY <1>1, <1>2, <1>3
  <2>2. Len(q[ch]) <= Capacity[ch]
    BY <1>1, <1>2, <2>1 DEF DataType
  <2>3. \A c \in Channels \ {ch} : Len(q[c]) <= Capacity[c]
    BY <2>1 DEF DataType
  <2> QED
    BY <2>1, <2>2, <2>3
<1> QED
  BY <1>2, <1>3

LEMMA PutDoes ==
  ASSUME DataType, NEW i \in Items, ~Full(Chan[i]), Put(i)
  PROVE  /\ Chan[i] \in Channels /\ queue' \in [Channels -> Seq(Items)]
         /\ queue'[Chan[i]] = Append(queue[Chan[i]], i)
         /\ \A c \in Channels \ {Chan[i]} : queue'[c] = queue[c]
         /\ \A c \in Channels : Len(queue'[c]) <= Capacity[c]
         /\ unfinished' \in [Channels -> Int] /\ unfinished'[Chan[i]] = unfinished[Chan[i]] + 1
         /\ \A c \in Channels \ {Chan[i]} : unfinished'[c] = unfinished[c]
<1> DEFINE ch == Chan[i]
<1>1. ch \in Channels
  BY ItemsAssumption
<1>2. queue[ch] \in Seq(Items) /\ Capacity[ch] \in Nat /\ Len(queue[ch]) < Capacity[ch]
  BY <1>1, CapacityAssumption DEF DataType, Full
<1>3. /\ queue' = [queue EXCEPT ![ch] = Append(queue[ch], i)]
      /\ unfinished' = [unfinished EXCEPT ![ch] = unfinished[ch] + 1]
  BY DEF Put
<1> HIDE DEF ch
<1>4. Append(queue[ch], i) \in Seq(Items) /\ Len(Append(queue[ch], i)) = Len(queue[ch]) + 1
  BY <1>2
<1>5. /\ queue' \in [Channels -> Seq(Items)] /\ queue'[ch] = Append(queue[ch], i)
      /\ \A c \in Channels \ {ch} : queue'[c] = queue[c]
  BY <1>1, <1>3, <1>4 DEF DataType
<1>6. /\ unfinished' \in [Channels -> Int] /\ unfinished'[ch] = unfinished[ch] + 1
      /\ \A c \in Channels \ {ch} : unfinished'[c] = unfinished[c]
  BY <1>1, <1>3 DEF DataType
<1>7. Len(queue'[ch]) <= Capacity[ch]
  BY <1>2, <1>4, <1>5
<1>8. \A c \in Channels \ {ch} : Len(queue'[c]) <= Capacity[c]
  BY <1>5 DEF DataType
<1> QED
  BY <1>1, <1>5, <1>6, <1>7, <1>8 DEF ch

\* Calls of the report thread and of __fini leave the other's alone.
LEMMA AfterDoes ==
  ASSUME ThreadType, NEW ch \in Channels, NEW k \in Consumers, AfterReturn(ch, k) \/ AfterRaise(ch, k),
         UNCHANGED <<config, up>>
  PROVE  /\ ThreadType' /\ UNCHANGED <<finished, finiPos, stopSet>>
         /\ k = "loop" => fini' = fini /\ loop' = [loop EXCEPT ![ch] = "wait"]
         /\ k = "fini" => fini' \in {"join", "failed"} /\ loop' = loop
<1>1. MaxWait \in Nat /\ MaxWait >= 2
  BY WaitAssumption
<1>2. \A w \in 0 .. MaxWait : Backoff(w) \in 0 .. MaxWait
  BY <1>1 DEF Backoff
<1>3. Base(ch) \in 0 .. MaxWait
  BY <1>1 DEF Base
<1>4. Order' = Order
  BY DEF Order
<1>5. CASE k = "loop"
  <2>1. /\ loop' = [loop EXCEPT ![ch] = "wait"] /\ UNCHANGED finiVars
        /\ wait' = [wait EXCEPT ![ch] = Base(ch)] \/ wait' = [wait EXCEPT ![ch] = Backoff(wait[ch])]
    BY <1>5 DEF AfterReturn, AfterRaise
  <2>2. wait' \in [Channels -> 0 .. MaxWait]
    BY <1>2, <1>3, <2>1 DEF ThreadType
  <2> QED
    BY <1>4, <1>5, <2>1, <2>2 DEF ThreadType, finiVars, LoopPoints
<1>6. CASE k = "fini"
  <2>1. /\ fini' \in {"join", "failed"} /\ UNCHANGED <<finished, finiPos, stopSet, loop, wait>>
    BY <1>6 DEF AfterReturn, AfterRaise, loopVars
  <2> QED
    BY <1>4, <1>6, <2>1 DEF ThreadType, FiniPoints
<1> QED
  BY <1>5, <1>6 DEF Consumers

-----------------------------------------------------------------------------
(* Types and calls.                                                        *)

LEMMA TypesInit == Init => Types /\ InCall
<1> SUFFICES ASSUME Init PROVE Types /\ InCall
  OBVIOUS
<1>1. DataType
  BY CapacityAssumption DEF Init, DataType
<1>2. GenType
  BY DEF Init, GenType, GenPoints
<1>3. \A ch \in Channels : Base(ch) \in 0 .. MaxWait
  BY WaitAssumption DEF Base
<1>4. ThreadType
  BY <1>3, OrderIsSeq DEF Init, ThreadType, LoopPoints, FiniPoints
<1>5. InCall
  BY DEF Init, InCall, Consumers
<1> QED
  BY <1>1, <1>2, <1>4, <1>5 DEF Types

\* A call goes on.
LEMMA CallGoesOn ==
  ASSUME Types, InCall, NEW ch \in Channels, NEW k \in Consumers, gen[ch][k] # "idle",
         Moves(ch, k, GenPoints), UNCHANGED <<config, loopVars, finiVars, up>>
  PROVE  ThreadType' /\ InCall'
<1>1. Order' = Order /\ FiniChannel' = FiniChannel
  BY DEF Order, FiniChannel, finiVars
<1>2. ThreadType'
  BY <1>1 DEF Types, ThreadType, loopVars, finiVars
<1>3. InCall'
  BY <1>1 DEF InCall, Moves, loopVars, finiVars, Consumers
<1> QED
  BY <1>2, <1>3

\* A call ends.
LEMMA CallIsOver ==
  ASSUME Types, InCall, NEW ch \in Channels, NEW k \in Consumers, gen[ch][k] # "idle",
         Moves(ch, k, {"idle"}), AfterReturn(ch, k) \/ AfterRaise(ch, k), UNCHANGED <<config, up>>
  PROVE  ThreadType' /\ InCall'
<1>1. /\ ThreadType' /\ UNCHANGED <<finished, finiPos, stopSet>>
      /\ k = "loop" => fini' = fini /\ loop' = [loop EXCEPT ![ch] = "wait"]
      /\ k = "fini" => fini' \in {"join", "failed"} /\ loop' = loop
  BY AfterDoes DEF Types
<1>2. FiniChannel' = FiniChannel
  BY <1>1 DEF Order, FiniChannel
<1>3. loop \in [Channels -> LoopPoints]
  BY DEF Types, ThreadType
<1>4. CASE k = "loop"
  BY <1>1, <1>2, <1>3, <1>4 DEF InCall, Moves, Consumers
<1>5. CASE k = "fini"
  BY <1>1, <1>2, <1>5 DEF InCall, Moves, Consumers
<1> QED
  BY <1>1, <1>4, <1>5 DEF Consumers

Mark(point) == IF point = "got" THEN 1 ELSE 0
JoinAt(ch)  == unfinished[ch] = Len(queue[ch]) + Mark(gen[ch]["loop"]) + Mark(gen[ch]["fini"])
JoinInv     == \A ch \in Channels : JoinAt(ch)

\* What one consumer of a channel does keeps the account if it is right for that consumer.
LEMMA JoinKept ==
  ASSUME DataType, JoinInv, NEW ch \in Channels, NEW k \in Consumers, Moves(ch, k, GenPoints),
         Len(queue'[ch]) \in Nat, unfinished'[ch] \in Int,
         \A c \in Channels \ {ch} : queue'[c] = queue[c] /\ unfinished'[c] = unfinished[c],
         unfinished'[ch] - unfinished[ch] = Len(queue'[ch]) - Len(queue[ch]) + Mark(gen'[ch][k]) - Mark(gen[ch][k])
  PROVE  JoinInv'
<1>1. ASSUME NEW c \in Channels \ {ch} PROVE JoinAt(c)'
  <2>1. JoinAt(c) /\ \A j \in Consumers : gen'[c][j] = gen[c][j]
    BY DEF JoinInv, Moves
  <2> QED
    BY <2>1 DEF JoinAt, Mark, Consumers
<1>2. /\ unfinished[ch] \in Int /\ Len(queue[ch]) \in Nat
      /\ unfinished[ch] = Len(queue[ch]) + Mark(gen[ch]["loop"]) + Mark(gen[ch]["fini"])
  BY DEF DataType, JoinInv, JoinAt
<1>3. \A j \in Consumers \ {k} : gen'[ch][j] = gen[ch][j]
  BY DEF Moves
<1>4. ASSUME k = "loop" PROVE JoinAt(ch)'
  <2>1. gen'[ch]["fini"] = gen[ch]["fini"]
    BY <1>3, <1>4 DEF Consumers
  <2>2. Mark(gen'[ch]["fini"]) = Mark(gen[ch]["fini"]) /\ Mark(gen[ch]["fini"]) \in Int
    BY <2>1 DEF Mark
  <2>3. /\ Mark(gen[ch]["loop"]) \in Int /\ Mark(gen'[ch]["loop"]) \in Int
        /\ unfinished'[ch] - unfinished[ch] = Len(queue'[ch]) - Len(queue[ch]) + Mark(gen'[ch]["loop"]) - Mark(gen[ch]["loop"])
    <3>1. Mark(gen[ch]["loop"]) \in Int /\ Mark(gen'[ch]["loop"]) \in Int
      BY DEF Mark
    <3>2. unfinished'[ch] - unfinished[ch] = Len(queue'[ch]) - Len(queue[ch]) + Mark(gen'[ch]["loop"]) - Mark(gen[ch]["loop"])
      BY <1>4
    <3> QED
      BY <3>1, <3>2
  <2>4. unfinished'[ch] = Len(queue'[ch]) + Mark(gen'[ch]["loop"]) + Mark(gen'[ch]["fini"])
    <3> DEFINE m == Mark(gen[ch]["loop"])
               n == Mark(gen'[ch]["loop"])
               o == Mark(gen'[ch]["fini"])
               u == unfinished[ch]
               v == unfinished'[ch]
               p == Len(queue[ch])
               q == Len(queue'[ch])
    <3>1. u \in Int /\ v \in Int /\ p \in Int /\ q \in Int /\ m \in Int /\ n \in Int /\ o \in Int
      BY <1>2, <2>2, <2>3
    <3>2. u = p + m + o /\ v - u = q - p + n - m
      BY <1>2, <2>2, <2>3
    <3> HIDE DEF m, n, o, u, v, p, q
    <3>3. v = q + n + o
      BY ONLY <3>1, <3>2
    <3> QED
      BY <3>3 DEF m, n, o, u, v, p, q
  <2> QED
    BY <2>4 DEF JoinAt
<1>5. ASSUME k = "fini" PROVE JoinAt(ch)'
  <2>1. gen'[ch]["loop"] = gen[ch]["loop"]
    BY <1>3, <1>5 DEF Consumers
  <2>2. Mark(gen'[ch]["loop"]) = Mark(gen[ch]["loop"]) /\ Mark(gen[ch]["loop"]) \in Int
    BY <2>1 DEF Mark
  <2>3. /\ Mark(gen[ch]["fini"]) \in Int /\ Mark(gen'[ch]["fini"]) \in Int
        /\ unfinished'[ch] - unfinished[ch] = Len(queue'[ch]) - Len(queue[ch]) + Mark(gen'[ch]["fini"]) - Mark(gen[ch]["fini"])
    <3>1. Mark(gen[ch]["fini"]) \in Int /\ Mark(gen'[ch]["fini"]) \in Int
      BY DEF Mark
    <3>2. unfinished'[ch] - unfinished[ch] = Len(queue'[ch]) - Len(queue[ch]) + Mark(gen'[ch]["fini"]) - Mark(gen[ch]["fini"])
      BY <1>5
    <3> QED
      BY <3>1, <3>2
  <2>4. unfinished'[ch] = Len(queue'[ch]) + Mark(gen'[ch]["loop"]) + Mark(gen'[ch]["fini"])
    <3> DEFINE m == Mark(gen[ch]["fini"])
               n == Mark(gen'[ch]["fini"])
               o == Mark(gen'[ch]["loop"])
               u == unfinished[ch]
               v == unfinished'[ch]
               p == Len(queue[ch])
               q == Len(queue'[ch])
    <3>1. u \in Int /\ v \in Int /\ p \in Int /\ q \in Int /\ m \in Int /\ n \in Int /\ o \in Int
      BY <1>2, <2>2, <2>3
    <3>2. u = p + o + m /\ v - u = q - p + n - m
      BY <1>2, <2>2, <2>3
    <3> HIDE DEF m, n, o, u, v, p, q
    <3>3. v = q + o + n
      BY ONLY <3>1, <3>2
    <3> QED
      BY <3>3 DEF m, n, o, u, v, p, q
  <2> QED
    BY <2>4 DEF JoinAt
<1>6. JoinAt(ch)'
  BY <1>4, <1>5 DEF Consumers
<1> QED
  BY <1>1, <1>6 DEF JoinInv

\* Steps that leave the queues, their counts and the calls alone.
LEMMA JoinStays ==
  ASSUME JoinInv, UNCHANGED <<queue, unfinished, gen>>
  PROVE  JoinInv'
  BY DEF JoinInv, JoinAt, Mark

-----------------------------------------------------------------------------
(* One lemma per kind of step: types, calls and the account are kept.      *)

Inv == Types /\ InCall /\ JoinInv

LEMMA ArchiveKeeps ==
  ASSUME Inv, NEW i \in Items, Archive(i) \/ AddSnapshot(i) \/ (PutWakes /\ i \in waiting /\ ~Full(Chan[i]) /\ Put(i))
  PROVE  Inv'
<1>1. /\ archived' \subseteq Items /\ waiting' \subseteq Items /\ abandoned' \subseteq Items
      /\ UNCHANGED <<delivered, lost, config, genVars, loopVars, finiVars, up>>
  BY DEF Inv, Types, DataType, Archive, AddSnapshot, PutWakes, Produce, genVars, loopVars, finiVars
<1>2. (~Full(Chan[i]) /\ Put(i)) \/ UNCHANGED <<queue, unfinished>>
  BY DEF Archive, AddSnapshot
<1>3. ThreadType' /\ GenType' /\ InCall'
  <2>1. Order' = Order /\ FiniChannel' = FiniChannel
    BY <1>1 DEF Order, FiniChannel, finiVars
  <2> QED
    BY <1>1, <2>1 DEF Inv, Types, ThreadType, GenType, InCall, genVars, loopVars, finiVars
<1>4. CASE ~Full(Chan[i]) /\ Put(i)
  <2>1. /\ Chan[i] \in Channels /\ queue' \in [Channels -> Seq(Items)]
        /\ queue'[Chan[i]] = Append(queue[Chan[i]], i)
        /\ \A c \in Channels \ {Chan[i]} : queue'[c] = queue[c]
        /\ \A c \in Channels : Len(queue'[c]) <= Capacity[c]
        /\ unfinished' \in [Channels -> Int] /\ unfinished'[Chan[i]] = unfinished[Chan[i]] + 1
        /\ \A c \in Channels \ {Chan[i]} : unfinished'[c] = unfinished[c]
    BY <1>4, PutDoes DEF Inv, Types
  <2>2. DataType'
    BY <1>1, <2>1 DEF Inv, Types, DataType
  <2>3. gen' = gen
    BY <1>1 DEF genVars
  <2>4. ASSUME NEW c \in Channels PROVE JoinAt(c)'
    <3>1. JoinAt(c) /\ queue[c] \in Seq(Items) /\ unfinished[c] \in Int
      BY DEF Inv, JoinInv, Types, DataType
    <3>2. CASE c = Chan[i]
      <4>1. Len(queue'[c]) = Len(queue[c]) + 1 /\ unfinished'[c] = unfinished[c] + 1 /\ Len(queue[c]) \in Nat
        BY <2>1, <3>1, <3>2
      <4>2. Mark(gen[c]["loop"]) \in Int /\ Mark(gen[c]["fini"]) \in Int
        BY DEF Mark
      <4>3. unfinished[c] = Len(queue[c]) + Mark(gen[c]["loop"]) + Mark(gen[c]["fini"])
        BY <3>1 DEF JoinAt
      <4>4. unfinished'[c] = Len(queue'[c]) + Mark(gen[c]["loop"]) + Mark(gen[c]["fini"])
        BY <4>1, <4>2, <4>3
      <4> QED
        BY <2>3, <4>4 DEF JoinAt
    <3>3. CASE c # Chan[i]
      BY <2>1, <2>3, <3>1, <3>3 DEF JoinAt
    <3> QED
      BY <3>2, <3>3
  <2> QED
    BY <1>3, <2>2, <2>4 DEF Inv, Types, JoinInv
<1>5. CASE UNCHANGED <<queue, unfinished>>
  <2>1. DataType'
    BY <1>1, <1>5 DEF Inv, Types, DataType
  <2>2. JoinInv'
    BY <1>1, <1>5, JoinStays DEF Inv, genVars
  <2> QED
    BY <1>3, <2>1, <2>2 DEF Inv, Types
<1> QED
  BY <1>2, <1>4, <1>5

LEMMA GetKeeps ==
  ASSUME Inv, NEW ch \in Channels, NEW k \in Consumers, Get(ch, k)
  PROVE  Inv'
<1>1. /\ gen[ch][k] = "get" /\ queue[ch] # <<>> /\ queue' = [queue EXCEPT ![ch] = Tail(queue[ch])]
      /\ hand' = [hand EXCEPT ![ch][k] = Append(hand[ch][k], Head(queue[ch]))]
      /\ SetGen(ch, k, "got")
      /\ UNCHANGED <<config, unfinished, archived, waiting, abandoned, delivered, lost, expired, loopVars, finiVars, up>>
  BY DEF Get
<1>2. /\ Moves(ch, k, {"got"}) /\ Moves(ch, k, GenPoints)
  BY <1>1, SetGenMoves DEF Inv, Types, GenPoints
<1>3. /\ Head(queue[ch]) \in Items /\ queue' \in [Channels -> Seq(Items)] /\ queue'[ch] = Tail(queue[ch])
      /\ \A c \in Channels \ {ch} : queue'[c] = queue[c]
      /\ \A c \in Channels : Len(queue'[c]) <= Capacity[c]
      /\ Len(queue'[ch]) = Len(queue[ch]) - 1 /\ Len(queue[ch]) \in Nat /\ Len(queue'[ch]) \in Nat
  <2>1. /\ Head(queue[ch]) \in Items /\ Tail(queue[ch]) \in Seq(Items)
        /\ Len(Tail(queue[ch])) = Len(queue[ch]) - 1 /\ Len(queue[ch]) \in Nat
        /\ queue' \in [Channels -> Seq(Items)] /\ queue'[ch] = Tail(queue[ch])
        /\ \A c \in Channels \ {ch} : queue'[c] = queue[c]
        /\ \A c \in Channels : Len(queue'[c]) <= Capacity[c]
    BY <1>1, TakeHead DEF Inv, Types
  <2>2. Len(Tail(queue[ch])) \in Nat
    BY <2>1
  <2> QED
    BY <2>1, <2>2
<1>4. Holds(ch, k, Append(hand[ch][k], Head(queue[ch])))
  <2>1. Append(hand[ch][k], Head(queue[ch])) \in Seq(Items)
    BY <1>3 DEF Inv, Types, GenType
  <2> QED
    BY <1>1, <2>1, HandHolds DEF Inv, Types
<1>5. DataType'
  BY <1>1, <1>3 DEF Inv, Types, DataType
<1>6. GenType'
  BY <1>1, <1>2, <1>4 DEF Inv, Types, GenType, Moves, Holds
<1>7. ThreadType' /\ InCall'
  BY <1>1, <1>2, CallGoesOn DEF Inv
<1>8. JoinInv'
  <2>1. unfinished'[ch] = unfinished[ch] /\ unfinished[ch] \in Int
    BY <1>1 DEF Inv, Types, DataType
  <2>2. Mark(gen[ch][k]) = 0 /\ Mark(gen'[ch][k]) = 1
    BY <1>1, <1>2 DEF Mark, Moves
  <2>3. unfinished'[ch] - unfinished[ch] = Len(queue'[ch]) - Len(queue[ch]) + Mark(gen'[ch][k]) - Mark(gen[ch][k])
    BY <1>3, <2>1, <2>2
  <2>4. \A c \in Channels \ {ch} : queue'[c] = queue[c] /\ unfinished'[c] = unfinished[c]
    BY <1>1, <1>3
  <2> QED
    BY <1>2, <1>3, <2>1, <2>3, <2>4, JoinKept DEF Inv, Types
<1> QED
  BY <1>5, <1>6, <1>7, <1>8 DEF Inv, Types

LEMMA TaskDoneKeeps ==
  ASSUME Inv, NEW ch \in Channels, NEW k \in Consumers, TaskDone(ch, k)
  PROVE  Inv'
<1>1. /\ gen[ch][k] = "got" /\ unfinished' = [unfinished EXCEPT ![ch] = unfinished[ch] - 1]
      /\ SetGen(ch, k, IF OneByOne(ch) THEN "yield" ELSE "head")
      /\ UNCHANGED <<config, queue, archived, waiting, abandoned, delivered, lost, hand, expired, loopVars, finiVars, up>>
  BY DEF TaskDone
<1>2. Moves(ch, k, {"yield", "head"}) /\ Moves(ch, k, GenPoints)
  BY <1>1, SetGenMoves DEF Inv, Types, GenPoints
<1>3. /\ unfinished' \in [Channels -> Int] /\ unfinished'[ch] = unfinished[ch] - 1 /\ unfinished[ch] \in Int
      /\ \A c \in Channels \ {ch} : unfinished'[c] = unfinished[c]
  BY <1>1 DEF Inv, Types, DataType
<1>4. DataType' /\ GenType'
  BY <1>1, <1>2, <1>3 DEF Inv, Types, DataType, GenType, Moves
<1>5. ThreadType' /\ InCall'
  BY <1>1, <1>2, CallGoesOn DEF Inv
<1>6. JoinInv'
  <2>1. Mark(gen[ch][k]) = 1 /\ Mark(gen'[ch][k]) = 0
    BY <1>1, <1>2 DEF Mark, Moves
  <2>2. queue' = queue /\ Len(queue[ch]) \in Nat /\ unfinished'[ch] \in Int
    BY <1>1, <1>3 DEF Inv, Types, DataType
  <2>3. unfinished'[ch] - unfinished[ch] = Len(queue'[ch]) - Len(queue[ch]) + Mark(gen'[ch][k]) - Mark(gen[ch][k])
    BY <1>3, <2>1, <2>2
  <2> QED
    BY <1>2, <1>3, <2>2, <2>3, JoinKept DEF Inv, Types
<1> QED
  BY <1>4, <1>5, <1>6 DEF Inv, Types

\* A call goes on or ends without the queue: the account does not notice.
LEMMA JoinIgnores ==
  ASSUME Inv, NEW ch \in Channels, NEW k \in Consumers, gen[ch][k] # "got",
         Moves(ch, k, GenPoints), gen'[ch][k] # "got", UNCHANGED <<queue, unfinished>>
  PROVE  JoinInv'
<1>1. Mark(gen[ch][k]) = 0 /\ Mark(gen'[ch][k]) = 0
  BY DEF Mark
<1>2. queue' = queue /\ unfinished' = unfinished /\ Len(queue[ch]) \in Nat /\ unfinished[ch] \in Int
  BY DEF Inv, Types, DataType
<1>3. unfinished'[ch] - unfinished[ch] = Len(queue'[ch]) - Len(queue[ch]) + Mark(gen'[ch][k]) - Mark(gen[ch][k])
  BY <1>1, <1>2
<1> QED
  BY <1>2, <1>3, JoinKept DEF Inv, Types

LEMMA HeadKeeps ==
  ASSUME Inv, NEW ch \in Channels, NEW k \in Consumers, GenHead(ch, k) \/ GetEmpty(ch, k)
  PROVE  Inv'
<1>1. /\ gen[ch][k] \in {"head", "get"}
      /\ SetGen(ch, k, IF expired[ch][k] THEN "end" ELSE "get") \/ SetGen(ch, k, "end")
      /\ UNCHANGED <<config, dataVars, hand, expired, loopVars, finiVars, up>>
  BY DEF GenHead, GetEmpty
<1>2. Moves(ch, k, {"end", "get"}) /\ Moves(ch, k, GenPoints)
  BY <1>1, SetGenMoves DEF Inv, Types, GenPoints
<1>3. DataType' /\ GenType'
  BY <1>1, <1>2 DEF Inv, Types, DataType, GenType, Moves, dataVars
<1>4. ThreadType' /\ InCall'
  BY <1>1, <1>2, CallGoesOn DEF Inv
<1>5. JoinInv'
  BY <1>1, <1>2, JoinIgnores DEF Moves, dataVars
<1> QED
  BY <1>3, <1>4, <1>5 DEF Inv, Types

LEMMA ExpireKeeps ==
  ASSUME Inv, NEW ch \in Channels, NEW k \in Consumers, Expire(ch, k)
  PROVE  Inv'
<1>1. /\ expired' = [expired EXCEPT ![ch][k] = TRUE] /\ UNCHANGED <<config, dataVars, gen, hand, loopVars, finiVars, up>>
  BY DEF Expire
<1>2. expired' \in [Channels -> [Consumers -> BOOLEAN]]
  BY <1>1 DEF Inv, Types, GenType
<1>3. Order' = Order /\ FiniChannel' = FiniChannel
  BY <1>1 DEF Order, FiniChannel, finiVars
<1>4. DataType' /\ GenType' /\ ThreadType' /\ InCall'
  BY <1>1, <1>2, <1>3 DEF Inv, Types, DataType, GenType, ThreadType, InCall, dataVars, loopVars, finiVars
<1>5. JoinInv'
  BY <1>1, JoinStays DEF Inv, dataVars
<1> QED
  BY <1>4, <1>5 DEF Inv, Types

LEMMA HandInItems ==
  ASSUME GenType, NEW ch \in Channels, NEW k \in Consumers
  PROVE  hand[ch][k] \in Seq(Items) /\ ToSet(hand[ch][k]) \subseteq Items
<1>1. hand[ch][k] \in Seq(Items)
  BY DEF GenType
<1> QED
  BY <1>1 DEF ToSet

LEMMA SendOneKeeps ==
  ASSUME Inv, NEW ch \in Channels, NEW k \in Consumers, SendOne(ch, k)
  PROVE  Inv'
<1>1. /\ gen[ch][k] = "yield" /\ delivered' = delivered \cup ToSet(hand[ch][k])
      /\ hand' = [hand EXCEPT ![ch][k] = <<>>] /\ SetGen(ch, k, "head")
      /\ UNCHANGED <<config, queue, unfinished, archived, waiting, abandoned, lost, expired, loopVars, finiVars, up>>
  BY DEF SendOne
<1>2. Moves(ch, k, {"head"}) /\ Moves(ch, k, GenPoints)
  BY <1>1, SetGenMoves DEF Inv, Types, GenPoints
<1>3. Holds(ch, k, <<>>)
  BY <1>1, HandEmpties DEF Inv, Types
<1>4. DataType' /\ GenType'
  <2>1. ToSet(hand[ch][k]) \subseteq Items
    BY HandInItems DEF Inv, Types
  <2>2. DataType'
    BY <1>1, <2>1 DEF Inv, Types, DataType
  <2>3. GenType'
    BY <1>1, <1>2, <1>3 DEF Inv, Types, GenType, Moves, Holds
  <2> QED
    BY <2>2, <2>3
<1>5. ThreadType' /\ InCall'
  BY <1>1, <1>2, CallGoesOn DEF Inv
<1>6. JoinInv'
  BY <1>1, <1>2, JoinIgnores DEF Moves
<1> QED
  BY <1>4, <1>5, <1>6 DEF Inv, Types

LEMMA CallReturnsKeeps ==
  ASSUME Inv, NEW ch \in Channels, NEW k \in Consumers, CallReturns(ch, k)
  PROVE  Inv'
<1>1. /\ gen[ch][k] = "end" /\ delivered' = delivered \cup ToSet(hand[ch][k])
      /\ hand' = [hand EXCEPT ![ch][k] = <<>>] /\ SetGen(ch, k, "idle") /\ AfterReturn(ch, k)
      /\ expired' = [expired EXCEPT ![ch][k] = FALSE]
      /\ UNCHANGED <<config, queue, unfinished, archived, waiting, abandoned, lost, up>>
  BY DEF CallReturns, CloseCall
<1>2. Moves(ch, k, {"idle"}) /\ Moves(ch, k, GenPoints)
  BY <1>1, SetGenMoves DEF Inv, Types, GenPoints
<1>3. Holds(ch, k, <<>>)
  BY <1>1, HandEmpties DEF Inv, Types
<1>4. DataType' /\ GenType'
  <2>1. ToSet(hand[ch][k]) \subseteq Items
    BY HandInItems DEF Inv, Types
  <2>2. DataType'
    BY <1>1, <2>1 DEF Inv, Types, DataType
  <2>3. GenType'
    BY <1>1, <1>2, <1>3 DEF Inv, Types, GenType, Moves, Holds
  <2> QED
    BY <2>2, <2>3
<1>5. ThreadType' /\ InCall'
  BY <1>1, <1>2, CallIsOver DEF Inv
<1>6. JoinInv'
  BY <1>1, <1>2, JoinIgnores DEF Moves
<1> QED
  BY <1>4, <1>5, <1>6 DEF Inv, Types

LEMMA CallFailsKeeps ==
  ASSUME Inv, NEW ch \in Channels, NEW k \in Consumers, CallFails(ch, k)
  PROVE  Inv'
<1>1. /\ FailPoint(ch, k) /\ hand' = [hand EXCEPT ![ch][k] = <<>>] /\ SetGen(ch, k, "idle")
      /\ AfterReturn(ch, k) \/ AfterRaise(ch, k)
      /\ expired' = [expired EXCEPT ![ch][k] = FALSE]
      /\ UNCHANGED <<config, archived, waiting, abandoned, up>>
  BY DEF CallFails, CloseCall
<1>2. PICK n \in 0 .. Len(hand[ch][k]) :
        LET sent == {hand[ch][k][m] : m \in 1 .. n}
            rest == ToSet(hand[ch][k]) \ sent
        IN  /\ delivered' = delivered \cup sent
            /\ \/ lost' = lost \cup rest /\ UNCHANGED <<queue, unfinished>>
               \/ /\ TakesOneMore(ch, k)
                  /\ lost' = lost \cup rest \cup {Head(queue[ch])}
                  /\ queue' = [queue EXCEPT ![ch] = Tail(queue[ch])]
                  /\ unfinished' = [unfinished EXCEPT ![ch] = unfinished[ch] - 1]
  BY DEF CallFails
<1>3. gen[ch][k] \notin {"got", "idle"}
  BY <1>1 DEF FailPoint
<1>4. Moves(ch, k, {"idle"}) /\ Moves(ch, k, GenPoints)
  BY <1>1, SetGenMoves DEF Inv, Types, GenPoints
<1>5. Holds(ch, k, <<>>)
  BY <1>1, HandEmpties DEF Inv, Types
<1>6. ThreadType' /\ InCall'
  BY <1>1, <1>3, <1>4, CallIsOver DEF Inv
<1>7. GenType'
  BY <1>1, <1>4, <1>5 DEF Inv, Types, GenType, Moves, Holds
<1>8. delivered' \subseteq Items
  <2>1. hand[ch][k] \in Seq(Items) /\ delivered \subseteq Items
    BY HandInItems DEF Inv, Types, DataType
  <2>2. \A m \in 1 .. n : hand[ch][k][m] \in Items
    BY <2>1
  <2> QED
    BY <1>2, <2>1, <2>2
<1>9. CASE UNCHANGED <<queue, unfinished>> /\ lost' \subseteq lost \cup ToSet(hand[ch][k])
  <2>1. ToSet(hand[ch][k]) \subseteq Items
    BY HandInItems DEF Inv, Types
  <2>2. DataType'
    BY <1>1, <1>8, <1>9, <2>1 DEF Inv, Types, DataType
  <2>3. JoinInv'
    BY <1>3, <1>4, <1>9, JoinIgnores DEF Moves
  <2> QED
    BY <1>6, <1>7, <2>2, <2>3 DEF Inv, Types
<1>10. CASE /\ TakesOneMore(ch, k) /\ lost' \subseteq lost \cup ToSet(hand[ch][k]) \cup {Head(queue[ch])}
            /\ queue' = [queue EXCEPT ![ch] = Tail(queue[ch])]
            /\ unfinished' = [unfinished EXCEPT ![ch] = unfinished[ch] - 1]
  <2>1. queue[ch] # <<>> /\ gen[ch][k] = "get"
    BY <1>10 DEF TakesOneMore
  <2>2. /\ Head(queue[ch]) \in Items /\ Tail(queue[ch]) \in Seq(Items)
        /\ Len(Tail(queue[ch])) = Len(queue[ch]) - 1 /\ Len(queue[ch]) \in Nat
        /\ queue' \in [Channels -> Seq(Items)] /\ queue'[ch] = Tail(queue[ch])
        /\ \A c \in Channels \ {ch} : queue'[c] = queue[c]
        /\ \A c \in Channels : Len(queue'[c]) <= Capacity[c]
    BY <1>10, <2>1, TakeHead DEF Inv, Types
  <2>3. /\ unfinished' \in [Channels -> Int] /\ unfinished'[ch] = unfinished[ch] - 1 /\ unfinished[ch] \in Int
        /\ \A c \in Channels \ {ch} : unfinished'[c] = unfinished[c]
    BY <1>10 DEF Inv, Types, DataType
  <2>4. ToSet(hand[ch][k]) \subseteq Items
    BY HandInItems DEF Inv, Types
  <2>5. DataType'
    BY <1>1, <1>8, <1>10, <2>2, <2>3, <2>4 DEF Inv, Types, DataType
  <2>6. JoinInv'
    <3>1. Mark(gen[ch][k]) = 0 /\ Mark(gen'[ch][k]) = 0
      BY <1>3, <1>4 DEF Mark, Moves
    <3>2. Len(queue'[ch]) = Len(queue[ch]) - 1 /\ Len(queue'[ch]) \in Nat /\ unfinished'[ch] \in Int
      BY <2>2, <2>3
    <3>3. unfinished'[ch] - unfinished[ch] = Len(queue'[ch]) - Len(queue[ch]) + Mark(gen'[ch][k]) - Mark(gen[ch][k])
      BY <2>2, <2>3, <3>1, <3>2
    <3> QED
      BY <1>4, <2>2, <2>3, <3>2, <3>3, JoinKept DEF Inv, Types
  <2> QED
    BY <1>6, <1>7, <2>5, <2>6 DEF Inv, Types
<1> QED
  BY <1>2, <1>9, <1>10

\* The report threads.
LEMMA LoopKeeps ==
  ASSUME Inv, NEW ch \in Channels, LoopStep(ch)
  PROVE  Inv'
<1>1. UNCHANGED <<config, wait, finiVars, up>> /\ Order' = Order /\ FiniChannel' = FiniChannel
  BY DEF LoopStep, LoopCall, LoopAgain, LoopExit, Order, FiniChannel, finiVars
<1>2. CASE LoopCall(ch)
  <2>1. /\ loop[ch] = "check" /\ loop' = [loop EXCEPT ![ch] = "call"] /\ OpenCall(ch, "loop")
        /\ loop \in [Channels -> LoopPoints] /\ "loop" \in Consumers
    BY <1>2 DEF LoopCall, Inv, Types, ThreadType, Consumers
  <2>2. /\ Moves(ch, "loop", {"get", "end"}) /\ Moves(ch, "loop", GenPoints)
        /\ expired' \in [Channels -> [Consumers -> BOOLEAN]] /\ UNCHANGED <<hand, dataVars>>
    BY <2>1, OpenCallDoes DEF Inv, Types
  <2>3. gen[ch]["loop"] = "idle"
    BY <2>1 DEF Inv, InCall
  <2>4. DataType' /\ GenType'
    BY <2>2 DEF Inv, Types, DataType, GenType, Moves, dataVars
  <2>5. ThreadType'
    BY <1>1, <2>1 DEF Inv, Types, ThreadType, LoopPoints, finiVars
  <2>6. InCall'
    BY <1>1, <2>1, <2>2 DEF Inv, InCall, Moves, finiVars, Consumers
  <2>7. JoinInv'
    BY <2>1, <2>2, <2>3, JoinIgnores DEF Moves, dataVars
  <2> QED
    BY <2>4, <2>5, <2>6, <2>7 DEF Inv, Types
<1>3. CASE LoopAgain(ch) \/ LoopExit(ch)
  <2>1. /\ loop[ch] \in {"wait", "check"}
        /\ loop' = [loop EXCEPT ![ch] = "check"] \/ loop' = [loop EXCEPT ![ch] = "exit"]
        /\ UNCHANGED <<dataVars, genVars>> /\ loop \in [Channels -> LoopPoints]
    BY <1>3 DEF LoopAgain, LoopExit, Inv, Types, ThreadType
  <2>2. DataType' /\ GenType'
    BY <2>1 DEF Inv, Types, DataType, GenType, dataVars, genVars
  <2>3. ThreadType'
    BY <1>1, <2>1 DEF Inv, Types, ThreadType, LoopPoints, finiVars
  <2>4. InCall'
    <3>1. ASSUME NEW c \in Channels, loop'[c] # "call" PROVE loop[c] # "call"
      <4>1. CASE c = ch
        BY <2>1, <4>1
      <4>2. CASE c # ch
        BY <2>1, <3>1, <4>2
      <4> QED
        BY <4>1, <4>2
    <3> QED
      BY <1>1, <2>1, <3>1 DEF Inv, InCall, genVars, finiVars
  <2>5. JoinInv'
    BY <2>1, JoinStays DEF Inv, dataVars, genVars
  <2> QED
    BY <2>2, <2>3, <2>4, <2>5 DEF Inv, Types
<1> QED
  BY <1>2, <1>3 DEF LoopStep

\* __fini starts with, or goes on to, the channel at n.
LEMMA FiniOpens ==
  ASSUME Inv, NEW n \in DOMAIN Order, fini # "report", fini' = "report", finiPos' = n,
         OpenCall(Order[n], "fini"), stopSet' \subseteq Items, UNCHANGED <<config, loopVars, finished, up>>
  PROVE  Inv'
<1> DEFINE ch == Order[n]
<1>1. ch \in Channels /\ "fini" \in Consumers
  BY OrderIsSeq DEF Inv, Types, ThreadType, Consumers
<1>2. Order' = Order /\ FiniChannel' = ch
  BY DEF Order, FiniChannel
<1>3. gen[ch]["fini"] = "idle"
  BY <1>1 DEF Inv, InCall
<1>4. OpenCall(ch, "fini")
  OBVIOUS
<1> HIDE DEF ch
<1>5. /\ Moves(ch, "fini", {"get", "end"}) /\ Moves(ch, "fini", GenPoints)
      /\ expired' \in [Channels -> [Consumers -> BOOLEAN]] /\ UNCHANGED <<hand, dataVars>>
  BY <1>1, <1>4, OpenCallDoes DEF Inv, Types
<1>6. DataType' /\ GenType'
  BY <1>5 DEF Inv, Types, DataType, GenType, Moves, dataVars
<1>7. ThreadType'
  BY <1>2 DEF Inv, Types, ThreadType, loopVars, FiniPoints
<1>8. InCall'
  <2>1. \A c \in Channels : gen'[c]["loop"] = gen[c]["loop"]
    BY <1>5 DEF Moves, Consumers
  <2>2. \A c \in Channels \ {ch} : gen'[c]["fini"] = "idle"
    BY <1>5 DEF Moves, Consumers, Inv, InCall
  <2> QED
    BY <1>2, <2>1, <2>2 DEF Inv, InCall, loopVars
<1>9. JoinInv'
  BY <1>1, <1>3, <1>5, JoinIgnores DEF Moves, dataVars
<1> QED
  BY <1>6, <1>7, <1>8, <1>9 DEF Inv, Types

\* __fini does something while it has no call, and starts none.
LEMMA FiniGoesOn ==
  ASSUME Inv, fini # "report", fini' \in FiniPoints \ {"report"}, finished' \in BOOLEAN,
         UNCHANGED <<config, dataVars, genVars, loopVars, finiPos, stopSet, up>>
  PROVE  Inv'
<1>1. Order' = Order
  BY DEF Order
<1>2. DataType' /\ GenType' /\ ThreadType'
  BY <1>1 DEF Inv, Types, DataType, GenType, ThreadType, dataVars, genVars, loopVars
<1>3. InCall'
  BY DEF Inv, InCall, genVars, loopVars
<1>4. JoinInv'
  BY JoinStays DEF Inv, dataVars, genVars
<1> QED
  BY <1>2, <1>3, <1>4 DEF Inv, Types

LEMMA FiniKeeps ==
  ASSUME Inv, Stop \/ JoinReturns \/ SetFinished
  PROVE  Inv'
<1>1. stopSet \subseteq Items /\ archived \subseteq Items /\ finiPos \in DOMAIN Order /\ finished \in BOOLEAN
  BY DEF Inv, Types, ThreadType, DataType
<1>2. /\ Order \in Seq(Channels) /\ DOMAIN Order = 1 .. Len(Order) /\ 1 \in DOMAIN Order
  BY OrderIsSeq DEF Inv, Types, ThreadType
<1>3. CASE Stop
  <2>1. fini # "report" /\ fini' = "report" /\ finiPos' = 1 /\ OpenCall(Order[1], "fini")
        /\ stopSet' \subseteq Items /\ UNCHANGED <<config, loopVars, finished, up>>
    BY <1>1, <1>3 DEF Stop
  <2> QED
    BY <1>2, <2>1, FiniOpens
<1>4. CASE JoinReturns
  <2>1. CASE /\ finiPos < Len(Order) /\ finiPos' = finiPos + 1 /\ fini' = "report" /\ OpenCall(Order[finiPos + 1], "fini")
    <3>1. finiPos + 1 \in DOMAIN Order
      BY <1>1, <1>2, <2>1
    <3>2. fini # "report" /\ stopSet' \subseteq Items /\ UNCHANGED <<config, loopVars, finished, up>>
      BY <1>1, <1>4 DEF JoinReturns
    <3> QED
      BY <2>1, <3>1, <3>2, FiniOpens
  <2>2. CASE fini' = "set" /\ UNCHANGED <<finiPos, genVars, dataVars>>
    <3>1. fini # "report" /\ finished' \in BOOLEAN /\ UNCHANGED <<config, loopVars, stopSet, up>>
      BY <1>1, <1>4 DEF JoinReturns
    <3> QED
      BY <2>2, <3>1, FiniGoesOn DEF FiniPoints
  <2> QED
    BY <1>4, <2>1, <2>2 DEF JoinReturns
<1>5. CASE SetFinished
  BY <1>5, FiniGoesOn DEF SetFinished, FiniPoints
<1> QED
  BY <1>3, <1>4, <1>5

LEMMA OutageKeeps ==
  ASSUME Inv, Outage \/ UNCHANGED vars
  PROVE  Inv'
<1>1. UNCHANGED <<config, dataVars, genVars, loopVars, finiVars>> /\ up' \in BOOLEAN
  BY DEF Outage, vars, Inv, Types, ThreadType
<1>2. Order' = Order /\ FiniChannel' = FiniChannel
  BY <1>1 DEF Order, FiniChannel, finiVars
<1>3. DataType' /\ GenType' /\ ThreadType'
  BY <1>1, <1>2 DEF Inv, Types, DataType, GenType, ThreadType, dataVars, genVars, loopVars, finiVars
<1>4. InCall'
  BY <1>1, <1>2 DEF Inv, InCall, genVars, loopVars, finiVars
<1>5. JoinInv'
  BY <1>1, JoinStays DEF Inv, dataVars, genVars
<1> QED
  BY <1>3, <1>4, <1>5 DEF Inv, Types

-----------------------------------------------------------------------------
(* Theorems.                                                               *)

LEMMA InvInit == Init => Inv
<1> SUFFICES ASSUME Init PROVE Inv
  OBVIOUS
<1>1. JoinInv
  BY DEF Init, JoinInv, JoinAt, Mark, Consumers
<1> QED
  BY <1>1, TypesInit DEF Inv

LEMMA InvNext == Inv /\ [Next]_vars => Inv'
<1> SUFFICES ASSUME Inv, [Next]_vars PROVE Inv'
  OBVIOUS
<1>1. Active \subseteq Channels
  BY OrderIsSeq DEF Inv, Types, ThreadType
<1>2. CASE \E i \in Items : Archive(i) \/ AddSnapshot(i)
  BY <1>2, ArchiveKeeps
<1>3. CASE PutWakes
  <2>1. PICK i \in waiting : ~Full(Chan[i]) /\ Put(i)
    BY <1>3 DEF PutWakes
  <2>2. i \in Items
    BY DEF Inv, Types, DataType
  <2> QED
    BY <1>3, <2>1, <2>2, ArchiveKeeps
<1>4. ASSUME NEW ch \in Active, NEW k \in Consumers, CallStep(ch, k) \/ Expire(ch, k)
      PROVE  Inv'
  <2>1. ch \in Channels
    BY <1>1
  <2> QED
    BY <1>4, <2>1, GetKeeps, TaskDoneKeeps, HeadKeeps, ExpireKeeps, SendOneKeeps, CallReturnsKeeps, CallFailsKeeps
    DEF CallStep
<1>5. CASE \E ch \in Active : LoopStep(ch)
  BY <1>1, <1>5, LoopKeeps
<1>6. CASE Stop \/ JoinReturns \/ SetFinished
  BY <1>6, FiniKeeps
<1>7. CASE Outage \/ UNCHANGED vars
  BY <1>7, OutageKeeps
<1> QED
  BY <1>2, <1>3, <1>4, <1>5, <1>6, <1>7 DEF Next

LEMMA InvAlways == Spec => []Inv
<1> QED
  BY InvInit, InvNext, PTL DEF Spec

LEMMA PoppedIs ==
  ASSUME NEW ch \in Channels
  PROVE  Popped(ch) = Mark(gen[ch]["loop"]) + Mark(gen[ch]["fini"])
<1> DEFINE S == {k \in Consumers : gen[ch][k] = "got"}
<1>1. CASE gen[ch]["loop"] = "got" /\ gen[ch]["fini"] = "got"
  <2>1. S = {"loop"} \cup {"fini"}
    BY <1>1 DEF Consumers
  <2>2. Cardinality({"loop"} \cup {"fini"}) = 1 + 1
    <3>1. IsFiniteSet({"loop"}) /\ Cardinality({"loop"}) = 1 /\ "fini" \notin {"loop"}
      BY FS_Singleton
    <3>2. Cardinality({"loop"} \cup {"fini"}) = Cardinality({"loop"}) + 1
      BY <3>1, FS_AddElement
    <3> QED
      BY <3>1, <3>2
  <2> QED
    BY <1>1, <2>1, <2>2 DEF Popped, Mark
<1>2. CASE gen[ch]["loop"] = "got" /\ gen[ch]["fini"] # "got"
  <2>1. S = {"loop"} /\ Cardinality({"loop"}) = 1
    BY <1>2, FS_Singleton DEF Consumers
  <2> QED
    BY <1>2, <2>1 DEF Popped, Mark
<1>3. CASE gen[ch]["loop"] # "got" /\ gen[ch]["fini"] = "got"
  <2>1. S = {"fini"} /\ Cardinality({"fini"}) = 1
    BY <1>3, FS_Singleton DEF Consumers
  <2> QED
    BY <1>3, <2>1 DEF Popped, Mark
<1>4. CASE gen[ch]["loop"] # "got" /\ gen[ch]["fini"] # "got"
  <2>1. S = {} /\ Cardinality({}) = 0
    BY <1>4, FS_EmptySet DEF Consumers
  <2> QED
    BY <1>4, <2>1 DEF Popped, Mark
<1> QED
  BY <1>1, <1>2, <1>3, <1>4

LEMMA InvGives == Inv => TypeOK /\ JoinAccounts
<1> SUFFICES ASSUME Inv PROVE TypeOK /\ JoinAccounts
  OBVIOUS
<1>1. ASSUME NEW ch \in Channels
      PROVE  unfinished[ch] = Len(queue[ch]) + Popped(ch) /\ unfinished[ch] \in Nat
  <2> DEFINE p == Len(queue[ch])
             m == Mark(gen[ch]["loop"])
             n == Mark(gen[ch]["fini"])
             u == unfinished[ch]
             o == Popped(ch)
  <2>1. u = p + m + n
    BY DEF Inv, JoinInv, JoinAt
  <2>2. p \in Nat /\ m \in Nat /\ n \in Nat
    BY DEF Inv, Types, DataType, Mark
  <2>3. o = m + n
    BY PoppedIs
  <2> HIDE DEF p, m, n, u, o
  <2>4. u = p + o /\ u \in Nat
    BY <2>1, <2>2, <2>3
  <2> QED
    BY <2>4 DEF p, u, o
<1>2. JoinAccounts
  BY <1>1 DEF JoinAccounts
<1>3. unfinished \in [Channels -> Nat]
  BY <1>1 DEF Inv, Types, DataType
<1>4. TypeOK
  BY <1>3 DEF Inv, Types, DataType, GenType, ThreadType, TypeOK
<1> QED
  BY <1>2, <1>4

\* Every variable of the pipeline stays in its type and every queue in its size, for any items and
\* sizes of the queues, under every configuration.
THEOREM ReportTypes == Spec => []TypeOK
<1> QED
  BY InvAlways, InvGives, PTL

\* queue.join() waits for exactly what is queued or taken but not marked done, although the report
\* thread, __fini and failing calls mark items of the same queue.
THEOREM JoinCountsRight == Spec => []JoinAccounts
<1> QED
  BY InvAlways, InvGives, PTL

-----------------------------------------------------------------------------
(* The order of delivery.  Until stop() is called the report thread is the *)
(* only consumer: what it has in hand, followed by the queue, is a line of *)
(* rising items, all later than what has been delivered.                   *)

Rising(s) == \A m, n \in DOMAIN s : m < n => s[m] < s[n]

LEMMA RisingAppend ==
  ASSUME NEW s \in Seq(Nat), Rising(s), NEW x \in Nat, \A i \in ToSet(s) : i < x
  PROVE  Rising(Append(s, x))
<1>1. \A n \in DOMAIN s : s[n] < x
  BY DEF ToSet
<1> QED
  BY <1>1 DEF Rising

LEMMA RisingTail ==
  ASSUME NEW s \in Seq(Nat), Rising(s), s # <<>>
  PROVE  Rising(Tail(s))
<1>1. /\ Len(Tail(s)) = Len(s) - 1 /\ DOMAIN Tail(s) = 1 .. Len(s) - 1
      /\ \A n \in DOMAIN Tail(s) : Tail(s)[n] = s[n + 1] /\ n + 1 \in DOMAIN s
  BY HeadTailProperties
<1> QED
  BY <1>1 DEF Rising

LEMMA RisingConcat ==
  ASSUME NEW s \in Seq(Nat), NEW t \in Seq(Nat), Rising(s \o t)
  PROVE  Rising(t) /\ \A i \in ToSet(s), j \in ToSet(t) : i < j
<1>1. /\ s \o t \in Seq(Nat) /\ Len(s \o t) = Len(s) + Len(t) /\ Len(s) \in Nat /\ Len(t) \in Nat
      /\ \A n \in 1 .. Len(s) : (s \o t)[n] = s[n]
      /\ \A n \in 1 .. Len(t) : (s \o t)[Len(s) + n] = t[n]
  BY ConcatProperties
<1>2. DOMAIN (s \o t) = 1 .. Len(s) + Len(t) /\ DOMAIN s = 1 .. Len(s) /\ DOMAIN t = 1 .. Len(t)
  BY <1>1
<1>3. ASSUME NEW m \in DOMAIN t, NEW n \in DOMAIN t, m < n PROVE t[m] < t[n]
  <2>1. Len(s) + m \in DOMAIN (s \o t) /\ Len(s) + n \in DOMAIN (s \o t) /\ Len(s) + m < Len(s) + n
    BY <1>1, <1>2, <1>3
  <2> QED
    BY <1>1, <1>2, <2>1 DEF Rising
<1>4. ASSUME NEW m \in DOMAIN s, NEW n \in DOMAIN t PROVE s[m] < t[n]
  <2>1. m \in DOMAIN (s \o t) /\ Len(s) + n \in DOMAIN (s \o t) /\ m < Len(s) + n
    BY <1>1, <1>2
  <2> QED
    BY <1>1, <1>2, <2>1 DEF Rising
<1> QED
  BY <1>3, <1>4 DEF Rising, ToSet

\* Items are produced in order, and a blocked one is the latest of its channel.
Settled == archived \ waiting
ProduceInv ==
  /\ archived \subseteq config.items
  /\ waiting \subseteq archived /\ \A i \in waiting : Chan[i] = "snapshot"
  /\ \A i \in archived, j \in config.items : Chan[j] = Chan[i] /\ j < i => j \in archived
  /\ \A i \in waiting, j \in Settled : Chan[j] = Chan[i] => j < i

Line(ch) == hand[ch]["loop"] \o queue[ch]

LineAt(ch) ==
  /\ Rising(Line(ch))
  /\ \A i \in ToSet(Line(ch)) : Chan[i] = ch /\ i \in Settled
  /\ \A i \in ToSet(Line(ch)), j \in delivered : Chan[j] = ch => j < i

LineInv == fini = "running" => delivered \subseteq Settled /\ \A ch \in Channels : LineAt(ch)

LEMMA ItemsRise ==
  ASSUME config \in Configs
  PROVE  config.items \subseteq Items /\ Items \subseteq Nat
  BY ConfigsAssumption, ItemsAssumption

LEMMA NewIsLatest ==
  ASSUME Inv, ProduceInv, NEW i \in Items, Produce(i)
  PROVE  i \in config.items /\ i \notin archived /\ \A j \in archived : Chan[j] = Chan[i] => j < i
<1>1. config.items \subseteq Nat /\ i \in config.items /\ i \notin archived /\ archived \subseteq config.items
  BY ItemsRise DEF Inv, Types, ThreadType, Produce, ProduceInv
<1>2. ASSUME NEW j \in archived, Chan[j] = Chan[i] PROVE j < i
  <2>1. ~(i < j)
    BY <1>1, <1>2 DEF ProduceInv
  <2>2. i \in Nat /\ j \in Nat /\ i # j
    BY <1>1
  <2> QED
    BY <2>1, <2>2
<1> QED
  BY <1>1, <1>2

\* The three ways in which the producers' variables change.
LEMMA ProducerDoes ==
  ASSUME Inv, ProduceInv, NEW i \in Items,
         Archive(i) \/ AddSnapshot(i) \/ (PutWakes /\ waiting' = {} /\ i \in waiting /\ ~Full(Chan[i]) /\ Put(i))
  PROVE  /\ ProduceInv' /\ Settled \subseteq Settled'
         /\ UNCHANGED <<config, delivered, hand, fini>>
         /\ \/ UNCHANGED queue
            \/ /\ ~Full(Chan[i]) /\ Put(i) /\ i \in Settled'
               /\ \A j \in Settled : Chan[j] = Chan[i] => j < i
<1>1. UNCHANGED <<config, delivered, hand, fini>>
  BY DEF Archive, AddSnapshot, PutWakes, genVars, finiVars
<1>2. CASE Archive(i)
  <2>1. i \in config.items /\ i \notin archived /\ \A j \in archived : Chan[j] = Chan[i] => j < i
    BY <1>2, NewIsLatest DEF Archive
  <2>2. archived' = archived \cup {i} /\ waiting' = waiting /\ Chan[i] # "snapshot"
    BY <1>2 DEF Archive, Produce
  <2>3. /\ \A j \in config.items : Chan[j] = Chan[i] /\ j < i => j \in archived
        /\ (~Full(Chan[i]) /\ Put(i)) \/ UNCHANGED queue
    BY <1>2 DEF Archive, Produce
  <2>4. /\ archived' \subseteq config'.items /\ waiting' \subseteq archived' /\ Settled \subseteq Settled'
        /\ Settled' = Settled \cup {i} /\ \A w \in waiting' : Chan[w] = "snapshot"
    BY <1>1, <2>1, <2>2 DEF ProduceInv, Settled
  <2>5. \A k \in archived', j \in config'.items : Chan[j] = Chan[k] /\ j < k => j \in archived'
    BY <1>1, <2>2, <2>3 DEF ProduceInv
  <2>6. \A k \in waiting : Chan[k] # Chan[i]
    BY <2>2 DEF ProduceInv
  <2>7. \A k \in waiting', j \in Settled' : Chan[j] = Chan[k] => j < k
    BY <2>2, <2>4, <2>6 DEF ProduceInv
  <2>8. \A j \in Settled : Chan[j] = Chan[i] => j < i
    BY <2>1 DEF Settled
  <2>9. ProduceInv'
    BY <2>4, <2>5, <2>7 DEF ProduceInv
  <2>10. i \in Settled' /\ Settled \subseteq Settled'
    BY <2>4
  <2> QED
    BY <1>1, <2>3, <2>8, <2>9, <2>10
<1>3. CASE AddSnapshot(i)
  <2>1. i \in config.items /\ i \notin archived /\ \A j \in archived : Chan[j] = Chan[i] => j < i
    BY <1>3, NewIsLatest DEF AddSnapshot
  <2>2. archived' = archived \cup {i} /\ waiting = {}
    BY <1>3 DEF AddSnapshot, Produce
  <2>3. \A j \in config.items : Chan[j] = Chan[i] /\ j < i => j \in archived
    BY <1>3 DEF AddSnapshot, Produce
  <2>4. CASE ~Full(Chan[i]) /\ Put(i) /\ waiting' = waiting
    <3>1. /\ archived' \subseteq config'.items /\ waiting' = {} /\ Settled = archived
          /\ Settled' = archived \cup {i}
      BY <1>1, <2>1, <2>2, <2>4 DEF ProduceInv, Settled
    <3>2. \A k \in archived', j \in config'.items : Chan[j] = Chan[k] /\ j < k => j \in archived'
      BY <1>1, <2>2, <2>3 DEF ProduceInv
    <3>3. \A j \in Settled : Chan[j] = Chan[i] => j < i
      BY <2>1, <3>1
    <3>4. \A k \in waiting', j \in Settled' : Chan[j] = Chan[k] => j < k
      BY <3>1
    <3>5. ProduceInv'
      BY <3>1, <3>2, <3>4 DEF ProduceInv
    <3>6. i \in Settled' /\ Settled \subseteq Settled'
      BY <3>1
    <3> QED
      BY <1>1, <2>4, <3>3, <3>5, <3>6
  <2>5. CASE waiting' = {i} /\ queue' = queue
    <3>1. /\ archived' \subseteq config'.items /\ waiting' \subseteq archived' /\ Settled' = Settled
          /\ \A w \in waiting' : Chan[w] = "snapshot"
      BY <1>1, <1>3, <2>1, <2>2, <2>5 DEF ProduceInv, Settled, AddSnapshot
    <3>2. \A k \in archived', j \in config'.items : Chan[j] = Chan[k] /\ j < k => j \in archived'
      BY <1>1, <2>2, <2>3 DEF ProduceInv
    <3>3. \A k \in waiting', j \in Settled' : Chan[j] = Chan[k] => j < k
      BY <2>1, <2>5, <3>1 DEF Settled
    <3> QED
      BY <1>1, <2>5, <3>1, <3>2, <3>3 DEF ProduceInv
  <2> QED
    BY <1>3, <2>4, <2>5 DEF AddSnapshot
<1>4. CASE PutWakes /\ waiting' = {} /\ i \in waiting /\ ~Full(Chan[i]) /\ Put(i)
  <2>1. archived' = archived
    BY <1>4 DEF PutWakes
  <2> QED
    BY <1>1, <1>4, <2>1 DEF ProduceInv, Settled
<1> QED
  BY <1>2, <1>3, <1>4

LEMMA LineIsSeq ==
  ASSUME Inv, NEW ch \in Channels
  PROVE  /\ hand[ch]["loop"] \in Seq(Items) /\ queue[ch] \in Seq(Items)
         /\ hand[ch]["loop"] \in Seq(Nat) /\ queue[ch] \in Seq(Nat) /\ Line(ch) \in Seq(Nat)
         /\ ToSet(Line(ch)) = ToSet(hand[ch]["loop"]) \cup ToSet(queue[ch])
<1>1. hand[ch]["loop"] \in Seq(Items) /\ queue[ch] \in Seq(Items)
  BY DEF Inv, Types, DataType, GenType, Consumers
<1>2. hand[ch]["loop"] \in Seq(Nat) /\ queue[ch] \in Seq(Nat)
  BY <1>1, ItemsAssumption
<1> QED
  BY <1>1, <1>2, ElementsOfConcat, ConcatProperties DEF Line

\* An item that is put joins the end of its line.
LEMMA PutLine ==
  ASSUME Inv, LineInv, fini = "running", NEW i \in Items, ~Full(Chan[i]), Put(i),
         i \in Settled', Settled \subseteq Settled', \A j \in Settled : Chan[j] = Chan[i] => j < i,
         UNCHANGED <<delivered, hand>>
  PROVE  \A ch \in Channels : LineAt(ch)'
<1> DEFINE c == Chan[i]
<1>1. /\ c \in Channels /\ queue'[c] = Append(queue[c], i)
      /\ \A d \in Channels \ {c} : queue'[d] = queue[d]
  BY PutDoes DEF Inv, Types
<1>2. \A ch \in Channels : LineAt(ch)
  BY DEF LineInv
<1>3. delivered \subseteq Settled
  BY DEF LineInv
<1>4. ASSUME NEW ch \in Channels, ch # c PROVE LineAt(ch)'
  <2>1. Line(ch)' = Line(ch)
    BY <1>1, <1>4 DEF Line
  <2>2. LineAt(ch)
    BY <1>2
  <2> QED
    BY <2>1, <2>2 DEF LineAt
<1>5. LineAt(c)'
  <2>1. Line(c) \in Seq(Nat) /\ i \in Nat
    BY <1>1, LineIsSeq, ItemsAssumption
  <2>2. Line(c)' = Append(Line(c), i)
    <3>1. hand[c]["loop"] \in Seq(Items) /\ queue[c] \in Seq(Items)
      BY <1>1, LineIsSeq
    <3>2. hand[c]["loop"] \o Append(queue[c], i) = Append(hand[c]["loop"] \o queue[c], i)
      <4> DEFINE h == hand[c]["loop"]
                 q == queue[c]
      <4>1. h \in Seq(Items) /\ q \in Seq(Items)
        BY <3>1
      <4> HIDE DEF h, q
      <4>2. h \o Append(q, i) = Append(h \o q, i)
        BY <4>1, ConcatAppend
      <4> QED
        BY <4>2 DEF h, q
    <3>3. Line(c)' = hand[c]["loop"] \o Append(queue[c], i)
      BY <1>1 DEF Line
    <3> QED
      BY <3>2, <3>3 DEF Line
  <2>3. /\ Rising(Line(c)) /\ \A j \in ToSet(Line(c)) : Chan[j] = c /\ j \in Settled
        /\ \A j \in ToSet(Line(c)), d \in delivered : Chan[d] = c => d < j
    BY <1>1, <1>2 DEF LineAt
  <2>4. ToSet(Append(Line(c), i)) = ToSet(Line(c)) \cup {i}
    BY <2>1, ElementsOfAppend
  <2>5. Rising(Append(Line(c), i))
    <3>1. \A j \in ToSet(Line(c)) : j < i
      BY <2>3
    <3> QED
      BY <2>1, <2>3, <3>1, RisingAppend
  <2>6. \A d \in delivered : Chan[d] = c => d < i
    BY <1>3
  <2> QED
    BY <2>2, <2>3, <2>4, <2>5, <2>6 DEF LineAt
<1> QED
  BY <1>4, <1>5

\* The report thread takes the head of the queue.
LEMMA GetLine ==
  ASSUME Inv, LineInv, fini = "running", NEW ch \in Channels, Get(ch, "loop")
  PROVE  \A c \in Channels : LineAt(c)'
<1>1. /\ queue[ch] # <<>> /\ queue' = [queue EXCEPT ![ch] = Tail(queue[ch])]
      /\ hand' = [hand EXCEPT ![ch]["loop"] = Append(hand[ch]["loop"], Head(queue[ch]))]
      /\ UNCHANGED <<archived, waiting, delivered>> /\ "loop" \in Consumers
  BY DEF Get, Consumers
<1>2. ASSUME NEW c \in Channels PROVE Line(c)' = Line(c)
  <2>1. CASE c = ch
    <3>1. /\ queue'[ch] = Tail(queue[ch])
          /\ hand'[ch]["loop"] = Append(hand[ch]["loop"], Head(queue[ch]))
      BY <1>1 DEF Inv, Types, DataType, GenType
    <3>2. Append(hand[ch]["loop"], Head(queue[ch])) \o Tail(queue[ch]) = hand[ch]["loop"] \o queue[ch]
      BY <1>1, LineIsSeq, ConcatMove
    <3> QED
      BY <2>1, <3>1, <3>2 DEF Line
  <2>2. CASE c # ch
    <3>1. queue'[c] = queue[c] /\ hand'[c]["loop"] = hand[c]["loop"]
      BY <1>1, <2>2 DEF Inv, Types, DataType, GenType
    <3> QED
      BY <3>1 DEF Line
  <2> QED
    BY <2>1, <2>2
<1>3. ASSUME NEW c \in Channels PROVE LineAt(c)'
  <2>1. LineAt(c) /\ Line(c)' = Line(c) /\ Settled' = Settled
    BY <1>1, <1>2 DEF LineInv, Settled
  <2> QED
    BY <1>1, <2>1 DEF LineAt
<1> QED
  BY <1>3

\* The report thread settles what it has in hand, some of it delivered.
LEMMA SettleLine ==
  ASSUME Inv, LineInv, fini = "running", NEW ch \in Channels,
         NEW sent \in SUBSET ToSet(hand[ch]["loop"]), delivered' = delivered \cup sent,
         hand' = [hand EXCEPT ![ch]["loop"] = <<>>],
         queue' = queue \/ (queue[ch] # <<>> /\ queue' = [queue EXCEPT ![ch] = Tail(queue[ch])]),
         UNCHANGED <<archived, waiting>>
  PROVE  /\ delivered' \subseteq Settled' /\ \A c \in Channels : LineAt(c)'
         /\ \A i \in sent, j \in delivered : Chan[i] = Chan[j] => j < i
<1>1. LineAt(ch) /\ delivered \subseteq Settled /\ Settled' = Settled /\ "loop" \in Consumers
  BY DEF LineInv, Settled, Consumers
<1>2. /\ hand[ch]["loop"] \in Seq(Nat) /\ queue[ch] \in Seq(Nat)
      /\ ToSet(Line(ch)) = ToSet(hand[ch]["loop"]) \cup ToSet(queue[ch])
  BY LineIsSeq
<1>3. Rising(queue[ch]) /\ \A i \in ToSet(hand[ch]["loop"]), j \in ToSet(queue[ch]) : i < j
  BY <1>1, <1>2, RisingConcat DEF LineAt, Line
<1>4. \A i \in sent : Chan[i] = ch /\ i \in Settled
  BY <1>1, <1>2 DEF LineAt
<1>5. Rising(queue'[ch]) /\ ToSet(queue'[ch]) \subseteq ToSet(queue[ch]) /\ queue'[ch] \in Seq(Nat)
  <2>1. CASE queue' = queue
    BY <1>2, <1>3, <2>1
  <2>2. CASE queue[ch] # <<>> /\ queue' = [queue EXCEPT ![ch] = Tail(queue[ch])]
    <3>1. queue'[ch] = Tail(queue[ch])
      BY <2>2 DEF Inv, Types, DataType
    <3>2. Tail(queue[ch]) \in Seq(Nat) /\ ToSet(Tail(queue[ch])) \subseteq ToSet(queue[ch])
      BY <1>2, <2>2, ElementsOfTail, HeadTailProperties
    <3> QED
      BY <1>2, <1>3, <2>2, <3>1, <3>2, RisingTail
  <2> QED
    BY <2>1, <2>2
<1>6. LineAt(ch)'
  <2>1. Line(ch)' = queue'[ch]
    <3>1. hand'[ch]["loop"] = <<>>
      BY <1>1 DEF Inv, Types, GenType
    <3> QED
      BY <1>5, <3>1, ConcatEmptySeq DEF Line
  <2>2. \A i \in ToSet(queue'[ch]) : Chan[i] = ch /\ i \in Settled
    BY <1>1, <1>2, <1>5 DEF LineAt
  <2>3. \A i \in ToSet(queue'[ch]), j \in delivered' : Chan[j] = ch => j < i
    BY <1>1, <1>2, <1>3, <1>5 DEF LineAt
  <2> QED
    BY <1>1, <1>5, <2>1, <2>2, <2>3 DEF LineAt
<1>7. ASSUME NEW c \in Channels, c # ch PROVE LineAt(c)'
  <2>1. queue'[c] = queue[c] /\ hand'[c]["loop"] = hand[c]["loop"]
    BY <1>1, <1>7 DEF Inv, Types, DataType, GenType
  <2>2. LineAt(c) /\ Line(c)' = Line(c)
    BY <2>1 DEF LineInv, Line
  <2>3. \A j \in delivered' : Chan[j] = c => j \in delivered
    BY <1>4, <1>7
  <2> QED
    BY <1>1, <2>2, <2>3 DEF LineAt
<1>8. \A i \in sent, j \in delivered : Chan[i] = Chan[j] => j < i
  BY <1>1, <1>2, <1>4 DEF LineAt
<1> QED
  BY <1>1, <1>4, <1>6, <1>7, <1>8

OrderInv == ProduceInv /\ LineInv

InOrder == fini = "running" => \A i \in delivered' \ delivered, j \in delivered : Chan[i] = Chan[j] => j < i

LEMMA OrderInit == Init => OrderInv
<1> SUFFICES ASSUME Init PROVE OrderInv
  OBVIOUS
<1>1. ProduceInv
  BY DEF Init, ProduceInv, Settled
<1>2. ASSUME NEW ch \in Channels PROVE LineAt(ch)
  <2>1. Line(ch) = <<>>
    BY DEF Init, Line, Consumers
  <2>2. DOMAIN <<>> = {} /\ ToSet(<<>>) = {}
    BY DEF ToSet
  <2> QED
    BY <2>1, <2>2 DEF LineAt, Rising
<1> QED
  BY <1>1, <1>2 DEF OrderInv, LineInv, Init

LEMMA OrderProducers ==
  ASSUME Inv, OrderInv, NEW i \in Items,
         Archive(i) \/ AddSnapshot(i) \/ (PutWakes /\ waiting' = {} /\ i \in waiting /\ ~Full(Chan[i]) /\ Put(i))
  PROVE  OrderInv' /\ InOrder
<1>1. /\ ProduceInv' /\ Settled \subseteq Settled'
      /\ UNCHANGED <<config, delivered, hand, fini>>
      /\ \/ UNCHANGED queue
         \/ /\ ~Full(Chan[i]) /\ Put(i) /\ i \in Settled'
            /\ \A j \in Settled : Chan[j] = Chan[i] => j < i
  BY ProducerDoes DEF OrderInv
<1>2. ASSUME fini = "running" PROVE \A ch \in Channels : LineAt(ch)'
  <2>1. CASE UNCHANGED queue
    <3>1. ASSUME NEW ch \in Channels PROVE LineAt(ch)'
      <4>1. Line(ch)' = Line(ch)
        BY <1>1, <2>1 DEF Line
      <4>2. LineAt(ch)
        BY <1>2 DEF OrderInv, LineInv
      <4> QED
        BY <1>1, <4>1, <4>2 DEF LineAt
    <3> QED
      BY <3>1
  <2>2. CASE ~Full(Chan[i]) /\ Put(i) /\ i \in Settled' /\ \A j \in Settled : Chan[j] = Chan[i] => j < i
    BY <1>1, <1>2, <2>2, PutLine DEF OrderInv
  <2> QED
    BY <1>1, <2>1, <2>2
<1>3. LineInv'
  BY <1>1, <1>2 DEF OrderInv, LineInv
<1> QED
  BY <1>1, <1>3 DEF OrderInv, InOrder

\* Steps that move no item, and do not make __fini anew.
LEMMA OrderStays ==
  ASSUME OrderInv, UNCHANGED <<config, archived, waiting, delivered>>,
         fini' = "running" => fini = "running" /\ UNCHANGED <<hand, queue>>
  PROVE  OrderInv' /\ InOrder
<1>1. ProduceInv' /\ Settled' = Settled
  BY DEF OrderInv, ProduceInv, Settled
<1>2. ASSUME fini' = "running", NEW ch \in Channels PROVE LineAt(ch)'
  <2>1. LineAt(ch) /\ Line(ch)' = Line(ch)
    BY <1>2 DEF OrderInv, LineInv, Line
  <2> QED
    BY <1>1, <2>1 DEF LineAt
<1>3. LineInv'
  BY <1>1, <1>2 DEF OrderInv, LineInv
<1> QED
  BY <1>1, <1>3 DEF OrderInv, InOrder

\* What a call that ends does with what it has in hand.
LEMMA EndSettles ==
  ASSUME Inv, NEW ch \in Channels, NEW k \in Consumers, CallReturns(ch, k) \/ CallFails(ch, k) \/ SendOne(ch, k)
  PROVE  /\ gen[ch][k] # "idle" /\ UNCHANGED <<config, archived, waiting>>
         /\ hand' = [hand EXCEPT ![ch][k] = <<>>]
         /\ \E sent \in SUBSET ToSet(hand[ch][k]) : delivered' = delivered \cup sent
         /\ queue' = queue \/ (queue[ch] # <<>> /\ queue' = [queue EXCEPT ![ch] = Tail(queue[ch])])
         /\ k = "loop" => fini' = fini
         /\ k = "fini" => fini = "report" /\ fini' # "running"
<1>1. /\ gen[ch][k] # "idle" /\ UNCHANGED <<config, archived, waiting, up>>
      /\ hand' = [hand EXCEPT ![ch][k] = <<>>]
  BY DEF CallReturns, CallFails, CloseCall, SendOne, FailPoint
<1>2. /\ \E sent \in SUBSET ToSet(hand[ch][k]) : delivered' = delivered \cup sent
      /\ queue' = queue \/ (queue[ch] # <<>> /\ queue' = [queue EXCEPT ![ch] = Tail(queue[ch])])
  <2>1. CASE CallReturns(ch, k) \/ SendOne(ch, k)
    BY <2>1 DEF CallReturns, SendOne
  <2>2. CASE CallFails(ch, k)
    <3>1. PICK n \in 0 .. Len(hand[ch][k]) :
            /\ delivered' = delivered \cup {hand[ch][k][m] : m \in 1 .. n}
            /\ \/ UNCHANGED queue
               \/ TakesOneMore(ch, k) /\ queue' = [queue EXCEPT ![ch] = Tail(queue[ch])]
      BY <2>2 DEF CallFails
    <3>2. {hand[ch][k][m] : m \in 1 .. n} \subseteq ToSet(hand[ch][k])
      <4>1. hand[ch][k] \in Seq(Items)
        BY HandInItems DEF Inv, Types
      <4>2. \A m \in 1 .. n : m \in DOMAIN hand[ch][k]
        BY <4>1
      <4> QED
        BY <4>2 DEF ToSet
    <3> QED
      BY <3>1, <3>2 DEF TakesOneMore
  <2> QED
    BY <2>1, <2>2
<1>3. k = "fini" => fini = "report"
  BY <1>1 DEF Inv, InCall
<1>4. (AfterReturn(ch, k) \/ AfterRaise(ch, k)) \/ UNCHANGED fini
  BY DEF CallReturns, CallFails, SendOne, finiVars
<1>5. /\ k = "loop" => fini' = fini
      /\ k = "fini" => fini' # "running"
  <2>1. CASE AfterReturn(ch, k) \/ AfterRaise(ch, k)
    BY <1>1, <2>1, AfterDoes DEF Inv, Types
  <2>2. CASE UNCHANGED fini
    BY <1>3, <2>2
  <2> QED
    BY <1>4, <2>1, <2>2
<1> QED
  BY <1>1, <1>2, <1>3, <1>5

LEMMA OrderCalls ==
  ASSUME Inv, OrderInv, NEW ch \in Channels, NEW k \in Consumers, CallStep(ch, k) \/ Expire(ch, k)
  PROVE  OrderInv' /\ InOrder
<1>1. CASE TaskDone(ch, k) \/ GenHead(ch, k) \/ GetEmpty(ch, k) \/ Expire(ch, k)
  <2>1. UNCHANGED <<config, archived, waiting, delivered, hand, queue, fini>>
    BY <1>1 DEF TaskDone, GenHead, GetEmpty, Expire, dataVars, finiVars
  <2> QED
    BY <2>1, OrderStays
<1>2. CASE Get(ch, k)
  <2>1. UNCHANGED <<config, archived, waiting, delivered, fini>> /\ gen[ch][k] # "idle"
    BY <1>2 DEF Get, finiVars
  <2>2. CASE fini # "running"
    BY <2>1, <2>2, OrderStays
  <2>3. CASE fini = "running"
    <3>1. k = "loop"
      BY <2>1, <2>3 DEF Inv, InCall, Consumers
    <3>2. \A c \in Channels : LineAt(c)'
      BY <1>2, <2>3, <3>1, GetLine DEF OrderInv
    <3>3. ProduceInv' /\ Settled' = Settled
      BY <2>1 DEF OrderInv, ProduceInv, Settled
    <3> QED
      BY <2>1, <3>2, <3>3 DEF OrderInv, LineInv, InOrder
  <2> QED
    BY <2>2, <2>3
<1>3. CASE CallReturns(ch, k) \/ CallFails(ch, k) \/ SendOne(ch, k)
  <2>1. /\ gen[ch][k] # "idle" /\ UNCHANGED <<config, archived, waiting>>
        /\ hand' = [hand EXCEPT ![ch][k] = <<>>]
        /\ \E sent \in SUBSET ToSet(hand[ch][k]) : delivered' = delivered \cup sent
        /\ queue' = queue \/ (queue[ch] # <<>> /\ queue' = [queue EXCEPT ![ch] = Tail(queue[ch])])
        /\ k = "loop" => fini' = fini
        /\ k = "fini" => fini = "report" /\ fini' # "running"
    BY <1>3, EndSettles
  <2>2. ProduceInv'
    BY <2>1 DEF OrderInv, ProduceInv, Settled
  <2>3. CASE fini # "running"
    <3>1. fini' # "running"
      BY <2>1, <2>3 DEF Consumers
    <3> QED
      BY <2>2, <2>3, <3>1 DEF OrderInv, LineInv, InOrder
  <2>4. CASE fini = "running"
    <3>1. k = "loop"
      BY <2>1, <2>4 DEF Consumers
    <3>2. PICK sent \in SUBSET ToSet(hand[ch]["loop"]) : delivered' = delivered \cup sent
      BY <2>1, <3>1
    <3>3. /\ delivered' \subseteq Settled' /\ \A c \in Channels : LineAt(c)'
          /\ \A i \in sent, j \in delivered : Chan[i] = Chan[j] => j < i
      BY <2>1, <2>4, <3>1, <3>2, SettleLine DEF OrderInv
    <3> QED
      BY <2>2, <3>2, <3>3 DEF OrderInv, LineInv, InOrder
  <2> QED
    BY <2>3, <2>4
<1> QED
  BY <1>1, <1>2, <1>3 DEF CallStep

LEMMA OrderNext == Inv /\ OrderInv /\ [Next]_vars => OrderInv' /\ InOrder
<1> SUFFICES ASSUME Inv, OrderInv, [Next]_vars PROVE OrderInv' /\ InOrder
  OBVIOUS
<1>1. CASE \E i \in Items : Archive(i) \/ AddSnapshot(i)
  BY <1>1, OrderProducers
<1>2. CASE PutWakes
  <2>1. PICK i \in waiting : ~Full(Chan[i]) /\ Put(i)
    BY <1>2 DEF PutWakes
  <2>2. i \in Items /\ waiting' = {}
    BY <1>2 DEF Inv, Types, DataType, PutWakes
  <2> QED
    BY <1>2, <2>1, <2>2, OrderProducers
<1>3. CASE \E ch \in Active, k \in Consumers : CallStep(ch, k) \/ Expire(ch, k)
  <2>1. Active \subseteq Channels
    BY OrderIsSeq DEF Inv, Types, ThreadType
  <2> QED
    BY <1>3, <2>1, OrderCalls
<1>4. CASE \/ \E ch \in Active : LoopStep(ch)
           \/ Stop \/ JoinReturns \/ SetFinished \/ Outage \/ UNCHANGED vars
  <2>1. UNCHANGED <<config, archived, waiting, delivered>>
    BY <1>4 DEF LoopStep, LoopCall, LoopAgain, LoopExit, Stop, JoinReturns, SetFinished, Outage, OpenCall, dataVars, vars
  <2>2. fini' = "running" => fini = "running" /\ UNCHANGED <<hand, queue>>
    BY <1>4 DEF LoopStep, LoopCall, LoopAgain, LoopExit, Stop, JoinReturns, SetFinished, Outage, OpenCall, dataVars,
                genVars, finiVars, vars
  <2> QED
    BY <2>1, <2>2, OrderStays
<1> QED
  BY <1>1, <1>2, <1>3, <1>4 DEF Next

\* Until stop() is called a channel is delivered in the order of production, for any items, sizes of
\* the queues, outages and ways of failing of the calls.
THEOREM DeliversInOrder == Spec => DeliveredInOrder
<1>1. OrderInv /\ Inv /\ [Next]_vars => [InOrder]_vars
  BY OrderNext
<1>2. Spec => [](OrderInv /\ Inv)
  BY OrderInit, OrderNext, InvInit, InvNext, PTL DEF Spec
<1>3. [](OrderInv /\ Inv) /\ [][Next]_vars => [][InOrder]_vars
  BY <1>1, PTL
<1> QED
  BY <1>2, <1>3, PTL DEF Spec, DeliveredInOrder, InOrder

-----------------------------------------------------------------------------
(* The refinement.  Every item is in one spot, a spot is one of the places *)
(* of Pipeline with the hands of the two consumers told apart, and a step  *)
(* takes it along one of the ways between them, or leaves it where it is.  *)

Spots == {"new", "blocked", "refused", "queued", "loop", "fini", "delivered", "lost"}

Ways ==
  {<<"new", "blocked">>, <<"new", "refused">>, <<"new", "queued">>, <<"blocked", "queued">>,
   <<"queued", "loop">>, <<"queued", "fini">>, <<"queued", "lost">>, <<"loop", "delivered">>,
   <<"loop", "lost">>, <<"fini", "delivered">>, <<"fini", "lost">>}

Queued(i)  == i \in ToSet(queue[Chan[i]])
Held(i, k) == i \in ToSet(hand[Chan[i]][k])

At(i, p) ==
  /\ i \in archived <=> p # "new"
  /\ i \in waiting <=> p = "blocked"
  /\ i \in abandoned <=> p = "refused"
  /\ Queued(i) <=> p = "queued"
  /\ Held(i, "loop") <=> p = "loop"
  /\ Held(i, "fini") <=> p = "fini"
  /\ i \in delivered <=> p = "delivered"
  /\ i \in lost <=> p = "lost"

\* A queue, or what a consumer has in hand, holds items of its own channel, each once.
Proper(ch, s) == IsInjective(s) /\ \A i \in ToSet(s) : Chan[i] = ch
Own ==
  /\ \A ch \in Channels : Proper(ch, queue[ch])
  /\ \A ch \in Channels, k \in Consumers : Proper(ch, hand[ch][k])
OneWaits == \A i, j \in waiting : i = j

PlaceInv == Own /\ OneWaits /\ \A i \in Items : \E p \in Spots : At(i, p)

Goes(i) == \E p, q \in Spots : At(i, p) /\ At(i, q)' /\ (p = q \/ <<p, q>> \in Ways)
Step    == Own' /\ OneWaits' /\ \A i \in Items : Goes(i)

LEMMA StepKeepsPlaces == Step => PlaceInv'
<1> SUFFICES ASSUME Step PROVE PlaceInv'
  OBVIOUS
<1>1. \A i \in Items : \E q \in Spots : At(i, q)'
  BY DEF Step, Goes
<1> QED
  BY <1>1 DEF Step, PlaceInv

LEMMA PlaceInit == Init => PlaceInv
<1> SUFFICES ASSUME Init PROVE PlaceInv
  OBVIOUS
<1>1. IsInjective(<<>>) /\ ToSet(<<>>) = {}
  BY DEF IsInjective, ToSet
<1>2. /\ \A ch \in Channels : queue[ch] = <<>> /\ \A k \in Consumers : hand[ch][k] = <<>>
      /\ archived = {} /\ waiting = {} /\ abandoned = {} /\ delivered = {} /\ lost = {}
  BY DEF Init
<1>3. Own /\ OneWaits
  BY <1>1, <1>2 DEF Own, OneWaits, Proper
<1>4. ASSUME NEW i \in Items PROVE At(i, "new")
  <2>1. Chan[i] \in Channels
    BY ItemsAssumption
  <2>2. ~Queued(i) /\ ~Held(i, "loop") /\ ~Held(i, "fini")
    BY <1>1, <1>2, <2>1 DEF Queued, Held, Consumers
  <2> QED
    BY <1>2, <2>2 DEF At
<1>5. "new" \in Spots
  BY DEF Spots
<1> QED
  BY <1>3, <1>4, <1>5 DEF PlaceInv

\* Steps that leave the items where they are.
LEMMA ItemsStay ==
  ASSUME PlaceInv, UNCHANGED <<queue, hand, archived, waiting, abandoned, delivered, lost>>
  PROVE  Step
<1>1. Own' /\ OneWaits'
  BY DEF PlaceInv, Own, OneWaits
<1>2. ASSUME NEW i \in Items PROVE Goes(i)
  <2>1. PICK p \in Spots : At(i, p)
    BY DEF PlaceInv
  <2>2. At(i, p)'
    BY <2>1 DEF At, Queued, Held
  <2> QED
    BY <2>1, <2>2 DEF Goes
<1> QED
  BY <1>1, <1>2 DEF Step

\* One item goes, the others stay.
LEMMA OneGoes ==
  ASSUME PlaceInv, NEW i \in Items, NEW p \in Spots, NEW q \in Spots, At(i, p), At(i, q)', <<p, q>> \in Ways,
         \A j \in Items \ {i} :
           /\ (j \in archived') = (j \in archived) /\ (j \in waiting') = (j \in waiting)
           /\ (j \in abandoned') = (j \in abandoned) /\ (j \in delivered') = (j \in delivered)
           /\ (j \in lost') = (j \in lost) /\ Queued(j)' = Queued(j)
           /\ Held(j, "loop")' = Held(j, "loop") /\ Held(j, "fini")' = Held(j, "fini"),
         Own', OneWaits'
  PROVE  Step
<1>1. Goes(i)
  BY DEF Goes
<1>2. ASSUME NEW j \in Items \ {i} PROVE Goes(j)
  <2>1. PICK r \in Spots : At(j, r)
    BY DEF PlaceInv
  <2>2. At(j, r)'
    BY <2>1 DEF At
  <2> QED
    BY <2>1, <2>2 DEF Goes
<1> QED
  BY <1>1, <1>2 DEF Step

\* put() appends an item that is in no queue yet.
LEMMA PutGoes ==
  ASSUME Inv, PlaceInv, NEW i \in Items, ~Full(Chan[i]), Put(i), ~Queued(i), hand' = hand
  PROVE  /\ Own' /\ Queued(i)'
         /\ \A j \in Items \ {i} : Queued(j)' = Queued(j)
         /\ \A j \in Items, k \in Consumers : Held(j, k)' = Held(j, k)
<1> DEFINE c == Chan[i]
<1>1. /\ c \in Channels /\ queue'[c] = Append(queue[c], i) /\ \A d \in Channels \ {c} : queue'[d] = queue[d]
      /\ queue[c] \in Seq(Items)
  BY PutDoes DEF Inv, Types, DataType
<1>2. ToSet(queue'[c]) = ToSet(queue[c]) \cup {i}
  BY <1>1, ElementsOfAppend
<1>3. Proper(c, queue[c])
  BY <1>1 DEF PlaceInv, Own
<1>4. IsInjective(queue'[c])
  <2>1. IsInjective(queue[c]) /\ i \notin ToSet(queue[c])
    BY <1>3 DEF Proper, Queued
  <2> QED
    BY <1>1, <2>1, InjectiveAppend
<1>5. Proper(c, queue'[c])
  BY <1>2, <1>3, <1>4 DEF Proper
<1>6. \A d \in Channels : Proper(d, queue'[d])
  BY <1>1, <1>5 DEF PlaceInv, Own
<1>7. Own'
  BY <1>6 DEF PlaceInv, Own, Proper
<1>8. ASSUME NEW j \in Items \ {i} PROVE Queued(j)' = Queued(j)
  <2>1. Chan[j] \in Channels
    BY ItemsAssumption
  <2>2. CASE Chan[j] = c
    BY <1>2, <2>2 DEF Queued
  <2>3. CASE Chan[j] # c
    BY <1>1, <2>1, <2>3 DEF Queued
  <2> QED
    BY <2>2, <2>3
<1>9. Queued(i)'
  BY <1>2 DEF Queued
<1> QED
  BY <1>7, <1>8, <1>9 DEF Held

LEMMA ProducerGoes ==
  ASSUME Inv, PlaceInv, NEW i \in Items, Archive(i) \/ AddSnapshot(i)
  PROVE  Step
<1>1. /\ i \notin archived /\ archived' = archived \cup {i} /\ UNCHANGED <<delivered, lost, hand>>
  BY DEF Archive, AddSnapshot, Produce, genVars
<1>2. PICK p \in Spots : At(i, p)
  BY DEF PlaceInv
<1>3. At(i, "new") /\ "new" \in Spots
  <2>1. p = "new"
    BY <1>1, <1>2 DEF At
  <2> QED
    BY <1>2, <2>1
<1>4. CASE ~Full(Chan[i]) /\ Put(i) /\ UNCHANGED <<abandoned, waiting>>
  <2>1. ~Queued(i)
    BY <1>3 DEF At
  <2>2. /\ Own' /\ Queued(i)'
        /\ \A j \in Items \ {i} : Queued(j)' = Queued(j)
        /\ \A j \in Items, k \in Consumers : Held(j, k)' = Held(j, k)
    BY <1>1, <1>4, <2>1, PutGoes
  <2>3. /\ Held(i, "loop")' = Held(i, "loop") /\ Held(i, "fini")' = Held(i, "fini")
        /\ \A j \in Items : Held(j, "loop")' = Held(j, "loop") /\ Held(j, "fini")' = Held(j, "fini")
    BY <2>2 DEF Consumers
  <2>4. At(i, "queued")' /\ "queued" \in Spots /\ <<"new", "queued">> \in Ways
    BY <1>1, <1>3, <1>4, <2>2, <2>3 DEF At, Spots, Ways
  <2>5. OneWaits'
    BY <1>4 DEF PlaceInv, OneWaits
  <2> QED
    BY <1>1, <1>3, <1>4, <2>2, <2>3, <2>4, <2>5, OneGoes
<1>5. ASSUME UNCHANGED queue, \/ abandoned' = abandoned \cup {i} /\ waiting' = waiting
                              \/ waiting = {} /\ waiting' = {i} /\ abandoned' = abandoned
      PROVE  Step
  <2>1. Own'
    BY <1>1, <1>5 DEF PlaceInv, Own, Proper
  <2>2. OneWaits'
    BY <1>5 DEF PlaceInv, OneWaits
  <2>3. \A j \in Items : Queued(j)' = Queued(j) /\ Held(j, "loop")' = Held(j, "loop") /\ Held(j, "fini")' = Held(j, "fini")
    BY <1>1, <1>5 DEF Queued, Held
  <2>4. CASE abandoned' = abandoned \cup {i} /\ waiting' = waiting
    <3>1. At(i, "refused")' /\ "refused" \in Spots /\ <<"new", "refused">> \in Ways
      BY <1>1, <1>3, <2>3, <2>4 DEF At, Spots, Ways
    <3> QED
      BY <1>1, <1>3, <2>1, <2>2, <2>3, <2>4, <3>1, OneGoes
  <2>5. CASE waiting = {} /\ waiting' = {i} /\ abandoned' = abandoned
    <3>1. At(i, "blocked")' /\ "blocked" \in Spots /\ <<"new", "blocked">> \in Ways
      BY <1>1, <1>3, <2>3, <2>5 DEF At, Spots, Ways
    <3> QED
      BY <1>1, <1>3, <2>1, <2>2, <2>3, <2>5, <3>1, OneGoes
  <2> QED
    BY <1>5, <2>4, <2>5
<1> QED
  BY <1>4, <1>5 DEF Archive, AddSnapshot

LEMMA WakeGoes ==
  ASSUME Inv, PlaceInv, PutWakes
  PROVE  Step
<1>1. PICK i \in waiting : ~Full(Chan[i]) /\ Put(i)
  BY DEF PutWakes
<1>2. waiting = {i} /\ waiting' = {} /\ i \in Items /\ UNCHANGED <<archived, abandoned, delivered, lost, hand>>
  BY <1>1 DEF PutWakes, genVars, PlaceInv, OneWaits, Inv, Types, DataType
<1>3. PICK p \in Spots : At(i, p)
  BY <1>2 DEF PlaceInv
<1>4. At(i, "blocked") /\ "blocked" \in Spots /\ ~Queued(i)
  BY <1>1, <1>3 DEF At
<1>5. /\ Own' /\ Queued(i)'
      /\ \A j \in Items \ {i} : Queued(j)' = Queued(j)
      /\ \A j \in Items, k \in Consumers : Held(j, k)' = Held(j, k)
  BY <1>1, <1>2, <1>4, PutGoes
<1>6. \A j \in Items : Held(j, "loop")' = Held(j, "loop") /\ Held(j, "fini")' = Held(j, "fini")
  BY <1>5 DEF Consumers
<1>7. At(i, "queued")' /\ "queued" \in Spots /\ <<"blocked", "queued">> \in Ways
  BY <1>2, <1>4, <1>5, <1>6 DEF At, Spots, Ways
<1>8. OneWaits'
  BY <1>2 DEF OneWaits
<1> QED
  BY <1>2, <1>4, <1>5, <1>6, <1>7, <1>8, OneGoes

-----------------------------------------------------------------------------
\* What a queue is without its head.
LEMMA HeadLeaves ==
  ASSUME Inv, PlaceInv, NEW ch \in Channels, NEW x \in Items, queue[ch] # <<>>, x = Head(queue[ch]),
         queue' = [queue EXCEPT ![ch] = Tail(queue[ch])]
  PROVE  /\ Chan[x] = ch /\ Queued(x) /\ ~Queued(x)'
         /\ \A j \in Items \ {x} : Queued(j)' = Queued(j)
         /\ \A c \in Channels : Proper(c, queue'[c])
<1>1. /\ queue[ch] \in Seq(Items)
      /\ queue'[ch] = Tail(queue[ch]) /\ \A c \in Channels \ {ch} : queue'[c] = queue[c]
  BY TakeHead DEF Inv, Types, DataType
<1>2. ToSet(queue[ch]) = {x} \cup ToSet(queue'[ch])
  BY <1>1, ElementsOfTail
<1>3. Proper(ch, queue[ch])
  BY DEF PlaceInv, Own
<1>4. IsInjective(queue'[ch]) /\ x \notin ToSet(queue'[ch])
  BY <1>1, <1>3, InjectiveTail DEF Proper
<1>5. Chan[x] = ch /\ Proper(ch, queue'[ch])
  BY <1>2, <1>3, <1>4 DEF Proper
<1>6. \A c \in Channels : Proper(c, queue'[c])
  BY <1>1, <1>5 DEF PlaceInv, Own
<1>7. Queued(x) /\ ~Queued(x)'
  BY <1>2, <1>4, <1>5 DEF Queued
<1>8. ASSUME NEW j \in Items \ {x} PROVE Queued(j)' = Queued(j)
  <2>1. Chan[j] \in Channels
    BY ItemsAssumption
  <2>2. CASE Chan[j] = ch
    BY <1>2, <2>2 DEF Queued
  <2>3. CASE Chan[j] # ch
    BY <1>1, <2>1, <2>3 DEF Queued
  <2> QED
    BY <2>2, <2>3
<1> QED
  BY <1>1, <1>5, <1>6, <1>7, <1>8

LEMMA GetGoes ==
  ASSUME Inv, PlaceInv, NEW ch \in Channels, NEW k \in Consumers, Get(ch, k)
  PROVE  Step
<1>1. PICK x \in Items : x = Head(queue[ch])
  BY TakeHead DEF Get, Inv, Types
<1>2. /\ queue[ch] # <<>> /\ queue' = [queue EXCEPT ![ch] = Tail(queue[ch])]
      /\ hand' = [hand EXCEPT ![ch][k] = Append(hand[ch][k], x)]
      /\ UNCHANGED <<archived, waiting, abandoned, delivered, lost>>
  BY <1>1 DEF Get
<1>3. /\ x \in Items /\ Chan[x] = ch /\ Queued(x) /\ ~Queued(x)'
      /\ \A j \in Items \ {x} : Queued(j)' = Queued(j)
      /\ \A c \in Channels : Proper(c, queue'[c])
  BY <1>1, <1>2, HeadLeaves
<1>4. PICK p \in Spots : At(x, p)
  BY <1>3 DEF PlaceInv
<1>5. At(x, "queued") /\ "queued" \in Spots /\ ~Held(x, k)
  BY <1>3, <1>4 DEF At, Consumers
<1>6. hand[ch][k] \in Seq(Items) /\ Append(hand[ch][k], x) \in Seq(Items)
  BY <1>3, HandInItems DEF Inv, Types
<1>7. Holds(ch, k, Append(hand[ch][k], x))
  BY <1>2, <1>6, HandHolds DEF Inv, Types
<1>8. /\ hand'[ch][k] = Append(hand[ch][k], x)
      /\ \A c \in Channels, j \in Consumers : c # ch \/ j # k => hand'[c][j] = hand[c][j]
  BY <1>7 DEF Holds
<1>9. ToSet(hand'[ch][k]) = ToSet(hand[ch][k]) \cup {x}
  BY <1>3, <1>6, <1>8, ElementsOfAppend
<1>10. Proper(ch, hand'[ch][k])
  <2>1. Proper(ch, hand[ch][k]) /\ x \notin ToSet(hand[ch][k])
    BY <1>3, <1>5 DEF PlaceInv, Own, Held
  <2>2. IsInjective(hand'[ch][k])
    BY <1>3, <1>6, <1>8, <2>1, InjectiveAppend DEF Proper
  <2> QED
    BY <1>3, <1>9, <2>1, <2>2 DEF Proper
<1>11. \A c \in Channels, j \in Consumers : Proper(c, hand'[c][j])
  BY <1>8, <1>10 DEF PlaceInv, Own
<1>12. Own' /\ OneWaits'
  BY <1>2, <1>3, <1>11 DEF PlaceInv, Own, OneWaits, Proper
<1>13. ASSUME NEW i \in Items, NEW j \in Consumers, i # x \/ j # k PROVE Held(i, j)' = Held(i, j)
  <2>1. Chan[i] \in Channels
    BY ItemsAssumption
  <2>2. CASE Chan[i] = ch /\ j = k
    BY <1>9, <1>13, <2>2 DEF Held
  <2>3. CASE Chan[i] # ch \/ j # k
    BY <1>8, <2>1, <2>3 DEF Held
  <2> QED
    BY <2>2, <2>3
<1>14. Held(x, k)' /\ \A j \in Consumers \ {k} : Held(x, j)' = Held(x, j)
  BY <1>3, <1>9, <1>13 DEF Held
<1>15. At(x, k)' /\ k \in Spots /\ <<"queued", k>> \in Ways
  <2>1. CASE k = "loop"
    <3>1. Held(x, "loop")' /\ Held(x, "fini")' = Held(x, "fini")
      BY <1>14, <2>1 DEF Consumers
    <3> QED
      BY <1>2, <1>3, <1>5, <2>1, <3>1 DEF At, Spots, Ways
  <2>2. CASE k = "fini"
    <3>1. Held(x, "fini")' /\ Held(x, "loop")' = Held(x, "loop")
      BY <1>14, <2>2 DEF Consumers
    <3> QED
      BY <1>2, <1>3, <1>5, <2>2, <3>1 DEF At, Spots, Ways
  <2> QED
    BY <2>1, <2>2 DEF Consumers
<1>16. \A j \in Items \ {x} : Held(j, "loop")' = Held(j, "loop") /\ Held(j, "fini")' = Held(j, "fini")
  BY <1>13 DEF Consumers
<1> QED
  BY <1>2, <1>3, <1>5, <1>12, <1>15, <1>16, OneGoes

\* What a consumer has in hand is settled, some of it delivered; the head of the queue may be lost too.
LEMMA SettleGoes ==
  ASSUME Inv, PlaceInv, NEW ch \in Channels, NEW k \in Consumers, NEW sent \in SUBSET ToSet(hand[ch][k]),
         NEW dropped \in SUBSET Items,
         \/ dropped = {} /\ queue' = queue
         \/ queue[ch] # <<>> /\ dropped = {Head(queue[ch])} /\ queue' = [queue EXCEPT ![ch] = Tail(queue[ch])],
         hand' = [hand EXCEPT ![ch][k] = <<>>], delivered' = delivered \cup sent,
         lost' = lost \cup (ToSet(hand[ch][k]) \ sent) \cup dropped,
         UNCHANGED <<archived, waiting, abandoned>>
  PROVE  Step
<1>1. /\ hand'[ch][k] = <<>>
      /\ \A c \in Channels, j \in Consumers : c # ch \/ j # k => hand'[c][j] = hand[c][j]
  BY HandEmpties DEF Holds, Inv, Types
<1>2. IsInjective(<<>>) /\ ToSet(<<>>) = {}
  BY DEF IsInjective, ToSet
<1>3. Proper(ch, hand[ch][k])
  BY DEF PlaceInv, Own
<1>4. /\ \A c \in Channels : Proper(c, queue'[c])
      /\ \A i \in dropped : Chan[i] = ch /\ Queued(i) /\ ~Queued(i)'
      /\ \A i \in Items \ dropped : Queued(i)' = Queued(i)
  <2>1. CASE dropped = {} /\ queue' = queue
    BY <2>1 DEF PlaceInv, Own, Queued
  <2>2. CASE queue[ch] # <<>> /\ dropped = {Head(queue[ch])} /\ queue' = [queue EXCEPT ![ch] = Tail(queue[ch])]
    <3>1. PICK x \in Items : x = Head(queue[ch])
      BY <2>2
    <3> QED
      BY <2>2, <3>1, HeadLeaves
  <2> QED
    BY <2>1, <2>2
<1>5. ASSUME NEW c \in Channels, NEW j \in Consumers PROVE Proper(c, hand'[c][j])
  <2>1. CASE c = ch /\ j = k
    BY <1>1, <1>2, <2>1 DEF Proper
  <2>2. CASE c # ch \/ j # k
    BY <1>1, <2>2 DEF PlaceInv, Own
  <2> QED
    BY <2>1, <2>2
<1>6. Own' /\ OneWaits'
  BY <1>4, <1>5 DEF PlaceInv, Own, OneWaits, Proper
<1>7. ASSUME NEW i \in Items, NEW j \in Consumers
      PROVE  Held(i, j)' <=> Held(i, j) /\ ~(Chan[i] = ch /\ j = k)
  <2>1. Chan[i] \in Channels
    BY ItemsAssumption
  <2>2. CASE Chan[i] = ch /\ j = k
    BY <1>1, <1>2, <2>2 DEF Held
  <2>3. CASE Chan[i] # ch \/ j # k
    BY <1>1, <2>1, <2>3 DEF Held
  <2> QED
    BY <2>2, <2>3
<1>8. \A i \in Items : i \in ToSet(hand[ch][k]) <=> Chan[i] = ch /\ Held(i, k)
  BY <1>3 DEF Proper, Held
<1>9. ASSUME NEW i \in Items PROVE Goes(i)
  <2>1. PICK p \in Spots : At(i, p)
    BY DEF PlaceInv
  <2>2. CASE i \in ToSet(hand[ch][k])
    <3>1. p = k /\ k \in Spots
      BY <1>8, <2>1, <2>2 DEF At, Consumers, Spots
    <3>2. i \notin dropped
      <4>1. ~Queued(i)
        BY <2>1, <3>1 DEF At, Consumers
      <4> QED
        BY <1>4, <4>1
    <3>3. Queued(i)' = Queued(i) /\ ~Held(i, "loop")' /\ ~Held(i, "fini")'
      BY <1>4, <1>7, <1>8, <2>1, <2>2, <3>1, <3>2 DEF At, Consumers
    <3>4. CASE i \in sent
      <4>1. At(i, "delivered")' /\ "delivered" \in Spots /\ <<k, "delivered">> \in Ways
        BY <2>1, <3>1, <3>2, <3>3, <3>4 DEF At, Consumers, Spots, Ways
      <4> QED
        BY <2>1, <3>1, <4>1 DEF Goes
    <3>5. CASE i \notin sent
      <4>1. At(i, "lost")' /\ "lost" \in Spots /\ <<k, "lost">> \in Ways
        BY <2>1, <2>2, <3>1, <3>2, <3>3, <3>5 DEF At, Consumers, Spots, Ways
      <4> QED
        BY <2>1, <3>1, <4>1 DEF Goes
    <3> QED
      BY <3>4, <3>5
  <2>3. CASE i \in dropped
    <3>1. p = "queued"
      BY <1>4, <2>1, <2>3 DEF At
    <3>2. ~Held(i, "loop")' /\ ~Held(i, "fini")' /\ ~Queued(i)' /\ i \notin sent
      BY <1>4, <1>7, <1>8, <2>1, <2>3, <3>1 DEF At, Consumers
    <3>3. At(i, "lost")' /\ "lost" \in Spots /\ <<"queued", "lost">> \in Ways
      BY <2>1, <2>3, <3>1, <3>2 DEF At, Spots, Ways
    <3> QED
      BY <2>1, <3>1, <3>3 DEF Goes
  <2>4. CASE i \notin ToSet(hand[ch][k]) /\ i \notin dropped
    <3>1. \A j \in Consumers : Held(i, j)' <=> Held(i, j)
      BY <1>7, <1>8, <2>4
    <3>2. (Held(i, "loop")' <=> Held(i, "loop")) /\ (Held(i, "fini")' <=> Held(i, "fini"))
      BY <3>1 DEF Consumers
    <3>3. Queued(i)' = Queued(i)
      BY <1>4, <2>4
    <3>4. At(i, p)'
      BY <2>1, <2>4, <3>2, <3>3 DEF At
    <3> QED
      BY <2>1, <3>4 DEF Goes
  <2> QED
    BY <2>2, <2>3, <2>4
<1> QED
  BY <1>6, <1>9 DEF Step

LEMMA CallGoes ==
  ASSUME Inv, PlaceInv, NEW ch \in Channels, NEW k \in Consumers, CallStep(ch, k) \/ Expire(ch, k)
  PROVE  Step
<1>1. CASE TaskDone(ch, k) \/ GenHead(ch, k) \/ GetEmpty(ch, k) \/ Expire(ch, k)
  <2>1. UNCHANGED <<queue, hand, archived, waiting, abandoned, delivered, lost>>
    BY <1>1 DEF TaskDone, GenHead, GetEmpty, Expire, dataVars
  <2> QED
    BY <2>1, ItemsStay
<1>2. CASE SendOne(ch, k) \/ CallReturns(ch, k)
  <2>1. /\ hand' = [hand EXCEPT ![ch][k] = <<>>] /\ delivered' = delivered \cup ToSet(hand[ch][k])
        /\ UNCHANGED <<queue, archived, waiting, abandoned, lost>>
    BY <1>2 DEF SendOne, CallReturns, CloseCall
  <2>2. PICK sent \in SUBSET ToSet(hand[ch][k]), dropped \in SUBSET Items : sent = ToSet(hand[ch][k]) /\ dropped = {}
    OBVIOUS
  <2>3. lost' = lost \cup (ToSet(hand[ch][k]) \ sent) \cup dropped
    BY <2>1, <2>2
  <2> QED
    BY <2>1, <2>2, <2>3, SettleGoes
<1>3. CASE CallFails(ch, k)
  <2>1. hand' = [hand EXCEPT ![ch][k] = <<>>] /\ UNCHANGED <<archived, waiting, abandoned>>
    BY <1>3 DEF CallFails, CloseCall
  <2>2. PICK n \in 0 .. Len(hand[ch][k]) :
          LET sent == {hand[ch][k][m] : m \in 1 .. n}
              rest == ToSet(hand[ch][k]) \ sent
          IN  /\ delivered' = delivered \cup sent
              /\ \/ lost' = lost \cup rest /\ UNCHANGED <<queue, unfinished>>
                 \/ /\ TakesOneMore(ch, k)
                    /\ lost' = lost \cup rest \cup {Head(queue[ch])}
                    /\ queue' = [queue EXCEPT ![ch] = Tail(queue[ch])]
                    /\ unfinished' = [unfinished EXCEPT ![ch] = unfinished[ch] - 1]
    BY <1>3 DEF CallFails
  <2>3. {hand[ch][k][m] : m \in 1 .. n} \in SUBSET ToSet(hand[ch][k])
    <3>1. hand[ch][k] \in Seq(Items)
      BY HandInItems DEF Inv, Types
    <3>2. \A m \in 1 .. n : m \in DOMAIN hand[ch][k]
      BY <3>1
    <3> QED
      BY <3>2 DEF ToSet
  <2>4. PICK sent \in SUBSET ToSet(hand[ch][k]) :
          /\ delivered' = delivered \cup sent
          /\ \/ lost' = lost \cup (ToSet(hand[ch][k]) \ sent) /\ UNCHANGED queue
             \/ /\ queue[ch] # <<>>
                /\ lost' = lost \cup (ToSet(hand[ch][k]) \ sent) \cup {Head(queue[ch])}
                /\ queue' = [queue EXCEPT ![ch] = Tail(queue[ch])]
    BY <2>2, <2>3 DEF TakesOneMore
  <2>5. CASE lost' = lost \cup (ToSet(hand[ch][k]) \ sent) /\ UNCHANGED queue
    <3>1. PICK dropped \in SUBSET Items : dropped = {}
      OBVIOUS
    <3>2. lost' = lost \cup (ToSet(hand[ch][k]) \ sent) \cup dropped
      BY <2>5, <3>1
    <3> QED
      BY <2>1, <2>4, <2>5, <3>1, <3>2, SettleGoes
  <2>6. CASE /\ queue[ch] # <<>>
             /\ lost' = lost \cup (ToSet(hand[ch][k]) \ sent) \cup {Head(queue[ch])}
             /\ queue' = [queue EXCEPT ![ch] = Tail(queue[ch])]
    <3>1. {Head(queue[ch])} \in SUBSET Items
      BY <2>6, TakeHead DEF Inv, Types
    <3> QED
      BY <2>1, <2>4, <2>6, <3>1, SettleGoes
  <2> QED
    BY <2>4, <2>5, <2>6
<1> QED
  BY <1>1, <1>2, <1>3, GetGoes DEF CallStep

LEMMA PlaceNext == Inv /\ PlaceInv /\ [Next]_vars => Step
<1> SUFFICES ASSUME Inv, PlaceInv, [Next]_vars PROVE Step
  OBVIOUS
<1>1. CASE \E i \in Items : Archive(i) \/ AddSnapshot(i)
  BY <1>1, ProducerGoes
<1>2. CASE PutWakes
  BY <1>2, WakeGoes
<1>3. CASE \E ch \in Active, k \in Consumers : CallStep(ch, k) \/ Expire(ch, k)
  <2>1. Active \subseteq Channels
    BY OrderIsSeq DEF Inv, Types, ThreadType
  <2> QED
    BY <1>3, <2>1, CallGoes
<1>4. CASE \/ \E ch \in Active : LoopStep(ch)
           \/ Stop \/ JoinReturns \/ SetFinished \/ Outage \/ UNCHANGED vars
  <2>1. UNCHANGED <<queue, hand, archived, waiting, abandoned, delivered, lost>>
    BY <1>4 DEF LoopStep, LoopCall, LoopAgain, LoopExit, Stop, JoinReturns, SetFinished, Outage, OpenCall, dataVars,
                genVars, vars
  <2> QED
    BY <2>1, ItemsStay
<1> QED
  BY <1>1, <1>2, <1>3, <1>4 DEF Next

LEMMA PlacesKept == Inv /\ PlaceInv /\ [Next]_vars => PlaceInv'
  BY PlaceNext, StepKeepsPlaces

-----------------------------------------------------------------------------
(* What stop() has seen to: queues before the one it works on hold nothing *)
(* that was accepted before it was called.                                 *)

Drained(n) == fini = "set" \/ n < finiPos
DrainInv ==
  /\ stopSet \subseteq archived \ waiting
  /\ \A i \in archived : Chan[i] \in Active
  /\ fini \in {"report", "join", "set"} =>
       \A i \in stopSet, n \in DOMAIN Order : Order[n] = Chan[i] /\ Drained(n) => ~Queued(i)

LEMMA DrainInit == Init => DrainInv
  BY DEF Init, DrainInv

\* Nothing accepted is put into a queue again.
LEMMA SettledStays ==
  ASSUME Step, NEW i \in Items, i \in archived \ waiting
  PROVE  i \in archived' \ waiting' /\ (~Queued(i) => ~Queued(i)')
<1>1. PICK p \in Spots, q \in Spots : At(i, p) /\ At(i, q)' /\ (p = q \/ <<p, q>> \in Ways)
  BY DEF Step, Goes
<1>2. p \notin {"new", "blocked"}
  BY <1>1 DEF At
<1>3. q \notin {"new", "blocked"} /\ (p # "queued" => q # "queued")
  BY <1>1, <1>2 DEF Ways
<1> QED
  BY <1>1, <1>3 DEF At

\* Steps that are not of __fini.
LEMMA DrainStays ==
  ASSUME Inv, DrainInv, Step, UNCHANGED <<config, finiPos, stopSet>>,
         \A i \in archived' \ archived : Chan[i] \in Active,
         fini' \in {"report", "join", "set"} => fini \in {"report", "join", "set"},
         fini' = "set" => fini = "set"
  PROVE  DrainInv'
<1>1. Active' = Active /\ Order' = Order
  BY DEF Active, Order
<1>2. stopSet \subseteq Items
  BY DEF Inv, Types, ThreadType
<1>3. stopSet' \subseteq archived' \ waiting' /\ \A i \in stopSet : ~Queued(i) => ~Queued(i)'
  BY <1>2, SettledStays DEF DrainInv
<1>4. \A i \in archived' : Chan[i] \in Active
  BY DEF DrainInv
<1>5. ASSUME fini' \in {"report", "join", "set"}, NEW i \in stopSet, NEW n \in DOMAIN Order,
             Order[n] = Chan[i], Drained(n)'
      PROVE  ~Queued(i)'
  <2>1. Drained(n)
    BY <1>5 DEF Drained
  <2> QED
    BY <1>3, <1>5, <2>1 DEF DrainInv
<1> QED
  BY <1>1, <1>3, <1>4, <1>5 DEF DrainInv

\* When join() returns, the queue it waited for is empty.
LEMMA JoinedIsEmpty ==
  ASSUME Inv, JoinReturns
  PROVE  queue[FiniChannel] = <<>>
<1>1. FiniChannel \in Channels
  BY OrderIsSeq DEF Inv, Types, ThreadType, FiniChannel
<1> DEFINE ch == FiniChannel
           u == unfinished[ch]
           p == Len(queue[ch])
           m == Mark(gen[ch]["loop"])
           n == Mark(gen[ch]["fini"])
<1>2. u = 0 /\ u = p + m + n
  BY <1>1 DEF JoinReturns, Inv, JoinInv, JoinAt
<1>3. queue[ch] \in Seq(Items)
  BY <1>1 DEF Inv, Types, DataType
<1>4. p \in Nat /\ m \in Nat /\ n \in Nat
  BY <1>3 DEF Mark
<1> HIDE DEF u, m, n
<1>5. p = 0
  BY <1>2, <1>4
<1> QED
  BY <1>3, <1>5

LEMMA DrainFini ==
  ASSUME Inv, PlaceInv, DrainInv, Stop \/ JoinReturns \/ SetFinished
  PROVE  DrainInv'
<1>1. UNCHANGED <<config, archived, waiting, queue>> /\ Active' = Active /\ Order' = Order
  BY DEF Stop, JoinReturns, SetFinished, OpenCall, dataVars, Active, Order
<1>2. \A i : Queued(i)' = Queued(i)
  BY <1>1 DEF Queued
<1>3. /\ Order \in Seq(Channels) /\ DOMAIN Order = 1 .. Len(Order) /\ Len(Order) \in Nat
      /\ finiPos \in DOMAIN Order
  BY OrderIsSeq DEF Inv, Types, ThreadType
<1>4. CASE Stop
  <2>1. stopSet' = archived \ waiting /\ fini' = "report" /\ finiPos' = 1
    BY <1>4 DEF Stop
  <2>2. \A n \in DOMAIN Order : ~Drained(n)'
    BY <1>3, <2>1 DEF Drained
  <2> QED
    BY <1>1, <2>1, <2>2 DEF DrainInv
<1>5. CASE JoinReturns
  <2>1. fini = "join" /\ stopSet' = stopSet
    BY <1>5 DEF JoinReturns
  <2>2. ASSUME NEW n \in DOMAIN Order, Drained(n)' PROVE Drained(n) \/ n = finiPos
    BY <1>3, <1>5, <2>1, <2>2 DEF JoinReturns, Drained
  <2>3. ASSUME NEW i \in stopSet, Order[finiPos] = Chan[i] PROVE ~Queued(i)
    <3>1. queue[Chan[i]] = <<>>
      BY <1>5, <2>3, JoinedIsEmpty DEF FiniChannel
    <3> QED
      BY <3>1 DEF Queued, ToSet
  <2>4. ASSUME NEW i \in stopSet, NEW n \in DOMAIN Order, Order[n] = Chan[i], Drained(n)' PROVE ~Queued(i)
    BY <2>1, <2>2, <2>3, <2>4 DEF DrainInv
  <2> QED
    BY <1>1, <1>2, <2>1, <2>4 DEF DrainInv
<1>6. CASE SetFinished
  BY <1>1, <1>6 DEF SetFinished, DrainInv
<1> QED
  BY <1>4, <1>5, <1>6

LEMMA DrainNext == Inv /\ PlaceInv /\ DrainInv /\ [Next]_vars => DrainInv'
<1> SUFFICES ASSUME Inv, PlaceInv, DrainInv, [Next]_vars PROVE DrainInv'
  OBVIOUS
<1>1. Step
  BY PlaceNext
<1>2. CASE \E i \in Items : Archive(i) \/ AddSnapshot(i)
  <2>1. PICK i \in Items : Archive(i) \/ AddSnapshot(i)
    BY <1>2
  <2>2. /\ UNCHANGED <<config, finiPos, stopSet, fini>>
        /\ archived' = archived \cup {i} /\ Chan[i] \in Active
    BY <2>1 DEF Archive, AddSnapshot, Produce, finiVars
  <2> QED
    BY <1>1, <2>2, DrainStays
<1>3. CASE PutWakes \/ Outage \/ UNCHANGED vars \/ \E ch \in Active : LoopStep(ch)
  <2>1. UNCHANGED <<config, finiPos, stopSet, fini, archived>>
    BY <1>3 DEF PutWakes, Outage, vars, LoopStep, LoopCall, LoopAgain, LoopExit, OpenCall, finiVars, dataVars
  <2> QED
    BY <1>1, <2>1, DrainStays
<1>4. ASSUME NEW ch \in Active, NEW k \in Consumers, CallStep(ch, k) \/ Expire(ch, k)
      PROVE  DrainInv'
  <2>1. ch \in Channels
    BY OrderIsSeq DEF Inv, Types, ThreadType
  <2>2. CASE Get(ch, k) \/ TaskDone(ch, k) \/ GenHead(ch, k) \/ GetEmpty(ch, k) \/ SendOne(ch, k) \/ Expire(ch, k)
    <3>1. UNCHANGED <<config, finiPos, stopSet, fini, archived>>
      BY <2>2 DEF Get, TaskDone, GenHead, GetEmpty, SendOne, Expire, finiVars, dataVars
    <3> QED
      BY <1>1, <3>1, DrainStays
  <2>3. CASE CallReturns(ch, k) \/ CallFails(ch, k)
    <3>1. /\ gen[ch][k] # "idle" /\ UNCHANGED <<config, up, archived>>
          /\ AfterReturn(ch, k) \/ AfterRaise(ch, k)
      BY <2>3 DEF CallReturns, CallFails, FailPoint
    <3>2. /\ UNCHANGED <<finiPos, stopSet>>
          /\ k = "loop" => fini' = fini
          /\ k = "fini" => fini' \in {"join", "failed"}
      BY <2>1, <3>1, AfterDoes DEF Inv, Types
    <3>3. k = "fini" => fini = "report"
      BY <2>1, <3>1 DEF Inv, InCall
    <3> QED
      BY <1>1, <3>1, <3>2, <3>3, DrainStays DEF Consumers
  <2> QED
    BY <1>4, <2>2, <2>3 DEF CallStep
<1>5. CASE Stop \/ JoinReturns \/ SetFinished
  BY <1>5, DrainFini
<1> QED
  BY <1>2, <1>3, <1>4, <1>5 DEF Next

-----------------------------------------------------------------------------
(* What Pipeline sees of a state.                                          *)

PlaceOf(p) == IF p \in {"loop", "fini"} THEN "taken" ELSE p
Seen(i)    == IF i \in archived THEN Copies(i) ELSE Nowhere
Phase      == CASE fini \in {"running", "failed"} -> "running"
                [] fini \in {"report", "join", "set"} -> "stopping"
                [] fini = "done" -> "stopped"

LEMMA TimesIs ==
  ASSUME NEW s \in Seq(Items), IsInjective(s), NEW i
  PROVE  Times(i, s) = Bit(i \in ToSet(s))
<1> DEFINE D == {n \in DOMAIN s : s[n] = i}
<1>1. CASE i \in ToSet(s)
  <2>1. PICK n \in DOMAIN s : s[n] = i
    BY <1>1 DEF ToSet
  <2>2. D = {n}
    BY <2>1 DEF IsInjective
  <2> QED
    BY <1>1, <2>2, FS_Singleton DEF Times, Bit
<1>2. CASE i \notin ToSet(s)
  <2>1. D = {}
    BY <1>2 DEF ToSet
  <2> QED
    BY <1>2, <2>1, FS_EmptySet DEF Times, Bit
<1> QED
  BY <1>1, <1>2

LEMMA PlacesOfPipeline ==
  /\ Promise!Places = {"blocked", "refused", "queued", "taken", "delivered", "lost"}
  /\ \A p \in Promise!Places \cup {"new"} : Promise!At[p] = [q \in Promise!Places |-> IF q = p THEN 1 ELSE 0]
  BY DEF Promise!Places, Promise!At

LEMMA PlacesDiffer ==
  ASSUME NEW p \in Promise!Places \cup {"new"}, NEW q \in Promise!Places \cup {"new"}, p # q
  PROVE  Promise!At[p] # Promise!At[q]
<1>1. PICK r \in Promise!Places : (r = p) # (r = q)
  BY PlacesOfPipeline
<1>2. Promise!At[p][r] # Promise!At[q][r]
  BY <1>1, PlacesOfPipeline
<1> QED
  BY <1>2

\* A record of copies with a single one.
LEMMA OneCopy ==
  ASSUME NEW p \in Promise!Places \cup {"new"}, NEW r,
         r = [blocked |-> Bit(p = "blocked"), refused |-> Bit(p = "refused"), queued |-> Bit(p = "queued"),
              taken |-> Bit(p = "taken"), delivered |-> Bit(p = "delivered"), lost |-> Bit(p = "lost")]
  PROVE  r = Promise!At[p]
<1>1. r = [q \in Promise!Places |-> IF q = p THEN 1 ELSE 0]
  BY PlacesOfPipeline DEF Bit
<1> QED
  BY <1>1, PlacesOfPipeline

SeenRight == \A i \in Items, p \in Spots : At(i, p) => Seen(i) = Promise!At[PlaceOf(p)]

LEMMA SeenIsRight == Types /\ Own => SeenRight
<1> SUFFICES ASSUME Types, Own, NEW i \in Items, NEW p \in Spots, At(i, p)
             PROVE  Seen(i) = Promise!At[PlaceOf(p)]
  BY DEF SeenRight
<1>1. Chan[i] \in Channels
  BY ItemsAssumption
<1>2. PlaceOf(p) \in Promise!Places \cup {"new"}
  BY PlacesOfPipeline DEF PlaceOf, Spots
<1>3. CASE p = "new"
  <2>1. Seen(i) = Nowhere
    BY <1>3 DEF At, Seen
  <2>2. Nowhere = Promise!At["new"]
    <3>1. /\ "new" \in Promise!Places \cup {"new"}
          /\ Nowhere = [blocked |-> Bit("new" = "blocked"), refused |-> Bit("new" = "refused"),
                        queued |-> Bit("new" = "queued"), taken |-> Bit("new" = "taken"),
                        delivered |-> Bit("new" = "delivered"), lost |-> Bit("new" = "lost")]
      BY DEF Nowhere, Bit
    <3> QED
      BY <3>1, OneCopy
  <2> QED
    BY <1>3, <2>1, <2>2 DEF PlaceOf
<1>4. CASE p # "new"
  <2>1. Seen(i) = Copies(i)
    BY <1>4 DEF At, Seen
  <2>2. Times(i, queue[Chan[i]]) = Bit(p = "queued")
    <3>1. queue[Chan[i]] \in Seq(Items) /\ IsInjective(queue[Chan[i]])
      BY <1>1 DEF Types, DataType, Own, Proper
    <3>2. Times(i, queue[Chan[i]]) = Bit(i \in ToSet(queue[Chan[i]]))
      BY <3>1, TimesIs
    <3>3. i \in ToSet(queue[Chan[i]]) <=> p = "queued"
      BY DEF At, Queued
    <3> QED
      BY <3>2, <3>3 DEF Bit
  <2>3. ASSUME NEW k \in Consumers PROVE Times(i, hand[Chan[i]][k]) = Bit(p = k)
    <3>1. hand[Chan[i]][k] \in Seq(Items) /\ IsInjective(hand[Chan[i]][k])
      BY <1>1 DEF Types, GenType, Own, Proper
    <3>2. Times(i, hand[Chan[i]][k]) = Bit(i \in ToSet(hand[Chan[i]][k]))
      BY <3>1, TimesIs
    <3>3. i \in ToSet(hand[Chan[i]][k]) <=> p = k
      BY DEF At, Held, Consumers
    <3> QED
      BY <3>2, <3>3 DEF Bit
  <2>4. Times(i, hand[Chan[i]]["loop"]) + Times(i, hand[Chan[i]]["fini"]) = Bit(PlaceOf(p) = "taken")
    <3>1. Times(i, hand[Chan[i]]["loop"]) = Bit(p = "loop") /\ Times(i, hand[Chan[i]]["fini"]) = Bit(p = "fini")
      BY <2>3 DEF Consumers
    <3>2. Bit(p = "loop") + Bit(p = "fini") = Bit(PlaceOf(p) = "taken")
      BY DEF Bit, PlaceOf, Spots
    <3> QED
      BY <3>1, <3>2
  <2>5. /\ Bit(i \in waiting) = Bit(PlaceOf(p) = "blocked") /\ Bit(i \in abandoned) = Bit(PlaceOf(p) = "refused")
        /\ Bit(p = "queued") = Bit(PlaceOf(p) = "queued")
        /\ Bit(i \in delivered) = Bit(PlaceOf(p) = "delivered") /\ Bit(i \in lost) = Bit(PlaceOf(p) = "lost")
    BY DEF At, Bit, PlaceOf
  <2> QED
    BY <1>2, <2>1, <2>2, <2>4, <2>5, OneCopy DEF Copies
<1> QED
  BY <1>3, <1>4

-----------------------------------------------------------------------------
(* Every step of the threads is one of Pipeline.                           *)

LEMMA StepMovesOn ==
  ASSUME Step, SeenRight, SeenRight'
  PROVE  Promise!MoveOn
<1>1. ASSUME NEW i \in Items
      PROVE  \/ Seen(i)' = Seen(i)
             \/ \E m \in Promise!Moves : Seen(i) = Promise!At[m[1]] /\ Seen(i)' = Promise!At[m[2]]
  <2>1. PICK p \in Spots, q \in Spots : At(i, p) /\ At(i, q)' /\ (p = q \/ <<p, q>> \in Ways)
    BY DEF Step, Goes
  <2>2. Seen(i) = Promise!At[PlaceOf(p)] /\ Seen(i)' = Promise!At[PlaceOf(q)]
    BY <2>1 DEF SeenRight
  <2>3. CASE p = q
    BY <2>2, <2>3
  <2>4. CASE <<p, q>> \in Ways
    <3>1. <<PlaceOf(p), PlaceOf(q)>> \in Promise!Moves
      BY <2>4 DEF Ways, PlaceOf, Promise!Moves
    <3> QED
      BY <2>2, <3>1
  <2> QED
    BY <2>1, <2>3, <2>4
<1> QED
  BY <1>1 DEF Promise!MoveOn, Seen

LEMMA WorkStep ==
  ASSUME Step, SeenRight, SeenRight', Phase' = Phase, UNCHANGED stopSet
  PROVE  Promise!Work
<1>1. Promise!MoveOn
  BY StepMovesOn
<1> QED
  BY <1>1 DEF Promise!Work, Phase

LEMMA SameSeen ==
  ASSUME UNCHANGED <<queue, hand, archived, waiting, abandoned, delivered, lost>>, NEW i \in Items
  PROVE  Seen(i)' = Seen(i)
  BY DEF Seen, Copies, Times, Bit, Nowhere

LEMMA StopStep ==
  ASSUME Inv, PlaceInv, SeenRight, Stop
  PROVE  Promise!Stop
<1>1. /\ UNCHANGED <<queue, hand, archived, waiting, abandoned, delivered, lost>>
      /\ fini \in {"running", "failed"} /\ fini' = "report" /\ stopSet' = archived \ waiting
  BY DEF Stop, OpenCall, dataVars
<1>2. Phase = "running" /\ Phase' = "stopping"
  BY <1>1 DEF Phase
<1>3. \A i \in Items : Seen(i)' = Seen(i)
  BY <1>1, SameSeen
<1>4. archived \ waiting = {i \in Items : Seen(i) \notin {Promise!At["new"], Promise!At["blocked"]}}
  <2>1. archived \subseteq Items
    BY DEF Inv, Types, DataType
  <2>2. ASSUME NEW i \in Items
        PROVE  i \in archived \ waiting <=> Seen(i) \notin {Promise!At["new"], Promise!At["blocked"]}
    <3>1. PICK p \in Spots : At(i, p)
      BY DEF PlaceInv
    <3>2. Seen(i) = Promise!At[PlaceOf(p)] /\ PlaceOf(p) \in Promise!Places \cup {"new"}
      BY <3>1, PlacesOfPipeline DEF SeenRight, PlaceOf, Spots
    <3>3. /\ PlaceOf(p) = "new" <=> p = "new"
          /\ PlaceOf(p) = "blocked" <=> p = "blocked"
      BY DEF PlaceOf
    <3>4. "new" \in Promise!Places \cup {"new"} /\ "blocked" \in Promise!Places \cup {"new"}
      BY PlacesOfPipeline
    <3>5. Seen(i) \in {Promise!At["new"], Promise!At["blocked"]} <=> p \in {"new", "blocked"}
      BY <3>2, <3>3, <3>4, PlacesDiffer
    <3>6. i \in archived \ waiting <=> p \notin {"new", "blocked"}
      BY <3>1 DEF At
    <3> QED
      BY <3>5, <3>6
  <2> QED
    BY <2>1, <2>2
<1> QED
  BY <1>1, <1>2, <1>3, <1>4 DEF Promise!Stop, Promise!Accepted, Seen, Phase

LEMMA FailStep ==
  ASSUME Step, SeenRight, SeenRight', fini = "report", fini' = "failed", UNCHANGED stopSet
  PROVE  Promise!StopFails
<1>1. Promise!MoveOn
  BY StepMovesOn
<1>2. Phase = "stopping" /\ Phase' = "running"
  BY DEF Phase
<1> QED
  BY <1>1, <1>2 DEF Promise!StopFails, Phase

LEMMA EndStep ==
  ASSUME Inv, PlaceInv, DrainInv, SeenRight, SetFinished
  PROVE  Promise!StopEnds
<1>1. /\ UNCHANGED <<queue, hand, archived, waiting, abandoned, delivered, lost, stopSet>>
      /\ fini = "set" /\ fini' = "done"
  BY DEF SetFinished, dataVars, genVars
<1>2. Phase = "stopping" /\ Phase' = "stopped"
  BY <1>1 DEF Phase
<1>3. \A i \in Items : Seen(i)' = Seen(i)
  BY <1>1, SameSeen
<1>4. ASSUME NEW i \in stopSet PROVE i \in Items /\ Seen(i) # Promise!At["queued"]
  <2>1. i \in Items /\ Chan[i] \in Active
    BY DEF Inv, Types, ThreadType, DrainInv
  <2>2. PICK n \in DOMAIN Order : Order[n] = Chan[i]
    BY <2>1 DEF Active
  <2>3. ~Queued(i)
    BY <1>1, <2>2 DEF DrainInv, Drained
  <2>4. PICK p \in Spots : At(i, p)
    BY <2>1 DEF PlaceInv
  <2>5. /\ Seen(i) = Promise!At[PlaceOf(p)] /\ PlaceOf(p) \in Promise!Places \cup {"new"}
        /\ PlaceOf(p) # "queued" /\ "queued" \in Promise!Places \cup {"new"}
    BY <2>1, <2>3, <2>4, PlacesOfPipeline DEF SeenRight, PlaceOf, Spots, At
  <2> QED
    BY <2>1, <2>5, PlacesDiffer
<1> QED
  BY <1>1, <1>2, <1>3, <1>4 DEF Promise!StopEnds, Seen, Phase

Refines == Inv /\ PlaceInv /\ DrainInv /\ SeenRight

LEMMA RefineNext == Refines /\ SeenRight' /\ [Next]_vars => [Promise!Next]_Promise!pipeline
<1> SUFFICES ASSUME Refines, SeenRight', [Next]_vars PROVE Promise!Next
  OBVIOUS
<1>1. Step
  BY PlaceNext DEF Refines
<1>2. CASE \/ \E i \in Items : Archive(i) \/ AddSnapshot(i)
           \/ PutWakes \/ Outage \/ UNCHANGED vars
           \/ \E ch \in Active : LoopStep(ch)
  <2>1. UNCHANGED <<fini, stopSet>>
    BY <1>2 DEF Archive, AddSnapshot, PutWakes, Outage, vars, LoopStep, LoopCall, LoopAgain, LoopExit, finiVars
  <2>2. Phase' = Phase
    BY <2>1 DEF Phase
  <2> QED
    BY <1>1, <2>1, <2>2, WorkStep DEF Refines, Promise!Next
<1>3. ASSUME NEW ch \in Active, NEW k \in Consumers, CallStep(ch, k) \/ Expire(ch, k)
      PROVE  Promise!Next
  <2>1. ch \in Channels
    BY OrderIsSeq DEF Refines, Inv, Types, ThreadType
  <2>2. CASE Get(ch, k) \/ TaskDone(ch, k) \/ GenHead(ch, k) \/ GetEmpty(ch, k) \/ SendOne(ch, k) \/ Expire(ch, k)
    <3>1. UNCHANGED <<fini, stopSet>>
      BY <2>2 DEF Get, TaskDone, GenHead, GetEmpty, SendOne, Expire, finiVars
    <3>2. Phase' = Phase
      BY <3>1 DEF Phase
    <3> QED
      BY <1>1, <3>1, <3>2, WorkStep DEF Refines, Promise!Next
  <2>3. CASE CallReturns(ch, k) \/ CallFails(ch, k)
    <3>1. /\ gen[ch][k] # "idle" /\ UNCHANGED <<config, up>>
          /\ AfterReturn(ch, k) \/ AfterRaise(ch, k)
      BY <2>3 DEF CallReturns, CallFails, FailPoint
    <3>2. /\ UNCHANGED stopSet
          /\ k = "loop" => fini' = fini
          /\ k = "fini" => fini' \in {"join", "failed"}
      BY <2>1, <3>1, AfterDoes DEF Refines, Inv, Types
    <3>3. k = "fini" => fini = "report"
      BY <2>1, <3>1 DEF Refines, Inv, InCall
    <3>4. CASE fini = "report" /\ fini' = "failed"
      BY <1>1, <3>2, <3>4, FailStep DEF Refines, Promise!Next
    <3>5. CASE fini' = fini \/ (fini = "report" /\ fini' = "join")
      <4>1. Phase' = Phase
        BY <3>5 DEF Phase
      <4> QED
        BY <1>1, <3>2, <4>1, WorkStep DEF Refines, Promise!Next
    <3> QED
      BY <3>2, <3>3, <3>4, <3>5 DEF Consumers
  <2> QED
    BY <1>3, <2>2, <2>3 DEF CallStep
<1>4. CASE Stop
  BY <1>4, StopStep DEF Refines, Promise!Next
<1>5. CASE JoinReturns
  <2>1. UNCHANGED stopSet /\ fini = "join" /\ fini' \in {"report", "set"}
    BY <1>5 DEF JoinReturns
  <2>2. Phase' = Phase
    BY <2>1 DEF Phase
  <2> QED
    BY <1>1, <2>1, <2>2, WorkStep DEF Refines, Promise!Next
<1>6. CASE SetFinished
  BY <1>6, EndStep DEF Refines, Promise!Next
<1> QED
  BY <1>2, <1>3, <1>4, <1>5, <1>6 DEF Next

LEMMA RefineInit == Init => Promise!Init
<1> SUFFICES ASSUME Init PROVE Promise!Init
  OBVIOUS
<1>1. SeenRight /\ fini = "running" /\ stopSet = {} /\ archived = {}
  BY PlaceInit, TypesInit, SeenIsRight DEF Init, PlaceInv
<1>2. ASSUME NEW i \in Items PROVE Seen(i) = Promise!At["new"]
  <2>1. PICK p \in Spots : At(i, p)
    BY PlaceInit DEF PlaceInv
  <2>2. p = "new"
    BY <1>1, <2>1 DEF At
  <2> QED
    BY <1>1, <2>1, <2>2 DEF SeenRight, PlaceOf
<1>3. Phase = "running"
  BY <1>1 DEF Phase
<1> QED
  BY <1>1, <1>2, <1>3 DEF Promise!Init, Seen, Phase

\* The threads, queues and failing calls of the report pipeline do what Pipeline promises: whatever is
\* produced and however calls fail, an item is never in two places, comes back or is taken twice, and
\* when __fini has set __finished, nothing accepted before stop() is queued.
THEOREM ReportingImplementsPipeline == Spec => ImplementsPipeline
<1>1. Inv /\ PlaceInv => SeenRight
  BY SeenIsRight DEF Inv, PlaceInv
<1>2. Spec => []Refines
  BY <1>1, InvInit, InvNext, PlaceInit, PlacesKept, DrainInit, DrainNext, PTL DEF Spec, Refines
<1>3. Refines /\ Refines' /\ [Next]_vars => [Promise!Next]_Promise!pipeline
  BY RefineNext DEF Refines
<1>4. []Refines /\ [][Next]_vars => [][Promise!Next]_Promise!pipeline
  BY <1>3, PTL
<1> QED
  BY <1>2, <1>4, RefineInit, PTL DEF Spec, ImplementsPipeline, Promise!Spec

-----------------------------------------------------------------------------
(* What stop() leaves behind.                                              *)

\* When stop() has returned, nothing that was accepted before it was called is in a queue.
Emptied == fini = "done" => stopSet \cap AllQueued = {}
Rested  == fini = "done" => \A i \in stopSet : ~Queued(i)

LEMMA StaysDone ==
  ASSUME Inv, [Next]_vars, fini' = "done"
  PROVE  SetFinished \/ UNCHANGED <<fini, stopSet>>
<1>1. ASSUME NEW ch \in Active, NEW k \in Consumers, CallReturns(ch, k) \/ CallFails(ch, k)
      PROVE  UNCHANGED <<fini, stopSet>>
  <2>1. ch \in Channels
    BY OrderIsSeq DEF Inv, Types, ThreadType
  <2>2. gen[ch][k] # "idle" /\ UNCHANGED <<config, up>> /\ (AfterReturn(ch, k) \/ AfterRaise(ch, k))
    BY <1>1 DEF CallReturns, CallFails, FailPoint
  <2>3. /\ UNCHANGED stopSet
        /\ k = "loop" => fini' = fini
        /\ k = "fini" => fini' \in {"join", "failed"}
    BY <2>1, <2>2, AfterDoes DEF Inv, Types
  <2> QED
    BY <2>3 DEF Consumers
<1>2. ASSUME NEW ch \in Active, NEW k \in Consumers, CallStep(ch, k) \/ Expire(ch, k)
      PROVE  UNCHANGED <<fini, stopSet>>
  <2>1. CASE Get(ch, k) \/ TaskDone(ch, k) \/ GenHead(ch, k) \/ GetEmpty(ch, k) \/ SendOne(ch, k) \/ Expire(ch, k)
    BY <2>1 DEF Get, TaskDone, GenHead, GetEmpty, SendOne, Expire, finiVars
  <2> QED
    BY <1>1, <1>2, <2>1 DEF CallStep
<1>3. ASSUME NEW i \in Items, Archive(i) \/ AddSnapshot(i) PROVE UNCHANGED <<fini, stopSet>>
  BY <1>3 DEF Archive, AddSnapshot, Produce, finiVars
<1>4. CASE PutWakes \/ Outage \/ UNCHANGED vars \/ \E ch \in Active : LoopStep(ch)
  BY <1>4 DEF PutWakes, Outage, vars, LoopStep, LoopCall, LoopAgain, LoopExit, finiVars
<1>5. ~Stop /\ ~JoinReturns
  BY DEF Stop, JoinReturns
<1> QED
  BY <1>2, <1>3, <1>4, <1>5 DEF Next

LEMMA RestedNext == Inv /\ PlaceInv /\ DrainInv /\ Rested /\ [Next]_vars => Rested'
<1> SUFFICES ASSUME Inv, PlaceInv, DrainInv, Rested, [Next]_vars, fini' = "done", NEW i \in stopSet'
             PROVE  ~Queued(i)'
  BY DEF Rested
<1>1. CASE SetFinished
  <2>1. fini = "set" /\ stopSet' = stopSet /\ queue' = queue
    BY <1>1 DEF SetFinished, dataVars
  <2>2. PICK n \in DOMAIN Order : Order[n] = Chan[i]
    BY <2>1 DEF DrainInv, Active, ToSet
  <2>3. ~Queued(i)
    BY <2>1, <2>2 DEF DrainInv, Drained
  <2> QED
    BY <2>1, <2>3 DEF Queued
<1>2. CASE UNCHANGED <<fini, stopSet>>
  <2>1. Step /\ ~Queued(i) /\ i \in Items /\ i \in archived \ waiting
    BY <1>2, PlaceNext DEF Rested, DrainInv, Inv, Types, ThreadType
  <2> QED
    BY <2>1, SettledStays
<1> QED
  BY <1>1, <1>2, StaysDone

LEMMA RestedEmptied ==
  ASSUME Inv, PlaceInv, Rested
  PROVE  Emptied
<1> SUFFICES ASSUME fini = "done", NEW i \in stopSet, NEW ch \in Channels, i \in ToSet(queue[ch]) PROVE FALSE
  BY DEF Emptied, AllQueued
<1>1. Chan[i] = ch
  BY DEF PlaceInv, Own, Proper
<1> QED
  BY <1>1 DEF Rested, Queued

\* When stop() has returned, its calls and those of the report threads that raced it have taken all
\* that was accepted before out of the queues (__fini and queue.join(), agent/__init__.py:167).
THEOREM StopEmptiesQueues == Spec => []Emptied
<1> DEFINE IInv == Inv /\ PlaceInv /\ DrainInv /\ Rested
<1>1. Init => IInv
  BY InvInit, PlaceInit, DrainInit DEF Init, Rested
<1>2. IInv /\ [Next]_vars => IInv'
  BY InvNext, PlacesKept, DrainNext, RestedNext
<1>3. IInv => Emptied
  BY RestedEmptied
<1> QED
  BY <1>1, <1>2, <1>3, PTL DEF Spec
=============================================================================
