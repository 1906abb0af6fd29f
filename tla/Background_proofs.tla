--------------------------- MODULE Background_proofs ---------------------------
(***************************************************************************)
(* Proofs about the configuration and the logs, for any number of          *)
(* versions, fields, senders and failures.                                 *)
(***************************************************************************)
EXTENDS Background, SequenceLemmas, TLAPS

-----------------------------------------------------------------------------
(* The configuration.                                                      *)

ConfigType ==
  /\ published \in Contents
  /\ noted \in Contents \cup Errors \cup {Default}
  /\ object \in [Fields -> Parsable \cup {Default}]
  /\ listening \in {"start", "exited", "sleep", "poll", "fetch"}

ConfigInv == ConfigType /\ NotedIsApplied /\ (listening = "start" => noted = Default)

ConfigNext ==
  \/ Publish \/ Poll \/ NothingNew \/ Change \/ RequestFails
  \/ \E body \in {published} \cup Errors : Load(body) \/ Fetched(body)

LEMMA ConfigInvInit == ConfigInit => ConfigInv
<1> SUFFICES ASSUME ConfigInit PROVE ConfigInv
  OBVIOUS
<1>1. Default \notin Parsable
  BY ParsableAssumption, NamesAssumption
<1> QED
  BY <1>1 DEF ConfigInit, ConfigInv, ConfigType, NotedIsApplied

LEMMA ConfigInvNext == ConfigInv /\ [ConfigNext]_configVars => ConfigInv'
<1> SUFFICES ASSUME ConfigInv, [ConfigNext]_configVars PROVE ConfigInv'
  OBVIOUS
<1> USE DEF ConfigInv, ConfigType
<1>1. CASE UNCHANGED configVars
  BY <1>1 DEF configVars, NotedIsApplied
<1>2. CASE Publish \/ Poll \/ NothingNew \/ Change \/ RequestFails
  BY <1>2 DEF Publish, Poll, NothingNew, Change, RequestFails, NotedIsApplied
<1>3. ASSUME NEW body \in {published} \cup Errors PROVE Value(body) \in Parsable \cup {Default}
  BY DEF Value
\* Nothing is noted before the first fetch.
<1>4. ASSUME NEW body \in {published} \cup Errors, Load(body) PROVE ConfigInv'
  <2>1. /\ UNCHANGED <<published, noted>> /\ listening' \in {"sleep", "exited"}
        /\ object' = object \/ object' = [a \in Fields |-> Value(body)]
    BY <1>4 DEF Load
  <2>2. NotedIsApplied'
    BY <1>4, <2>1, ParsableAssumption, NamesAssumption DEF Load, NotedIsApplied
  <2> QED
    BY <1>3, <2>1, <2>2
<1>5. ASSUME NEW body \in {published} \cup Errors, Fetched(body) PROVE ConfigInv'
  <2>1. /\ noted' = body /\ published' = published /\ listening' = "sleep"
        /\ object' = [a \in Fields |-> IF Parses(body) /\ a \in Annotated THEN Value(body) ELSE object[a]]
    BY <1>5 DEF Fetched, Update
  <2>2. object' \in [Fields -> Parsable \cup {Default}]
    BY <1>3, <2>1
  <2>3. NotedIsApplied'
    BY <2>1, FieldsAssumption DEF NotedIsApplied, Parses, Value
  <2> QED
    BY <2>1, <2>2, <2>3
<1> QED
  BY <1>1, <1>2, <1>4, <1>5 DEF ConfigNext

-----------------------------------------------------------------------------
\* What becomes of an increasing sequence.
LEMMA IncreasingAppend ==
  ASSUME NEW s \in Seq(Nat), Increasing(s), NEW x \in Nat, \A i \in DOMAIN s : s[i] < x
  PROVE  Increasing(Append(s, x))
  BY DEF Increasing

LEMMA IncreasingTail ==
  ASSUME NEW s \in Seq(Nat), Increasing(s), s # <<>>
  PROVE  Increasing(Tail(s)) /\ \A i \in DOMAIN Tail(s) : Head(s) < Tail(s)[i]
  BY DEF Increasing

-----------------------------------------------------------------------------
(* The logs: what is said of the messages that wait, of those that each    *)
(* sender has taken and those given up, among the first n.                 *)

Ordered(waiting, taken, gone, n) ==
  /\ n \in Nat /\ waiting \in Seq(Nat) /\ taken \in [Senders -> Seq(Nat)]
  /\ Increasing(waiting) /\ ToSet(waiting) \subseteq 1 .. n
  /\ gone \subseteq 1 .. n /\ gone \cap ToSet(waiting) = {}
  /\ \A s \in Senders : /\ Increasing(taken[s]) /\ ToSet(taken[s]) \subseteq 1 .. n
                        /\ ToSet(taken[s]) \cap gone = {}
                        /\ \A k \in ToSet(taken[s]), m \in ToSet(waiting) : k < m
  /\ \A s, t \in Senders : s # t => ToSet(taken[s]) \cap ToSet(taken[t]) = {}

LEMMA OrderedLog ==
  ASSUME NEW w, NEW taken, NEW gone, NEW n, Ordered(w, taken, gone, n)
  PROVE  Ordered(Append(w, n + 1), taken, gone, n + 1)
<1> USE DEF Ordered
<1>1. ToSet(Append(w, n + 1)) = ToSet(w) \cup {n + 1}
  BY ElementsOfAppend
<1>2. \A i \in DOMAIN w : w[i] < n + 1
  <2>1. \A i \in DOMAIN w : w[i] \in ToSet(w)
    BY DEF ToSet
  <2>2. \A k \in 1 .. n : k < n + 1
    OBVIOUS
  <2> QED
    BY <2>1, <2>2
<1>3. Increasing(Append(w, n + 1)) /\ Append(w, n + 1) \in Seq(Nat)
  BY <1>2, IncreasingAppend
<1>4. 1 .. n + 1 = 1 .. n \cup {n + 1} /\ n + 1 \notin 1 .. n /\ \A k \in 1 .. n : k < n + 1
  OBVIOUS
<1> QED
  BY <1>1, <1>3, <1>4

LEMMA OrderedMiss ==
  ASSUME NEW w, NEW taken, NEW gone, NEW n, Ordered(w, taken, gone, n)
  PROVE  Ordered(w, taken, gone \cup {n + 1}, n + 1)
<1> USE DEF Ordered
<1>1. 1 .. n + 1 = 1 .. n \cup {n + 1} /\ n + 1 \notin 1 .. n
  OBVIOUS
<1> QED
  BY <1>1

\* The head of what waits is below the rest and above all that was taken.
LEMMA OrderedHead ==
  ASSUME NEW w, NEW taken, NEW gone, NEW n, Ordered(w, taken, gone, n), w # <<>>
  PROVE  /\ Head(w) \in 1 .. n /\ Tail(w) \in Seq(Nat) /\ Increasing(Tail(w)) /\ Head(w) \notin gone
         /\ ToSet(w) = {Head(w)} \cup ToSet(Tail(w))
         /\ \A k \in ToSet(Tail(w)) : Head(w) < k
         /\ \A s \in Senders : \A k \in ToSet(taken[s]) : k < Head(w)
<1> USE DEF Ordered
<1>1. Tail(w) \in Seq(Nat) /\ ToSet(w) = {Head(w)} \cup ToSet(Tail(w))
  BY HeadTailProperties, ElementsOfTail
<1>2. Increasing(Tail(w)) /\ \A i \in DOMAIN Tail(w) : Head(w) < Tail(w)[i]
  BY IncreasingTail
<1>3. \A k \in ToSet(Tail(w)) : Head(w) < k
  BY <1>2 DEF ToSet
<1> QED
  BY <1>1, <1>2, <1>3

LEMMA OrderedLose ==
  ASSUME NEW w, NEW taken, NEW gone, NEW n, Ordered(w, taken, gone, n), w # <<>>
  PROVE  Ordered(Tail(w), taken, gone \cup {Head(w)}, n)
<1> DEFINE m == Head(w)
           v == Tail(w)
<1>1. /\ m \in 1 .. n /\ v \in Seq(Nat) /\ Increasing(v) /\ m \notin gone
      /\ ToSet(w) = {m} \cup ToSet(v) /\ \A k \in ToSet(v) : m < k
      /\ \A s \in Senders : \A k \in ToSet(taken[s]) : k < m
  BY OrderedHead
<1> HIDE DEF m, v
<1>2. n \in Nat /\ m \notin ToSet(v) /\ \A s \in Senders : m \notin ToSet(taken[s])
  BY <1>1 DEF Ordered
<1>3. Ordered(v, taken, gone \cup {m}, n)
  BY <1>1, <1>2 DEF Ordered
<1> QED
  BY <1>3 DEF m, v

LEMMA OrderedTake ==
  ASSUME NEW w, NEW taken, NEW gone, NEW n, Ordered(w, taken, gone, n), w # <<>>, NEW s \in Senders
  PROVE  Ordered(Tail(w), [taken EXCEPT ![s] = Append(taken[s], Head(w))], gone, n)
<1> DEFINE m == Head(w)
           v == Tail(w)
           new == [taken EXCEPT ![s] = Append(taken[s], m)]
<1>1. /\ m \in 1 .. n /\ v \in Seq(Nat) /\ Increasing(v) /\ m \notin gone
      /\ ToSet(w) = {m} \cup ToSet(v) /\ \A k \in ToSet(v) : m < k
      /\ \A t \in Senders : \A k \in ToSet(taken[t]) : k < m
  BY OrderedHead
<1> HIDE DEF m, v
<1>2. n \in Nat /\ m \in Nat /\ m \notin ToSet(v) /\ \A t \in Senders : m \notin ToSet(taken[t])
  BY <1>1 DEF Ordered
<1>3. taken[s] \in Seq(Nat) /\ Increasing(taken[s]) /\ \A i \in DOMAIN taken[s] : taken[s][i] < m
  BY <1>1 DEF Ordered, ToSet
<1>4. /\ Append(taken[s], m) \in Seq(Nat) /\ Increasing(Append(taken[s], m))
      /\ ToSet(Append(taken[s], m)) = ToSet(taken[s]) \cup {m}
  BY <1>2, <1>3, IncreasingAppend, ElementsOfAppend
<1>5. /\ new \in [Senders -> Seq(Nat)] /\ \A t \in Senders \ {s} : new[t] = taken[t]
      /\ Increasing(new[s]) /\ ToSet(new[s]) = ToSet(taken[s]) \cup {m}
  BY <1>4 DEF Ordered
<1> HIDE DEF new
<1>6. \A t \in Senders : /\ Increasing(new[t]) /\ ToSet(new[t]) \subseteq 1 .. n /\ ToSet(new[t]) \cap gone = {}
                         /\ \A k \in ToSet(new[t]), j \in ToSet(v) : k < j
  <2> SUFFICES ASSUME NEW t \in Senders
               PROVE  /\ Increasing(new[t]) /\ ToSet(new[t]) \subseteq 1 .. n /\ ToSet(new[t]) \cap gone = {}
                      /\ \A k \in ToSet(new[t]), j \in ToSet(v) : k < j
    OBVIOUS
  <2>1. /\ Increasing(taken[t]) /\ ToSet(taken[t]) \subseteq 1 .. n /\ ToSet(taken[t]) \cap gone = {}
        /\ \A k \in ToSet(taken[t]), j \in ToSet(w) : k < j
    BY DEF Ordered
  <2>2. ToSet(new[t]) \subseteq ToSet(taken[t]) \cup {m}
    BY <1>5
  <2>3. Increasing(new[t])
    BY <1>5, <2>1
  <2>4. ToSet(new[t]) \subseteq 1 .. n /\ ToSet(new[t]) \cap gone = {}
    BY <1>1, <2>1, <2>2
  <2>5. ASSUME NEW k \in ToSet(new[t]), NEW j \in ToSet(v) PROVE k < j
    <3>1. k \in ToSet(taken[t]) \/ k = m
      BY <2>2
    <3>2. j \in ToSet(w) /\ m < j
      BY <1>1
    <3> QED
      BY <2>1, <3>1, <3>2
  <2> QED
    BY <2>3, <2>4, <2>5
<1>7. \A t, u \in Senders : t # u => ToSet(new[t]) \cap ToSet(new[u]) = {}
  <2>1. \A t, u \in Senders : t # u => ToSet(taken[t]) \cap ToSet(taken[u]) = {}
    BY DEF Ordered
  <2>2. \A t \in Senders \ {s} : ToSet(new[t]) = ToSet(taken[t])
    BY <1>5
  <2>3. ASSUME NEW t \in Senders, NEW u \in Senders, t # u
        PROVE  ToSet(new[t]) \cap ToSet(new[u]) = {}
    <3>1. CASE t = s
      BY <1>2, <1>5, <2>1, <2>2, <2>3, <3>1
    <3>2. CASE u = s
      BY <1>2, <1>5, <2>1, <2>2, <2>3, <3>2
    <3>3. CASE t # s /\ u # s
      BY <2>1, <2>2, <2>3, <3>3
    <3> QED
      BY <3>1, <3>2, <3>3
  <2> QED
    BY <2>3
<1>8. Ordered(v, new, gone, n)
  BY <1>1, <1>2, <1>5, <1>6, <1>7 DEF Ordered
<1> QED
  BY <1>8 DEF new, m, v

\* A sender gives up what it took last.
LEMMA OrderedGiveUp ==
  ASSUME NEW w, NEW taken, NEW gone, NEW n, Ordered(w, taken, gone, n), NEW s \in Senders,
         NEW q \in Seq(Nat), NEW m \in Nat, taken[s] = Append(q, m)
  PROVE  Ordered(w, [taken EXCEPT ![s] = q], gone \cup {m}, n)
<1> DEFINE new == [taken EXCEPT ![s] = q]
<1>1. taken[s] \in Seq(Nat) /\ Increasing(taken[s]) /\ n \in Nat /\ taken \in [Senders -> Seq(Nat)]
  BY DEF Ordered
<1>2. ToSet(taken[s]) = ToSet(q) \cup {m}
  BY ElementsOfAppend
<1>3. Increasing(q) /\ m \notin ToSet(q)
  <2>1. \A i \in DOMAIN q : i \in DOMAIN taken[s] /\ taken[s][i] = q[i] /\ i < Len(q) + 1
    OBVIOUS
  <2>2. Len(q) + 1 \in DOMAIN taken[s] /\ taken[s][Len(q) + 1] = m
    OBVIOUS
  <2>3. Increasing(q)
    BY <1>1, <2>1 DEF Increasing
  <2>4. \A i \in DOMAIN q : q[i] < m
    BY <1>1, <2>1, <2>2 DEF Increasing
  <2>5. \A i \in DOMAIN q : q[i] # m
    BY <2>4
  <2> QED
    BY <2>3, <2>5 DEF ToSet
<1>4. new \in [Senders -> Seq(Nat)] /\ new[s] = q /\ \A t \in Senders \ {s} : new[t] = taken[t]
  BY <1>1
<1> HIDE DEF new
<1>5. /\ ToSet(new[s]) \subseteq ToSet(taken[s]) /\ m \in ToSet(taken[s])
      /\ \A t \in Senders \ {s} : ToSet(new[t]) = ToSet(taken[t])
  BY <1>2, <1>4
<1>6. /\ m \in 1 .. n /\ m \notin ToSet(w)
      /\ \A t \in Senders : t # s => m \notin ToSet(taken[t])
  <2>1. ToSet(taken[s]) \subseteq 1 .. n /\ \A k \in ToSet(taken[s]), j \in ToSet(w) : k < j
    BY DEF Ordered
  <2>2. \A t \in Senders : t # s => ToSet(taken[t]) \cap ToSet(taken[s]) = {}
    BY DEF Ordered
  <2>3. ~ (m < m)
    OBVIOUS
  <2> QED
    BY <1>5, <2>1, <2>2, <2>3
<1>7. \A t \in Senders : /\ Increasing(new[t]) /\ ToSet(new[t]) \subseteq 1 .. n
                         /\ ToSet(new[t]) \cap (gone \cup {m}) = {}
                         /\ \A k \in ToSet(new[t]), j \in ToSet(w) : k < j
  <2> SUFFICES ASSUME NEW t \in Senders
               PROVE  /\ Increasing(new[t]) /\ ToSet(new[t]) \subseteq 1 .. n
                      /\ ToSet(new[t]) \cap (gone \cup {m}) = {}
                      /\ \A k \in ToSet(new[t]), j \in ToSet(w) : k < j
    OBVIOUS
  <2>1. /\ Increasing(taken[t]) /\ ToSet(taken[t]) \subseteq 1 .. n /\ ToSet(taken[t]) \cap gone = {}
        /\ \A k \in ToSet(taken[t]), j \in ToSet(w) : k < j
    BY DEF Ordered
  <2>2. Increasing(new[t]) /\ ToSet(new[t]) \subseteq ToSet(taken[t]) /\ m \notin ToSet(new[t])
    BY <1>3, <1>4, <1>5, <1>6, <2>1
  <2>3. ToSet(new[t]) \subseteq 1 .. n /\ ToSet(new[t]) \cap (gone \cup {m}) = {}
    BY <2>1, <2>2
  <2> QED
    BY <2>1, <2>2, <2>3
<1>8. \A t, u \in Senders : t # u => ToSet(new[t]) \cap ToSet(new[u]) = {}
  <2>1. \A t, u \in Senders : t # u => ToSet(taken[t]) \cap ToSet(taken[u]) = {}
    BY DEF Ordered
  <2>2. \A t \in Senders : ToSet(new[t]) \subseteq ToSet(taken[t])
    <3>1. \A t \in Senders : t = s \/ t \in Senders \ {s}
      OBVIOUS
    <3> QED
      BY <1>5, <3>1
  <2> QED
    BY <2>1, <2>2
<1>9. /\ w \in Seq(Nat) /\ Increasing(w) /\ ToSet(w) \subseteq 1 .. n
      /\ gone \cup {m} \subseteq 1 .. n /\ (gone \cup {m}) \cap ToSet(w) = {}
  BY <1>6 DEF Ordered
<1>10. Ordered(w, new, gone \cup {m}, n)
  BY <1>1, <1>4, <1>7, <1>8, <1>9 DEF Ordered
<1> QED
  BY <1>10 DEF new

-----------------------------------------------------------------------------
(* The steps of the sink.                                                  *)

Waiting == buffer \o tasks

\* What a sender has taken: what it has written, and what it holds.
TakenAll == [s \in Senders |-> IF holds[s] = 0 THEN written[s] ELSE Append(written[s], holds[s])]

LogType ==
  /\ logged \in Nat /\ tasks \in Seq(Nat) /\ buffer \in Seq(Nat)
  /\ holds \in [Senders -> Nat] /\ conn \in [Senders -> Connections]
  /\ written \in [Senders -> Seq(Nat)]
  /\ \A s \in Senders : conn[s] = "failed" => holds[s] # 0

LogInv == LogType /\ Ordered(Waiting, TakenAll, lost, logged)

LogNext ==
  \/ Log \/ LogInThread \/ WriteBuffer
  \/ \E s \in Senders :
       Send(s) \/ Connect(s) \/ ConnectFails(s) \/ GiveUp(s) \/ Break(s) \/ Notice(s)

LEMMA LogInvInit == LogInit => LogInv
<1> SUFFICES ASSUME LogInit PROVE LogInv
  OBVIOUS
<1> USE DEF LogInit
<1>1. LogType
  BY DEF LogType, Connections
<1>2. Waiting = <<>> /\ TakenAll = [s \in Senders |-> <<>>]
  BY DEF Waiting, TakenAll
<1>3. ToSet(<<>>) = {} /\ Increasing(<<>>) /\ <<>> \in Seq(Nat)
  BY DEF ToSet, Increasing
<1>4. Ordered(<<>>, [s \in Senders |-> <<>>], {}, 0)
  BY <1>3 DEF Ordered
<1> QED
  BY <1>1, <1>2, <1>4 DEF LogInv

LEMMA LogInvLog == LogInv /\ Log => LogInv'
<1> SUFFICES ASSUME LogInv, Log PROVE LogInv'
  OBVIOUS
<1>1. LogType'
  BY DEF LogInv, LogType, Log, Connections
<1>2. Waiting' = Append(Waiting, logged + 1)
  BY ConcatAppend DEF LogInv, LogType, Log, Waiting
<1>3. TakenAll' = TakenAll /\ lost' = lost /\ logged' = logged + 1
  BY DEF Log, TakenAll
<1>4. Ordered(Append(Waiting, logged + 1), TakenAll, lost, logged + 1)
  BY OrderedLog DEF LogInv
<1>5. Ordered(Waiting', TakenAll', lost', logged')
  BY <1>2, <1>3, <1>4
<1> QED
  BY <1>1, <1>5 DEF LogInv

LEMMA LogInvMiss == LogInv /\ LogInThread => LogInv'
<1> SUFFICES ASSUME LogInv, LogInThread PROVE LogInv'
  OBVIOUS
<1>1. LogType'
  BY DEF LogInv, LogType, LogInThread, Connections
<1>2. /\ Waiting' = Waiting /\ TakenAll' = TakenAll
      /\ lost' = lost \cup {logged + 1} /\ logged' = logged + 1
  BY DEF LogInThread, TakenAll, Waiting
<1>3. Ordered(Waiting, TakenAll, lost \cup {logged + 1}, logged + 1)
  BY OrderedMiss DEF LogInv
<1>4. Ordered(Waiting', TakenAll', lost', logged')
  BY <1>2, <1>3
<1> QED
  BY <1>1, <1>4 DEF LogInv

LEMMA LogInvWriteBuffer == LogInv /\ WriteBuffer => LogInv'
<1> SUFFICES ASSUME LogInv, WriteBuffer PROVE LogInv'
  OBVIOUS
<1>1. Head(tasks) \in Nat /\ Tail(tasks) \in Seq(Nat)
  BY HeadTailProperties DEF LogInv, LogType, WriteBuffer
<1>2. LogType'
  BY <1>1 DEF LogInv, LogType, WriteBuffer, Connections
<1>3. Waiting' = Waiting
  BY ConcatMove DEF LogInv, LogType, WriteBuffer, Waiting
<1>4. TakenAll' = TakenAll /\ lost' = lost /\ logged' = logged
  BY DEF WriteBuffer, TakenAll
<1>5. Ordered(Waiting', TakenAll', lost', logged')
  BY <1>3, <1>4 DEF LogInv
<1> QED
  BY <1>2, <1>5 DEF LogInv

\* A sender takes the first message of the buffer, which is the first that waits.
LEMMA LogInvSend == ASSUME LogInv, NEW s \in Senders, Send(s) PROVE LogInv'
<1> DEFINE m == Head(buffer)
<1>1. /\ buffer \in Seq(Nat) /\ tasks \in Seq(Nat) /\ logged \in Nat /\ buffer # <<>>
      /\ holds \in [Senders -> Nat] /\ written \in [Senders -> Seq(Nat)]
      /\ conn \in [Senders -> Connections] /\ holds[s] = 0
      /\ \A t \in Senders : conn[t] = "failed" => holds[t] # 0
  BY DEF LogInv, LogType, Send
<1>2. Waiting # <<>> /\ Head(Waiting) = m /\ Tail(buffer) \o tasks = Tail(Waiting)
  BY <1>1, ConcatTail DEF Waiting
<1>3. m \in 1 .. logged /\ Tail(buffer) \in Seq(Nat)
  <2>1. Ordered(Waiting, TakenAll, lost, logged)
    BY DEF LogInv
  <2>2. Head(Waiting) \in 1 .. logged
    BY <1>2, <2>1, OrderedHead
  <2> QED
    BY <1>1, <1>2, <2>2, HeadTailProperties
<1>4. m \in Nat /\ m # 0
  BY <1>1, <1>3
<1>5. TakenAll[s] = written[s]
  BY <1>1 DEF TakenAll
<1>6. buffer' = Tail(buffer) /\ logged' = logged /\ tasks' = tasks
  BY DEF Send
<1>7. Waiting' = Tail(Waiting)
  BY <1>2, <1>6 DEF Waiting
<1> HIDE DEF m
\* Either it keeps the message or the message is lost.
<1>8. ASSUME lost' = lost, TakenAll' = [TakenAll EXCEPT ![s] = Append(TakenAll[s], m)], LogType'
      PROVE  LogInv'
  <2>1. Ordered(Tail(Waiting), [TakenAll EXCEPT ![s] = Append(TakenAll[s], m)], lost, logged)
    BY <1>2, OrderedTake DEF LogInv
  <2>2. Ordered(Waiting', TakenAll', lost', logged')
    BY <1>6, <1>7, <1>8, <2>1
  <2> QED
    BY <1>8, <2>2 DEF LogInv
<1>9. CASE conn[s] = "open"
  <2>1. written' = [written EXCEPT ![s] = Append(written[s], m)] /\ UNCHANGED <<holds, conn, lost>>
    BY <1>9 DEF Send, m
  <2>2. LogType'
    BY <1>1, <1>3, <1>4, <1>6, <2>1 DEF LogType
  <2>3. TakenAll' = [TakenAll EXCEPT ![s] = Append(TakenAll[s], m)]
    BY <1>1, <1>5, <2>1 DEF TakenAll
  <2> QED
    BY <1>8, <2>1, <2>2, <2>3
<1>10. CASE conn[s] = "broken"
  <2>1. lost' = lost \cup {m} /\ UNCHANGED <<holds, conn, written>>
    BY <1>10 DEF Send, m
  <2>2. LogType'
    BY <1>1, <1>3, <1>6, <2>1 DEF LogType
  <2>3. TakenAll' = TakenAll
    BY <2>1 DEF TakenAll
  <2>4. Ordered(Tail(Waiting), TakenAll, lost \cup {m}, logged)
    BY <1>2, OrderedLose DEF LogInv
  <2>5. Ordered(Waiting', TakenAll', lost', logged')
    BY <1>6, <1>7, <2>1, <2>3, <2>4
  <2> QED
    BY <2>2, <2>5 DEF LogInv
<1>11. CASE conn[s] \in {"none", "closing"}
  <2>1. /\ conn' = [conn EXCEPT ![s] = "none"] /\ holds' = [holds EXCEPT ![s] = m]
        /\ UNCHANGED <<written, lost>>
    BY <1>11 DEF Send, m
  <2>2. LogType'
    BY <1>1, <1>3, <1>4, <1>6, <2>1 DEF LogType, Connections
  <2>3. TakenAll' = [TakenAll EXCEPT ![s] = Append(TakenAll[s], m)]
    BY <1>1, <1>4, <1>5, <2>1 DEF TakenAll
  <2> QED
    BY <1>8, <2>1, <2>2, <2>3
<1> QED
  BY <1>9, <1>10, <1>11 DEF Send

LEMMA LogInvConnect == ASSUME LogInv, NEW s \in Senders, Connect(s) PROVE LogInv'
<1>1. LogType'
  BY DEF LogInv, LogType, Connect, Connections
<1>2. TakenAll' = TakenAll
  BY DEF LogInv, LogType, Connect, TakenAll
<1>3. Waiting' = Waiting /\ lost' = lost /\ logged' = logged
  BY DEF Connect, Waiting
<1>4. Ordered(Waiting', TakenAll', lost', logged')
  BY <1>2, <1>3 DEF LogInv
<1> QED
  BY <1>1, <1>4 DEF LogInv

LEMMA LogInvConnection ==
  ASSUME LogInv, NEW s \in Senders, ConnectFails(s) \/ Break(s) \/ Notice(s)
  PROVE  LogInv'
<1>1. LogType'
  BY DEF LogInv, LogType, ConnectFails, Break, Notice, Connections
<1>2. Waiting' = Waiting /\ TakenAll' = TakenAll /\ lost' = lost /\ logged' = logged
  BY DEF ConnectFails, Break, Notice, Waiting, TakenAll
<1>3. Ordered(Waiting', TakenAll', lost', logged')
  BY <1>2 DEF LogInv
<1> QED
  BY <1>1, <1>3 DEF LogInv

LEMMA LogInvGiveUp == ASSUME LogInv, NEW s \in Senders, GiveUp(s) PROVE LogInv'
<1>1. holds[s] \in Nat \ {0} /\ written[s] \in Seq(Nat)
  BY DEF LogInv, LogType, GiveUp
<1>2. LogType'
  BY DEF LogInv, LogType, GiveUp, Connections
<1>3. TakenAll[s] = Append(written[s], holds[s])
  BY <1>1 DEF TakenAll
<1>4. TakenAll' = [TakenAll EXCEPT ![s] = written[s]]
  BY DEF LogInv, LogType, GiveUp, TakenAll
<1>5. Waiting' = Waiting /\ lost' = lost \cup {holds[s]} /\ logged' = logged
  BY DEF GiveUp, Waiting
<1>6. Ordered(Waiting, [TakenAll EXCEPT ![s] = written[s]], lost \cup {holds[s]}, logged)
  BY <1>1, <1>3, OrderedGiveUp DEF LogInv
<1>7. Ordered(Waiting', TakenAll', lost', logged')
  BY <1>4, <1>5, <1>6
<1> QED
  BY <1>2, <1>7 DEF LogInv

LEMMA LogInvNext == LogInv /\ [LogNext]_logVars => LogInv'
<1> SUFFICES ASSUME LogInv, [LogNext]_logVars PROVE LogInv'
  OBVIOUS
<1>1. CASE UNCHANGED logVars
  <2>1. LogType'
    BY <1>1 DEF LogInv, LogType, logVars, Connections
  <2>2. Waiting' = Waiting /\ TakenAll' = TakenAll /\ lost' = lost /\ logged' = logged
    BY <1>1 DEF logVars, Waiting, TakenAll
  <2>3. Ordered(Waiting', TakenAll', lost', logged')
    BY <2>2 DEF LogInv
  <2> QED
    BY <2>1, <2>3 DEF LogInv
<1>2. CASE LogNext
  BY <1>2, LogInvLog, LogInvMiss, LogInvWriteBuffer, LogInvSend, LogInvConnect,
     LogInvConnection, LogInvGiveUp DEF LogNext
<1> QED
  BY <1>1, <1>2

\* What is said of each sender and pair of senders is what the property says.
LEMMA LogInvOrders == LogInv => LogsInOrder
<1> SUFFICES ASSUME LogInv PROVE LogsInOrder
  OBVIOUS
<1> DEFINE sent(s) == IF holds[s] = 0 THEN written[s] ELSE Append(written[s], holds[s])
<1>1. /\ Increasing(Waiting) /\ lost \cap ToSet(Waiting) = {}
      /\ \A s \in Senders : /\ Increasing(TakenAll[s]) /\ ToSet(TakenAll[s]) \subseteq 1 .. logged
                            /\ ToSet(TakenAll[s]) \cap lost = {}
                            /\ \A k \in ToSet(TakenAll[s]), m \in ToSet(Waiting) : k < m
      /\ \A s, t \in Senders : s # t => ToSet(TakenAll[s]) \cap ToSet(TakenAll[t]) = {}
  BY DEF LogInv, Ordered
<1>2. \A s \in Senders : TakenAll[s] = sent(s)
  BY DEF TakenAll
<1>3. ASSUME NEW s \in Senders
      PROVE  /\ Increasing(sent(s))
             /\ ToSet(sent(s)) \cap (ToSet(Waiting) \cup lost) = {}
             /\ 0 \notin ToSet(sent(s))
  <2>1. ASSUME NEW k \in ToSet(sent(s)) PROVE k \notin ToSet(Waiting) /\ k # 0
    <3>1. k \in 1 .. logged /\ logged \in Nat
      BY <1>1, <1>2, <2>1 DEF LogInv, LogType
    <3>2. k \in ToSet(Waiting) => k < k
      BY <1>1, <1>2, <2>1
    <3> QED
      BY <3>1, <3>2
  <2> QED
    BY <1>1, <1>2, <2>1
<1>4. ASSUME NEW t \in Senders
      PROVE  ToSet(written[t]) \cup {holds[t]} \subseteq ToSet(sent(t)) \cup {0}
  <2>1. CASE holds[t] = 0
    BY <2>1
  <2>2. CASE holds[t] # 0
    <3>1. ToSet(sent(t)) = ToSet(written[t]) \cup {holds[t]}
      <4>1. written[t] \in Seq(Nat) /\ holds[t] \in Nat /\ sent(t) = Append(written[t], holds[t])
        BY <2>2 DEF LogInv, LogType
      <4> QED
        BY <4>1, ElementsOfAppend
    <3> QED
      BY <3>1
  <2> QED
    BY <2>1, <2>2
<1>5. ASSUME NEW s \in Senders, NEW t \in Senders \ {s}
      PROVE  (ToSet(written[t]) \cup {holds[t]}) \cap ToSet(sent(s)) = {}
  <2>1. ToSet(sent(s)) \cap ToSet(sent(t)) = {}
    BY <1>1, <1>2
  <2> HIDE DEF sent
  <2> QED
    BY <1>3, <1>4, <2>1
<1> QED
  BY <1>1, <1>3, <1>5 DEF LogsInOrder, Waiting

-----------------------------------------------------------------------------
(* The service: its steps are steps of the listener and of the sink.       *)

LEMMA BackgroundStep == Next => [ConfigNext]_configVars /\ [LogNext]_logVars
<1> USE DEF ConfigNext, LogNext
<1>1. PublishOther \/ LoadConfig \/ ListenQuietly \/ ListenFails \/ ListenUpdates
      => [ConfigNext]_configVars /\ [LogNext]_logVars
  BY DEF PublishOther, LoadConfig, ListenQuietly, ListenFails, ListenUpdates
<1>2. AppLogs \/ RunTask => [ConfigNext]_configVars /\ [LogNext]_logVars
  BY DEF AppLogs, RunTask
<1>3. ASSUME NEW s \in Senders, SenderRuns(s) \/ CollectorFails(s) \/ ConnectionCloses(s)
      PROVE  [ConfigNext]_configVars /\ [LogNext]_logVars
  BY <1>3 DEF SenderRuns, CollectorFails, ConnectionCloses
<1> QED
  BY <1>1, <1>2, <1>3 DEF Next, Listen

LEMMA BackgroundInv == Spec => [](ConfigInv /\ LogInv)
<1>1. Init => ConfigInv /\ LogInv
  BY ConfigInvInit, LogInvInit DEF Init
<1>2. ConfigInv /\ LogInv /\ [Next]_vars => ConfigInv' /\ LogInv'
  <2>1. UNCHANGED vars => UNCHANGED configVars /\ UNCHANGED logVars
    BY DEF vars
  <2> QED
    BY <2>1, BackgroundStep, ConfigInvNext, LogInvNext
<1> QED
  BY <1>1, <1>2, PTL DEF Spec

LEMMA InSeq ==
  ASSUME NEW n \in Nat, NEW s \in Seq(Nat), ToSet(s) \subseteq 1 .. n
  PROVE  s \in Seq(1 .. n)
<1>1. s = [i \in 1 .. Len(s) |-> s[i]] /\ Len(s) \in Nat
  OBVIOUS
<1>2. \A i \in 1 .. Len(s) : s[i] \in ToSet(s)
  BY DEF ToSet
<1>3. \A i \in 1 .. Len(s) : s[i] \in 1 .. n
  BY <1>2
<1> QED
  BY <1>1, <1>3

\* What the bounds on the loads and the start of the senders add to the invariants above.
OwnType == started \in BOOLEAN /\ left \in [published : Nat, faults : Nat, logs : Nat]

LEMMA OwnTypeNext == OwnType /\ [Next]_vars => OwnType'
<1> SUFFICES ASSUME OwnType, [Next]_vars PROVE OwnType'
  OBVIOUS
<1>1. left' = left \/ \E what \in {"published", "faults", "logs"} : Spend(what)
  BY DEF vars, Next, PublishOther, Listen, LoadConfig, ListenQuietly, ListenFails, ListenUpdates,
     AppLogs, RunTask, SenderRuns, CollectorFails, ConnectionCloses
<1>2. left' \in [published : Nat, faults : Nat, logs : Nat]
  <2>1. ASSUME NEW what \in {"published", "faults", "logs"}, Spend(what)
        PROVE  left' \in [published : Nat, faults : Nat, logs : Nat]
    <3>1. left[what] \in Nat /\ left[what] - 1 \in Nat
      BY <2>1 DEF OwnType, Spend
    <3>2. left' = [left EXCEPT ![what] = left[what] - 1]
      BY <2>1 DEF Spend
    <3> QED
      BY <3>1, <3>2 DEF OwnType
  <2> QED
    BY <1>1, <2>1 DEF OwnType
<1>3. started' = started \/ started' = TRUE
  BY BackgroundStep DEF vars, logVars, LogNext, Log, LogInThread, WriteBuffer, Send, Connect, ConnectFails,
     GiveUp, Break, Notice
<1> QED
  BY <1>2, <1>3 DEF OwnType

LEMMA InvariantTypes == ConfigInv /\ LogInv /\ OwnType => TypeOK
<1> SUFFICES ASSUME ConfigInv, LogInv, OwnType PROVE TypeOK
  OBVIOUS
<1>1. /\ logged \in Nat /\ tasks \in Seq(Nat) /\ buffer \in Seq(Nat) /\ holds \in [Senders -> Nat]
      /\ conn \in [Senders -> Connections] /\ written \in [Senders -> Seq(Nat)]
  BY DEF LogInv, LogType
<1>2. /\ ToSet(Waiting) \subseteq 1 .. logged /\ lost \subseteq 1 .. logged
      /\ \A s \in Senders : ToSet(TakenAll[s]) \subseteq 1 .. logged
  BY DEF LogInv, Ordered
<1>3. tasks \in Seq(1 .. logged) /\ buffer \in Seq(1 .. logged)
  <2>1. Range(buffer \o tasks) = Range(buffer) \cup Range(tasks)
    BY <1>1, RangeConcatenation
  <2>2. ToSet(buffer) \subseteq 1 .. logged /\ ToSet(tasks) \subseteq 1 .. logged
    BY <1>2, <2>1 DEF Range, ToSet, Waiting
  <2> QED
    BY <1>1, <2>2, InSeq
<1>4. ASSUME NEW s \in Senders PROVE holds[s] \in 0 .. logged /\ written[s] \in Seq(1 .. logged)
  <2>1. CASE holds[s] = 0
    <3>1. TakenAll[s] = written[s]
      BY <2>1 DEF TakenAll
    <3> QED
      <4>1. written[s] \in Seq(Nat) /\ ToSet(written[s]) \subseteq 1 .. logged
        BY <1>1, <1>2, <3>1
      <4> QED
        BY <1>1, <2>1, <4>1, InSeq
  <2>2. CASE holds[s] # 0
    <3>1. TakenAll[s] = Append(written[s], holds[s])
      BY <2>2 DEF TakenAll
    <3>2. ToSet(TakenAll[s]) = ToSet(written[s]) \cup {holds[s]}
      <4>1. written[s] \in Seq(Nat) /\ holds[s] \in Nat
        BY <1>1
      <4> QED
        BY <3>1, <4>1, ElementsOfAppend
    <3>3. ToSet(written[s]) \subseteq 1 .. logged /\ holds[s] \in 1 .. logged
      BY <1>2, <3>2
    <3> QED
      <4>1. written[s] \in Seq(Nat)
        BY <1>1
      <4> QED
        BY <1>1, <3>3, <4>1, InSeq
  <2> QED
    BY <2>1, <2>2
<1> QED
  BY <1>1, <1>2, <1>3, <1>4 DEF TypeOK, ConfigInv, ConfigType, OwnType

\* A version that is noted and can be parsed is in all the fields of the class, for any number of
\* versions and fields: __init__ and the listener's task never miss an update for good.
THEOREM NotedApplied == Spec => []NotedIsApplied
<1>1. ConfigInv => NotedIsApplied
  BY DEF ConfigInv
<1> QED
  BY <1>1, BackgroundInv, PTL

\* Each sender of the sink writes in the order of logging and no message is in two places, for any
\* number of senders, messages and failures of their connections.
THEOREM LogsOrdered == Spec => []LogsInOrder
<1> QED
  BY LogInvOrders, BackgroundInv, PTL

\* Every variable of the service's background stays in its type.
THEOREM BackgroundTypes == Spec => []TypeOK
<1>1. Init => OwnType
  BY LoadsAssumption DEF Init, LogInit, OwnType
<1> QED
  BY <1>1, OwnTypeNext, InvariantTypes, BackgroundInv, PTL DEF Spec
=============================================================================
