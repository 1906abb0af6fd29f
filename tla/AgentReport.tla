----------------------------- MODULE AgentReport -----------------------------
(***************************************************************************)
(* The report pipeline of the SkyWalking agent (skywalking/agent): bounded *)
(* queues of segments, logs and profile snapshots, one report thread per   *)
(* queue with its backoff, the generator through which a protocol drains a *)
(* queue, and __fini, which drains the same queues from the main thread    *)
(* while the report threads are still at it.                               *)
(*                                                                         *)
(* Two consumers share each queue: "loop", the report thread, and "fini".  *)
(* Items are numbered in the order in which they are produced.  A wait is  *)
(* in half seconds.                                                        *)
(***************************************************************************)
EXTENDS Integers, Sequences, FiniteSets, SequencesExt

CONSTANTS Items,    \* what is produced, numbered in order
          Chan,     \* the channel of each item
          Capacity, \* the size of the queue of each channel
          Configs,  \* the configurations to consider, and what is produced under each
          MaxWait   \* the longest wait of a report thread, in half seconds (120 in the code)

Channels  == {"trace", "log", "snapshot"}
Consumers == {"loop", "fini"}

\* The active channels, in the order in which __fini drains them.
Orders == {<<"trace">>, <<"trace", "log">>, <<"trace", "snapshot">>, <<"trace", "log", "snapshot">>}

ASSUME ItemsAssumption    == Items \subseteq Nat /\ IsFiniteSet(Items) /\ Chan \in [Items -> Channels]
ASSUME CapacityAssumption == Capacity \in [Channels -> Nat \ {0}]
ASSUME WaitAssumption     == MaxWait \in Nat /\ MaxWait >= 2
ASSUME ConfigsAssumption  ==
  Configs \subseteq [protocol : {"grpc", "http", "kafka"}, order : Orders, items : SUBSET Items]

VARIABLES
  config,     \* the configuration of this process
  queue,      \* the queue of each channel
  unfinished, \* Queue.unfinished_tasks of each channel
  archived,   \* the items produced so far
  waiting,    \* the snapshot whose put() blocks, if any
  abandoned,  \* items refused by a full queue
  delivered,  \* items the backend (for kafka: the producer library) has taken
  lost,       \* items taken from a queue that will never be delivered
  gen,        \* where the generator of each consumer stands
  hand,       \* what a call has taken from the queue and not settled yet
  expired,    \* the call has lasted for QUEUE_TIMEOUT
  loop,       \* where each report thread stands
  wait,       \* its wait, in half seconds
  finished,   \* the event __finished
  fini,       \* where __fini stands
  finiPos,    \* the channel of Order it works on
  stopSet,    \* the items accepted before stop() was called
  up          \* the backend answers

dataVars == <<queue, unfinished, archived, waiting, abandoned, delivered, lost>>
genVars  == <<gen, hand, expired>>
loopVars == <<loop, wait>>
finiVars == <<finished, fini, finiPos, stopSet>>
vars     == <<config, dataVars, genVars, loopVars, finiVars, up>>

protocol == config.protocol
Order    == config.order
Active   == {Order[n] : n \in DOMAIN Order}

GenPoints  == {"idle", "get", "got", "head", "yield", "end"}
LoopPoints == {"check", "call", "wait", "exit"}
FiniPoints == {"running", "report", "join", "set", "done", "failed"}

\* wait = base = 0, or 0.5 for the snapshot thread
Base(ch) == IF ch = "snapshot" THEN 1 ELSE 0

\* min(60, wait * 2 or 1)
Backoff(w) == IF w = 0 THEN 2 ELSE IF 2 * w > MaxWait THEN MaxWait ELSE 2 * w

Init ==
  /\ config \in Configs
  /\ queue = [ch \in Channels |-> <<>>]
  /\ unfinished = [ch \in Channels |-> 0]
  /\ archived = {}
  /\ waiting = {}
  /\ abandoned = {}
  /\ delivered = {}
  /\ lost = {}
  /\ gen = [ch \in Channels |-> [k \in Consumers |-> "idle"]]
  /\ hand = [ch \in Channels |-> [k \in Consumers |-> <<>>]]
  /\ expired = [ch \in Channels |-> [k \in Consumers |-> FALSE]]
  /\ loop = [ch \in Channels |-> "check"]
  /\ wait = [ch \in Channels |-> Base(ch)]
  /\ finished = FALSE
  /\ fini = "running"
  /\ finiPos = 1
  /\ stopSet = {}
  /\ up = TRUE

-----------------------------------------------------------------------------
(* What the protocols do differently.                                      *)

\* for segment in generator: one request per item.
OneByOne(ch) == protocol = "kafka" \/ (protocol = "http" /\ ch = "trace")

\* http and kafka inherit a send_snapshot that does nothing.
Consumes(ch) == ch = "snapshot" => protocol = "grpc"

\* grpc and kafka let the exception through to the loop, http swallows it.
Raises == protocol \in {"grpc", "kafka"}

\* Where a call can fail: a stream at any time before it ends, a request when it is sent, a
\* batch when it is posted.
FailPoint(ch, k) ==
  \/ protocol = "grpc" /\ gen[ch][k] \in {"get", "head", "end"}
  \/ OneByOne(ch) /\ gen[ch][k] = "yield"
  \/ protocol = "http" /\ ~OneByOne(ch) /\ gen[ch][k] = "end" /\ hand[ch][k] # <<>>

-----------------------------------------------------------------------------
(* Producers.                                                              *)

\* Mutant: one item more than the size of the queue.
FullTooLate(ch) == Len(queue[ch]) > Capacity[ch]

Full(ch) == Len(queue[ch]) >= Capacity[ch]

\* The next item of a channel is produced.
Produce(i) ==
  /\ i \in config.items /\ Chan[i] \in Active
  /\ i \notin archived
  /\ \A j \in config.items : Chan[j] = Chan[i] /\ j < i => j \in archived
  /\ archived' = archived \cup {i}

Put(i) ==
  /\ queue' = [queue EXCEPT ![Chan[i]] = Append(@, i)]
  /\ unfinished' = [unfinished EXCEPT ![Chan[i]] = @ + 1]

\* archive and archive_log: put(block=False), or the item is abandoned.
Archive(i) ==
  /\ Chan[i] \in {"trace", "log"}
  /\ Produce(i)
  /\ \/ ~Full(Chan[i]) /\ Put(i) /\ UNCHANGED abandoned
     \/ /\ Full(Chan[i])
        /\ abandoned' = abandoned \cup {i}
        /\ UNCHANGED <<queue, unfinished>>
  /\ UNCHANGED <<config, waiting, delivered, lost, genVars, loopVars, finiVars, up>>

\* add_profiling_snapshot: the profile thread calls put() without block=False.  Snapshots exist
\* under grpc only, the other protocols never query for profile tasks.
AddSnapshot(i) ==
  /\ Chan[i] = "snapshot"
  /\ protocol = "grpc"
  /\ waiting = {}
  /\ Produce(i)
  /\ \/ ~Full(Chan[i]) /\ Put(i) /\ UNCHANGED waiting
     \/ /\ Full(Chan[i])
        /\ waiting' = {i}
        /\ UNCHANGED <<queue, unfinished>>
  /\ UNCHANGED <<config, abandoned, delivered, lost, genVars, loopVars, finiVars, up>>

\* A blocked put() goes on when there is room.
PutWakes ==
  /\ \E i \in waiting : ~Full(Chan[i]) /\ Put(i)
  /\ waiting' = {}
  /\ UNCHANGED <<config, archived, abandoned, delivered, lost, genVars, loopVars, finiVars, up>>

-----------------------------------------------------------------------------
(* One call of report, report_log or send_snapshot.                        *)

SetGen(ch, k, point) == gen' = [gen EXCEPT ![ch][k] = point]

\* The call starts; the queue is always looked at once.
OpenCall(ch, k) ==
  /\ SetGen(ch, k, IF Consumes(ch) THEN "get" ELSE "end")
  /\ UNCHANGED <<hand, expired, dataVars>>

\* Mutant: the newest item is taken first.
GetNewest(ch, k) ==
  /\ gen[ch][k] = "get"
  /\ queue[ch] # <<>>
  /\ queue' = [queue EXCEPT ![ch] = Front(@)]
  /\ hand' = [hand EXCEPT ![ch][k] = Append(@, Last(queue[ch]))]
  /\ SetGen(ch, k, "got")
  /\ UNCHANGED <<config, unfinished, archived, waiting, abandoned, delivered, lost, expired,
                 loopVars, finiVars, up>>

\* queue.get() answers an item.
Get(ch, k) ==
  /\ gen[ch][k] = "get"
  /\ queue[ch] # <<>>
  /\ queue' = [queue EXCEPT ![ch] = Tail(@)]
  /\ hand' = [hand EXCEPT ![ch][k] = Append(@, Head(queue[ch]))]
  /\ SetGen(ch, k, "got")
  /\ UNCHANGED <<config, unfinished, archived, waiting, abandoned, delivered, lost, expired,
                 loopVars, finiVars, up>>

\* Mutant: task_done() is forgotten.
TaskNotDone(ch, k) ==
  /\ gen[ch][k] = "got"
  /\ SetGen(ch, k, IF OneByOne(ch) THEN "yield" ELSE "head")
  /\ UNCHANGED <<config, dataVars, hand, expired, loopVars, finiVars, up>>

\* queue.task_done(), before anything is sent.
TaskDone(ch, k) ==
  /\ gen[ch][k] = "got"
  /\ unfinished' = [unfinished EXCEPT ![ch] = @ - 1]
  /\ SetGen(ch, k, IF OneByOne(ch) THEN "yield" ELSE "head")
  /\ UNCHANGED <<config, queue, archived, waiting, abandoned, delivered, lost, hand, expired,
                 loopVars, finiVars, up>>

\* Mutant: the generator does not look at the clock.
GenHeadForever(ch, k) ==
  /\ gen[ch][k] = "head"
  /\ SetGen(ch, k, "get")
  /\ UNCHANGED <<config, dataVars, hand, expired, loopVars, finiVars, up>>

\* The head of the generator's loop: it ends once the call has lasted for QUEUE_TIMEOUT.
GenHead(ch, k) ==
  /\ gen[ch][k] = "head"
  /\ SetGen(ch, k, IF expired[ch][k] THEN "end" ELSE "get")
  /\ UNCHANGED <<config, dataVars, hand, expired, loopVars, finiVars, up>>

\* except Empty: at once for __fini, after the timeout for the report thread.
GetEmpty(ch, k) ==
  /\ gen[ch][k] = "get"
  /\ queue[ch] = <<>>
  /\ k = "fini" \/ expired[ch][k]
  /\ SetGen(ch, k, "end")
  /\ UNCHANGED <<config, dataVars, hand, expired, loopVars, finiVars, up>>

\* The clock passes the start of the call plus QUEUE_TIMEOUT.
Expire(ch, k) ==
  /\ gen[ch][k] # "idle"
  /\ ~expired[ch][k]
  /\ expired' = [expired EXCEPT ![ch][k] = TRUE]
  /\ UNCHANGED <<config, dataVars, gen, hand, loopVars, finiVars, up>>

\* A request of its own for each item succeeds.
SendOne(ch, k) ==
  /\ up
  /\ gen[ch][k] = "yield"
  /\ delivered' = delivered \cup ToSet(hand[ch][k])
  /\ hand' = [hand EXCEPT ![ch][k] = <<>>]
  /\ SetGen(ch, k, "head")
  /\ UNCHANGED <<config, queue, unfinished, archived, waiting, abandoned, lost, expired,
                 loopVars, finiVars, up>>

\* The call ends, and with it the generator: its clock and what it had in hand.
CloseCall(ch, k) ==
  /\ hand' = [hand EXCEPT ![ch][k] = <<>>]
  /\ SetGen(ch, k, "idle")
  /\ expired' = [expired EXCEPT ![ch][k] = FALSE]

\* What a call that returned normally is followed by.
AfterReturn(ch, k) ==
  \/ /\ k = "loop"
     /\ loop' = [loop EXCEPT ![ch] = "wait"]
     /\ wait' = [wait EXCEPT ![ch] = Base(ch)]
     /\ UNCHANGED finiVars
  \/ /\ k = "fini"
     /\ fini' = "join"
     /\ UNCHANGED <<finished, finiPos, stopSet, loopVars>>

\* Mutant: the exception ends the report thread.
AfterRaiseExits(ch, k) ==
  \/ /\ k = "loop"
     /\ loop' = [loop EXCEPT ![ch] = "exit"]
     /\ UNCHANGED <<wait, finiVars>>
  \/ /\ k = "fini"
     /\ fini' = "failed"
     /\ UNCHANGED <<finished, finiPos, stopSet, loopVars>>

\* What an exception is followed by: the report thread backs off, __fini is left.
AfterRaise(ch, k) ==
  \/ /\ k = "loop"
     /\ loop' = [loop EXCEPT ![ch] = "wait"]
     /\ wait' = [wait EXCEPT ![ch] = Backoff(@)]
     /\ UNCHANGED finiVars
  \/ /\ k = "fini"
     /\ fini' = "failed"
     /\ UNCHANGED <<finished, finiPos, stopSet, loopVars>>

\* The call has nothing left that could fail.
NothingPending(ch, k) ==
  \/ OneByOne(ch)
  \/ ~Consumes(ch)
  \/ protocol = "http" /\ hand[ch][k] = <<>>

\* Mutant: task_done() is called again for everything the call carried.
ReturnsDoneAgain(ch, k) ==
  /\ gen[ch][k] = "end"
  /\ up \/ NothingPending(ch, k)
  /\ delivered' = delivered \cup ToSet(hand[ch][k])
  /\ unfinished' = [unfinished EXCEPT ![ch] = @ - Len(hand[ch][k])]
  /\ CloseCall(ch, k)
  /\ AfterReturn(ch, k)
  /\ UNCHANGED <<config, queue, archived, waiting, abandoned, lost, up>>

\* The generator has ended, and so does the call: what it carried is delivered.
CallReturns(ch, k) ==
  /\ gen[ch][k] = "end"
  /\ up \/ NothingPending(ch, k)
  /\ delivered' = delivered \cup ToSet(hand[ch][k])
  /\ CloseCall(ch, k)
  /\ AfterReturn(ch, k)
  /\ UNCHANGED <<config, queue, unfinished, archived, waiting, abandoned, lost, up>>

\* A stream that failed while its generator was blocked in get(): the thread that reads the
\* generator takes one more item, and nobody sends it.
TakesOneMore(ch, k) ==
  /\ protocol = "grpc"
  /\ gen[ch][k] = "get"
  /\ queue[ch] # <<>>

\* The call fails.  The backend may have taken a first part of what the call carried; the rest
\* left the queue and is not put back.
CallFails(ch, k) ==
  /\ ~up
  /\ Consumes(ch)
  /\ FailPoint(ch, k)
  /\ \E n \in 0 .. Len(hand[ch][k]) :
       LET sent == {hand[ch][k][m] : m \in 1 .. n}
           rest == ToSet(hand[ch][k]) \ sent
       IN  /\ delivered' = delivered \cup sent
           /\ \/ lost' = lost \cup rest /\ UNCHANGED <<queue, unfinished>>
              \/ /\ TakesOneMore(ch, k)
                 /\ lost' = lost \cup rest \cup {Head(queue[ch])}
                 /\ queue' = [queue EXCEPT ![ch] = Tail(@)]
                 /\ unfinished' = [unfinished EXCEPT ![ch] = @ - 1]
  /\ CloseCall(ch, k)
  /\ IF Raises THEN AfterRaise(ch, k) ELSE AfterReturn(ch, k)
  /\ UNCHANGED <<config, archived, waiting, abandoned, up>>

-----------------------------------------------------------------------------
(* The report threads.                                                     *)

LoopCall(ch) ==
  /\ loop[ch] = "check"
  /\ ~finished
  /\ loop' = [loop EXCEPT ![ch] = "call"]
  /\ OpenCall(ch, "loop")
  /\ UNCHANGED <<config, wait, finiVars, up>>

\* __finished.wait(wait) returns.
LoopAgain(ch) ==
  /\ loop[ch] = "wait"
  /\ loop' = [loop EXCEPT ![ch] = "check"]
  /\ UNCHANGED <<config, dataVars, genVars, wait, finiVars, up>>

LoopExit(ch) ==
  /\ loop[ch] = "check"
  /\ finished
  /\ loop' = [loop EXCEPT ![ch] = "exit"]
  /\ UNCHANGED <<config, dataVars, genVars, wait, finiVars, up>>

-----------------------------------------------------------------------------
(* __fini, from stop() or at exit.                                         *)

FiniChannel == Order[finiPos]

\* stop() starts with report(queue, False); after an exception it may be called again.
Stop ==
  /\ fini \in {"running", "failed"}
  /\ fini' = "report"
  /\ finiPos' = 1
  /\ stopSet' = archived \ waiting
  /\ OpenCall(Order[1], "fini")
  /\ UNCHANGED <<config, loopVars, finished, up>>

\* Mutant: __fini does not join the queue.
NoJoin ==
  /\ fini = "join"
  /\ \/ /\ finiPos < Len(Order)
        /\ finiPos' = finiPos + 1
        /\ fini' = "report"
        /\ OpenCall(Order[finiPos + 1], "fini")
     \/ /\ finiPos = Len(Order)
        /\ fini' = "set"
        /\ UNCHANGED <<finiPos, genVars, dataVars>>
  /\ UNCHANGED <<config, loopVars, finished, stopSet, up>>

\* queue.join() returns, and the next queue is reported.
JoinReturns ==
  /\ fini = "join"
  /\ unfinished[FiniChannel] = 0
  /\ \/ /\ finiPos < Len(Order)
        /\ finiPos' = finiPos + 1
        /\ fini' = "report"
        /\ OpenCall(Order[finiPos + 1], "fini")
     \/ /\ finiPos = Len(Order)
        /\ fini' = "set"
        /\ UNCHANGED <<finiPos, genVars, dataVars>>
  /\ UNCHANGED <<config, loopVars, finished, stopSet, up>>

SetFinished ==
  /\ fini = "set"
  /\ finished' = TRUE
  /\ fini' = "done"
  /\ UNCHANGED <<config, dataVars, genVars, loopVars, finiPos, stopSet, up>>

\* The backend goes away and comes back.
Outage ==
  /\ up' = ~up
  /\ UNCHANGED <<config, dataVars, genVars, loopVars, finiVars>>

-----------------------------------------------------------------------------
CallStep(ch, k) ==
  \/ Get(ch, k) \/ TaskDone(ch, k) \/ GenHead(ch, k) \/ GetEmpty(ch, k) \/ SendOne(ch, k)
  \/ CallReturns(ch, k) \/ CallFails(ch, k)

LoopStep(ch) == LoopCall(ch) \/ LoopAgain(ch) \/ LoopExit(ch)

Next ==
  \/ \E i \in Items : Archive(i) \/ AddSnapshot(i)
  \/ PutWakes
  \/ \E ch \in Active, k \in Consumers : CallStep(ch, k) \/ Expire(ch, k)
  \/ \E ch \in Active : LoopStep(ch)
  \/ Stop \/ JoinReturns \/ SetFinished \/ Outage

Spec == Init /\ [][Next]_vars

\* Every thread that can run is scheduled and the clock moves; a request to a backend that is
\* away fails rather than hangs.  Nothing makes the application produce, or call stop().
Fairness ==
  /\ \A ch \in Channels, k \in Consumers : WF_vars(CallStep(ch, k)) /\ WF_vars(Expire(ch, k))
  /\ \A ch \in Channels : WF_vars(ch \in Active /\ LoopStep(ch))
  /\ WF_vars(PutWakes)
  /\ WF_vars(JoinReturns)
  /\ WF_vars(SetFinished)

FairSpec == Spec /\ Fairness

-----------------------------------------------------------------------------
(* Properties.                                                             *)

AllQueued   == UNION {ToSet(queue[ch]) : ch \in Channels}
Popped(ch)  == Cardinality({k \in Consumers : gen[ch][k] = "got"})

\* Every variable stays in its type, and a queue in its size.
TypeOK ==
  /\ config \in Configs
  /\ queue \in [Channels -> Seq(Items)]
  /\ \A ch \in Channels : Len(queue[ch]) <= Capacity[ch]
  /\ unfinished \in [Channels -> Nat]
  /\ archived \subseteq Items /\ waiting \subseteq Items /\ abandoned \subseteq Items
  /\ delivered \subseteq Items /\ lost \subseteq Items /\ stopSet \subseteq Items
  /\ gen \in [Channels -> [Consumers -> GenPoints]]
  /\ hand \in [Channels -> [Consumers -> Seq(Items)]]
  /\ expired \in [Channels -> [Consumers -> BOOLEAN]]
  /\ loop \in [Channels -> LoopPoints]
  /\ wait \in [Channels -> 0 .. MaxWait]
  /\ finished \in BOOLEAN
  /\ fini \in FiniPoints
  /\ finiPos \in DOMAIN Order
  /\ up \in BOOLEAN

\* What queue.join() waits for: the items still in the queue and those taken but not yet marked
\* done.  In particular it never goes below zero, which would make task_done() raise.
JoinAccounts ==
  \A ch \in Channels : unfinished[ch] = Len(queue[ch]) + Popped(ch)

\* Without stop() there is one consumer per queue, and it delivers in the order of production.
DeliveredInOrder ==
  [][fini = "running" =>
       \A i \in delivered' \ delivered, j \in delivered : Chan[i] = Chan[j] => j < i]_vars

\* A call of report ends even if the application produces for ever ("to make sure we exit
\* eventually instead of being fed continuously", protocol/grpc.py:104).
CallEnds ==
  \A ch \in Channels, k \in Consumers : (gen[ch][k] # "idle") ~> (gen[ch][k] = "idle")

\* With the backend back for good, what is in a queue is taken out of it while the agent runs,
\* whatever backoff the outages before led to.
QueueDrains ==
  <>[]up => \A i \in Items : (i \in AllQueued) ~> (i \notin AllQueued \/ finished)

\* With the backend back for good and no more items produced, stop() returns.
StopReturns ==
  <>[]up => ((fini = "report") ~> (fini \in {"done", "failed"}))

\* "the snapshot queue is full, the snapshot will be abandoned" (agent/__init__.py:261): the
\* profile thread is never held up by a full queue.
FullSnapshotQueueAbandons ==
  waiting = {}

-----------------------------------------------------------------------------
(* What the pipeline promises.                                             *)

Times(i, seq) == Cardinality({n \in DOMAIN seq : seq[n] = i})
Bit(b)        == IF b THEN 1 ELSE 0
Nowhere       == [blocked |-> 0, refused |-> 0, queued |-> 0, taken |-> 0, delivered |-> 0, lost |-> 0]

\* How often an item that has been produced is in each place.
Copies(i) ==
  [blocked   |-> Bit(i \in waiting),
   refused   |-> Bit(i \in abandoned),
   queued    |-> Times(i, queue[Chan[i]]),
   taken     |-> Times(i, hand[Chan[i]]["loop"]) + Times(i, hand[Chan[i]]["fini"]),
   delivered |-> Bit(i \in delivered),
   lost      |-> Bit(i \in lost)]

Promise == INSTANCE Pipeline WITH
  copies <- [i \in Items |-> IF i \in archived THEN Copies(i) ELSE Nowhere],
  phase  <- CASE fini \in {"running", "failed"} -> "running"
              [] fini \in {"report", "join", "set"} -> "stopping"
              [] fini = "done" -> "stopped",
  due    <- stopSet

\* Two consumers take from each queue, calls fail half-way, full queues refuse, stop() races the
\* report threads: still every item goes its way once, from the producer to the backend or to
\* where it is lost, and nothing accepted before stop() is queued when that has finished.
ImplementsPipeline == Promise!Spec
=============================================================================
