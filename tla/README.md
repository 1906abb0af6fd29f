# TLA+ models of pip_libs

This directory holds a verification project for the repository: TLA+ modules, TLC
configurations and TLAPS proofs. The repository is a collection of Python packages. By far the
largest, and the one with the concurrency, is the SkyWalking agent
(`apache-skywalking-zoe-0.8.0.dev5/skywalking`, below `skywalking/`); the others are small
libraries for FastAPI services.

Every definition that models code is listed in `PROJECT.json` ("map") with its file and lines;
so are the mutants, one for each property of a passing run, which change a definition the way
a plausible bug would and break that property.

## 1. Inventory

### The SkyWalking agent

| part | state | operations |
|---|---|---|
| trace context (`trace/`, `decorators.py`) | per request or task: a stack of spans in a context variable; per context: a count of open spans, the next span id, a segment with related traces | `new_local_span`, `new_entry_span`, `new_exit_span`, `Span.start/stop/extract/inject`, `capture`, `continued`, `runnable` |
| report pipeline (`agent/`, `agent/protocol/`, `client/`) | three bounded queues with their `unfinished_tasks`; report threads and their backoff; `__finished` | `archive`, `archive_log`, `add_profiling_snapshot`, `report`, `report_log`, `send_snapshot`, `stop` |
| profile tasks (`command/`, `profile/profile_service.py`) | command queue, cache of serial numbers, list of tasks, timers, the current execution context | `do_query`, `receive_command`, `dispatch`, `add_profile_task`, `process_profile_task`, `stop_current_profile_task` |
| profiling slots (`profile/profile_context.py`) | an array of slots with a counter, the status of each traced request, a count of sampled traces | `attempt_profiling`, `profiling_recheck`, `stop_tracing_profile`, the profile thread |
| heartbeat, fork hooks | a thread with backoff; copies after a fork | `__heartbeat`, `__fork_before`, `__fork_after_in_*` |
| plugins, configuration, logs, CLI | patched third-party functions, environment variables | wrappers that open spans; set-up |

How they interact. A plugin opens a span in the **trace context**; the last span of a context to
stop calls `agent.archive`, which puts the segment on the trace queue of the **report
pipeline**. `new_entry_span` asks the current execution context for a **profiling slot**; the
profile thread of that context samples the stacks of the requests in the slots and puts
snapshots on the snapshot queue. The query thread fetches commands, and the dispatch thread
turns them into **profile tasks**, whose timers create and stop execution contexts. All of it
runs in one process: request threads or asyncio tasks, one daemon thread per queue, the query
and dispatch threads, a profile thread per task, timer threads, and the main thread in `stop`.

What is hard:

* Queues with two consumers, the report thread and `__fini`; failures of the backend in the
  middle of a stream; backoff; `Queue.join` without a timeout.
* A slot is reserved by a compare-and-set on a counter and found by a separate scan, while
  another thread gives slots back.
* Contexts shared by tasks that outlive the spans they were created under; spans of generators,
  which end in any order and in any flow, also one without a stack; entry and exit spans that are
  inherited and entered several times, also after their end; suppression that has to stick.
* Commands that are delivered again and again; timers that fire late, and one left behind by a
  task that was replaced; a list that is emptied and refilled while another thread appends.

What makes the parts correct: a segment is archived once, when it is complete, and is final from
then on (the code keeps this but for one case, section 3); what is put on a queue is delivered, refused or lost by a failed call, never two of
these; `stop` leaves nothing behind and returns; a slot is never lost nor given twice and the
limits on slots and samples hold; a task is executed once, profiles alone, ends and is notified
once.

### The other packages

| part | what it keeps | what makes it correct |
|---|---|---|
| redis lock (`zoe_injector_persistence/lock_factory.py`) | a key with an expiry | only one holder, as long as no lock has expired under one |
| unit of work and outbox (`unit_of_work_impl.py`, `out_box.py`, `event_bus_impl.py`) | one session per request | the change and its events are committed together or not at all; a block given up leaves nothing |
| event ids (`snowflake/__init__.py`) | last timestamp and sequence | the ids of a process increase |
| request scope (`fastapi_injector/request_scope.py`) | a cache per request id | one session per request, none shared, none left |
| nacos configuration (`zoe_nacos_config`) | one configuration object and the version noted | the object comes to hold the newest configuration that parses |
| zoelogger (`sinks/logstash.py`, `sinkguru/impl.py`) | an asyncio queue and senders | messages are sent in order, or given up; none stays |
| middleware, exception handlers, documentation, value objects | nothing that changes | - |

How they interact. The middleware opens a **request scope** around each request. Out of it the
injector takes one session for the **unit of work** and for the **outbox**, so that both write
in one transaction. The handler enters a **redis lock** and inside it one or more blocks of the
unit of work; a domain event gets its **id** when it is constructed and is a row of the
outbox when it is posted. In the background the **nacos** listener replaces the attributes of the
configuration object and reports what it does through logging, which **zoelogger** hands on to
loguru, and that to the asynchronous sink.

What is hard: handlers give way at every `await`; locks expire under their holders; answers and
deletes are lost; a commit may fail and have taken place; several processes have one worker
number, and clocks of their own; processes die; a version is noted before it is parsed; a
server in trouble answers with a page that is taken for a configuration; connections break
before it is noticed.

`PROJECT.json` lists the components with their files and the hazards with their lines.

## 2. Modules

| module | models | extended by |
|---|---|---|
| `ProfileSlots` | one `ProfileTaskExecutionContext` | `MCProfileSlots`, `ProfileSlots_proofs` |
| `AgentReport` | queues, report threads, `stop` | `MCAgentReport`, `AgentReport_proofs` |
| `Pipeline` | what the report pipeline promises | implemented by `AgentReport` |
| `Plugins` | what the plugins ask of the tracing core | `TraceContext` |
| `TraceContext` | flows, contexts, spans, segments | `MCTraceContext`, `TraceContext_proofs` |
| `SegmentStore` | what the tracing core promises | implemented by `TraceContext` |
| `ProfileTasks` | commands, tasks, timers | `MCProfileTasks`, `ProfileTasks_proofs` |
| `IdWorker`, `RedisLock`, `UnitOfWork`, `RequestScope` | one package each | `Service` |
| `Service` | the requests of a service that is built from these | `MCService`, `Service_proofs`, `Atomicity_proofs` |
| `NacosConfig`, `LogSink` | the listener and its object; the sink and its senders | `Background` |
| `Background` | both in one event loop | `MCBackground`, `Background_proofs` |
| `SequenceLemmas` | facts about sequences for the proofs | `TraceContext_proofs`, `ProfileTasks_proofs`, `AgentReport_proofs`, `Background_proofs` |

The modules `MC...` hold the values of the constants for TLC. Definitions whose comment begins
with "Mutant" are the faulty variants; no specification uses them.

### ProfileSlots

A *context* is one traced request (a `SpanContext` with its `ThreadProfiler` and its
`ProfileStatusReference`). `pc[c]` is the point it has reached in `attempt_profiling` or
`profiling_recheck`: `ReadCount`, `CheckTask` (the checks against the task), `Reserve` (the
`compare_and_set` of the counter), `OccupySlot` (one step of the scan: `set` on one slot of the
atomic array), `ReturnReference` or `ReturnNone` (the assignment of `profile_status` in
`new_entry_span`). `RecheckGet` and `RecheckUpdate` are the unsynchronised read and write of
`profiling_recheck`. The profile thread has a point `prof` of its own: it looks at a slot,
makes a snapshot or fails to. A snapshot is put into the agent's queue (`AddSnapshot`), where the
thread waits while there is no room: `add_profiling_snapshot` calls `put` without a timeout. `snapshots`
is the length of that queue and `ReportSnapshot` its report thread, which takes one when the
backend lets it. If the dump fails, the profile thread clears the slot, marks the status and decrements the
counter, in three steps because the code makes three separate calls on atomic objects.
`StopTask` is the end of the task, from outside. A thread may exit at any moment at which it is
in none of the calls; time passes by `Elapse`, which makes a context old enough to be dumped.

### AgentReport and Pipeline

Each channel (segments, logs, snapshots) has a queue with the count `unfinished` and two
consumers, the report thread `loop` and `fini`. A call of `report` begins with `OpenCall` and
moves through the points of the generator: `get`, `got` (taken but not marked done), `head` (the
test of the elapsed time), `yield` (a request for this item alone), `end`; `CloseCall` forgets
its local variables. `protocol` decides what a failure does to the call: a gRPC stream can fail
at any time and loses what it took, together with an item its reader takes afterwards; HTTP
swallows the exception; Kafka sends item by item. `Archive` and `AddSnapshot` are the two
kinds of `put`; the second blocks. `Outage` changes the availability of the backend at any
time. The waits of a report thread are kept as numbers so that the doubling and its limit
are part of the model, but a wait may end at any time: `wait` guards no action, and what is checked of the
backoff is its bound, not its length. The reader that a failed gRPC stream leaves behind takes its
one more item in the step of the failure, and marks it done in the same step; that it could be seen
between the two is left out. Delivery means that the client library
accepted the item (for Kafka: the producer's buffer).

`Pipeline` knows neither threads nor calls. An item is in one place, and moves: new, blocked,
refused, queued, taken, delivered, lost; when `stop` comes to its end nothing accepted before it
is queued. `ImplementsPipeline` maps every item to how often it is in the queues, the
consumers' hands and the sets of `AgentReport`; a copy or a lost item would be in two places, or
in none.

### TraceContext, Plugins and SegmentStore

`Plugins` has the span call of each plugin's wrapper: entry, exit or local, its component (which
matters where one server runs under another), whether it has a peer and may inherit, what it does
with a carrier, and whether the span is that of a generator. Most plugins make the same call,
so that a workload of `TraceContext` is a set of calls, one for each kind of library: a web
application, a worker, a message handler and a consumer that polls. `Calls`, of which every workload
is a part, has the calls the code admits: `Span.inject` raises but for exit spans, and it is to entry
spans that carriers are given. No plugin lets its
exit span be inherited; the workload with `Nested` is that of an application that uses the API
itself.

A flow is an asyncio task or a thread, with a stack of spans that is a context variable: `Spawn`
copies it, `RunThread` starts with an empty one and, for a function made by `@runnable`, with a
snapshot and otherwise without a context variable at all (`unset`), until `get_context` gives it
one (`Create`). Creating a span is one action per kind and outcome (`NewNoop`, `NewLocalSpan`,
`NewEntrySpan`, `InheritEntrySpan`, ...), `LateRaises` being the outcome in which the code raises.
A server or a client inherits the span on top of the stack if its kind and component match
(`Joins`, `UnderClient`). As in the code, nothing else is asked: on a copied stack that span can be one that
another flow has opened, and also one that has ended, which is then started, recorded and stopped again.
`Start` and `EndSpan` are the two ends of `with span`: `Stop` ends the innermost block of a flow,
`Abandon` that of a generator, in whatever flow it is closed. In a flow without a context variable
the end of a span raises `LookupError` in `_spans_dup`, after the depth has become zero and before
the span is recorded and the count decremented: the span is `lost`, and its segment with it. `Archive` is the call of `agent.archive` by the
one that saw the count at zero. Carriers of exit spans are on the `wire`, from which entry spans and polls (`Extract`)
take them, of this process or of others. Flows switch between operations of the context,
never within one, as asyncio tasks do (`Turn`).

`SegmentStore` is what the rest of the agent relies on: a span belongs to a segment from its
creation, is recorded when it ends, and the segment is archived once, when nothing in it is
open; afterwards neither its spans nor its traces change. The report thread reads segments
while requests run on, so a change that comes after `archive` is a race. The one exception is part of
it, as an action of its own: `Reopen` opens a recorded span again, and the segment (`reopened`) then goes on
after it has been archived. In `TraceContext` these are the segments of which a finished span has been
inherited: one that is open again, or is recorded twice (`Reopened`).

### ProfileTasks

Tasks are numbered by the time at which they were created. `QueryCommands` and `ReceiveCommand`
are the query thread; `TakeCommand`, `CheckTask`, `PutTask` and `CacheCommand` the dispatch
thread, in the order of `CommandService.dispatch`; `StartTimer` and `StopTimer` are timers that
have fired and obtained `_rlock`. What its holder does is taken step by step, since the
dispatch thread does not take that lock: the compare-and-set of the current context
(`StopTask`), `StopProfiling`, `DrainList` and `FillList` once per item, `NotifyFinish`,
`BeginTask`, `StartProfiling`. The report of a finished task is made under the lock and has no
timeout in the code; it is taken to end.

### Service and its parts

`IdWorker` is `get_id` for the coroutines of a process: the sequence, the wait for the next
millisecond (during which the process does nothing else), the exception when the clock is back,
a restart that forgets the last timestamp. Every process has `IdWorker(1, 1, 0)`, so `Part` is
the same for all. `RedisLock` is one lock: the answer to the `set` may be
lost, the `delete` may fail or remove another holder's key, the key expires; an `AlreadyLocked`
raised by an inner lock leaves the outer key where it is (`LeaveKey`). `UnitOfWork` has
sessions on a database with row locks and snapshot reads (external, as SQLAlchemy is): a
failed commit leaves the session unusable until it is rolled back, and may have reached the
database all the same. The row's value is the set of the blocks it contains, so that an overwritten
change shows. `RequestScope` is `fastapi_injector`'s; the scope in which `get_async_session` is bound is
the decorator of a package that is not in the repository (`contextvar_request_scope`), and is
taken to be that one.

`Service` puts them in the order in which a handler goes through them; `pc` is the step of a
request. An exception in a block rolls it back; the handler may catch it and try another
block, on the same session. The comment in the unit of work that a request has only
one transaction (it says: 保证一次请求只能有一个事务，不能多次commit) is not something the code
enforces, so the model allows several. `ProcessDies` ends all the requests of a process. `Forget` resets the locals of
requests that are over.

### Background and its parts

`NacosConfig` is `get_zoe_nacos_config` and the listener: `Poll`, the answers to it, `Fetched`
with what is published by then or with an error, and `Update`, which notes the version first and
replaces the attributes if the body parses. The status of an answer is not looked at: an error
page is noted and does not parse; an error that is a JSON object parses, and resets the fields
to their defaults. Only the fields in `__annotations__` are replaced: inherited ones keep
what they were loaded with. What the server answers while nothing is published is left open. A configuration that cannot
be parsed at the start ends the process.

`LogSink` is the asynchronous logstash sink: a task per message, the buffer, senders with a
connection and a backoff. A sender that cannot connect gives its message up; one that
writes to a broken connection loses it without notice. loguru drops the messages of threads
without an event loop. `Background` joins the two: what the listener reports is logged.

## 3. Runs

| run | what it asks | instance |
|---|---|---|
| `profile_slots` | are slots, counter, statuses and samples consistent under every interleaving; is a slot kept until it is released | three contexts on two threads, two slots, one sample |
| `profile_slots_live` | does the slot of a dead thread come back, unless the queue of snapshots stays full (`DeadThreadFreesSlot`) | two contexts, one slot, a queue of one |
| `profile_slots_crash` | can one trace end the whole task (it can) | the same |
| `agent_report` | does `join` count right, is the order kept, do the threads implement `Pipeline` | five configurations, up to three items, queues of one and two |
| `agent_report_live` | does every call end, do the queues drain, does `stop` return | two segments under each protocol, produced again and again |
| `agent_snapshot_full` | is a snapshot abandoned when the queue is full (it is not) | two snapshots, a queue of one |
| `trace_context` | are all segments archived when complete, trees, suppressed for good, joined by their references; do the flows implement `SegmentStore`, with finished and foreign spans inherited and generators collected in any flow | four workloads, two flows, three spans |
| `trace_context_late` | is a child of a finished span created (it is not) | two flows, three spans |
| `trace_context_again` | does what has been archived stay finished (it does not) | a web application, two flows, three spans |
| `profile_tasks` | executed once, alone, stopped by the right timer, notified once, the list intact, every task ends | three tasks with overlapping times |
| `service` | do critical sections exclude, are changes and events committed together, do blocks that were given up leave nothing, is the scope that of active requests, do ids increase | five loads of up to three requests and three blocks, two processes |
| `background` | is what is noted applied, does the configuration catch up, are messages in order, do they leave | three loads, three versions, two senders |

The runs that end in a counterexample show disagreements between the code and its own words:

* `profile_slots_crash`: the `ThreadProfiler` is in its slot before `profile_status` is assigned;
  the profile thread dereferences `None` and the task dies (`profile_context.py:184`).
* `agent_snapshot_full`: `add_profiling_snapshot` waits for room, though its `except Full` says
  that the snapshot is abandoned (`agent/__init__.py:259`).
* `trace_context_late`: where the comment wants a reference to the finished parent, the code
  raises `TypeError`, because the peer of a local span is `None` (`trace/context.py:110`).
* `trace_context_again`: under a finished parent the same comment wants a span that refers to it, but a
  server (or a client) whose component matches inherits the finished span itself
  (`trace/context.py:138`, `162`). A task spawned under a werkzeug span that enters a Flask application
  after the end of the request starts that span again; it is recorded twice, and the segment archived
  twice and changed while it is reported.

Two more defects have no run of their own. The `LookupError` of `_spans_dup` (`trace/context.py:49`) in a
thread that collects a generator is part of `EndSpan`; `ArchivedComplete` says that it loses segments of
streams only. The overlap test of profile tasks (`profile_service.py:197`) compares the end of
a task with its own start instead of the other's, and rejects every task that ends before a listed one does;
`Conflict` models it as it is.

Some properties say less than one might wish, because the code guarantees no more:

* `Exclusive` ends when the key expires under a holder, and holds again once the block has been
  empty: a late holder deletes the key of the next, and so on. `OutboxAgrees` then promises only that no
  change is committed without its event, because a change can be overwritten.
* `IdsIncrease` speaks of the ids of one process. Two processes, or one that was restarted
  with its clock set back, give out the same ids; the primary key of the outbox is what refuses
  them, and that is part of `PostEvent`.
* `ArchivedComplete` and `ImplementsStore` except the segments of which a finished span was inherited from
  what they say about the time after `archive`, and the former those whose span was lost. That
  there is no other way to archive early, twice or never, or to change what was archived, is what
  they say, over inherited spans of other flows, too.
* `DeadThreadFreesSlot` has the premise that the queue of snapshots has room again and again.
* `TracesJoin` excepts segments in which an entry span was nested: its carrier replaces the
  segment's own trace, which a reference may have named by then.
* `NotedIsApplied` and `ConfigCatchesUp` speak of the fields the class declares itself.

### Bounds, and why they are enough

* `ProfileSlots`: two slots are the least for which a scan meets a slot that fills ahead of it and
  one that empties behind it; three contexts are one more than there are slots, so that a
  reservation is refused and retried. The proofs of section 5 hold for every number of both.
  `MaxSnapshots = 1` makes the queue of snapshots full after the first.
  The two contexts of one thread are interchangeable, which the run uses as a symmetry (safety only).
* `AgentReport`: three items and a queue of two give a refused item, a full queue and an empty one
  and both consumers with an item each. `MaxWait = 2` (one second) is the first value at which
  the backoff is limited. Two active channels suffice for the order in `__fini`; the
  channels share nothing else.
* `TraceContext`: two flows are the least for a context that outlives the spans it was copied with,
  and three spans make a parent, its child and one more that is created late or in a segment of
  its own; inheritance needs a depth of two (`MaxDepth`). `MaxRecords = 3` lets a finished span be inherited until its
  segment has three records, so that it is archived a third time. `MaxTraces` bounds the trace ids related
  to a segment by polls. Carriers are sent and taken in the workloads of the message handler and the
  consumer; the web application, whose servers inherit, is `Alone`, without them. Its liveness is not checked: with fairness for each block of each flow the
  instance is too large, and without a generator or a poll it says nothing.
* `ProfileTasks`: a successor that replaces a task, and a third that is on the list in the meantime;
  `MaxCommands = 4` lets every command be queued twice while it is not executed. `CacheSize` is as large as the number of tasks (an assumption:
  the code's 64 entries are taken to be enough for what is in flight).
* `Service`: three requests in two processes with a block each meet at the lock and its expiry, two
  requests of one process with two blocks each interleave at every await and have a failed
  commit followed by another block, one request with three blocks repeats this, and two requests in two processes with
  clocks that move apart collide in their ids (the load fixes which of this happens; all of it together is
  too large). `Seqs = 2` makes the sequence wrap, `MaxTime = 1` is the least for a clock that goes back.
  `r2` and `r3` are interchangeable.
* `Background`: two versions that parse and one that does not, published up to twice after the first;
  two senders and up to two failures and messages of the application, beside those of the listener.

`CHECK_DEADLOCK FALSE` is set where the workload is finite and the system comes to rest when it
is used up; in `background` also because the process may exit at the start.

### Fairness

Weak fairness is assumed for each thread of the agent that can run: the interpreter schedules
every thread, and nothing in a loop can disable it for good but the guards that are modelled.
Two assumptions go further. In `ProfileTasks` a timer thread that waits for
`_rlock` gets it in the end (strong fairness of `StartTimer` and `StopTimer`); only as many
timers contend as there are tasks. In `ProfileSlots` time passes for each context. The profile thread
is not scheduled out of a blocked `put`: `AddSnapshot` is enabled only while there is room, no fairness is
assumed of `ReportSnapshot`, and `DeadThreadFreesSlot` speaks of the behaviours in which there is room
again and again. Nothing is assumed of the
backend: `QueueDrains` and `StopReturns` speak of the behaviours in which it comes back for good. New items are
never promised, and in `agent_report_live` never withheld: `EndlessSpec` lets the application go on
producing until the agent is stopped.

In `Background` the event loop runs every task that is ready, a request is answered or fails
(clients have timeouts), and an attempt to connect ends. Nobody has to publish or to log, no failure has
to happen, and `ConfigCatchesUp` speaks of the behaviours in which publishing ends. `Service` has no
liveness property: a lock that is never free refuses, it does not wait.

## 4. What is only model-checked

All liveness properties (`DeadThreadFreesSlot`, `QueueDrains`, `StopReturns`, `CallEnds`,
`TasksExecuted`, `TasksFinish`, `ConfigCatchesUp`, `LogsLeave`), which the proof system does not
treat. Every other property of the passing runs is also a theorem.

## 5. Proofs

Every theorem is about the specification and for all values of the constants that satisfy the
named assumptions of its module; there is a lemma for each step and each conjunct it can disturb.

### ProfileSlots_proofs

`ProfileSlots_proofs` proves for every set of contexts, number of slots and sampling limit, from
the assumptions of `ProfileSlots` (finitely many contexts, positive limits, each context on one
thread):

* `TypeCorrect`: the types, with the counter never above `MaxParallel`;
* `ReservationsFindSlots`: a context whose reservation succeeded never scans past the last slot;
* `CountExact`: the counter equals the reservations under way, the slots held and the one being
  given back;
* `OneSlot`, `SlotsWatched`, `SamplingLimit`: no context holds two slots, whatever is in a slot
  is one the profile thread acts on, and no more than `MaxSampling` traces are dumped.

None of these is inductive. The invariant `IInv` adds:

* `SuffixInv`, the heart of the argument. Call a context *located* at `i` or beyond if it scans at
  a position of at least `i` or holds such a slot. At most `MaxParallel - i` contexts are. At
  `i = 0` that is the limit on reservations, and it must be kept for the other `i` when a scanning
  context moves on: it moves past slot `i` only if that slot is taken, by a context that is located
  at `i` but not at `i + 1`, so that with itself gone to `i + 1` the count there is still one
  less than the count at `i`. At `i = MaxParallel` it says that nobody is past the end.
* `CallInv`: what a context that scans or holds a slot looks like, in particular what
  `profiling_recheck` has read and will write back;
* `ProfInv`: what the profile thread's local variables say while it gives a slot back;
* `DumpInv`: the traces dumped are at most those counted, and at most the limit.

`SlotsKept` proves `SlotKept` from `IInv` and `ClearInv`: the profile thread is about to clear a slot
only if the thread of its context has died or the sampling limit is reached without it, and none of
the request threads can change that before the slot is cleared.

There is a lemma for each conjunct and step, and `Invariance` combines them. The lemmas
`GainOne` and `LoseOne` on cardinalities rest on the library's `FiniteSetTheorems`.

### AgentReport_proofs

For any items, queues, configurations and limit of the backoff: `ReportTypes`, `JoinCountsRight`,
`DeliversInOrder`, `ReportingImplementsPipeline` and `StopEmptiesQueues`.

* `JoinCountsRight` needs that each point of a generator says whether its last item has been marked
  done (`Mark`), and that a consumer has a call only while its thread is in it (`InCall`), so that
  no call is opened over another. With these, every step changes `unfinished` by as much as the
  queue and the marks (`JoinInv`).
* `DeliversInOrder` needs more. `ProduceInv`: items are produced in order, so that what is in a
  queue is older than what is to come, and a snapshot that waits for room is the newest. `LineInv`:
  until `stop` is called, what the report thread has in hand followed by its queue is one rising
  line, and all of it is later than what has been delivered. Delivery cuts a front off the
  line, a failure any part of it, and `Put` extends it.
* `ReportingImplementsPipeline` is a simulation. `PlaceInv`: every item is in exactly one spot (a
  place of `Pipeline`, with the hands of the two consumers told apart), and queues and hands hold
  items of their own channel, each once. `PlaceNext` shows that a step leaves each item or takes it
  along one of `Ways`; that it is in one spot before is what makes the item that a consumer takes, or
  that a failing stream drops, absent from everywhere else afterwards. From a spot follows the
  record of copies that `Pipeline` sees (`SeenIsRight`). `DrainInv` is for the end of `stop`: in
  the queues that `__fini` is done with there is nothing that was accepted before, because `join`
  returned at a moment when `JoinInv` makes the queue empty, and nothing accepted is put into a
  queue again. `StopEmptiesQueues` says it in terms of the queues themselves: once `stop` has
  returned, none of them holds anything that was accepted before it was called (no run checks this
  one, as `ImplementsPipeline` covers it).

### TraceContext_proofs

For any flows and workloads and any bounds, from the assumptions of `TraceContext`: `TracingTypes`,
`SegmentsAreTrees`, `SuppressedForGood`, `ArchivedWhenComplete`, `TracingImplementsStore`,
`SegmentsArchivedOnce`, `SegmentsFinal` and `TracesCanBeJoined`. Every action is first brought to one of a few kinds of steps (`StepCases`): a span is created (`Created`),
taken again for another call (`Inherited`), touched (`Touches`: a start or an extracted carrier) or
one of its blocks ends (`Ended`); then the conjuncts of the invariant are kept kind by kind.

* `Types`, `Ranged`: what names a span or a context names an existing one, and a span is a no-op
  exactly if its context is.
* `Tree`: the ids of a segment are dense, the next id is their number, and the span on top of a
  stack is one that the new span can name. `Suppress` is `SuppressionSticks` with what makes it
  inductive: the span a flow is about to start is not above a no-op it does not know of.
* `Depths`: the depth of a span is the number of blocks, in all flows, that are in it. It is why no
  depth becomes negative, although a generator's block may end in another flow and in any order; the
  proof for such an end is a bijection between the other blocks before and after (`BlocksShrink`).
* `Unsets`, `Losts`: a flow without a context variable is in no block, so that the only blocks that
  can end in it are those of generators; what is lost is a stream, and never opened again.
  `Counts`: the count of a context is the number of its spans that have a depth or are lost.
* `Turns`, `Complete`: a segment in which nothing is open and on which no flow is in the middle of an
  operation has been archived if its count is zero, and one that has been archived has nothing open
  unless it is in `Reopened`. A span that is open, in whatever flow, keeps its segment from being
  archived for the first time (`OpenNotSent`), which is what every step that adds to a segment needs.
* `Recs`: what is recorded of a segment are its spans, and all of them are recorded, open, lost or
  about to be started for the first time; so is what is recorded again. With it, each kind of step is
  a step of `SegmentStore`, or none: the start of a recorded span is `Reopen` (`StoredStart`).
* From the refinement follow what the report thread relies on (no run checks these two, as
  `ImplementsStore` covers them): a segment given to the agent twice is one of which a finished span was
  inherited (`SegmentsArchivedOnce`), and in any other no step changes the open or recorded spans or the
  related traces once it has been given to it (`SegmentsFinal`). `StoreStepFacts` reads both off the
  steps of `SegmentStore`. `trace_context_again` shows that the exception does occur.
* `Joinable`: what is promised of the references of spans has to hold of those on their way too, on
  the wire or in a snapshot (`Referred`, `Sounds`), because `Segment.relate` replaces the trace of the
  segment they name when its first reference is added. That does no harm if nobody has a reference to
  it yet, or if it was a carrier of a nested entry span, which `TracesJoin` excepts. Nobody
  has one while the segment has a single span that is not started, or is that of a poll
  (`Private`): such a span is on no other flow's stack, so that no other flow can inject it,
  create a child of it or take a snapshot of it. `Fresh`, `Polls` and `Snapshots` say which spans
  are private: what a flow has just created, what it polls with, and the first span under a snapshot. `Owned` and `Listed`
  are what makes the rest inductive: a segment lists its own trace alone until it has a reference, and
  lists the trace of each from then on. `Unserved` keeps a poll's span from being inherited: it is
  never that of an outer server.

### ProfileTasks_proofs

For any set of tasks, with any times: `TaskTypes`, `TasksExecutedOnce`, `OneProfiles`,
`EndNotifiedOnce`, `TasksStoppedByRight`, `ListStaysComplete`. The invariant is built in layers, each of which
uses the ones before. `CommandInv` is about the dispatch thread: what is in its queue, its cache and
its hand, and that what has been executed is remembered. `TurnInv` is about the holder of
`_rlock`: who profiles and who is current at each of its points (`HolderInv`), and that a task that has the turn, or whose
start timer is to fire, has not been notified (`OnceInv`), although stop timers are left
behind. `ListInv` says that what is on the list and in the hands of the thread that refills it is
together what has been scheduled and not ended, also while the dispatch thread appends.

### Service_proofs and Atomicity_proofs

For any requests, processes, blocks and loads. `Service_proofs` has what concerns one package:
`ServiceExcludes` (by `LockInv`, which relates the key, who is inside and whether somebody has
overstayed) and `ServiceIdsIncrease` (by `IdInv`: no id issued in a process exceeds the one that
its last timestamp and sequence make).

`Atomicity_proofs` has what relates several: `ServiceOutboxAgrees`, `ServiceAborts`,
`ServiceScopes`, `ServiceTypes`. The argument follows a change from the scope to the database.

* `ScopeInv`: the cache of a request is the session its unit of work and its outbox hold, and no
  other request has it.
* `PendingInv`: what a session holds that is not committed is of the block its request is in.
* `FreshInv`: that block, and those to come, are not among the settled ones: in the database,
  given up, or seen by a session when it read the row.
* `PostedInv`: neither the row nor what a session has seen of it has ever been without its events, and at the
  commit the block's event is in the session.
* `AbortInv`: nor does either contain a block that was given up.
* `ReadInv`: while nobody has overstayed the lock, what the one inside has read is what there is.

### Background_proofs

For any versions, fields, senders and loads: `NotedApplied` (by `ConfigInv`, over the points of the
listener), `LogsOrdered` and `BackgroundTypes`. The invariant for the order is `Ordered(waiting,
taken, gone, n)`: what waits is a rising sequence, what a sender wrote or holds
is rising and earlier than what waits, none of it is in two places, and all of it is at most the
last number logged.

## 6. What is not modelled, and why

* The agent's second copy, under `apache-skywalking-zoe-0.8.0.dev5/apache-skywalking-zoe-0.8.0.dev5/`: it is
  identical to the first, byte by byte. The models speak of both and cite the outer one. It makes
  up some two fifths of the repository's lines, so the share of lines that the map names is that much
  smaller than the share of the code that is modelled.
* The heartbeat, which is the report loop without a queue; the fork hooks, whose effect on locks
  and threads is the interpreter's and grpc's.
* Installation of plugins by version, and what they write into tags; the configuration of the
  agent, its logging bridge and command line, exception handlers, documentation, value objects, the
  helpers for FastAPI and the wiring of the event bus: no protocol between parts and no state that outlives a call.
* The contents of spans, logs, snapshots and carriers. A carrier is valid or not and names a trace
  and a span; correlation data, and the encoding as a header, are left out.
* Flows of `TraceContext` share a context as asyncio tasks do. Threads that share one
  (`asyncio.to_thread`) could also switch between the look at the parent and the start of the
  child. Only runnables that run in threads of their own are modelled.
* Exceptions in the parsing of a command, which end the dispatch thread, and the cache of 64 serial
  numbers that forgets.
* `get_id` called by two threads of a process, which would race for the sequence. Nor is it modelled
  that the worker number is taken from the environment as a string, if it is set there, with which
  `IdWorker` raises `TypeError`.
* Objects that outlive a commit and are stale (`expire_on_commit=False`); the mock lock; what
  happens to events once they are in the outbox; a commit that takes effect only after
  `commit()` has raised.
* The synchronous, file and filebeat sinks of zoelogger, its levels and formats, and exceptions in a
  formatter; the request
  scope's context variables that hold plain values.

## 7. What would come next

Where the project could be extended, in the order of what it would add:

1. Threads that share a trace context, and `get_id` in several threads: both need the operations
   split at each access to shared state.
2. The fork hooks, given a description of what the children of a process inherit.
3. The parsing of commands, with the exceptions that end the dispatch thread.
