---------------------------- MODULE ProfileSlots ----------------------------
(***************************************************************************)
(* The execution context of one profile task                               *)
(* (skywalking/profile/profile_context.py): the request threads that ask   *)
(* for one of its MaxParallel profiling slots, and the profile thread that *)
(* walks over the slots, dumps stacks and gives slots back.                *)
(*                                                                         *)
(* AtomicInteger and AtomicArray make each single call atomic, and nothing *)
(* makes two calls atomic together: every call on them is a step here.     *)
(*                                                                         *)
(* A local variable that is dead is reset, to keep the instances small.    *)
(*                                                                         *)
(* A trace context stands for its SpanContext, for the ThreadProfiler      *)
(* built for it and for the ProfileStatusReference that both share.        *)
(***************************************************************************)
EXTENDS Integers, FiniteSets

CONSTANTS Contexts,     \* trace contexts (SpanContext objects)
          Threads,      \* request threads
          Runner,       \* the thread that runs each trace context
          MaxParallel,  \* config.profile_max_parallel
          MaxSampling,  \* task.max_sampling_count
          MaxSnapshots, \* config.profile_snapshot_transport_buffer_size
          NoContext     \* None in a slot

ASSUME ContextsAssumption == IsFiniteSet(Contexts) /\ NoContext \notin Contexts
ASSUME RunnerAssumption   == Runner \in [Contexts -> Threads]
ASSUME LimitsAssumption   == MaxParallel \in Nat \ {0} /\ MaxSampling \in Nat \ {0}
ASSUME QueueAssumption    == MaxSnapshots \in Nat \ {0}

Slots    == 0 .. (MaxParallel - 1)
Statuses == {"NONE", "PENDING", "PROFILING", "STOPPED"}

VARIABLES
  cnt,        \* _current_profiling_cnt
  total,      \* _total_started_profiling_cnt
  slots,      \* profiling_segment_slots
  status,     \* the value of each context's ProfileStatusReference
  assigned,   \* trace_context.profile_status is not None
  dumped,     \* dump_sequence > 0
  pc,         \* where a context's call to attempt_profiling stands
  seen,       \* using_slot_cnt, the local of attempt_profiling
  idx,        \* idx, the loop variable of attempt_profiling
  fetched,    \* the status profiling_recheck read and has still to write
  elapsed,    \* the context is older than task.min_duration_threshold
  alive,      \* profiling_thread.is_alive()
  prof,       \* where the profile thread stands
  profIdx,    \* the slot it looks at
  profCtx,    \* the context whose profiling it is stopping
  current,    \* task_execution_context still holds this execution context
  stopEvent,  \* _profiling_stop_event
  snapshots   \* the number of snapshots in the agent's queue of them

shared   == <<cnt, total, slots, status, assigned, dumped>>
callVars == <<pc, seen, idx, fetched>>
profVars == <<prof, profIdx, profCtx>>
envVars  == <<elapsed, alive>>
taskVars == <<current, stopEvent, snapshots>>
vars     == <<shared, callVars, profVars, envVars, taskVars>>

\* The program points of attempt_profiling; a context in one of them keeps its thread busy.
InCall == {"count", "checks", "reserve", "scan", "occupied", "update", "none"}
CallPoints == InCall \cup {"new", "live"}
ProfPoints == {"check", "visit", "put", "clear", "mark", "release", "final", "dead"}

Init ==
  /\ cnt = 0
  /\ total = 0
  /\ slots = [i \in Slots |-> NoContext]
  /\ status = [c \in Contexts |-> "NONE"]
  /\ assigned = [c \in Contexts |-> FALSE]
  /\ dumped = [c \in Contexts |-> FALSE]
  /\ pc = [c \in Contexts |-> "new"]
  /\ seen = [c \in Contexts |-> 0]
  /\ idx = [c \in Contexts |-> 0]
  /\ fetched = [c \in Contexts |-> "NONE"]
  /\ elapsed = [c \in Contexts |-> FALSE]
  /\ alive = [t \in Threads |-> TRUE]
  /\ prof = "check"
  /\ profIdx = 0
  /\ profCtx = NoContext
  /\ current = TRUE
  /\ stopEvent = FALSE
  /\ snapshots = 0

Holds(c) == \E i \in Slots : slots[i] = c

\* A request thread makes one call at a time.
ThreadFree(c) ==
  /\ alive[Runner[c]]
  /\ \A d \in Contexts : Runner[d] = Runner[c] => pc[d] \notin InCall

Goto(c, point) == pc' = [pc EXCEPT ![c] = point]

-----------------------------------------------------------------------------
(* The request threads.                                                    *)

\* new_entry_span of a context that has no profile_status yet; without a current task
\* add_profiling answers NONE at once.
NewEntrySpan(c) ==
  /\ pc[c] = "new"
  /\ ThreadFree(c)
  /\ Goto(c, IF current THEN "count" ELSE "none")
  /\ UNCHANGED <<shared, seen, idx, fetched, profVars, envVars, taskVars>>

\* The operation name changed: a context that is not watched asks again.
ProfilingRecheck(c) ==
  /\ pc[c] = "live"
  /\ ThreadFree(c)
  /\ current
  /\ status[c] = "NONE"
  /\ Goto(c, "count")
  /\ UNCHANGED <<shared, seen, idx, fetched, profVars, envVars, taskVars>>

\* Mutant: the limit is compared with > instead of >=.
ReadCountOffByOne(c) ==
  /\ pc[c] = "count"
  /\ \/ /\ cnt > MaxParallel
        /\ Goto(c, "none")
        /\ UNCHANGED seen
     \/ /\ cnt <= MaxParallel
        /\ Goto(c, "checks")
        /\ seen' = [seen EXCEPT ![c] = cnt]
  /\ UNCHANGED <<shared, idx, fetched, profVars, envVars, taskVars>>

\* using_slot_cnt = self._current_profiling_cnt.get()
ReadCount(c) ==
  /\ pc[c] = "count"
  /\ \/ /\ cnt >= MaxParallel
        /\ Goto(c, "none")
        /\ UNCHANGED seen
     \/ /\ cnt < MaxParallel
        /\ Goto(c, "checks")
        /\ seen' = [seen EXCEPT ![c] = cnt]
  /\ UNCHANGED <<shared, idx, fetched, profVars, envVars, taskVars>>

\* The operation name may differ from the task's, or the sampling limit be exceeded.
CheckTask(c) ==
  /\ pc[c] = "checks"
  /\ \/ /\ Goto(c, "none")
        /\ seen' = [seen EXCEPT ![c] = 0]
     \/ /\ total <= MaxSampling
        /\ Goto(c, "reserve")
        /\ UNCHANGED seen
  /\ UNCHANGED <<shared, idx, fetched, profVars, envVars, taskVars>>

\* Mutant: the counter is set to using_slot_cnt + 1 without comparing it again.
ReserveBySet(c) ==
  /\ pc[c] = "reserve"
  /\ seen' = [seen EXCEPT ![c] = 0]
  /\ cnt' = seen[c] + 1
  /\ status' = [status EXCEPT ![c] = "PENDING"]
  /\ idx' = [idx EXCEPT ![c] = 0]
  /\ Goto(c, "scan")
  /\ UNCHANGED <<total, slots, assigned, dumped, fetched, profVars, envVars, taskVars>>

\* compare_and_set on the counter; the winner builds its ThreadProfiler, whose status is PENDING.
Reserve(c) ==
  /\ pc[c] = "reserve"
  /\ seen' = [seen EXCEPT ![c] = 0]
  /\ \/ /\ cnt = seen[c]
        /\ cnt' = cnt + 1
        /\ status' = [status EXCEPT ![c] = "PENDING"]
        /\ idx' = [idx EXCEPT ![c] = 0]
        /\ Goto(c, "scan")
     \/ /\ cnt # seen[c]
        /\ Goto(c, "none")
        /\ UNCHANGED <<cnt, status, idx>>
  /\ UNCHANGED <<total, slots, assigned, dumped, fetched, profVars, envVars, taskVars>>

\* Mutant: the loop goes on after it has occupied a slot.
OccupyEverySlot(c) ==
  /\ pc[c] = "scan"
  /\ idx[c] \in Slots
  /\ slots' = [slots EXCEPT ![idx[c]] = IF @ = NoContext THEN c ELSE @]
  /\ idx' = [idx EXCEPT ![c] = @ + 1]
  /\ UNCHANGED <<cnt, total, status, assigned, dumped, seen, pc, fetched, profVars, envVars, taskVars>>

\* One round of the loop over the slots: compare_and_set(idx, None, thread_profiler).
OccupySlot(c) ==
  /\ pc[c] = "scan"
  /\ idx[c] \in Slots
  /\ \/ /\ slots[idx[c]] = NoContext
        /\ slots' = [slots EXCEPT ![idx[c]] = c]
        /\ idx' = [idx EXCEPT ![c] = 0]
        /\ Goto(c, "occupied")
     \/ /\ slots[idx[c]] # NoContext
        /\ idx' = [idx EXCEPT ![c] = @ + 1]
        /\ UNCHANGED <<slots, pc>>
  /\ UNCHANGED <<cnt, total, status, assigned, dumped, seen, fetched, profVars, envVars, taskVars>>

\* The call from new_entry_span returns: only now has the context a profile_status.
ReturnReference(c) ==
  /\ pc[c] = "occupied"
  /\ ~assigned[c]
  /\ assigned' = [assigned EXCEPT ![c] = TRUE]
  /\ Goto(c, "live")
  /\ UNCHANGED <<cnt, total, slots, status, dumped, seen, idx, fetched, profVars, envVars, taskVars>>

\* The call from profiling_recheck returns: .get() on the reference ...
RecheckGet(c) ==
  /\ pc[c] = "occupied"
  /\ assigned[c]
  /\ fetched' = [fetched EXCEPT ![c] = status[c]]
  /\ Goto(c, "update")
  /\ UNCHANGED <<shared, seen, idx, profVars, envVars, taskVars>>

\* ... and update_status with what it answered, whatever the profile thread wrote since.
RecheckUpdate(c) ==
  /\ pc[c] = "update"
  /\ status' = [status EXCEPT ![c] = fetched[c]]
  /\ fetched' = [fetched EXCEPT ![c] = "NONE"]
  /\ Goto(c, "live")
  /\ UNCHANGED <<cnt, total, slots, assigned, dumped, seen, idx, profVars, envVars, taskVars>>

\* Every early return, and the end of the loop over the slots: create_with_none().
ReturnNone(c) ==
  /\ \/ pc[c] = "none"
     \/ pc[c] = "scan" /\ idx[c] \notin Slots
  /\ status' = [status EXCEPT ![c] = "NONE"]
  /\ assigned' = [assigned EXCEPT ![c] = TRUE]
  /\ Goto(c, "live")
  /\ UNCHANGED <<cnt, total, slots, dumped, seen, idx, fetched, profVars, envVars, taskVars>>

\* A request thread ends.
ThreadExit(t) ==
  /\ alive[t]
  /\ \A c \in Contexts : Runner[c] = t => pc[c] \notin InCall
  /\ alive' = [alive EXCEPT ![t] = FALSE]
  /\ UNCHANGED <<shared, callVars, profVars, elapsed, taskVars>>

\* The clock passes create_time + min_duration_threshold.
Elapse(c) ==
  /\ pc[c] # "new"
  /\ ~elapsed[c]
  /\ elapsed' = [elapsed EXCEPT ![c] = TRUE]
  /\ UNCHANGED <<shared, callVars, profVars, alive, taskVars>>

-----------------------------------------------------------------------------
(* The profile thread.                                                     *)

ThreadVars == <<callVars, envVars>>

\* Mutant: the round starts at the second slot.
LoopSkipsFirst ==
  /\ prof = "check"
  /\ prof' = IF stopEvent THEN "final" ELSE "visit"
  /\ profIdx' = 1
  /\ UNCHANGED <<shared, profCtx, ThreadVars, taskVars>>

LoopCheck ==
  /\ prof = "check"
  /\ prof' = IF stopEvent THEN "final" ELSE "visit"
  /\ profIdx' = 0
  /\ UNCHANGED <<shared, profCtx, ThreadVars, taskVars>>

\* The round over the slots ends and the thread sleeps.
EndRound ==
  /\ prof = "visit"
  /\ profIdx \notin Slots
  /\ prof' = "check"
  /\ profIdx' = 0
  /\ UNCHANGED <<shared, profCtx, ThreadVars, taskVars>>

Visited == slots[profIdx]

Visiting ==
  /\ prof = "visit"
  /\ profIdx \in Slots

NextSlot ==
  /\ profIdx' = profIdx + 1
  /\ UNCHANGED <<prof, profCtx>>

\* An empty slot, a status that asks for nothing, or a context that is still too young.
SkipSlot ==
  /\ Visiting
  /\ Visited # NoContext =>
       /\ status[Visited] # "PROFILING"
       /\ status[Visited] = "PENDING" => ~elapsed[Visited]
  /\ NextSlot
  /\ UNCHANGED <<shared, ThreadVars, taskVars>>

\* start_profiling_if_need
StartProfiling ==
  /\ Visiting
  /\ Visited # NoContext
  /\ status[Visited] = "PENDING"
  /\ elapsed[Visited]
  /\ assigned[Visited]
  /\ status' = [status EXCEPT ![Visited] = "PROFILING"]
  /\ NextSlot
  /\ UNCHANGED <<cnt, total, slots, assigned, dumped, ThreadVars, taskVars>>

\* start_profiling_if_need on a context whose profile_status is still None: AttributeError,
\* which leaves the loop.
StartFails ==
  /\ Visiting
  /\ Visited # NoContext
  /\ status[Visited] = "PENDING"
  /\ elapsed[Visited]
  /\ ~assigned[Visited]
  /\ prof' = "final"
  /\ UNCHANGED <<shared, profIdx, profCtx, ThreadVars, taskVars>>

Profiling(c) ==
  /\ Visiting
  /\ c = Visited
  /\ c # NoContext
  /\ status[c] = "PROFILING"

\* Mutant: the sampling limit is compared before it is incremented.
MayDumpOneMore(c) == dumped[c] \/ total <= MaxSampling

\* is_start_profileable, asked for the first dump only: add_and_get(1) <= max_sampling_count
MayDump(c) == dumped[c] \/ total + 1 <= MaxSampling

CountFirstDump(c) == total' = IF dumped[c] THEN total ELSE total + 1

\* build_snapshot makes a snapshot ...
DumpStack ==
  \E c \in Contexts :
    /\ Profiling(c)
    /\ alive[Runner[c]]
    /\ MayDump(c)
    /\ CountFirstDump(c)
    /\ dumped' = [dumped EXCEPT ![c] = TRUE]
    /\ prof' = "put"
    /\ UNCHANGED <<cnt, slots, status, assigned, profIdx, profCtx, ThreadVars, taskVars>>

\* ... and agent.add_profiling_snapshot puts it into the queue, which blocks while that is full.
AddSnapshot ==
  /\ prof = "put"
  /\ snapshots < MaxSnapshots
  /\ snapshots' = snapshots + 1
  /\ prof' = "visit"
  /\ profIdx' = profIdx + 1
  /\ UNCHANGED <<shared, profCtx, ThreadVars, current, stopEvent>>

\* Mutant: stop_tracing_profile writes the status before it clears the slot.
MarkBeforeClear ==
  \E c \in Contexts :
    /\ Profiling(c)
    /\ \/ ~alive[Runner[c]] /\ UNCHANGED total
       \/ alive[Runner[c]] /\ ~MayDump(c) /\ CountFirstDump(c)
    /\ status' = [status EXCEPT ![c] = "STOPPED"]
    /\ prof' = "clear"
    /\ profCtx' = c
    /\ UNCHANGED <<cnt, slots, assigned, dumped, profIdx, ThreadVars, taskVars>>

\* build_snapshot returns None: the thread is gone, or the task has sampled enough.
DumpFails ==
  \E c \in Contexts :
    /\ Profiling(c)
    /\ \/ ~alive[Runner[c]] /\ UNCHANGED total
       \/ alive[Runner[c]] /\ ~MayDump(c) /\ CountFirstDump(c)
    /\ prof' = "clear"
    /\ profCtx' = c
    /\ UNCHANGED <<cnt, slots, status, assigned, dumped, profIdx, ThreadVars, taskVars>>

\* Mutant: the first profiler found is cleared, without asking matches().
ClearFirst ==
  /\ prof = "clear"
  /\ \E i \in Slots :
       /\ slots[i] # NoContext
       /\ \A j \in Slots : j < i => slots[j] = NoContext
       /\ slots' = [slots EXCEPT ![i] = NoContext]
  /\ prof' = "mark"
  /\ UNCHANGED <<cnt, total, status, assigned, dumped, profIdx, profCtx, ThreadVars, taskVars>>

\* stop_tracing_profile: the slot, then the status, then the counter.
ClearSlot ==
  /\ prof = "clear"
  /\ \E i \in Slots :
       /\ slots[i] = profCtx
       /\ \A j \in Slots : j < i => slots[j] # profCtx
       /\ slots' = [slots EXCEPT ![i] = NoContext]
  /\ prof' = "mark"
  /\ UNCHANGED <<cnt, total, status, assigned, dumped, profIdx, profCtx, ThreadVars, taskVars>>

MarkStopped ==
  /\ prof = "mark"
  /\ status' = [status EXCEPT ![profCtx] = "STOPPED"]
  /\ prof' = "release"
  /\ UNCHANGED <<cnt, total, slots, assigned, dumped, profIdx, profCtx, ThreadVars, taskVars>>

\* Mutant: the counter is not given back.
ReleaseNothing ==
  /\ prof = "release"
  /\ prof' = "visit"
  /\ profIdx' = profIdx + 1
  /\ profCtx' = NoContext
  /\ UNCHANGED <<shared, ThreadVars, taskVars>>

ReleaseCount ==
  /\ prof = "release"
  /\ cnt' = cnt - 1
  /\ prof' = "visit"
  /\ profIdx' = profIdx + 1
  /\ profCtx' = NoContext
  /\ UNCHANGED <<total, slots, status, assigned, dumped, ThreadVars, taskVars>>

\* The finally clause of ProfileThread.start: stop_current_profile_task.
ThreadEnds ==
  /\ prof = "final"
  /\ prof' = "dead"
  /\ current' = FALSE
  /\ stopEvent' = TRUE
  /\ UNCHANGED <<shared, profIdx, profCtx, ThreadVars, snapshots>>

\* The timer of the task, or the next task, stops this one (stop_current_profile_task).
StopTask ==
  /\ current
  /\ current' = FALSE
  /\ stopEvent' = TRUE
  /\ UNCHANGED <<shared, profVars, ThreadVars, snapshots>>

\* The report thread for snapshots takes one (AgentReport), when the backend lets it.
ReportSnapshot ==
  /\ snapshots > 0
  /\ snapshots' = snapshots - 1
  /\ UNCHANGED <<shared, profVars, ThreadVars, current, stopEvent>>

-----------------------------------------------------------------------------
AttemptStep(c) ==
  \/ ReadCount(c) \/ CheckTask(c) \/ Reserve(c) \/ OccupySlot(c)
  \/ ReturnReference(c) \/ RecheckGet(c) \/ RecheckUpdate(c) \/ ReturnNone(c)

ProfileThreadStep ==
  \/ LoopCheck \/ EndRound \/ SkipSlot \/ StartProfiling \/ StartFails
  \/ DumpStack \/ AddSnapshot \/ DumpFails \/ ClearSlot \/ MarkStopped \/ ReleaseCount \/ ThreadEnds

Next ==
  \/ \E c \in Contexts :
       NewEntrySpan(c) \/ ProfilingRecheck(c) \/ AttemptStep(c) \/ Elapse(c)
  \/ \E t \in Threads : ThreadExit(t)
  \/ ProfileThreadStep
  \/ StopTask
  \/ ReportSnapshot

Spec == Init /\ [][Next]_vars

\* The scheduler runs every thread that can run, and the clock moves.  That a snapshot is reported
\* depends on the backend and is not assumed.
Fairness ==
  /\ WF_vars(ProfileThreadStep)
  /\ \A c \in Contexts : WF_vars(AttemptStep(c)) /\ WF_vars(Elapse(c))

FairSpec == Spec /\ Fairness

-----------------------------------------------------------------------------
(* Properties.                                                             *)

\* The contexts that won a reservation and have not yet reached a slot.
Scanning == {c \in Contexts : pc[c] = "scan"}
Holders  == {c \in Contexts : Holds(c)}
Reserved == Scanning \cup Holders
Releasing == IF prof \in {"mark", "release"} THEN 1 ELSE 0

SharedType ==
  /\ cnt \in 0 .. MaxParallel
  /\ total \in Nat
  /\ slots \in [Slots -> Contexts \cup {NoContext}]
  /\ status \in [Contexts -> Statuses]
  /\ assigned \in [Contexts -> BOOLEAN]
  /\ dumped \in [Contexts -> BOOLEAN]

CallType ==
  /\ pc \in [Contexts -> CallPoints]
  /\ seen \in [Contexts -> 0 .. MaxParallel]
  /\ idx \in [Contexts -> 0 .. MaxParallel]
  /\ fetched \in [Contexts -> Statuses]

ProfType ==
  /\ prof \in ProfPoints
  /\ profIdx \in 0 .. MaxParallel
  /\ profCtx \in Contexts \cup {NoContext}

EnvType ==
  /\ elapsed \in [Contexts -> BOOLEAN]
  /\ alive \in [Threads -> BOOLEAN]
  /\ current \in BOOLEAN
  /\ stopEvent \in BOOLEAN
  /\ snapshots \in 0 .. MaxSnapshots

\* Every variable stays in its type; for the counter that is the bound the parallel limit promises.
TypeOK == SharedType /\ CallType /\ ProfType /\ EnvType

\* The counter counts what it stands for: a reservation on its way to a slot, a held slot, or
\* a slot that stop_tracing_profile cleared and has not yet given back. Nothing leaks, whatever
\* the interleaving of compare_and_set, the slot writes and the decrement.
CountIsExact ==
  cnt = Cardinality(Reserved) + Releasing

\* A context that reserved a place by compare_and_set on the counter always finds a slot: the
\* loop of attempt_profiling never runs off the end of the array, although slots ahead of it
\* fill and slots behind it empty while it scans.
ReservationFindsSlot ==
  \A c \in Contexts : pc[c] = "scan" => idx[c] \in Slots

\* stop_tracing_profile clears the first slot that matches: a context holds one slot at most,
\* and none while it is still scanning for one.
OneSlotEach ==
  /\ \A i, j \in Slots : slots[i] = slots[j] /\ slots[i] # NoContext => i = j
  /\ \A c \in Scanning : ~Holds(c)

\* What is in a slot is being watched: its status is one the profile thread acts on, in spite
\* of the unsynchronised read and write of profiling_recheck. A slot whose context said NONE or
\* STOPPED would be skipped for ever.
SlotIsWatched ==
  \A c \in Holders : status[c] \in {"PENDING", "PROFILING"}

\* Snapshots of at most max_sampling_count traces are ever taken.
SamplingBounded ==
  Cardinality({c \in Contexts : dumped[c]}) <= MaxSampling

\* A context that holds a slot loses it only through stop_tracing_profile, and never while its
\* thread lives and its trace may still be dumped.
SlotKept ==
  [][\A c \in Contexts :
       Holds(c) /\ alive[Runner[c]] /\ (dumped[c] \/ total < MaxSampling) => Holds(c)' ]_vars

\* The slot of a thread that died comes back, unless profiling itself has ended, or the queue of
\* snapshots stays full from some time on: then the profile thread is stuck in its put.
DeadThreadFreesSlot ==
  []<>(snapshots < MaxSnapshots) =>
    \A c \in Contexts :
      (Holds(c) /\ ~alive[Runner[c]]) ~> (~Holds(c) \/ prof \in {"final", "dead"})

\* A trace whose dump fails is stopped by itself ("tell execution context current tracing thread
\* dump failed, stop it", profile_context.py:152): the profile thread leaves its loop only when
\* the whole task is stopped.
TaskOutlivesTraces ==
  prof = "final" => stopEvent
=============================================================================
