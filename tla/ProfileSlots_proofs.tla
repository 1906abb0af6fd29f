------------------------- MODULE ProfileSlots_proofs -------------------------
(***************************************************************************)
(* Theorems about ProfileSlots for every number of contexts, threads and   *)
(* slots.                                                                  *)
(*                                                                         *)
(* The heart is a counting argument of the kind used for renaming with     *)
(* compare_and_set: the contexts that scan at position i or beyond, and    *)
(* those that hold a slot at i or beyond, are at most MaxParallel - i.  A  *)
(* context moves its scan past a slot only when another one is in it, so   *)
(* the bound moves along with the scan, and nobody can scan past the end.  *)
(***************************************************************************)
EXTENDS ProfileSlots, FiniteSetTheorems, TLAPS

Watched == {"PENDING", "PROFILING"}

\* A context whose profiler is in a slot, or is just being taken out of it.
Settled(c) ==
  /\ pc[c] \in {"occupied", "update", "live"}
  /\ status[c] \in Watched
  /\ pc[c] = "update" => fetched[c] \in Watched

CallInv ==
  \A c \in Contexts :
    /\ pc[c] = "scan" => status[c] = "PENDING"
    /\ pc[c] \in {"checks", "reserve"} => seen[c] < MaxParallel
    /\ Holds(c) => Settled(c)

ProfInv ==
  /\ prof = "put" => profIdx \in Slots
  /\ prof \in {"clear", "mark", "release"} => profCtx \in Contexts /\ profIdx \in Slots
  /\ prof = "clear" => Holds(profCtx)
  /\ prof = "mark" => ~Holds(profCtx)
  /\ prof \in {"clear", "mark"} => Settled(profCtx)

Located(i) ==
  {c \in Contexts : \/ pc[c] = "scan" /\ idx[c] >= i
                    \/ \E j \in Slots : j >= i /\ slots[j] = c}

SuffixInv == \A i \in 0 .. MaxParallel : Cardinality(Located(i)) <= MaxParallel - i

Dumped == {c \in Contexts : dumped[c]}

DumpInv == Cardinality(Dumped) <= total /\ Cardinality(Dumped) <= MaxSampling

IInv ==
  /\ TypeOK
  /\ CallInv
  /\ ProfInv
  /\ OneSlotEach
  /\ SuffixInv
  /\ CountIsExact
  /\ DumpInv

\* What the assumptions say of the limits, in the form the provers use.
LEMMA Limits == /\ MaxParallel \in Nat /\ MaxParallel > 0
                /\ MaxSampling \in Nat /\ MaxSampling > 0
                /\ MaxSnapshots \in Nat /\ MaxSnapshots > 0
  BY LimitsAssumption, QueueAssumption

-----------------------------------------------------------------------------
(* Counting.                                                               *)

\* A subset of the contexts is finite.
LEMMA ContextSets ==
  ASSUME NEW S, S \subseteq Contexts
  PROVE  IsFiniteSet(S) /\ Cardinality(S) \in Nat
  BY ContextsAssumption, FS_Subset, FS_CardinalityType

\* A set of contexts that gains at most one member grows by one at most.
LEMMA GainOne ==
  ASSUME NEW S, S \subseteq Contexts, NEW c \in Contexts, NEW T, T \subseteq S \cup {c}
  PROVE  Cardinality(T) <= Cardinality(S) + 1
  <1>1. IsFiniteSet(S) /\ Cardinality(S) \in Nat
    BY ContextSets
  <1>a. /\ IsFiniteSet(S \cup {c})
        /\ Cardinality(S \cup {c}) = IF c \in S THEN Cardinality(S) ELSE Cardinality(S) + 1
    BY <1>1, FS_AddElement, Zenon
  <1>2. IsFiniteSet(S \cup {c}) /\ Cardinality(S \cup {c}) <= Cardinality(S) + 1
    BY <1>1, <1>a
  <1>3. Cardinality(T) <= Cardinality(S \cup {c})
    BY <1>2, FS_Subset
  <1>4. Cardinality(T) \in Nat /\ Cardinality(S \cup {c}) \in Nat
    BY ContextSets
  <1> QED
    BY <1>1, <1>2, <1>3, <1>4

\* A set of contexts that loses a member shrinks by one at least.
LEMMA LoseOne ==
  ASSUME NEW S, S \subseteq Contexts, NEW c \in S, NEW T, T \subseteq S \ {c}
  PROVE  Cardinality(T) <= Cardinality(S) - 1
  <1>1. IsFiniteSet(S) /\ Cardinality(S) \in Nat
    BY ContextSets
  <1>2. IsFiniteSet(S \ {c}) /\ Cardinality(S \ {c}) = Cardinality(S) - 1
    BY <1>1, FS_RemoveElement
  <1>3. Cardinality(T) <= Cardinality(S \ {c})
    BY <1>2, FS_Subset
  <1> QED
    BY <1>2, <1>3

\* Everything located is located at 0 or beyond.
LEMMA ReservedLocated ==
  ASSUME TypeOK
  PROVE  Reserved = Located(0)
  BY Limits DEF Reserved, Located, Scanning, Holders, Holds, TypeOK, CallType, Slots

\* A context that scans finds its slot: nothing is located beyond the last one.
LEMMA ScanStaysInside ==
  ASSUME TypeOK, SuffixInv
  PROVE  ReservationFindsSlot
  <1> SUFFICES ASSUME NEW c \in Contexts, pc[c] = "scan", idx[c] \notin Slots
               PROVE  FALSE
    BY DEF ReservationFindsSlot
  <1>1. idx[c] >= MaxParallel
    BY Limits DEF TypeOK, CallType, Slots
  <1>2. c \in Located(MaxParallel)
    BY <1>1 DEF Located
  <1>3. Located(MaxParallel) \subseteq Contexts
    BY DEF Located
  <1>4. Cardinality(Located(MaxParallel)) <= 0
    BY Limits DEF SuffixInv
  <1>5. Cardinality({}) <= Cardinality(Located(MaxParallel)) - 1
    BY <1>2, <1>3, LoseOne
  <1> QED
    BY <1>4, <1>5, ContextSets, <1>3, FS_EmptySet

-----------------------------------------------------------------------------
(* The invariant holds initially.                                          *)

LEMMA InitInv == Init => IInv
  <1> SUFFICES ASSUME Init PROVE IInv
    OBVIOUS
  <1>1. TypeOK
    <2>1. SharedType
      BY Limits DEF Init, SharedType, Slots, Statuses
    <2>2. CallType
      BY Limits DEF Init, CallType, CallPoints, InCall, Statuses
    <2>3. ProfType
      BY Limits DEF Init, ProfType, ProfPoints
    <2>4. EnvType
      <3>1. snapshots \in 0 .. MaxSnapshots
        BY Limits DEF Init
      <3> QED
        BY <3>1 DEF Init, EnvType
    <2> QED
      BY <2>1, <2>2, <2>3, <2>4 DEF TypeOK
  <1>2. \A c \in Contexts : ~Holds(c) /\ pc[c] = "new"
    BY ContextsAssumption DEF Init, Holds
  <1>3. CallInv /\ ProfInv /\ OneSlotEach
    BY <1>2 DEF CallInv, ProfInv, OneSlotEach, Scanning, Init
  <1>4. \A i : Located(i) = {}
    BY <1>2 DEF Located, Holds
  <1>5. SuffixInv
    BY <1>4, FS_EmptySet, Limits DEF SuffixInv
  <1>6. CountIsExact
    <2>1. Reserved = {}
      BY <1>1, <1>4, ReservedLocated
    <2> QED
      BY <2>1, FS_EmptySet DEF CountIsExact, Releasing, Init
  <1>7. DumpInv
    <2>1. Dumped = {}
      BY DEF Dumped, Init
    <2> QED
      BY <2>1, FS_EmptySet, Limits DEF DumpInv, Init
  <1> QED
    BY <1>1, <1>3, <1>5, <1>6, <1>7 DEF IInv

-----------------------------------------------------------------------------
(* Types.  A reservation stays within the limit because its compare_and_set *)
(* succeeds only on the count that was seen below the limit.               *)

\* The steps of the profile thread and of the task leave the callers alone.
LEMMA ProfileFrame ==
  ProfileThreadStep \/ StopTask => UNCHANGED <<pc, seen, idx, fetched, elapsed, alive>>
  <1>1. LoopCheck \/ EndRound \/ SkipSlot \/ StartProfiling \/ StartFails
        => UNCHANGED <<pc, seen, idx, fetched, elapsed, alive>>
    BY DEF LoopCheck, EndRound, SkipSlot, StartProfiling, StartFails, ThreadVars, callVars, envVars
  <1>2. DumpStack \/ AddSnapshot \/ DumpFails => UNCHANGED <<pc, seen, idx, fetched, elapsed, alive>>
    BY DEF DumpStack, AddSnapshot, DumpFails, ThreadVars, callVars, envVars
  <1>3. ClearSlot \/ MarkStopped \/ ReleaseCount \/ ThreadEnds \/ StopTask
        => UNCHANGED <<pc, seen, idx, fetched, elapsed, alive>>
    BY DEF ClearSlot, MarkStopped, ReleaseCount, ThreadEnds, StopTask, ThreadVars, callVars, envVars
  <1> QED
    BY <1>1, <1>2, <1>3 DEF ProfileThreadStep

Calls(c) == NewEntrySpan(c) \/ ProfilingRecheck(c) \/ AttemptStep(c)

\* The steps of a call leave the profile thread and the environment alone.
LEMMA CallFrame ==
  ASSUME NEW c \in Contexts, Calls(c)
  PROVE  /\ UNCHANGED <<total, dumped, prof, profIdx, profCtx, elapsed, alive, current, stopEvent, snapshots>>
         /\ cnt' # cnt => Reserve(c)
         /\ slots' # slots => OccupySlot(c)
  <1>1. CASE NewEntrySpan(c) \/ ProfilingRecheck(c)
    BY <1>1 DEF NewEntrySpan, ProfilingRecheck, shared, profVars, envVars, taskVars
  <1>2. CASE ReadCount(c) \/ CheckTask(c) \/ RecheckGet(c)
    BY <1>2 DEF ReadCount, CheckTask, RecheckGet, shared, profVars, envVars, taskVars
  <1>3. CASE Reserve(c) \/ OccupySlot(c)
    BY <1>3 DEF Reserve, OccupySlot, profVars, envVars, taskVars
  <1>4. CASE ReturnReference(c) \/ RecheckUpdate(c) \/ ReturnNone(c)
    BY <1>4 DEF ReturnReference, RecheckUpdate, ReturnNone, profVars, envVars, taskVars
  <1> QED
    BY <1>1, <1>2, <1>3, <1>4 DEF Calls, AttemptStep

\* The remaining steps only move time, end threads and take snapshots from the queue.
LEMMA EnvFrame ==
  ASSUME \/ \E c \in Contexts : Elapse(c)
         \/ \E t \in Threads : ThreadExit(t)
         \/ ReportSnapshot
         \/ UNCHANGED vars
  PROVE  UNCHANGED <<cnt, total, slots, status, assigned, dumped, pc, seen, idx, fetched,
                     prof, profIdx, profCtx, current, stopEvent>>
  BY DEF Elapse, ThreadExit, ReportSnapshot, ThreadVars, vars, shared, callVars, profVars, taskVars

\* What a step can be.
LEMMA StepCases ==
  ASSUME [Next]_vars
  PROVE  \/ \E c \in Contexts : Calls(c)
         \/ ProfileThreadStep
         \/ StopTask
         \/ \E c \in Contexts : Elapse(c)
         \/ \E t \in Threads : ThreadExit(t)
         \/ ReportSnapshot
         \/ UNCHANGED vars
  BY DEF Next, Calls

LEMMA SharedTypeStep ==
  ASSUME IInv, [Next]_vars PROVE SharedType'
  <1>0. /\ SharedType /\ CallType /\ ProfType /\ CallInv /\ ProfInv /\ CountIsExact
        /\ MaxParallel \in Nat /\ MaxParallel > 0 /\ MaxSampling \in Nat
    BY Limits DEF IInv, TypeOK
  <1>1. ASSUME NEW c \in Contexts, Calls(c) PROVE SharedType'
    <2>1. CASE NewEntrySpan(c) \/ ProfilingRecheck(c) \/ ReadCount(c) \/ CheckTask(c) \/ RecheckGet(c)
      BY <1>0, <2>1 DEF NewEntrySpan, ProfilingRecheck, ReadCount, CheckTask, RecheckGet, SharedType, shared
    <2>2. CASE Reserve(c)
      <3>1. seen[c] < MaxParallel
        BY <1>0, <2>2 DEF CallInv, Reserve
      <3> QED
        BY <1>0, <2>2, <3>1 DEF Reserve, SharedType, CallType, Statuses
    <2>3. CASE OccupySlot(c)
      BY <1>0, <2>3 DEF OccupySlot, SharedType
    <2>4. CASE ReturnReference(c)
      BY <1>0, <2>4 DEF ReturnReference, SharedType
    <2>5. CASE RecheckUpdate(c)
      BY <1>0, <2>5 DEF RecheckUpdate, SharedType, CallType
    <2>6. CASE ReturnNone(c)
      BY <1>0, <2>6 DEF ReturnNone, SharedType, Statuses
    <2> QED
      BY <1>1, <2>1, <2>2, <2>3, <2>4, <2>5, <2>6 DEF Calls, AttemptStep
  <1>2. CASE ProfileThreadStep
    <2>1. CASE LoopCheck \/ EndRound \/ SkipSlot \/ StartFails \/ AddSnapshot \/ ThreadEnds
      BY <1>0, <2>1 DEF LoopCheck, EndRound, SkipSlot, StartFails, AddSnapshot, ThreadEnds, SharedType, shared
    <2>2. CASE StartProfiling \/ MarkStopped
      BY <1>0, <2>2 DEF StartProfiling, MarkStopped, SharedType, Statuses
    <2>3. CASE DumpStack \/ DumpFails
      <3>1. total' \in Nat
        BY <1>0, <2>3 DEF DumpStack, DumpFails, CountFirstDump, SharedType
      <3>2. dumped' \in [Contexts -> BOOLEAN]
        BY <1>0, <2>3 DEF DumpStack, DumpFails, SharedType
      <3> QED
        BY <1>0, <2>3, <3>1, <3>2 DEF DumpStack, DumpFails, SharedType
    <2>4. CASE ClearSlot
      BY <1>0, <2>4 DEF ClearSlot, SharedType
    <2>5. CASE ReleaseCount
      <3>1. cnt >= 1
        <4>1. Cardinality(Reserved) \in Nat
          BY ContextSets DEF Reserved, Scanning, Holders
        <4> QED
          BY <1>0, <2>5, <4>1 DEF CountIsExact, Releasing, ReleaseCount
      <3> QED
        BY <1>0, <2>5, <3>1 DEF ReleaseCount, SharedType
    <2> QED
      BY <1>2, <2>1, <2>2, <2>3, <2>4, <2>5 DEF ProfileThreadStep
  <1>3. CASE StopTask
    BY <1>0, <1>3 DEF StopTask, SharedType, shared
  <1> QED
    BY <1>0, <1>1, <1>2, <1>3, StepCases, EnvFrame DEF SharedType

LEMMA CallTypeStep ==
  ASSUME IInv, [Next]_vars PROVE CallType'
  <1>0. /\ SharedType /\ CallType
        /\ MaxParallel \in Nat /\ MaxParallel > 0
    BY Limits DEF IInv, TypeOK
  <1>1. ASSUME NEW c \in Contexts, Calls(c) PROVE CallType'
    <2>1. CASE NewEntrySpan(c) \/ ProfilingRecheck(c) \/ ReturnReference(c) \/ ReturnNone(c)
      BY <1>0, <2>1 DEF NewEntrySpan, ProfilingRecheck, ReturnReference, ReturnNone, Goto,
                        CallType, CallPoints, InCall
    <2>2. CASE ReadCount(c) \/ CheckTask(c)
      BY <1>0, <2>2 DEF ReadCount, CheckTask, Goto, SharedType, CallType, CallPoints, InCall
    <2>3. CASE Reserve(c)
      BY <1>0, <2>3 DEF Reserve, Goto, CallType, CallPoints, InCall
    <2>4. CASE OccupySlot(c)
      BY <1>0, <2>4 DEF OccupySlot, Goto, CallType, CallPoints, InCall, Slots
    <2>5. CASE RecheckGet(c) \/ RecheckUpdate(c)
      BY <1>0, <2>5 DEF RecheckGet, RecheckUpdate, Goto, SharedType, CallType, CallPoints, InCall, Statuses
    <2> QED
      BY <1>1, <2>1, <2>2, <2>3, <2>4, <2>5 DEF Calls, AttemptStep
  <1>2. CASE ProfileThreadStep \/ StopTask
    BY <1>0, <1>2, ProfileFrame DEF CallType
  <1> QED
    BY <1>0, <1>1, <1>2, StepCases, EnvFrame DEF CallType

LEMMA ProfTypeStep ==
  ASSUME IInv, [Next]_vars PROVE ProfType' /\ EnvType'
  <1>0. /\ ProfType /\ EnvType /\ ProfInv
        /\ MaxParallel \in Nat /\ MaxParallel > 0 /\ MaxSnapshots \in Nat
    BY Limits DEF IInv, TypeOK
  <1>1. ASSUME NEW c \in Contexts, Calls(c) PROVE ProfType' /\ EnvType'
    BY <1>0, <1>1, CallFrame DEF ProfType, EnvType
  <1>2. CASE ProfileThreadStep
    <2>0. snapshots' \in 0 .. MaxSnapshots
      BY <1>0, <1>2 DEF EnvType, ProfileThreadStep, LoopCheck, EndRound, SkipSlot, StartProfiling,
         StartFails, DumpStack, AddSnapshot, DumpFails, ClearSlot, MarkStopped, ReleaseCount,
         ThreadEnds, taskVars
    <2>1. EnvType'
      BY <1>0, <1>2, <2>0, ProfileFrame DEF EnvType, ProfileThreadStep, LoopCheck, EndRound, SkipSlot,
         StartProfiling, StartFails, DumpStack, AddSnapshot, DumpFails, ClearSlot, MarkStopped,
         ReleaseCount, ThreadEnds, taskVars
    <2>2. CASE LoopCheck \/ EndRound \/ StartFails \/ ThreadEnds
      BY <1>0, <2>1, <2>2 DEF LoopCheck, EndRound, StartFails, ThreadEnds, ProfType, ProfPoints
    <2>3. CASE SkipSlot \/ StartProfiling
      BY <1>0, <2>1, <2>3 DEF SkipSlot, StartProfiling, Visiting, NextSlot, Slots, ProfType, ProfPoints
    <2>4. CASE DumpStack \/ AddSnapshot \/ DumpFails
      BY <1>0, <2>1, <2>4 DEF DumpStack, AddSnapshot, DumpFails, ProfInv, Profiling, Visiting, Slots, ProfType, ProfPoints
    <2>5. CASE ClearSlot \/ MarkStopped \/ ReleaseCount
      BY <1>0, <2>1, <2>5 DEF ClearSlot, MarkStopped, ReleaseCount, ProfInv, Slots, ProfType, ProfPoints
    <2> QED
      BY <1>2, <2>2, <2>3, <2>4, <2>5 DEF ProfileThreadStep
  <1>3. CASE StopTask
    BY <1>0, <1>3, ProfileFrame DEF StopTask, profVars, ProfType, EnvType
  <1>4. CASE \E t \in Threads : ThreadExit(t)
    BY <1>0, <1>4, EnvFrame DEF ThreadExit, taskVars, ProfType, EnvType
  <1>5. CASE \E c \in Contexts : Elapse(c)
    BY <1>0, <1>5, EnvFrame DEF Elapse, taskVars, ProfType, EnvType
  <1>6. CASE ReportSnapshot
    BY <1>0, <1>6, EnvFrame DEF ReportSnapshot, ThreadVars, envVars, ProfType, EnvType
  <1>7. CASE UNCHANGED vars
    BY <1>0, <1>7, EnvFrame DEF vars, envVars, taskVars, ProfType, EnvType
  <1> QED
    BY <1>1, <1>2, <1>3, <1>4, <1>5, <1>6, <1>7, StepCases

LEMMA TypeStep == ASSUME IInv, [Next]_vars PROVE TypeOK'
  BY SharedTypeStep, CallTypeStep, ProfTypeStep DEF TypeOK

-----------------------------------------------------------------------------
(* Control: what a context that scans, or holds a slot, may look like.     *)

\* The conjuncts that speak of one context and of the slots.
Control == CallInv /\ ProfInv /\ OneSlotEach

LEMMA ControlStep ==
  ASSUME IInv, [Next]_vars PROVE Control'
  <1>0. /\ SharedType /\ CallType /\ ProfType /\ CallInv /\ ProfInv /\ OneSlotEach
        /\ MaxParallel \in Nat /\ MaxParallel > 0 /\ NoContext \notin Contexts
    BY Limits, ContextsAssumption DEF IInv, TypeOK
  <1> USE DEF Control, CallInv, ProfInv, OneSlotEach, Holds, Settled, Watched, Scanning
  <1>1. ASSUME NEW c \in Contexts, Calls(c) PROVE Control'
    <2>0. UNCHANGED <<prof, profIdx, profCtx>>
      BY <1>1, CallFrame
    <2>1. CASE NewEntrySpan(c) \/ ProfilingRecheck(c)
      BY <1>0, <2>0, <2>1 DEF NewEntrySpan, ProfilingRecheck, Goto, CallType, SharedType, shared
    <2>2. CASE ReadCount(c) \/ CheckTask(c)
      BY <1>0, <2>0, <2>2 DEF ReadCount, CheckTask, Goto, CallType, SharedType, shared
    <2>3. CASE Reserve(c)
      BY <1>0, <2>0, <2>3 DEF Reserve, Goto, CallType, SharedType
    <2>4. CASE OccupySlot(c)
      BY <1>0, <2>0, <2>4 DEF OccupySlot, Goto, CallType, SharedType
    <2>5. CASE ReturnReference(c)
      BY <1>0, <2>0, <2>5 DEF ReturnReference, Goto, CallType, SharedType
    <2>6. CASE RecheckGet(c)
      BY <1>0, <2>0, <2>6 DEF RecheckGet, Goto, CallType, SharedType, shared
    <2>7. CASE RecheckUpdate(c)
      BY <1>0, <2>0, <2>7 DEF RecheckUpdate, Goto, CallType, SharedType
    <2>8. CASE ReturnNone(c)
      BY <1>0, <2>0, <2>8 DEF ReturnNone, Goto, CallType, SharedType
    <2> QED
      BY <1>1, <2>1, <2>2, <2>3, <2>4, <2>5, <2>6, <2>7, <2>8 DEF Calls, AttemptStep
  <1>2. CASE ProfileThreadStep
    <2>0. UNCHANGED <<pc, seen, idx, fetched>>
      BY <1>2, ProfileFrame
    <2>1. CASE LoopCheck \/ EndRound \/ SkipSlot \/ StartFails \/ AddSnapshot \/ ThreadEnds
      BY <1>0, <2>0, <2>1 DEF LoopCheck, EndRound, SkipSlot, StartFails, AddSnapshot, ThreadEnds, NextSlot, Visiting, shared
    <2>2. CASE StartProfiling
      BY <1>0, <2>0, <2>2 DEF StartProfiling, NextSlot, Visiting, Visited, SharedType
    <2>3. CASE DumpStack
      BY <1>0, <2>0, <2>3 DEF DumpStack, Profiling, Visiting
    <2>4. CASE DumpFails
      BY <1>0, <2>0, <2>4 DEF DumpFails, Profiling, Visiting, Visited
    <2>5. CASE ClearSlot
      BY <1>0, <2>0, <2>5 DEF ClearSlot, SharedType
    <2>6. CASE MarkStopped
      BY <1>0, <2>0, <2>6 DEF MarkStopped, SharedType
    <2>7. CASE ReleaseCount
      BY <1>0, <2>0, <2>7 DEF ReleaseCount
    <2> QED
      BY <1>2, <2>1, <2>2, <2>3, <2>4, <2>5, <2>6, <2>7 DEF ProfileThreadStep
  <1>3. CASE StopTask
    BY <1>0, <1>3, ProfileFrame DEF StopTask, profVars, shared
  <1> QED
    BY <1>0, <1>1, <1>2, <1>3, StepCases, EnvFrame

-----------------------------------------------------------------------------
(* The counting argument.                                                  *)

\* Nothing that is located moves forward: the bound is kept.
LEMMA SuffixShrinks ==
  ASSUME SuffixInv, \A i \in 0 .. MaxParallel : Located(i)' \subseteq Located(i)
  PROVE  SuffixInv'
  <1> SUFFICES ASSUME NEW i \in 0 .. MaxParallel
               PROVE  Cardinality(Located(i)') <= MaxParallel - i
    BY DEF SuffixInv
  <1>1. IsFiniteSet(Located(i)) /\ Cardinality(Located(i)) \in Nat
    BY ContextSets DEF Located
  <1>2. Cardinality(Located(i)') <= Cardinality(Located(i)) /\ Cardinality(Located(i)') \in Nat
    BY <1>1, FS_Subset, FS_CardinalityType
  <1> QED
    BY <1>1, <1>2, Limits DEF SuffixInv

\* A reservation adds one context at position 0, where the count left room.
LEMMA SuffixReserve ==
  ASSUME IInv, NEW c \in Contexts, Reserve(c)
  PROVE  SuffixInv'
  <1>0. /\ SharedType /\ CallType /\ CallInv /\ SuffixInv /\ CountIsExact /\ TypeOK
        /\ MaxParallel \in Nat /\ MaxParallel > 0
    BY Limits DEF IInv, TypeOK
  <1>1. CASE cnt # seen[c]
    <2>1. \A i \in 0 .. MaxParallel : Located(i)' \subseteq Located(i)
      BY <1>0, <1>1 DEF Reserve, Goto, Located, CallType
    <2> QED
      BY <1>0, <2>1, SuffixShrinks
  <1>2. CASE cnt = seen[c]
    <2>1. cnt < MaxParallel
      BY <1>0, <1>2 DEF CallInv, Reserve
    <2>2. \A i \in 1 .. MaxParallel : Located(i)' \subseteq Located(i)
      BY <1>0, <1>2 DEF Reserve, Goto, Located, CallType
    <2>3. Located(0)' \subseteq Located(0) \cup {c}
      BY <1>0, <1>2 DEF Reserve, Goto, Located, CallType
    <2>4. Cardinality(Located(0)) <= cnt /\ Cardinality(Located(0)) \in Nat
      <3>1. Located(0) \subseteq Contexts
        BY DEF Located
      <3>2. Cardinality(Reserved) <= cnt
        BY <1>0, <3>1, ContextSets, ReservedLocated DEF CountIsExact, Releasing, SharedType
      <3> QED
        BY <1>0, <3>1, <3>2, ContextSets, ReservedLocated
    <2>5. Cardinality(Located(0)') <= Cardinality(Located(0)) + 1
      BY <2>3, GainOne DEF Located
    <2>6. Cardinality(Located(0)') <= MaxParallel /\ Cardinality(Located(0)') \in Nat
      BY <1>0, <2>1, <2>4, <2>5, ContextSets DEF SharedType, Located
    <2>7. ASSUME NEW i \in 1 .. MaxParallel
          PROVE  Cardinality(Located(i)') <= MaxParallel - i
      <3>1. IsFiniteSet(Located(i)) /\ Cardinality(Located(i)) \in Nat
        BY ContextSets DEF Located
      <3>2. Cardinality(Located(i)') <= Cardinality(Located(i)) /\ Cardinality(Located(i)') \in Nat
        BY <2>2, <3>1, FS_Subset, FS_CardinalityType
      <3> QED
        BY <1>0, <3>1, <3>2 DEF SuffixInv
    <2> QED
      BY <1>0, <2>6, <2>7 DEF SuffixInv
  <1> QED
    BY <1>1, <1>2

\* A context moves past a slot only when another one is in it.
LEMMA SuffixScan ==
  ASSUME IInv, NEW c \in Contexts, OccupySlot(c)
  PROVE  SuffixInv'
  <1>0. /\ SharedType /\ CallType /\ SuffixInv /\ OneSlotEach
        /\ MaxParallel \in Nat /\ MaxParallel > 0
    BY Limits DEF IInv, TypeOK
  <1>k. PICK k \in Slots : k = idx[c]
    BY DEF OccupySlot
  <1>d. PICK d : d = slots[k]
    OBVIOUS
  <1>1. k \in 0 .. (MaxParallel - 1) /\ pc[c] = "scan" /\ idx[c] = k /\ slots[k] = d
    BY <1>k, <1>d DEF OccupySlot, Slots
  <1>2. CASE d = NoContext
    <2>1. /\ slots' = [slots EXCEPT ![k] = c]
          /\ idx' = [idx EXCEPT ![c] = 0]
          /\ pc' = [pc EXCEPT ![c] = "occupied"]
      BY <1>1, <1>2 DEF OccupySlot, Goto
    <2>2. ASSUME NEW i \in 0 .. MaxParallel, NEW e \in Contexts, e \in Located(i)'
          PROVE  e \in Located(i)
      <3>1. CASE e = c
        <4>1. \A j \in Slots : slots'[j] = c => j = k \/ slots[j] = c
          BY <1>0, <2>1 DEF SharedType
        <4> QED
          BY <1>0, <1>1, <2>1, <2>2, <3>1, <4>1 DEF Located, CallType
      <3>2. CASE e # c
        BY <1>0, <1>1, <2>1, <2>2, <3>2 DEF Located, SharedType, CallType
      <3> QED
        BY <3>1, <3>2
    <2>3. \A i \in 0 .. MaxParallel : Located(i)' \subseteq Located(i)
      BY <2>2 DEF Located
    <2> QED
      BY <1>0, <2>3, SuffixShrinks
  <1>3. CASE d # NoContext
    <2>1. /\ idx' = [idx EXCEPT ![c] = k + 1]
          /\ pc' = pc /\ slots' = slots
      BY <1>1, <1>3 DEF OccupySlot
    <2>2. \A i \in 0 .. MaxParallel : i # k + 1 => Located(i)' \subseteq Located(i)
      BY <1>0, <1>1, <2>1 DEF Located, CallType
    <2>3. d \in Contexts /\ d # c /\ pc[d] # "scan"
      BY <1>0, <1>1, <1>3 DEF SharedType, Slots, OneSlotEach, Scanning, Holds
    <2>4. d \in Located(k)
      BY <1>1, <2>3 DEF Located, Slots
    <2>5. d \notin Located(k + 1)'
      <3>1. \A j \in Slots : slots[j] = d => j = k
        BY <1>0, <1>1, <1>3 DEF OneSlotEach, Slots
      <3> QED
        BY <1>1, <2>1, <2>3, <3>1 DEF Located, Slots
    <2>6. Located(k + 1)' \subseteq Located(k) \ {d}
      <3>1. Located(k + 1)' \subseteq Located(k)
        BY <1>0, <1>1, <2>1 DEF Located, CallType, Slots
      <3> QED
        BY <2>5, <3>1
    <2>7. Cardinality(Located(k + 1)') <= Cardinality(Located(k)) - 1
      BY <2>4, <2>6, LoseOne DEF Located
    <2>8. Cardinality(Located(k)) <= MaxParallel - k /\ Cardinality(Located(k)) \in Nat
      BY <1>0, <1>1, ContextSets DEF SuffixInv, Located
    <2>9. Cardinality(Located(k + 1)') \in Nat
      BY ContextSets DEF Located
    <2>10. Cardinality(Located(k + 1)') <= MaxParallel - (k + 1)
      BY <1>0, <1>1, <2>7, <2>8, <2>9
    <2>11. ASSUME NEW i \in 0 .. MaxParallel, i # k + 1
           PROVE  Cardinality(Located(i)') <= MaxParallel - i
      <3>1. IsFiniteSet(Located(i)) /\ Cardinality(Located(i)) \in Nat
        BY ContextSets DEF Located
      <3>2. Cardinality(Located(i)') <= Cardinality(Located(i)) /\ Cardinality(Located(i)') \in Nat
        BY <2>2, <2>11, <3>1, FS_Subset, FS_CardinalityType
      <3> QED
        BY <1>0, <3>1, <3>2 DEF SuffixInv
    <2> QED
      BY <1>1, <2>10, <2>11 DEF SuffixInv
  <1> QED
    BY <1>2, <1>3

\* The calls that neither reserve nor scan locate nobody anew.
LEMMA CallLocated ==
  ASSUME IInv, NEW c \in Contexts, Calls(c), ~Reserve(c), ~OccupySlot(c)
  PROVE  /\ Scanning' = Scanning
         /\ UNCHANGED <<cnt, slots, prof>>
         /\ \A e \in Scanning : idx'[e] = idx[e]
  <1>0. CallType /\ (pc[c] = "scan" => idx[c] \in Slots)
    BY ScanStaysInside DEF IInv, TypeOK, ReservationFindsSlot
  <1>1. UNCHANGED <<cnt, slots, prof>>
    BY CallFrame
  <1>2. CASE NewEntrySpan(c) \/ ProfilingRecheck(c)
    BY <1>0, <1>1, <1>2 DEF NewEntrySpan, ProfilingRecheck, Goto, CallType, Scanning
  <1>3. CASE ReadCount(c) \/ CheckTask(c)
    BY <1>0, <1>1, <1>3 DEF ReadCount, CheckTask, Goto, CallType, Scanning
  <1>4. CASE ReturnReference(c) \/ RecheckGet(c) \/ RecheckUpdate(c) \/ ReturnNone(c)
    BY <1>0, <1>1, <1>4 DEF ReturnReference, RecheckGet, RecheckUpdate, ReturnNone, Goto, CallType, Scanning
  <1> QED
    BY <1>2, <1>3, <1>4 DEF Calls, AttemptStep

\* Only ClearSlot of the profile thread's steps writes a slot, and it empties one.
LEMMA ProfileLocated ==
  ASSUME IInv, ProfileThreadStep \/ StopTask
  PROVE  /\ Scanning' = Scanning
         /\ UNCHANGED <<pc, idx>>
         /\ \A j \in Slots : slots'[j] \in {slots[j], NoContext}
         /\ ~ClearSlot => slots' = slots
  <1>0. SharedType
    BY DEF IInv, TypeOK
  <1>1. UNCHANGED <<pc, idx>>
    BY ProfileFrame
  <1>2. CASE ClearSlot
    BY <1>0, <1>1, <1>2 DEF ClearSlot, SharedType, Scanning
  <1>3. CASE ~ClearSlot
    BY <1>1, <1>3 DEF ProfileThreadStep, LoopCheck, EndRound, SkipSlot, StartProfiling, StartFails,
       DumpStack, AddSnapshot, DumpFails, MarkStopped, ReleaseCount, ThreadEnds, StopTask, shared, Scanning
  <1> QED
    BY <1>2, <1>3

LEMMA SuffixStep ==
  ASSUME IInv, [Next]_vars PROVE SuffixInv'
  <1>0. SuffixInv
    BY DEF IInv
  <1>1. ASSUME NEW c \in Contexts, Calls(c), ~Reserve(c), ~OccupySlot(c) PROVE SuffixInv'
    BY <1>0, <1>1, CallLocated, SuffixShrinks DEF Located, Scanning
  <1>2. CASE ProfileThreadStep \/ StopTask
    <2>1. \A i \in 0 .. MaxParallel : Located(i)' \subseteq Located(i)
      BY <1>2, ProfileLocated, ContextsAssumption DEF Located
    <2> QED
      BY <1>0, <2>1, SuffixShrinks
  <1>3. ASSUME UNCHANGED <<slots, pc, idx>> PROVE SuffixInv'
    BY <1>0, <1>3, SuffixShrinks DEF Located
  <1> QED
    BY <1>1, <1>2, <1>3, SuffixReserve, SuffixScan, StepCases, EnvFrame

\* The counter follows the set of reservations.
LEMMA CountStep ==
  ASSUME IInv, [Next]_vars PROVE CountIsExact'
  <1>0. /\ SharedType /\ CallType /\ ProfType /\ OneSlotEach /\ CallInv /\ ProfInv /\ CountIsExact
        /\ NoContext \notin Contexts
    BY ContextsAssumption DEF IInv, TypeOK
  <1>a. Reserved \subseteq Contexts /\ Cardinality(Reserved) \in Nat /\ IsFiniteSet(Reserved)
    BY ContextSets DEF Reserved, Scanning, Holders
  <1>1. ASSUME UNCHANGED <<cnt, slots, prof>>, Scanning' = Scanning PROVE CountIsExact'
    BY <1>0, <1>1 DEF CountIsExact, Reserved, Holders, Holds, Releasing
  <1>2. ASSUME NEW c \in Contexts, Reserve(c) PROVE CountIsExact'
    <2>0. UNCHANGED <<slots, prof>>
      BY <1>2 DEF Reserve, profVars
    <2>1. CASE cnt # seen[c]
      BY <1>0, <1>1, <1>2, <2>0, <2>1 DEF Reserve, Goto, CallType, Scanning
    <2>2. CASE cnt = seen[c]
      <3>1. Reserved' = Reserved \cup {c}
        BY <1>0, <1>2, <2>0, <2>2 DEF Reserve, Goto, CallType, Reserved, Scanning, Holders, Holds
      <3>2. c \notin Reserved
        BY <1>0, <1>2 DEF Reserve, Reserved, Scanning, Holders, CallInv, Settled
      <3>3. Cardinality(Reserved') = Cardinality(Reserved) + 1
        BY <1>a, <3>1, <3>2, FS_AddElement
      <3>4. cnt' = cnt + 1
        BY <1>2, <2>2 DEF Reserve
      <3> QED
        BY <1>0, <1>a, <2>0, <3>3, <3>4 DEF CountIsExact, Releasing
    <2> QED
      BY <2>1, <2>2
  <1>3. ASSUME NEW c \in Contexts, OccupySlot(c) PROVE CountIsExact'
    <2>0. UNCHANGED <<cnt, prof>>
      BY <1>3 DEF OccupySlot, profVars
    <2>1. CASE slots[idx[c]] # NoContext
      BY <1>1, <1>3, <2>0, <2>1 DEF OccupySlot, Scanning
    <2>2. CASE slots[idx[c]] = NoContext
      <3>1. Holders' = Holders \cup {c}
        BY <1>0, <1>3, <2>2 DEF OccupySlot, SharedType, Holders, Holds
      <3>2. Scanning' = Scanning \ {c} /\ c \in Scanning
        BY <1>0, <1>3, <2>2 DEF OccupySlot, Goto, CallType, Scanning
      <3>3. Reserved' = Reserved
        BY <3>1, <3>2 DEF Reserved
      <3> QED
        BY <1>0, <2>0, <3>3 DEF CountIsExact, Releasing
    <2> QED
      BY <2>1, <2>2
  <1>4. ASSUME NEW c \in Contexts, Calls(c), ~Reserve(c), ~OccupySlot(c) PROVE CountIsExact'
    BY <1>1, <1>4, CallLocated
  <1>5. CASE ClearSlot
    <2>1. Scanning' = Scanning
      BY <1>5, ProfileLocated DEF ProfileThreadStep
    <2>2. profCtx \in Contexts /\ profCtx \notin Scanning /\ profCtx \in Holders
      BY <1>0, <1>5 DEF ClearSlot, ProfInv, OneSlotEach, Holders
    <2>3. Holders' = Holders \ {profCtx}
      BY <1>0, <1>5, <2>2 DEF ClearSlot, SharedType, OneSlotEach, Holders, Holds
    <2>4. Reserved' = Reserved \ {profCtx} /\ profCtx \in Reserved
      BY <2>1, <2>2, <2>3 DEF Reserved
    <2>5. Cardinality(Reserved') = Cardinality(Reserved) - 1
      BY <1>a, <2>4, FS_RemoveElement
    <2>6. Releasing = 0 /\ Releasing' = 1 /\ cnt' = cnt
      BY <1>5 DEF ClearSlot, Releasing
    <2> QED
      BY <1>0, <1>a, <2>5, <2>6 DEF CountIsExact
  <1>6. CASE ReleaseCount
    <2>1. Reserved' = Reserved
      BY <1>6, ProfileLocated DEF ProfileThreadStep, ReleaseCount, Reserved, Scanning, Holders, Holds
    <2>2. Releasing = 1 /\ Releasing' = 0 /\ cnt' = cnt - 1
      BY <1>6 DEF ReleaseCount, Releasing
    <2> QED
      BY <1>0, <1>a, <2>1, <2>2 DEF CountIsExact, SharedType
  <1>7. CASE (ProfileThreadStep \/ StopTask) /\ ~ClearSlot /\ ~ReleaseCount
    <2>1. Reserved' = Reserved
      BY <1>7, ProfileLocated DEF Reserved, Scanning, Holders, Holds
    <2>2. Releasing' = Releasing /\ cnt' = cnt
      BY <1>7 DEF ProfileThreadStep, LoopCheck, EndRound, SkipSlot, StartProfiling, StartFails,
         DumpStack, AddSnapshot, DumpFails, MarkStopped, ThreadEnds, StopTask, shared, profVars, Releasing,
         Profiling, Visiting, NextSlot
    <2> QED
      BY <1>0, <2>1, <2>2 DEF CountIsExact
  <1>8. ASSUME UNCHANGED <<cnt, slots, pc, prof>> PROVE CountIsExact'
    BY <1>1, <1>8 DEF Scanning
  <1> QED
    BY <1>2, <1>3, <1>4, <1>5, <1>6, <1>7, <1>8, StepCases, EnvFrame

\* Each first dump is counted before it is allowed.
LEMMA DumpStep ==
  ASSUME IInv, [Next]_vars PROVE DumpInv'
  <1>0. SharedType /\ DumpInv /\ MaxSampling \in Nat
    BY Limits DEF IInv, TypeOK
  <1>a. Dumped \subseteq Contexts /\ Cardinality(Dumped) \in Nat
    BY ContextSets DEF Dumped
  <1>1. ASSUME dumped' = dumped, total' = total \/ total' = total + 1 PROVE DumpInv'
    BY <1>0, <1>a, <1>1 DEF DumpInv, Dumped, SharedType
  <1>2. CASE DumpStack
    <2>1. PICK c \in Contexts : /\ MayDump(c) /\ CountFirstDump(c)
                                /\ dumped' = [dumped EXCEPT ![c] = TRUE]
      BY <1>2 DEF DumpStack
    <2>2. CASE dumped[c]
      <3>1. dumped' = dumped /\ total' = total
        BY <1>0, <2>1, <2>2 DEF SharedType, CountFirstDump
      <3> QED
        BY <1>1, <3>1
    <2>3. CASE ~dumped[c]
      <3>1. total' = total + 1 /\ total + 1 <= MaxSampling
        BY <2>1, <2>3 DEF MayDump, CountFirstDump
      <3>2. Dumped' \subseteq Dumped \cup {c}
        BY <1>0, <2>1 DEF Dumped, SharedType
      <3>3. Cardinality(Dumped') <= Cardinality(Dumped) + 1 /\ Cardinality(Dumped') \in Nat
        BY <1>a, <3>2, GainOne, ContextSets DEF Dumped
      <3> QED
        BY <1>0, <1>a, <3>1, <3>3 DEF DumpInv, SharedType
    <2> QED
      BY <2>2, <2>3
  <1>3. CASE DumpFails
    BY <1>1, <1>3 DEF DumpFails, CountFirstDump
  <1>4. CASE (ProfileThreadStep \/ StopTask) /\ ~DumpStack /\ ~DumpFails
    BY <1>1, <1>4 DEF ProfileThreadStep, LoopCheck, EndRound, SkipSlot, StartProfiling, StartFails,
       AddSnapshot, ClearSlot, MarkStopped, ReleaseCount, ThreadEnds, StopTask, shared
  <1> QED
    BY <1>1, <1>2, <1>3, <1>4, StepCases, EnvFrame, CallFrame

-----------------------------------------------------------------------------
(* The theorems.                                                           *)

\* The invariant of attempt_profiling and of the profile thread, for any number of contexts,
\* threads and slots.
THEOREM Invariance == Spec => []IInv
  <1>1. Init => IInv
    BY InitInv
  <1>2. IInv /\ [Next]_vars => IInv'
    BY TypeStep, ControlStep, SuffixStep, CountStep, DumpStep DEF IInv, Control
  <1> QED
    BY <1>1, <1>2, PTL DEF Spec

\* Every variable of ProfileSlots keeps its type, and the counter its limit.
THEOREM TypeCorrect == Spec => []TypeOK
  BY Invariance, PTL DEF IInv

\* attempt_profiling: a context that won the compare_and_set on the counter always finds a slot.
THEOREM ReservationsFindSlots == Spec => []ReservationFindsSlot
  <1>1. IInv => ReservationFindsSlot
    BY ScanStaysInside DEF IInv
  <1> QED
    BY <1>1, Invariance, PTL

\* _current_profiling_cnt never leaks: it is exactly the number of places in use.
THEOREM CountExact == Spec => []CountIsExact
  BY Invariance, PTL DEF IInv

\* A context never holds two slots, nor holds one while it looks for one.
THEOREM OneSlot == Spec => []OneSlotEach
  BY Invariance, PTL DEF IInv

\* What sits in a slot has a status that the profile thread acts on.
THEOREM SlotsWatched == Spec => []SlotIsWatched
  <1>1. IInv => SlotIsWatched
    BY DEF IInv, CallInv, Settled, Watched, SlotIsWatched, Holders
  <1> QED
    BY <1>1, Invariance, PTL

\* No more traces are dumped than max_sampling_count.
THEOREM SamplingLimit == Spec => []SamplingBounded
  <1>1. IInv => SamplingBounded
    BY DEF IInv, DumpInv, Dumped, SamplingBounded
  <1> QED
    BY <1>1, Invariance, PTL

-----------------------------------------------------------------------------
(* A slot is kept.                                                         *)

\* The profile thread is on its way to clear a slot only if its context cannot be dumped any more.
MayGoOn(c) == alive[Runner[c]] /\ (dumped[c] \/ total < MaxSampling)
ClearInv   == prof = "clear" => ~MayGoOn(profCtx)

LEMMA ClearStep ==
  ASSUME IInv, ClearInv, [Next]_vars PROVE ClearInv'
  <1> SUFFICES ASSUME prof' = "clear" PROVE ~MayGoOn(profCtx)'
    BY DEF ClearInv
  <1>0. SharedType /\ EnvType /\ ProfInv /\ MaxSampling \in Nat /\ Runner \in [Contexts -> Threads]
    BY Limits, RunnerAssumption DEF IInv, TypeOK
  <1>1. ASSUME prof = "clear", UNCHANGED <<prof, profCtx, dumped, total>>,
               alive' = alive \/ \E t \in Threads : alive' = [alive EXCEPT ![t] = FALSE]
        PROVE  ~MayGoOn(profCtx)'
    <2>1. profCtx \in Contexts /\ Runner[profCtx] \in Threads
      BY <1>0, <1>1 DEF ProfInv
    <2>2. alive'[Runner[profCtx]] => alive[Runner[profCtx]]
      BY <1>0, <1>1, <2>1 DEF EnvType
    <2> QED
      BY <1>1, <2>2 DEF ClearInv, MayGoOn
  <1>2. CASE DumpFails
    <2>1. PICK c \in Contexts :
            /\ \/ ~alive[Runner[c]] /\ UNCHANGED total
               \/ ~MayDump(c) /\ CountFirstDump(c)
            /\ profCtx' = c /\ UNCHANGED <<dumped, alive>>
      BY <1>2 DEF DumpFails, ThreadVars, envVars
    <2>2. ~MayDump(c) /\ CountFirstDump(c) => ~dumped[c] /\ ~(total' < MaxSampling)
      BY <1>0 DEF MayDump, CountFirstDump, SharedType
    <2> QED
      BY <2>1, <2>2 DEF MayGoOn
  <1>3. CASE ProfileThreadStep /\ ~DumpFails
    BY <1>3 DEF ProfileThreadStep, LoopCheck, EndRound, SkipSlot, StartProfiling, StartFails,
       DumpStack, AddSnapshot, ClearSlot, MarkStopped, ReleaseCount, ThreadEnds, NextSlot, Profiling, Visiting
  <1>4. CASE StopTask
    BY <1>1, <1>4 DEF StopTask, shared, profVars, ThreadVars, envVars
  <1>5. CASE \E c \in Contexts : Calls(c)
    BY <1>1, <1>5, CallFrame
  <1>6. CASE \/ \E c \in Contexts : Elapse(c)
             \/ \E t \in Threads : ThreadExit(t)
             \/ ReportSnapshot
             \/ UNCHANGED vars
    <2>1. alive' = alive \/ \E t \in Threads : alive' = [alive EXCEPT ![t] = FALSE]
      BY <1>6 DEF Elapse, ThreadExit, ReportSnapshot, ThreadVars, vars, envVars
    <2> QED
      BY <1>1, <1>6, <2>1, EnvFrame
  <1> QED
    BY <1>2, <1>3, <1>4, <1>5, <1>6, StepCases

Kept == \A c \in Contexts : Holds(c) /\ MayGoOn(c) => Holds(c)'

LEMMA KeptStep ==
  ASSUME IInv, ClearInv, [Next]_vars PROVE Kept
  <1> SUFFICES ASSUME NEW c \in Contexts, NEW i \in Slots, slots[i] = c, MayGoOn(c)
               PROVE  slots'[i] = c
    BY DEF Kept, Holds
  <1>0. slots \in [Slots -> Contexts \cup {NoContext}] /\ NoContext \notin Contexts
    BY ContextsAssumption DEF IInv, TypeOK, SharedType
  <1>1. CASE UNCHANGED slots
    BY <1>1
  <1>2. CASE ClearSlot
    <2>1. PICK j \in Slots : slots[j] = profCtx /\ slots' = [slots EXCEPT ![j] = NoContext]
      BY <1>2 DEF ClearSlot
    <2>2. profCtx # c
      BY <1>2 DEF ClearSlot, ClearInv
    <2> QED
      BY <1>0, <2>1, <2>2
  <1>3. CASE \E d \in Contexts : Calls(d) /\ OccupySlot(d)
    <2>1. PICK d \in Contexts : OccupySlot(d)
      BY <1>3
    <2>2. \/ UNCHANGED slots
          \/ slots[idx[d]] = NoContext /\ slots' = [slots EXCEPT ![idx[d]] = d]
      BY <2>1 DEF OccupySlot
    <2> QED
      BY <1>0, <2>2
  <1>4. CASE (ProfileThreadStep \/ StopTask) /\ ~ClearSlot
    BY <1>1, <1>4 DEF ProfileThreadStep, LoopCheck, EndRound, SkipSlot, StartProfiling, StartFails,
       DumpStack, AddSnapshot, DumpFails, MarkStopped, ReleaseCount, ThreadEnds, StopTask, shared
  <1> QED
    BY <1>1, <1>2, <1>3, <1>4, StepCases, EnvFrame, CallFrame

\* Nobody takes a slot from a context whose thread lives and whose trace may still be dumped, although
\* stop_tracing_profile works in several steps while request threads fill and scan the slots.
THEOREM SlotsKept == Spec => SlotKept
  <1>1. Init => ClearInv
    BY DEF Init, ClearInv
  <1>2. IInv /\ ClearInv /\ [Next]_vars => ClearInv'
    BY ClearStep
  <1>3. Spec => [](IInv /\ ClearInv)
    BY <1>1, <1>2, Invariance, PTL DEF Spec
  <1>4. IInv /\ ClearInv /\ [Next]_vars => [Kept]_vars
    BY KeptStep
  <1>5. [](IInv /\ ClearInv) /\ [][Next]_vars => [][Kept]_vars
    BY <1>4, PTL
  <1>6. Kept <=> \A c \in Contexts : Holds(c) /\ alive[Runner[c]] /\ (dumped[c] \/ total < MaxSampling) => Holds(c)'
    BY DEF Kept, MayGoOn
  <1> QED
    BY <1>3, <1>5, <1>6, PTL DEF Spec, SlotKept
=============================================================================
