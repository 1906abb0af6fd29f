-------------------------- MODULE ProfileTasks_proofs --------------------------
(***************************************************************************)
(* Proofs about profile tasks, for any number of tasks and any times.  The *)
(* argument goes from the types to the commands (each is executed once),   *)
(* to the turns (each task has one), to the list.                          *)
(***************************************************************************)
EXTENDS ProfileTasks, SequenceLemmas, TLAPS

LEMMA NoTaskIsNone == NoTask \notin Tasks /\ Tasks \subseteq Nat
  BY TasksAssumption DEF NoTask

-----------------------------------------------------------------------------
(* Types: of the commands, of the list and of the turns.                   *)

CommandType ==
  /\ created \subseteq Tasks
  /\ lastCreate \in Tasks \cup {-1}
  /\ reply \in Seq(Tasks) /\ commands \in Seq(Tasks) /\ cache \in Seq(Tasks)
  /\ Len(commands) + Len(reply) <= MaxCommands
  /\ dispatcher \in [at : {"get", "execute", "put", "cache"}, task : Tasks \cup {NoTask}]
  /\ dispatcher.at # "get" => dispatcher.task \in Tasks
  /\ executed \in [Tasks -> Nat]

ListType ==
  /\ scheduled \subseteq Tasks
  /\ list \in Seq(Tasks) /\ left \in Seq(Tasks)

TurnType ==
  /\ startTimers \subseteq Tasks /\ stopTimers \subseteq Tasks /\ profiling \subseteq Tasks
  /\ current \in Tasks \cup {NoTask}
  /\ notified \in [Tasks -> Nat]
  /\ holder \in [phase : {"free", "begin", "start", "stop", "drain", "fill", "notify"},
                 victim : Tasks \cup {NoTask}, next : Tasks \cup {NoTask}]
  /\ holder.phase = "free" => holder = Free
  /\ holder.phase \in {"begin", "start"} => holder.next \in Tasks /\ holder.victim = NoTask
  /\ holder.phase \in {"stop", "drain", "fill", "notify"} => holder.victim \in Tasks

Types == CommandType /\ ListType /\ TurnType

LEMMA TypesInit == Init => Types
<1> SUFFICES ASSUME Init PROVE Types
  OBVIOUS
<1>1. CommandType
  BY LimitsAssumption DEF Init, CommandType, NoTask
<1>2. ListType
  BY DEF Init, ListType
<1>3. TurnType
  BY DEF Init, TurnType, Free, NoTask
<1> QED
  BY <1>1, <1>2, <1>3 DEF Types

LEMMA QueryTypes == CommandType /\ QueryCommands => CommandType'
<1> SUFFICES ASSUME CommandType, QueryCommands PROVE CommandType'
  OBVIOUS
<1> DEFINE newer == {t \in created : t > lastCreate}
<1>1. /\ reply' \in SetToSeqs(newer) /\ Len(commands) + Cardinality(newer) <= MaxCommands
      /\ UNCHANGED <<created, lastCreate, commands, cache, dispatcher, executed>>
  BY DEF QueryCommands
<1>2. newer \in SUBSET Tasks /\ IsFiniteSet(Tasks)
  BY TasksAssumption DEF CommandType
<1>3. Cardinality(newer) \in Nat
  BY <1>2, FS_Subset, FS_CardinalityType
<1>4. reply' \in [1 .. Cardinality(newer) -> newer]
  BY <1>1 DEF SetToSeqs
<1> HIDE DEF newer
<1>5. reply' \in Seq(Tasks) /\ Len(reply') = Cardinality(newer)
  BY <1>2, <1>3, <1>4
<1> QED
  BY <1>1, <1>5 DEF CommandType

LEMMA ReceiveTypes == CommandType /\ ReceiveCommand => CommandType'
<1> SUFFICES ASSUME CommandType, ReceiveCommand PROVE CommandType'
  OBVIOUS
<1>1. /\ reply \in Seq(Tasks) /\ commands \in Seq(Tasks) /\ reply # <<>>
      /\ Len(commands) + Len(reply) <= MaxCommands
  BY DEF CommandType, ReceiveCommand
<1>2. /\ reply' = Tail(reply) /\ commands' \in {commands, Append(commands, Head(reply))}
      /\ UNCHANGED <<created, lastCreate, cache, dispatcher, executed>>
  BY DEF ReceiveCommand
<1>3. Head(reply) \in Tasks /\ Tail(reply) \in Seq(Tasks) /\ Len(Tail(reply)) = Len(reply) - 1
  BY <1>1
<1>4. Len(Append(commands, Head(reply))) = Len(commands) + 1 /\ Append(commands, Head(reply)) \in Seq(Tasks)
  BY <1>1, <1>3
<1>5. Len(commands) \in Nat /\ Len(reply) \in Nat /\ MaxCommands \in Nat
  BY <1>1, LimitsAssumption
<1>6. Len(commands') \in {Len(commands), Len(commands) + 1} /\ commands' \in Seq(Tasks)
  BY <1>1, <1>2, <1>4
<1>7. Len(commands') + Len(reply') <= MaxCommands
  BY <1>1, <1>2, <1>3, <1>5, <1>6
<1> QED
  BY <1>2, <1>3, <1>6, <1>7 DEF CommandType

LEMMA TakeTypes == CommandType /\ TakeCommand => CommandType'
<1> SUFFICES ASSUME CommandType, TakeCommand PROVE CommandType'
  OBVIOUS
<1>1. /\ reply \in Seq(Tasks) /\ commands \in Seq(Tasks) /\ commands # <<>> /\ dispatcher.at = "get"
      /\ dispatcher \in [at : {"get", "execute", "put", "cache"}, task : Tasks \cup {NoTask}]
      /\ Len(commands) + Len(reply) <= MaxCommands
  BY DEF CommandType, TakeCommand
<1>2. /\ commands' = Tail(commands)
      /\ dispatcher' = dispatcher \/ dispatcher' = [at |-> "execute", task |-> Head(commands)]
      /\ UNCHANGED <<created, lastCreate, reply, cache, executed>>
  BY DEF TakeCommand, At
<1>3. Head(commands) \in Tasks /\ Tail(commands) \in Seq(Tasks) /\ Len(Tail(commands)) = Len(commands) - 1
  BY <1>1
<1>4. Len(commands) \in Nat /\ Len(reply) \in Nat /\ MaxCommands \in Nat
  BY <1>1, LimitsAssumption
<1>5. Len(commands') + Len(reply') <= MaxCommands
  BY <1>1, <1>2, <1>3, <1>4
<1>6. /\ dispatcher' \in [at : {"get", "execute", "put", "cache"}, task : Tasks \cup {NoTask}]
      /\ dispatcher'.at # "get" => dispatcher'.task \in Tasks
  BY <1>1, <1>2, <1>3
<1> QED
  BY <1>2, <1>3, <1>5, <1>6 DEF CommandType

\* What add_profile_task does with the command it has.
LEMMA CheckTaskDoes ==
  ASSUME CommandType, CheckTask
  PROVE  /\ dispatcher.at = "execute" /\ dispatcher.task \in Tasks
         /\ executed' = [executed EXCEPT ![dispatcher.task] = executed[dispatcher.task] + 1]
         /\ dispatcher'.at \in {"put", "cache"} /\ dispatcher'.task = dispatcher.task
         /\ dispatcher' \in [at : {"get", "execute", "put", "cache"}, task : Tasks \cup {NoTask}]
         /\ lastCreate' \in {lastCreate, dispatcher.task}
         /\ UNCHANGED <<created, reply, commands, cache, list, scheduled, taskVars>>
<1>1. dispatcher.at = "execute" /\ dispatcher.task \in Tasks
  BY DEF CheckTask, CommandType
<1>2. /\ executed' = [executed EXCEPT ![dispatcher.task] = executed[dispatcher.task] + 1]
      /\ lastCreate' \in {lastCreate, dispatcher.task}
      /\ UNCHANGED <<created, reply, commands, cache, list, scheduled, taskVars>>
  BY DEF CheckTask
<1>3. \E point \in {"put", "cache"} : dispatcher' = [at |-> point, task |-> dispatcher.task]
  BY Zenon DEF CheckTask, At
<1> QED
  BY <1>1, <1>2, <1>3

LEMMA CommandTypeNext == CommandType /\ [Next]_vars => CommandType'
<1> SUFFICES ASSUME CommandType, [Next]_vars PROVE CommandType'
  OBVIOUS
<1>1. CASE UNCHANGED vars
  BY <1>1 DEF vars, commandVars, CommandType
<1>2. ASSUME NEW t \in Tasks, CreateTask(t) PROVE CommandType'
  BY <1>2 DEF CreateTask, CommandType
<1>3. ASSUME NEW t \in Tasks, StartTimer(t) \/ StopTimer(t) PROVE CommandType'
  BY <1>3 DEF StartTimer, StopTimer, commandVars, CommandType
<1>4. CASE HolderStep
  <2>1. UNCHANGED commandVars
    BY <1>4 DEF HolderStep, BeginTask, StartProfiling, StopProfiling, DrainList, FillList, NotifyFinish
  <2> QED
    BY <2>1 DEF commandVars, CommandType
<1>5. CASE CheckTask
  <2> DEFINE t == dispatcher.task
  <2>1. /\ t \in Tasks /\ executed' = [executed EXCEPT ![t] = executed[t] + 1] /\ dispatcher'.task = t
        /\ dispatcher' \in [at : {"get", "execute", "put", "cache"}, task : Tasks \cup {NoTask}]
        /\ lastCreate' \in {lastCreate, t} /\ UNCHANGED <<created, reply, commands, cache>>
    BY <1>5, CheckTaskDoes
  <2> HIDE DEF t
  <2>2. executed' \in [Tasks -> Nat] /\ lastCreate' \in Tasks \cup {-1}
    BY <2>1 DEF CommandType
  <2> QED
    BY <2>1, <2>2 DEF CommandType
<1>6. CASE PutTask
  BY <1>6 DEF PutTask, At, CommandType
<1>7. CASE CacheCommand
  <2>1. dispatcher.task \in Tasks /\ cache \in Seq(Tasks)
    BY <1>7 DEF CacheCommand, CommandType
  <2>2. Append(cache, dispatcher.task) \in Seq(Tasks) /\ Tail(Append(cache, dispatcher.task)) \in Seq(Tasks)
    BY <2>1
  <2>3. cache' \in Seq(Tasks) /\ dispatcher' = [at |-> "get", task |-> NoTask]
    BY <1>7, <2>2 DEF CacheCommand, At
  <2>4. UNCHANGED <<created, lastCreate, reply, commands, executed>>
    BY <1>7 DEF CacheCommand
  <2> QED
    BY <2>3, <2>4 DEF CommandType
<1> QED
  BY <1>1, <1>2, <1>3, <1>4, <1>5, <1>6, <1>7, QueryTypes, ReceiveTypes, TakeTypes
     DEF Next, QueryStep, DispatchStep

LEMMA ListTypeNext == Types /\ [Next]_vars => ListType'
<1> SUFFICES ASSUME Types, [Next]_vars PROVE ListType'
  OBVIOUS
<1>1. CASE UNCHANGED <<listVars, left>>
  BY <1>1 DEF listVars, Types, ListType
<1>2. CASE CheckTask
  <2>1. UNCHANGED <<list, scheduled, left>>
    BY <1>2, CheckTaskDoes DEF Types, taskVars
  <2> QED
    BY <2>1 DEF Types, ListType
<1>3. CASE PutTask
  <2>1. dispatcher.task \in Tasks
    BY <1>3 DEF PutTask, Types, CommandType
  <2> QED
    BY <1>3, <2>1 DEF PutTask, Types, ListType
<1>4. CASE DrainList
  <2>1. /\ list \in Seq(Tasks) /\ left \in Seq(Tasks)
        /\ list # <<>> => Head(list) \in Tasks /\ Tail(list) \in Seq(Tasks)
    BY DEF Types, ListType
  <2>2. /\ \/ list # <<>> /\ list' = Tail(list) /\ left' \in {left, Append(left, Head(list))}
           \/ UNCHANGED <<left, list>>
        /\ UNCHANGED scheduled
    BY <1>4 DEF DrainList
  <2>3. list # <<>> => Append(left, Head(list)) \in Seq(Tasks)
    BY <2>1
  <2>4. list' \in Seq(Tasks) /\ left' \in Seq(Tasks)
    BY <2>1, <2>2, <2>3
  <2> QED
    BY <2>2, <2>4 DEF Types, ListType
<1>5. CASE FillList
  <2>1. /\ list \in Seq(Tasks) /\ left \in Seq(Tasks)
        /\ left # <<>> => Head(left) \in Tasks /\ Tail(left) \in Seq(Tasks)
    BY DEF Types, ListType
  <2>2. /\ \/ left # <<>> /\ left' = Tail(left) /\ list' = Append(list, Head(left))
           \/ UNCHANGED <<left, list>>
        /\ UNCHANGED scheduled
    BY <1>5 DEF FillList
  <2>3. left # <<>> => Append(list, Head(left)) \in Seq(Tasks)
    BY <2>1
  <2>4. list' \in Seq(Tasks) /\ left' \in Seq(Tasks)
    BY <2>1, <2>2, <2>3
  <2> QED
    BY <2>2, <2>4 DEF Types, ListType
<1>6. CASE UNCHANGED vars
  BY <1>1, <1>6 DEF vars, taskVars
<1>7. CASE QueryStep \/ TakeCommand \/ CacheCommand
  BY <1>1, <1>7 DEF QueryStep, QueryCommands, ReceiveCommand, TakeCommand, CacheCommand, taskVars
<1>8. ASSUME NEW t \in Tasks, CreateTask(t) \/ StartTimer(t) \/ StopTimer(t) PROVE ListType'
  BY <1>1, <1>8 DEF CreateTask, StartTimer, StopTimer, taskVars
<1>9. CASE BeginTask \/ StartProfiling \/ StopProfiling \/ NotifyFinish
  BY <1>1, <1>9 DEF BeginTask, StartProfiling, StopProfiling, NotifyFinish
<1> QED
  BY <1>2, <1>3, <1>4, <1>5, <1>6, <1>7, <1>8, <1>9 DEF Next, DispatchStep, HolderStep

LEMMA TurnTypeNext == Types /\ [Next]_vars => TurnType'
<1> SUFFICES ASSUME Types, [Next]_vars PROVE TurnType'
  OBVIOUS
<1> USE NoTaskIsNone DEF Types, TurnType
<1>1. CASE UNCHANGED <<startTimers, stopTimers, profiling, current, notified, holder>>
  BY <1>1
<1>2. CASE PutTask
  <2>1. dispatcher.task \in Tasks
    BY <1>2 DEF PutTask, CommandType
  <2> QED
    BY <1>2, <2>1 DEF PutTask
<1>3. ASSUME NEW t \in Tasks, StartTimer(t) PROVE TurnType'
  BY <1>3 DEF StartTimer, StopTask, Free
<1>4. ASSUME NEW t \in Tasks, StopTimer(t) PROVE TurnType'
  BY <1>4 DEF StopTimer, StopTask, Free
<1>5. CASE BeginTask
  BY <1>5 DEF BeginTask
<1>6. CASE StartProfiling
  BY <1>6 DEF StartProfiling, Free
<1>7. CASE StopProfiling
  BY <1>7 DEF StopProfiling
<1>8. CASE DrainList \/ FillList
  <2>1. UNCHANGED <<startTimers, stopTimers, profiling, current, notified>>
    BY <1>8 DEF DrainList, FillList
  <2>2. \/ holder' = holder
        \/ holder.phase = "drain" /\ holder' = [holder EXCEPT !.phase = "fill"]
        \/ holder.phase = "fill" /\ holder' = [holder EXCEPT !.phase = "notify"]
    BY <1>8 DEF DrainList, FillList
  <2> QED
    BY <2>1, <2>2
<1>9. CASE NotifyFinish
  <2>1. holder.phase = "notify" /\ holder.victim \in Tasks
    BY <1>9 DEF NotifyFinish
  <2>2. notified' \in [Tasks -> Nat]
    <3> DEFINE v == holder.victim
    <3>1. notified' = [notified EXCEPT ![v] = notified[v] + 1] /\ v \in Tasks /\ notified \in [Tasks -> Nat]
      BY <1>9, <2>1 DEF NotifyFinish
    <3> HIDE DEF v, Types, TurnType
    <3> QED
      BY <3>1
  <2>3. \/ holder' = Free
        \/ holder.next \in Tasks /\ holder' = [phase |-> "begin", victim |-> NoTask, next |-> holder.next]
    BY <1>9 DEF NotifyFinish
  <2>4. UNCHANGED <<startTimers, stopTimers, profiling, current>>
    BY <1>9 DEF NotifyFinish
  <2>5. /\ holder' \in [phase : {"free", "begin", "start", "stop", "drain", "fill", "notify"},
                        victim : Tasks \cup {NoTask}, next : Tasks \cup {NoTask}]
        /\ holder'.phase = "free" => holder' = Free
        /\ holder'.phase \in {"begin", "start"} => holder'.next \in Tasks /\ holder'.victim = NoTask
        /\ holder'.phase \notin {"stop", "drain", "fill", "notify"}
    BY <2>3 DEF Free
  <2> QED
    BY <2>2, <2>4, <2>5
<1>10. CASE UNCHANGED vars \/ QueryStep \/ TakeCommand \/ CheckTask \/ CacheCommand
  BY <1>1, <1>10 DEF vars, QueryStep, QueryCommands, ReceiveCommand, TakeCommand, CheckTask, CacheCommand, taskVars
<1>11. ASSUME NEW t \in Tasks, CreateTask(t) PROVE TurnType'
  BY <1>1, <1>11 DEF CreateTask, taskVars
<1> QED
  BY <1>2, <1>3, <1>4, <1>5, <1>6, <1>7, <1>8, <1>9, <1>10, <1>11 DEF Next, DispatchStep, HolderStep

LEMMA TypesNext == Types /\ [Next]_vars => Types'
  BY CommandTypeNext, ListTypeNext, TurnTypeNext DEF Types

\* Every variable stays in its type.
THEOREM TaskTypes == Spec => []TypeOK
<1>1. Types => TypeOK
  BY DEF Types, CommandType, ListType, TurnType, TypeOK
<1> QED
  BY <1>1, TypesInit, TypesNext, PTL DEF Spec

-----------------------------------------------------------------------------
(* Commands: each is executed once.                                        *)

Done(t) == t \in ToSet(cache) \/ (dispatcher.at \in {"put", "cache"} /\ dispatcher.task = t)

\* What is executed is remembered, for good as the cache is long enough, and has not been
\* scheduled before.
CommandInv ==
  /\ IsInjective(cache)
  /\ \A t \in Tasks : executed[t] = IF Done(t) THEN 1 ELSE 0
  /\ dispatcher.at # "get" => dispatcher.task \notin ToSet(cache)
  /\ \A t \in scheduled : executed[t] = 1
  /\ dispatcher.at \in {"execute", "put"} => dispatcher.task \notin scheduled

LEMMA CommandInvInit == Init => CommandInv
  BY DEF Init, CommandInv, Done, ToSet, IsInjective

LEMMA CacheKeeps ==
  ASSUME Types, CommandInv, CacheCommand
  PROVE  /\ cache' = Append(cache, dispatcher.task)
         /\ IsInjective(cache') /\ ToSet(cache') = ToSet(cache) \cup {dispatcher.task}
<1> DEFINE all == Append(cache, dispatcher.task)
<1>1. /\ cache \in Seq(Tasks) /\ dispatcher.task \in Tasks /\ IsInjective(cache)
      /\ dispatcher.task \notin ToSet(cache)
  BY DEF Types, CommandType, CommandInv, CacheCommand
<1>2. all \in Seq(Tasks) /\ IsInjective(all) /\ ToSet(all) = ToSet(cache) \cup {dispatcher.task}
  BY <1>1, InjectiveAppend, ElementsOfAppend
<1>3. cache' = IF Len(all) > CacheSize THEN Tail(all) ELSE all
  BY DEF CacheCommand
<1> HIDE DEF all
<1>4. Len(all) <= Cardinality(Tasks) /\ Len(all) \in Nat
  BY <1>2, InjectiveLength, TasksAssumption
<1>5. Cardinality(Tasks) \in Nat /\ CacheSize \in Nat /\ Cardinality(Tasks) <= CacheSize
  BY TasksAssumption, LimitsAssumption, FS_CardinalityType
<1>6. ~(Len(all) > CacheSize)
  BY <1>4, <1>5
<1>7. cache' = all
  BY <1>3, <1>6
<1> QED
  BY <1>2, <1>7 DEF all

LEMMA CommandInvNext == Types /\ CommandInv /\ [Next]_vars => CommandInv'
<1> SUFFICES ASSUME Types, CommandInv, [Next]_vars PROVE CommandInv'
  OBVIOUS
<1>1. CASE UNCHANGED <<cache, dispatcher, executed, scheduled>>
  BY <1>1 DEF CommandInv, Done
<1>2. CASE TakeCommand
  <2>1. /\ \/ dispatcher' = dispatcher
           \/ dispatcher' = [at |-> "execute", task |-> Head(commands)] /\ ~Contains(cache, Head(commands))
        /\ dispatcher.at = "get" /\ UNCHANGED <<cache, executed, scheduled>>
        /\ Head(commands) \in Tasks
    BY <1>2 DEF TakeCommand, At, Executed, listVars, Types, CommandType
  <2>2. CASE dispatcher' = dispatcher
    BY <1>1, <2>1, <2>2
  <2>3. CASE dispatcher' = [at |-> "execute", task |-> Head(commands)] /\ ~Contains(cache, Head(commands))
    <3>1. Head(commands) \notin ToSet(cache)
      BY <2>3 DEF Contains, ToSet
    <3>2. \A t \in Tasks : Done(t)' <=> Done(t)
      BY <2>1, <2>3 DEF Done
    <3>3. executed[Head(commands)] = 0
      BY <2>1, <3>1 DEF CommandInv, Done
    <3> QED
      BY <2>1, <2>3, <3>1, <3>2, <3>3 DEF CommandInv
  <2> QED
    BY <2>1, <2>2, <2>3
<1>3. CASE CheckTask
  <2> DEFINE t == dispatcher.task
  <2>1. /\ dispatcher.at = "execute" /\ t \in Tasks /\ executed' = [executed EXCEPT ![t] = executed[t] + 1]
        /\ dispatcher'.at \in {"put", "cache"} /\ dispatcher'.task = t /\ UNCHANGED <<cache, scheduled>>
    BY <1>3, CheckTaskDoes DEF Types
  <2>2. t \notin ToSet(cache) /\ t \notin scheduled /\ executed[t] = 0
    BY <2>1 DEF CommandInv, Done
  <2>3. \A u \in Tasks : executed'[u] = IF u = t THEN 1 ELSE executed[u]
    BY <2>1, <2>2 DEF Types, CommandType
  <2>4. \A u \in Tasks : Done(u)' <=> Done(u) \/ u = t
    BY <2>1 DEF Done
  <2>5. scheduled \subseteq Tasks
    BY DEF Types, ListType
  <2> QED
    BY <2>1, <2>2, <2>3, <2>4, <2>5 DEF CommandInv
<1>4. CASE PutTask
  <2>1. /\ dispatcher.at = "put" /\ scheduled' = scheduled \cup {dispatcher.task}
        /\ dispatcher' = [at |-> "cache", task |-> dispatcher.task] /\ UNCHANGED <<cache, executed>>
    BY <1>4 DEF PutTask, At
  <2>2. dispatcher.task \in Tasks
    BY <2>1 DEF Types, CommandType
  <2>3. \A t \in Tasks : Done(t)' <=> Done(t)
    BY <2>1 DEF Done
  <2>4. executed[dispatcher.task] = 1
    BY <2>1, <2>2 DEF CommandInv, Done
  <2> QED
    BY <2>1, <2>2, <2>3, <2>4 DEF CommandInv
<1>5. CASE CacheCommand
  <2>1. /\ dispatcher.at = "cache" /\ dispatcher' = [at |-> "get", task |-> NoTask]
        /\ UNCHANGED <<executed, scheduled>>
    BY <1>5 DEF CacheCommand, At, listVars
  <2>2. IsInjective(cache') /\ ToSet(cache') = ToSet(cache) \cup {dispatcher.task}
    BY <1>5, CacheKeeps
  <2>3. \A t \in Tasks : Done(t)' <=> Done(t)
    BY <2>1, <2>2 DEF Done
  <2> QED
    BY <2>1, <2>2, <2>3 DEF CommandInv
<1>6. CASE UNCHANGED vars \/ QueryStep
  BY <1>1, <1>6 DEF vars, commandVars, listVars, QueryStep, QueryCommands, ReceiveCommand
<1>7. CASE HolderStep
  BY <1>1, <1>7 DEF HolderStep, BeginTask, StartProfiling, StopProfiling, DrainList, FillList, NotifyFinish,
     commandVars, listVars
<1>8. ASSUME NEW t \in Tasks, CreateTask(t) \/ StartTimer(t) \/ StopTimer(t) PROVE CommandInv'
  BY <1>1, <1>8 DEF CreateTask, StartTimer, StopTimer, commandVars, listVars
<1> QED
  BY <1>2, <1>3, <1>4, <1>5, <1>6, <1>7, <1>8 DEF Next, DispatchStep

\* No command is executed twice, although it is sent with every query until it has been executed,
\* for any number of tasks that the cache can remember.
THEOREM TasksExecutedOnce == Spec => []ExecutedOnce
<1>1. CommandInv => ExecutedOnce
  BY DEF CommandInv, ExecutedOnce
<1> QED
  BY <1>1, TypesInit, TypesNext, CommandInvInit, CommandInvNext, PTL DEF Spec

-----------------------------------------------------------------------------
(* Turns: each task has one, and one task has the turn.                    *)

HolderInv ==
  /\ holder.phase = "free" => profiling = {current} \ {NoTask}
  /\ holder.phase \notin {"free", "stop"} => profiling = {}
  /\ holder.phase = "stop" => profiling = {holder.victim}
  /\ holder.phase = "start" => current = holder.next
  /\ holder.phase \notin {"free", "start"} => current = NoTask

\* The tasks that have been started and whose end has not been notified, or that are about to start.
Busy == {current, holder.victim, holder.next} \ {NoTask}

OnceInv ==
  /\ \A t \in startTimers \cup Busy : t \in scheduled /\ notified[t] = 0
  /\ startTimers \cap Busy = {}
  /\ holder.next # NoTask => holder.next # holder.victim
  /\ \A t \in Tasks : notified[t] = 0 \/ (notified[t] = 1 /\ t \in scheduled)

TurnInv == HolderInv /\ OnceInv

LEMMA TurnInvInit == Init => TurnInv
  BY DEF Init, TurnInv, HolderInv, OnceInv, Busy, Free

LEMMA TurnInvNext == Types /\ CommandInv /\ TurnInv /\ [Next]_vars => TurnInv'
<1> SUFFICES ASSUME Types, CommandInv, TurnInv, [Next]_vars PROVE TurnInv'
  OBVIOUS
<1>0. TurnType /\ scheduled \subseteq Tasks
  BY DEF Types, ListType
<1> USE NoTaskIsNone DEF TurnInv, HolderInv, OnceInv, Busy
<1>1. CASE UNCHANGED <<scheduled, startTimers, profiling, current, notified, holder>>
  BY <1>1
<1>2. CASE PutTask
  <2> DEFINE t == dispatcher.task
  <2>1. /\ t \in Tasks \ scheduled /\ scheduled' = scheduled \cup {t} /\ startTimers' = startTimers \cup {t}
        /\ UNCHANGED <<profiling, current, notified, holder>>
    BY <1>2 DEF PutTask, CommandInv, Types, CommandType
  <2> HIDE DEF t
  <2>2. notified[t] = 0 /\ t \notin Busy
    BY <2>1
  <2> QED
    BY <1>0, <2>1, <2>2
<1>3. ASSUME NEW t \in Tasks, StartTimer(t) PROVE TurnInv'
  BY <1>0, <1>3 DEF StartTimer, StopTask, Free, TurnType, listVars
<1>4. ASSUME NEW t \in Tasks, StopTimer(t) PROVE TurnInv'
  BY <1>0, <1>4 DEF StopTimer, StopTask, Free, TurnType, listVars
<1>5. CASE BeginTask
  BY <1>0, <1>5 DEF BeginTask, TurnType, listVars
<1>6. CASE StartProfiling
  BY <1>0, <1>6 DEF StartProfiling, Free, TurnType, listVars
<1>7. CASE StopProfiling
  BY <1>0, <1>7 DEF StopProfiling, TurnType, listVars
<1>8. CASE DrainList \/ FillList
  <2>1. UNCHANGED <<scheduled, startTimers, profiling, current, notified>>
    BY <1>8 DEF DrainList, FillList
  <2>2. \/ holder' = holder
        \/ holder.phase = "drain" /\ holder' = [holder EXCEPT !.phase = "fill"]
        \/ holder.phase = "fill" /\ holder' = [holder EXCEPT !.phase = "notify"]
    BY <1>8 DEF DrainList, FillList
  <2> QED
    BY <1>0, <2>1, <2>2 DEF TurnType
<1>9. CASE NotifyFinish
  <2> DEFINE v == holder.victim
  <2>1. /\ holder.phase = "notify" /\ v \in Tasks /\ notified \in [Tasks -> Nat]
        /\ notified' = [notified EXCEPT ![v] = notified[v] + 1]
        /\ UNCHANGED <<scheduled, startTimers, profiling, current>>
    BY <1>0, <1>9 DEF NotifyFinish, TurnType, listVars
  <2>2. \/ holder' = Free /\ holder.next = NoTask
        \/ holder.next \in Tasks /\ holder' = [phase |-> "begin", victim |-> NoTask, next |-> holder.next]
    BY <1>0, <1>9 DEF NotifyFinish, TurnType
  <2>3. v \in Busy /\ v \in scheduled /\ notified[v] = 0 /\ v \notin startTimers /\ v # holder.next
    BY <2>1
  <2>4. \A t \in Tasks : notified'[t] = IF t = v THEN 1 ELSE notified[t]
    BY <2>1, <2>3
  <2> HIDE DEF v
  <2>5. Busy' = {holder.next} \ {NoTask} /\ holder'.phase \in {"free", "begin"} /\ current = NoTask /\ profiling = {}
    BY <2>1, <2>2 DEF Free
  <2>6. HolderInv'
    BY <2>1, <2>2, <2>5 DEF Free
  <2>7. OnceInv'
    BY <1>0, <2>1, <2>2, <2>3, <2>4, <2>5 DEF Free
  <2> QED
    BY <2>6, <2>7
<1>10. CASE UNCHANGED vars \/ QueryStep \/ TakeCommand \/ CheckTask \/ CacheCommand
  BY <1>1, <1>10 DEF vars, QueryStep, QueryCommands, ReceiveCommand, TakeCommand, CheckTask, CacheCommand,
     taskVars, listVars
<1>11. ASSUME NEW t \in Tasks, CreateTask(t) PROVE TurnInv'
  BY <1>1, <1>11 DEF CreateTask, taskVars, listVars
<1> QED
  BY <1>2, <1>3, <1>4, <1>5, <1>6, <1>7, <1>8, <1>9, <1>10, <1>11 DEF Next, DispatchStep, HolderStep

Inv == Types /\ CommandInv /\ TurnInv

LEMMA InvAlways == Spec => []Inv
  BY TypesInit, TypesNext, CommandInvInit, CommandInvNext, TurnInvInit, TurnInvNext, PTL DEF Spec, Inv

\* At most one task profiles, and outside of the lock it is the one that new traces find, for any
\* number of tasks whose timers fire in any order.
THEOREM OneProfiles == Spec => []OneTaskProfiles
<1>1. Inv => OneTaskProfiles
  BY DEF Inv, TurnInv, HolderInv, OneTaskProfiles, Free
<1> QED
  BY <1>1, InvAlways, PTL

\* The end of each task is notified at most once, and not before it has been stopped.
THEOREM EndNotifiedOnce == Spec => []NotifiedOnce
<1>1. Inv => NotifiedOnce
  <2> SUFFICES ASSUME Inv, NEW t \in Tasks, notified[t] # 0
               PROVE  notified[t] = 1 /\ t \in scheduled /\ t \notin profiling
    BY DEF Inv, Types, TurnType, NotifiedOnce
  <2>1. profiling \subseteq Busy
    BY NoTaskIsNone DEF Inv, Types, TurnType, TurnInv, HolderInv, Busy, Free
  <2> QED
    BY <2>1 DEF Inv, TurnInv, OnceInv
<1> QED
  BY <1>1, InvAlways, PTL

\* A task loses its turn by its own timer or to another task, never by a timer left behind.
THEOREM TasksStoppedByRight == Spec => StoppedByRight
<1> DEFINE Right == current # NoTask /\ current' # current =>
                      current \in stopTimers \ stopTimers' \/ \E u \in startTimers \ startTimers' : u # current
<1>1. Inv /\ [Next]_vars => [Right]_vars
  <2> SUFFICES ASSUME Inv, Next, current # NoTask, current' # current PROVE Right
    OBVIOUS
  <2>1. current \notin startTimers
    BY DEF Inv, TurnInv, OnceInv, Busy
  <2>2. ASSUME NEW t \in Tasks, StartTimer(t) PROVE Right
    BY <2>1, <2>2 DEF StartTimer
  <2>3. ASSUME NEW t \in Tasks, StopTimer(t) PROVE Right
    BY <2>3 DEF StopTimer
  <2>4. CASE BeginTask
    BY <2>4 DEF BeginTask, Inv, TurnInv, HolderInv
  <2>5. ASSUME NEW t \in Tasks, CreateTask(t) PROVE Right
    BY <2>5 DEF CreateTask, taskVars
  <2>6. CASE QueryStep \/ DispatchStep
    BY <2>6 DEF QueryStep, QueryCommands, ReceiveCommand, DispatchStep, TakeCommand, CheckTask, PutTask,
       CacheCommand, taskVars
  <2>7. CASE StartProfiling \/ StopProfiling \/ DrainList \/ FillList \/ NotifyFinish
    BY <2>7 DEF StartProfiling, StopProfiling, DrainList, FillList, NotifyFinish
  <2> QED
    BY <2>2, <2>3, <2>4, <2>5, <2>6, <2>7 DEF Next, HolderStep
<1> QED
  BY <1>1, InvAlways, PTL DEF Spec, StoppedByRight

-----------------------------------------------------------------------------
(* The list, while it is taken apart and put together again.               *)

Todo  == {t \in scheduled : notified[t] = 0}
There == ToSet(list) \cup ToSet(left)

ListInv ==
  /\ IsInjective(list) /\ IsInjective(left) /\ ToSet(list) \cap ToSet(left) = {}
  /\ holder.phase \notin {"drain", "fill"} => left = <<>>
  /\ holder.phase \in {"drain", "fill", "notify"} => holder.victim \notin ToSet(left)
  /\ holder.phase \in {"fill", "notify"} => holder.victim \notin ToSet(list)
  /\ Todo \ {holder.victim} \subseteq There /\ There \subseteq Todo

LEMMA NothingIsInjective == IsInjective(<<>>) /\ ToSet(<<>>) = {}
  BY DEF IsInjective, ToSet

LEMMA ListInvInit == Init => ListInv
  BY NothingIsInjective DEF Init, ListInv, Todo, There, Free

\* An item goes from the head of one queue to the end of the other.
LEMMA ItemMoves ==
  ASSUME NEW a \in Seq(Tasks), NEW b \in Seq(Tasks), a # <<>>,
         IsInjective(a), IsInjective(b), ToSet(a) \cap ToSet(b) = {}
  PROVE  /\ IsInjective(Tail(a)) /\ IsInjective(Append(b, Head(a)))
         /\ ToSet(Tail(a)) \cap ToSet(Append(b, Head(a))) = {}
         /\ ToSet(Tail(a)) \cup ToSet(Append(b, Head(a))) = ToSet(a) \cup ToSet(b)
         /\ ToSet(a) = {Head(a)} \cup ToSet(Tail(a)) /\ Head(a) \notin ToSet(Tail(a))
         /\ ToSet(Append(b, Head(a))) = ToSet(b) \cup {Head(a)}
<1>1. Head(a) \in Tasks /\ Tail(a) \in Seq(Tasks)
  BY HeadTailProperties
<1>2. IsInjective(Tail(a)) /\ Head(a) \notin ToSet(Tail(a)) /\ ToSet(a) = {Head(a)} \cup ToSet(Tail(a))
  BY InjectiveTail, ElementsOfTail
<1>3. Head(a) \notin ToSet(b)
  BY <1>2
<1>4. IsInjective(Append(b, Head(a))) /\ ToSet(Append(b, Head(a))) = ToSet(b) \cup {Head(a)}
  BY <1>1, <1>3, InjectiveAppend, ElementsOfAppend
<1> QED
  BY <1>2, <1>3, <1>4

LEMMA DrainKeeps == Inv /\ ListInv /\ DrainList => ListInv'
<1> SUFFICES ASSUME Inv, ListInv, DrainList PROVE ListInv'
  OBVIOUS
<1>1. /\ holder.phase = "drain" /\ list \in Seq(Tasks) /\ left \in Seq(Tasks)
      /\ Todo' = Todo /\ holder.victim \in Tasks
      /\ holder \in [phase : {"free", "begin", "start", "stop", "drain", "fill", "notify"},
                     victim : Tasks \cup {NoTask}, next : Tasks \cup {NoTask}]
  BY DEF DrainList, Inv, Types, ListType, TurnType, Todo
<1> DEFINE v == holder.victim
           m == Head(list)
<1>2. CASE list = <<>>
  <2>1. /\ holder' = [holder EXCEPT !.phase = "fill"] /\ left' = left /\ list' = list
    BY <1>2 DEF DrainList
  <2>2. holder'.victim = v /\ holder'.phase = "fill"
    BY <1>1, <2>1
  <2> QED
    BY <1>1, <1>2, <2>1, <2>2, NothingIsInjective DEF ListInv, There
<1>3. CASE list # <<>> /\ m = v
  <2>1. holder' = holder /\ left' = left /\ list' = Tail(list)
    BY <1>3 DEF DrainList
  <2>2. IsInjective(Tail(list)) /\ ToSet(list) = {m} \cup ToSet(Tail(list))
    BY <1>1, <1>3, ItemMoves DEF ListInv
  <2> QED
    BY <1>1, <1>3, <2>1, <2>2 DEF ListInv, There
<1>4. CASE list # <<>> /\ m # v
  <2>1. holder' = holder /\ left' = Append(left, m) /\ list' = Tail(list)
    BY <1>4 DEF DrainList
  <2>2. /\ IsInjective(Tail(list)) /\ IsInjective(Append(left, m))
        /\ ToSet(Tail(list)) \cap ToSet(Append(left, m)) = {}
        /\ ToSet(Tail(list)) \cup ToSet(Append(left, m)) = ToSet(list) \cup ToSet(left)
        /\ ToSet(Append(left, m)) = ToSet(left) \cup {m}
    BY <1>1, <1>4, ItemMoves DEF ListInv
  <2> QED
    BY <1>1, <1>4, <2>1, <2>2 DEF ListInv, There
<1> QED
  BY <1>2, <1>3, <1>4

LEMMA FillKeeps == Inv /\ ListInv /\ FillList => ListInv'
<1> SUFFICES ASSUME Inv, ListInv, FillList PROVE ListInv'
  OBVIOUS
<1>1. /\ holder.phase = "fill" /\ list \in Seq(Tasks) /\ left \in Seq(Tasks)
      /\ Todo' = Todo
      /\ holder \in [phase : {"free", "begin", "start", "stop", "drain", "fill", "notify"},
                     victim : Tasks \cup {NoTask}, next : Tasks \cup {NoTask}]
  BY DEF FillList, Inv, Types, ListType, TurnType, Todo
<1> DEFINE v == holder.victim
           m == Head(left)
<1>2. CASE left = <<>>
  <2>1. holder' = [holder EXCEPT !.phase = "notify"] /\ left' = left /\ list' = list
    BY <1>2 DEF FillList
  <2>2. holder'.victim = v /\ holder'.phase = "notify"
    BY <1>1, <2>1
  <2> QED
    BY <1>1, <1>2, <2>1, <2>2 DEF ListInv, There
<1>3. CASE left # <<>>
  <2>1. holder' = holder /\ list' = Append(list, m) /\ left' = Tail(left)
    BY <1>3 DEF FillList
  <2>2. /\ IsInjective(Tail(left)) /\ IsInjective(Append(list, m))
        /\ ToSet(Tail(left)) \cap ToSet(Append(list, m)) = {}
        /\ ToSet(Tail(left)) \cup ToSet(Append(list, m)) = ToSet(left) \cup ToSet(list)
        /\ ToSet(left) = {m} \cup ToSet(Tail(left))
        /\ ToSet(Append(list, m)) = ToSet(list) \cup {m}
    BY <1>1, <1>3, ItemMoves DEF ListInv
  <2>3. v \notin ToSet(left) /\ v \notin ToSet(list)
    BY <1>1 DEF ListInv
  <2> QED
    BY <1>1, <2>1, <2>2, <2>3 DEF ListInv, There
<1> QED
  BY <1>2, <1>3

LEMMA ListInvNext == Inv /\ ListInv /\ [Next]_vars => ListInv'
<1> SUFFICES ASSUME Inv, ListInv, [Next]_vars PROVE ListInv'
  OBVIOUS
<1>0. TurnType /\ TurnInv
  BY DEF Inv, Types
<1>1. ASSUME UNCHANGED <<list, left, scheduled, notified>>,
             holder'.phase \notin {"drain", "fill", "notify"}, left = <<>>,
             holder'.victim = holder.victim \/ Todo \subseteq There
      PROVE  ListInv'
  BY <1>1 DEF ListInv, Todo, There
<1>2. CASE UNCHANGED <<list, left, scheduled, notified, holder>>
  BY <1>2 DEF ListInv, Todo, There
<1>3. CASE PutTask
  <2> DEFINE t == dispatcher.task
  <2>1. /\ t \in Tasks \ scheduled /\ scheduled' = scheduled \cup {t} /\ list' = Append(list, t)
        /\ UNCHANGED <<left, notified, holder>>
    BY <1>3 DEF PutTask, Inv, Types, CommandType, CommandInv
  <2> HIDE DEF t
  <2>2. notified[t] = 0 /\ Todo' = Todo \cup {t}
    BY <1>0, <2>1 DEF TurnInv, OnceInv, Todo
  <2>3. t \notin There /\ There \subseteq scheduled
    BY <2>1 DEF ListInv, Todo
  <2>4. IsInjective(list') /\ ToSet(list') = ToSet(list) \cup {t}
    BY <2>1, <2>3, InjectiveAppend, ElementsOfAppend DEF There, ListInv, Inv, Types, ListType
  <2>5. t # holder.victim
    BY <1>0, <2>1, NoTaskIsNone DEF TurnInv, OnceInv, Busy
  <2> QED
    BY <2>1, <2>2, <2>3, <2>4, <2>5 DEF ListInv, There
<1>4. CASE NotifyFinish
  <2> DEFINE v == holder.victim
  <2>1. /\ holder.phase = "notify" /\ v \in Tasks /\ UNCHANGED <<list, left, scheduled>>
        /\ notified' = [notified EXCEPT ![v] = notified[v] + 1] /\ notified \in [Tasks -> Nat]
    BY <1>0, <1>4 DEF NotifyFinish, TurnType, listVars
  <2>2. holder'.phase \in {"free", "begin"} /\ holder'.victim = NoTask
    BY <1>4 DEF NotifyFinish, Free
  <2> HIDE DEF v
  <2>3. Todo' = Todo \ {v}
    BY <2>1 DEF Todo, Inv, Types, ListType
  <2>4. left = <<>> /\ v \notin There
    BY <2>1, NothingIsInjective DEF ListInv, There, v
  <2> QED
    BY <2>1, <2>2, <2>3, <2>4, NoTaskIsNone DEF ListInv, There, v
<1>5. CASE StopProfiling
  <2>1. /\ holder.phase = "stop" /\ holder' = [holder EXCEPT !.phase = "drain"]
        /\ UNCHANGED <<list, left, scheduled, notified>>
    BY <1>5 DEF StopProfiling, listVars
  <2>2. holder'.victim = holder.victim /\ holder'.phase = "drain" /\ left = <<>>
    BY <1>0, <2>1 DEF TurnType, ListInv
  <2> QED
    BY <2>1, <2>2, NothingIsInjective DEF ListInv, Todo, There
<1>6. ASSUME holder.phase \in {"free", "begin", "start"} PROVE left = <<>> /\ Todo \subseteq There
  <2>1. holder.victim = NoTask
    BY <1>0, <1>6 DEF TurnType, Free
  <2>2. NoTask \notin Todo
    BY NoTaskIsNone DEF Todo, Inv, Types, ListType
  <2>3. holder.phase \notin {"drain", "fill"} /\ Todo \ {holder.victim} \subseteq There
    BY <1>6 DEF ListInv
  <2> QED
    BY <2>1, <2>2, <2>3 DEF ListInv
<1>7. CASE BeginTask \/ StartProfiling
  <2>1. UNCHANGED <<list, left, scheduled, notified>> /\ holder.phase \in {"begin", "start"}
    BY <1>7 DEF BeginTask, StartProfiling, listVars
  <2>2. holder'.phase \in {"free", "start"}
    BY <1>0, <1>7 DEF BeginTask, StartProfiling, Free, TurnType
  <2> QED
    BY <1>1, <1>6, <2>1, <2>2
<1>8. ASSUME NEW t \in Tasks, StartTimer(t) \/ StopTimer(t) PROVE ListInv'
  <2>1. UNCHANGED <<list, left, scheduled, notified>> /\ holder.phase = "free"
    BY <1>8 DEF StartTimer, StopTimer, listVars, Free
  <2>2. holder'.phase \in {"free", "begin", "stop"}
    BY <1>8, <2>1 DEF StartTimer, StopTimer, StopTask
  <2> QED
    BY <1>1, <1>6, <2>1, <2>2
<1>9. CASE UNCHANGED vars \/ QueryStep \/ TakeCommand \/ CheckTask \/ CacheCommand
  BY <1>2, <1>9 DEF vars, QueryStep, QueryCommands, ReceiveCommand, TakeCommand, CheckTask, CacheCommand,
     taskVars, listVars
<1>10. ASSUME NEW t \in Tasks, CreateTask(t) PROVE ListInv'
  BY <1>2, <1>10 DEF CreateTask, taskVars, listVars
<1> QED
  BY <1>3, <1>4, <1>5, <1>7, <1>8, <1>9, <1>10, DrainKeeps, FillKeeps DEF Next, DispatchStep, HolderStep

\* No task on the list is lost or doubled while remove_from_profile_task_list takes the list apart
\* and the dispatch thread puts new tasks on it.
THEOREM ListStaysComplete == Spec => []ListComplete
<1>1. Inv /\ ListInv => ListComplete
  <2> SUFFICES ASSUME Inv, ListInv PROVE ListComplete
    OBVIOUS
  <2>1. IsInjective(list \o left)
    BY InjectiveConcat DEF Inv, Types, ListType, ListInv
  <2> QED
    BY <2>1 DEF ListInv, ListComplete, Todo, There
<1>2. Inv /\ [Next]_vars /\ ListInv => ListInv'
  BY ListInvNext
<1> QED
  BY <1>1, <1>2, InvAlways, ListInvInit, PTL DEF Spec
================================================================================
