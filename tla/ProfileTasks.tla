----------------------------- MODULE ProfileTasks -----------------------------
(***************************************************************************)
(* How a profile task reaches the agent and is carried out                 *)
(* (skywalking/command, skywalking/profile/profile_service.py): the query  *)
(* thread asks the collector for commands, the dispatch thread executes    *)
(* each of them once and puts its task on a list, and timers start and     *)
(* stop the tasks, at most one at a time.                                  *)
(*                                                                         *)
(* Tasks are numbered by their creation time.  A timer may fire at any     *)
(* time once it is set: how late a timer thread runs is not known.         *)
(***************************************************************************)
EXTENDS Integers, Sequences, FiniteSets, SequencesExt

CONSTANTS Tasks,      \* the tasks of this service, one command each
          Start,      \* task.start_time
          Finish,     \* _cal_profile_task_finish_time(task)
          Valid,      \* the tasks whose attributes are within the ProfileConstants
          CacheSize,  \* CommandSerialNumberCache.maxlen (64 in the code)
          MaxCommands \* a bound on the commands received and not dispatched

ASSUME TasksAssumption  == Tasks \subseteq Nat \ {0} /\ IsFiniteSet(Tasks) /\ Valid \subseteq Tasks
ASSUME TimesAssumption  == Start \in [Tasks -> Nat] /\ Finish \in [Tasks -> Nat]
\* A serial number is not forgotten while its command may still be queued.
ASSUME LimitsAssumption == CacheSize \in Nat /\ Cardinality(Tasks) <= CacheSize /\ MaxCommands \in Nat

NoTask == 0

VARIABLES
  created,     \* the tasks the collector has
  lastCreate,  \* _last_command_create_time
  reply,       \* what receive_command has still to look at
  commands,    \* CommandService._commands
  cache,       \* the serial numbers executed, the oldest first
  dispatcher,  \* where the dispatch thread stands, and with which command
  executed,    \* how often each command was executed
  list,        \* _profile_task_list
  scheduled,   \* the tasks that were put on the list
  startTimers, \* timers set for process_profile_task
  stopTimers,  \* timers set for stop_current_profile_task
  current,     \* task_execution_context
  profiling,   \* the tasks whose profile thread has not been told to stop
  holder,      \* what the holder of _rlock is doing
  left,        \* item_left of remove_from_profile_task_list
  notified     \* how often the end of each task was notified

commandVars == <<created, lastCreate, reply, commands, cache, dispatcher, executed>>
listVars    == <<list, scheduled>>
taskVars    == <<startTimers, stopTimers, current, profiling, holder, left, notified>>
vars        == <<commandVars, listVars, taskVars>>

\* No one holds the lock; otherwise victim is the task being stopped and next the one to start.
Free == [phase |-> "free", victim |-> NoTask, next |-> NoTask]

Init ==
  /\ created = {}
  /\ lastCreate = -1
  /\ reply = <<>>
  /\ commands = <<>>
  /\ cache = <<>>
  /\ dispatcher = [at |-> "get", task |-> NoTask]
  /\ executed = [t \in Tasks |-> 0]
  /\ list = <<>>
  /\ scheduled = {}
  /\ startTimers = {}
  /\ stopTimers = {}
  /\ current = NoTask
  /\ profiling = {}
  /\ holder = Free
  /\ left = <<>>
  /\ notified = [t \in Tasks |-> 0]

-----------------------------------------------------------------------------
(* The collector and the query thread.                                     *)

\* A task is created, later than those before it.
CreateTask(t) ==
  /\ t \notin created /\ \A u \in created : u < t
  /\ created' = created \cup {t}
  /\ UNCHANGED <<lastCreate, reply, commands, cache, dispatcher, executed, listVars, taskVars>>

\* do_query: the commands created after the last one executed, the oldest first.
QueryCommands ==
  /\ reply = <<>>
  /\ LET newer == {t \in created : t > lastCreate}
     IN  /\ Len(commands) + Cardinality(newer) <= MaxCommands
         /\ reply' \in {seq \in SetToSeqs(newer) :
                         \A m, n \in DOMAIN seq : m < n => seq[m] < seq[n]}
  /\ UNCHANGED <<created, lastCreate, commands, cache, dispatcher, executed, listVars, taskVars>>

Executed(t) == Contains(cache, t)

\* Mutant: a command counts as executed from the time it is received.
ReceiveCommandCaches ==
  /\ reply # <<>>
  /\ IF Executed(Head(reply))
       THEN UNCHANGED <<commands, cache>>
       ELSE /\ commands' = Append(commands, Head(reply))
            /\ cache' = Append(cache, Head(reply))
  /\ reply' = Tail(reply)
  /\ UNCHANGED <<created, lastCreate, dispatcher, executed, listVars, taskVars>>

\* receive_command: a command that was executed is ignored, the others are queued.
ReceiveCommand ==
  /\ reply # <<>>
  /\ commands' = IF Executed(Head(reply)) THEN commands ELSE Append(commands, Head(reply))
  /\ reply' = Tail(reply)
  /\ UNCHANGED <<created, lastCreate, cache, dispatcher, executed, listVars, taskVars>>

-----------------------------------------------------------------------------
(* The dispatch thread.                                                    *)

At(point, t) == dispatcher' = [at |-> point, task |-> t]

\* Mutant: what was queued is not looked up again.
TakeCommandUnseen ==
  /\ dispatcher.at = "get" /\ commands # <<>>
  /\ At("execute", Head(commands))
  /\ commands' = Tail(commands)
  /\ UNCHANGED <<created, lastCreate, reply, cache, executed, listVars, taskVars>>

\* The next command is taken, and skipped if it was executed since it was received.
TakeCommand ==
  /\ dispatcher.at = "get" /\ commands # <<>>
  /\ IF Executed(Head(commands)) THEN UNCHANGED dispatcher ELSE At("execute", Head(commands))
  /\ commands' = Tail(commands)
  /\ UNCHANGED <<created, lastCreate, reply, cache, executed, listVars, taskVars>>

\* if task.start_time <= task_finish_time <= self._cal_profile_task_finish_time(profile_task)
Conflict(t, u) == Start[t] <= Finish[t] /\ Finish[t] <= Finish[u]

\* Mutant: the creation time falls one behind, and the command is not remembered.
CheckTaskForgets ==
  LET t    == dispatcher.task
      with == {u \in ToSet(list) : Conflict(t, u)}
  IN  /\ dispatcher.at = "execute"
      /\ lastCreate' = t - 1
      /\ executed' = [executed EXCEPT ![t] = @ + 1]
      /\ At(IF t \in Valid /\ with = {} THEN "put" ELSE "get", t)
      /\ UNCHANGED <<created, reply, commands, cache, list, scheduled, taskVars>>

\* add_profile_task: the creation time is noted whatever becomes of the task; the attributes are
\* checked first, then the time against the tasks on the list.
CheckTask ==
  LET t    == dispatcher.task
      with == {u \in ToSet(list) : Conflict(t, u)}
  IN  /\ dispatcher.at = "execute"
      /\ lastCreate' = IF t > lastCreate THEN t ELSE lastCreate
      /\ executed' = [executed EXCEPT ![t] = @ + 1]
      /\ At(IF t \in Valid /\ with = {} THEN "put" ELSE "cache", t)
      /\ UNCHANGED <<created, reply, commands, cache, list, scheduled, taskVars>>

\* The task is put on the list and a timer is set for its start.
PutTask ==
  LET t == dispatcher.task
  IN  /\ dispatcher.at = "put"
      /\ list' = Append(list, t)
      /\ scheduled' = scheduled \cup {t}
      /\ startTimers' = startTimers \cup {t}
      /\ At("cache", t)
      /\ UNCHANGED <<created, lastCreate, reply, commands, cache, executed,
                     stopTimers, current, profiling, holder, left, notified>>

\* deque(maxlen=...).append
CacheCommand ==
  /\ dispatcher.at = "cache"
  /\ LET all == Append(cache, dispatcher.task)
     IN  cache' = IF Len(all) > CacheSize THEN Tail(all) ELSE all
  /\ At("get", NoTask)
  /\ UNCHANGED <<created, lastCreate, reply, commands, executed, listVars, taskVars>>

-----------------------------------------------------------------------------
(* The timers.  process_profile_task and stop_current_profile_task hold _rlock. *)

\* compare_and_set(need_stop, None) of stop_current_profile_task has found the task current.
StopTask(t, next) ==
  /\ current' = NoTask
  /\ holder' = [phase |-> "stop", victim |-> t, next |-> next]

\* Mutant: the task before is replaced without being stopped.
StartTimerOverrides(t) ==
  /\ t \in startTimers /\ holder = Free
  /\ startTimers' = startTimers \ {t}
  /\ holder' = [phase |-> "begin", victim |-> NoTask, next |-> t]
  /\ UNCHANGED <<current, profiling, commandVars, listVars, stopTimers, left, notified>>

\* process_profile_task stops the task before, if there is one.
StartTimer(t) ==
  /\ t \in startTimers /\ holder = Free
  /\ startTimers' = startTimers \ {t}
  /\ IF current = NoTask
       THEN /\ holder' = [phase |-> "begin", victim |-> NoTask, next |-> t]
            /\ UNCHANGED current
       ELSE StopTask(current, t)
  /\ UNCHANGED <<commandVars, listVars, stopTimers, profiling, left, notified>>

\* ... and makes its own the current one,
BeginTask ==
  /\ holder.phase = "begin"
  /\ current' = holder.next
  /\ holder' = [holder EXCEPT !.phase = "start"]
  /\ UNCHANGED <<commandVars, listVars, startTimers, stopTimers, profiling, left, notified>>

\* starts its thread and sets the timer for its end.
StartProfiling ==
  /\ holder.phase = "start"
  /\ profiling' = profiling \cup {holder.next}
  /\ stopTimers' = stopTimers \cup {holder.next}
  /\ holder' = Free
  /\ UNCHANGED <<commandVars, listVars, startTimers, current, left, notified>>

\* Mutant: the timer stops whatever is current.
StopTimerAny(t) ==
  /\ t \in stopTimers /\ holder = Free
  /\ stopTimers' = stopTimers \ {t}
  /\ IF current # NoTask THEN StopTask(current, NoTask) ELSE UNCHANGED <<current, holder>>
  /\ UNCHANGED <<commandVars, listVars, startTimers, profiling, left, notified>>

\* Mutant: the task is stopped whether or not it was replaced before.
StopTimerAlways(t) ==
  /\ t \in stopTimers /\ holder = Free
  /\ stopTimers' = stopTimers \ {t}
  /\ StopTask(t, NoTask)
  /\ UNCHANGED <<commandVars, listVars, startTimers, profiling, left, notified>>

\* The timer of a task that another one has replaced finds nothing to stop.
StopTimer(t) ==
  /\ t \in stopTimers /\ holder = Free
  /\ stopTimers' = stopTimers \ {t}
  /\ IF current = t THEN StopTask(t, NoTask) ELSE UNCHANGED <<current, holder>>
  /\ UNCHANGED <<commandVars, listVars, startTimers, profiling, left, notified>>

\* stop_profiling, once the task is no longer the current one.
StopProfiling ==
  /\ holder.phase = "stop"
  /\ profiling' = profiling \ {holder.victim}
  /\ holder' = [holder EXCEPT !.phase = "drain"]
  /\ UNCHANGED <<commandVars, listVars, startTimers, stopTimers, current, left, notified>>

\* Mutant: the loop ends with the task that is removed.
DrainListStops ==
  /\ holder.phase = "drain"
  /\ IF list # <<>> /\ Head(list) # holder.victim
       THEN /\ left' = Append(left, Head(list))
            /\ list' = Tail(list)
            /\ UNCHANGED holder
       ELSE /\ list' = <<>>
            /\ holder' = [holder EXCEPT !.phase = "fill"]
            /\ UNCHANGED left
  /\ UNCHANGED <<commandVars, scheduled, startTimers, stopTimers, current, profiling, notified>>

\* remove_from_profile_task_list empties the list item by item: while self._profile_task_list ...
DrainList ==
  /\ holder.phase = "drain"
  /\ IF list # <<>>
       THEN /\ left' = IF Head(list) = holder.victim THEN left ELSE Append(left, Head(list))
            /\ list' = Tail(list)
            /\ UNCHANGED holder
       ELSE /\ holder' = [holder EXCEPT !.phase = "fill"]
            /\ UNCHANGED <<left, list>>
  /\ UNCHANGED <<commandVars, scheduled, startTimers, stopTimers, current, profiling, notified>>

\* ... and puts back what is left.
FillList ==
  /\ holder.phase = "fill"
  /\ IF left # <<>>
       THEN /\ list' = Append(list, Head(left))
            /\ left' = Tail(left)
            /\ UNCHANGED holder
       ELSE /\ holder' = [holder EXCEPT !.phase = "notify"]
            /\ UNCHANGED <<left, list>>
  /\ UNCHANGED <<commandVars, scheduled, startTimers, stopTimers, current, profiling, notified>>

\* notify_profile_finish, whose exceptions are logged; the lock is then given back, or the next
\* task begins.
NotifyFinish ==
  /\ holder.phase = "notify"
  /\ notified' = [notified EXCEPT ![holder.victim] = @ + 1]
  /\ holder' = IF holder.next = NoTask THEN Free
               ELSE [phase |-> "begin", victim |-> NoTask, next |-> holder.next]
  /\ UNCHANGED <<commandVars, listVars, startTimers, stopTimers, current, profiling, left>>

-----------------------------------------------------------------------------
QueryStep    == QueryCommands \/ ReceiveCommand
DispatchStep == TakeCommand \/ CheckTask \/ PutTask \/ CacheCommand
HolderStep   == BeginTask \/ StartProfiling \/ StopProfiling \/ DrainList \/ FillList \/ NotifyFinish

Next ==
  \/ \E t \in Tasks : CreateTask(t) \/ StartTimer(t) \/ StopTimer(t)
  \/ QueryStep \/ DispatchStep \/ HolderStep

Spec == Init /\ [][Next]_vars

\* The query thread asks again and again, the dispatch thread and the timer threads are
\* scheduled; a timer gets the lock in the end although others ask for it too.
Fairness ==
  /\ WF_vars(QueryStep) /\ WF_vars(DispatchStep) /\ WF_vars(HolderStep)
  /\ \A t \in Tasks : SF_vars(StartTimer(t)) /\ SF_vars(StopTimer(t))

FairSpec == Spec /\ Fairness

-----------------------------------------------------------------------------
(* Properties.                                                             *)

\* Every variable stays in its type.
TypeOK ==
  /\ created \subseteq Tasks /\ scheduled \subseteq Tasks
  /\ startTimers \subseteq Tasks /\ stopTimers \subseteq Tasks /\ profiling \subseteq Tasks
  /\ lastCreate \in Tasks \cup {-1}
  /\ reply \in Seq(Tasks) /\ commands \in Seq(Tasks) /\ cache \in Seq(Tasks)
  /\ list \in Seq(Tasks) /\ left \in Seq(Tasks)
  /\ Len(commands) + Len(reply) <= MaxCommands
  /\ dispatcher \in [at : {"get", "execute", "put", "cache"}, task : Tasks \cup {NoTask}]
  /\ executed \in [Tasks -> Nat] /\ notified \in [Tasks -> Nat]
  /\ current \in Tasks \cup {NoTask}
  /\ holder \in [phase : {"free", "begin", "start", "stop", "drain", "fill", "notify"},
                 victim : Tasks \cup {NoTask}, next : Tasks \cup {NoTask}]

\* "don't execute same command twice" (command_service.py:34), although a command is sent again
\* with every query until it has been executed.
ExecutedOnce == \A t \in Tasks : executed[t] <= 1

\* At most one task profiles, and while no timer holds the lock it is the one that new traces find.
OneTaskProfiles ==
  /\ \A t, u \in profiling : t = u
  /\ holder = Free => profiling = {current} \ {NoTask}

\* The end of a task is notified once, when it no longer profiles, although it may be stopped by
\* its own timer and by its successor.
NotifiedOnce ==
  \A t \in Tasks : notified[t] <= 1 /\ (notified[t] = 1 => t \in scheduled \ profiling)

\* While the list is taken apart and put together again with new tasks coming in, no task on it
\* is lost or doubled: it holds the tasks not finished, besides the one being removed.
ListComplete ==
  /\ IsInjective(list \o left)
  /\ LET there == ToSet(list) \cup ToSet(left)
         todo  == {t \in scheduled : notified[t] = 0}
     IN  todo \ {holder.victim} \subseteq there /\ there \subseteq todo

\* A task ceases to be the current one by its own timer or by the start of another one, never by
\* the timer that a replaced task has left behind.
StoppedByRight ==
  [][current # NoTask /\ current' # current =>
       current \in stopTimers \ stopTimers' \/ \E u \in startTimers \ startTimers' : u # current]_vars

\* Every task created is executed, whatever is queued twice.
TasksExecuted == \A t \in Tasks : (t \in created) ~> (executed[t] > 0)

\* Every task put on the list comes to its end, and that is notified.
TasksFinish == \A t \in Tasks : (t \in scheduled) ~> (notified[t] > 0)
=============================================================================
