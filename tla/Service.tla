------------------------------- MODULE Service -------------------------------
(***************************************************************************)
(* Requests of a service that is built from these packages.  The           *)
(* middleware opens a request scope, from which the unit of work and the   *)
(* outbox take their session; the handler enters a redis lock and, inside  *)
(* it, one block of a unit of work or several, each of which reads a row,  *)
(* changes it and posts an event.  A handler may catch the exception of a  *)
(* block and try another.                                                  *)
(*                                                                         *)
(* The handlers are coroutines: another one runs at any await.  Processes  *)
(* may die.                                                                *)
(***************************************************************************)
EXTENDS IdWorker, RedisLock, UnitOfWork, RequestScope

CONSTANTS Proc,      \* the process that serves each request
          MaxBlocks, \* a bound on the blocks of a request
          Loads      \* the loads to consider

ASSUME ServiceAssumption ==
  Proc \in [Requests -> Procs] /\ MaxBlocks \in Nat \ {0} /\ Blocks = Requests \X (1 .. MaxBlocks)
ASSUME LoadsAssumption ==
  Loads \subseteq [requests : SUBSET Requests, blocks : 1 .. MaxBlocks,
                    clocks : SUBSET Procs, mortal : SUBSET Procs]

VARIABLES
  load,   \* the requests that come, their blocks at most, the clocks that move, the processes that die
  pc,     \* the next step of each request
  block,  \* how many blocks it has begun
  uow,    \* the session of its unit of work
  outbox, \* the session of its outbox
  event   \* the id of the event it posts

handlerVars == <<load, pc, block, uow, outbox, event>>
vars        == <<idVars, lockVars, dbVars, cache, handlerVars>>

Points  == {"new", "uow", "outbox", "lock", "block", "read", "write", "id", "spin", "post", "commit",
            "rollback", "exit", "leave", "done", "late", "dead"}
InBlock == {"read", "write", "id", "post", "commit"}

Init ==
  /\ load \in Loads
  /\ IdInit /\ LockInit /\ DbInit /\ ScopeInit
  /\ pc = [r \in Requests |-> "new"]
  /\ block = [r \in Requests |-> 0]
  /\ uow = [r \in Requests |-> 0]
  /\ outbox = [r \in Requests |-> 0]
  /\ event = [r \in Requests |-> -1]

\* A step of a request; while get_id spins nothing else runs in its process.
At(r, from, to) ==
  /\ pc[r] = from
  /\ Proc[r] \notin spinning
  /\ pc' = [pc EXCEPT ![r] = to]

This(r) == <<r, block[r]>>

\* The locals of handlers that are gone.
Forget(gone) ==
  /\ block' = [r \in Requests |-> IF r \in gone THEN 0 ELSE block[r]]
  /\ uow' = [r \in Requests |-> IF r \in gone THEN 0 ELSE uow[r]]
  /\ outbox' = [r \in Requests |-> IF r \in gone THEN 0 ELSE outbox[r]]
  /\ event' = [r \in Requests |-> IF r \in gone THEN -1 ELSE event[r]]

-----------------------------------------------------------------------------
(* The middleware.                                                         *)

BeginRequest(r) ==
  /\ r \in load.requests
  /\ At(r, "new", "uow")
  /\ AddKey(r)
  /\ UNCHANGED <<idVars, lockVars, dbVars, load, block, uow, outbox, event>>

\* get_async_session: a new session, if the request has none.
Resolve(r) ==
  /\ Get(r, Len(sessions) + 1)
  /\ sessions' = IF cache[r] = 0 THEN Append(sessions, NewSession) ELSE sessions
  /\ UNCHANGED <<idVars, lockVars, db, aborted, load, block, event>>

Resolved(r) == IF cache[r] = 0 THEN Len(sessions) + 1 ELSE cache[r]

InjectUnitOfWork(r) ==
  /\ At(r, "uow", "outbox")
  /\ Resolve(r)
  /\ uow' = [uow EXCEPT ![r] = Resolved(r)]
  /\ UNCHANGED outbox

InjectOutBox(r) ==
  /\ At(r, "outbox", "lock")
  /\ Resolve(r)
  /\ outbox' = [outbox EXCEPT ![r] = Resolved(r)]
  /\ UNCHANGED uow

\* finally: clear_key(rid).  Nothing refers to the session any more.
EndRequest(r) ==
  /\ At(r, "leave", "done")
  /\ ClearKeys({r})
  /\ DropSessions({uow[r]})
  /\ Forget({r})
  /\ UNCHANGED <<idVars, lockVars, load>>

\* A task that the request has started asks for a dependency after its end.
LateTask(r) ==
  /\ At(r, "done", "late")
  /\ GetTooLate(r)
  /\ UNCHANGED <<idVars, lockVars, dbVars, load, block, uow, outbox, event>>

-----------------------------------------------------------------------------
(* The lock.                                                               *)

EnterLock(r) ==
  /\ \/ At(r, "lock", "block") /\ Acquire(r)
     \/ At(r, "lock", "leave") /\ (AcquireUnheard \/ Refused)
  /\ UNCHANGED <<idVars, dbVars, cache, load, block, uow, outbox, event>>

ExitLock(r) ==
  /\ At(r, "exit", "leave")
  /\ Release(r) \/ LeaveKey({r})
  /\ UNCHANGED <<idVars, dbVars, cache, load, block, uow, outbox, event>>

LockExpires == KeyExpires /\ UNCHANGED <<idVars, dbVars, cache, handlerVars>>

-----------------------------------------------------------------------------
(* The blocks.                                                             *)

\* async with uow, once more or no more.
NextBlock(r) ==
  /\ \/ /\ block[r] < load.blocks
        /\ At(r, "block", "read")
        /\ block' = [block EXCEPT ![r] = @ + 1]
     \/ block[r] > 0 /\ At(r, "block", "exit") /\ UNCHANGED block
  /\ UNCHANGED <<idVars, lockVars, dbVars, cache, load, uow, outbox, event>>

ReadRow(r) ==
  /\ \/ At(r, "read", "write") /\ Select(uow[r])
     \/ At(r, "read", "rollback") /\ StatementRefused(uow[r])
  /\ UNCHANGED <<idVars, lockVars, cache, load, block, uow, outbox, event>>

WriteRow(r) ==
  /\ At(r, "write", "id")
  /\ Update(uow[r], This(r))
  /\ UNCHANGED <<idVars, lockVars, cache, load, block, uow, outbox, event>>

\* DomainEvent.__post_init__: get_id.
NewEvent(r) ==
  LET p == Proc[r]
  IN  /\ \/ /\ At(r, "id", "post") /\ (IdInNewMilli(p) \/ IdInSameMilli(p))
            /\ event' = [event EXCEPT ![r] = Issued(p)']
         \/ At(r, "id", "spin") /\ SequenceWraps(p) /\ UNCHANGED event
         \/ /\ pc[r] = "spin" /\ NextMilli(p)
            /\ pc' = [pc EXCEPT ![r] = "post"]
            /\ event' = [event EXCEPT ![r] = Issued(p)']
         \/ At(r, "id", "rollback") /\ ClockIsBack(p) /\ UNCHANGED <<idVars, event>>
      /\ UNCHANGED <<lockVars, dbVars, cache, load, block, uow, outbox>>

PostEvent(r) ==
  /\ \/ At(r, "post", "commit") /\ InsertEvent(outbox[r], event[r], This(r))
     \/ At(r, "post", "rollback") /\ InsertDuplicate(event[r])
  /\ UNCHANGED <<idVars, lockVars, cache, load, block, uow, outbox, event>>

\* Anything else in the block raises, a statement or the application.
BodyRaises(r) ==
  /\ \E p \in InBlock : At(r, p, "rollback")
  /\ UNCHANGED <<idVars, lockVars, dbVars, cache, load, block, uow, outbox, event>>

EndBlock(r) ==
  /\ \/ At(r, "commit", "block") /\ (Commit(uow[r]) \/ CommitFails(uow[r], This(r)))
     \/ At(r, "rollback", "block") /\ Rollback(uow[r], This(r))
  /\ UNCHANGED <<idVars, lockVars, cache, load, block, uow, outbox, event>>

-----------------------------------------------------------------------------
(* Processes.                                                              *)

ProcessDies(p) ==
  LET dying == {r \in Requests : Proc[r] = p /\ pc[r] \notin {"new", "done", "late", "dead"}}
  IN  /\ p \in load.mortal
      /\ IdRestart(p)
      /\ LeaveKey(dying)
      /\ DropSessions({uow[r] : r \in dying} \cup {outbox[r] : r \in dying})
      /\ ClearKeys(dying)
      /\ pc' = [r \in Requests |-> IF r \in dying THEN "dead" ELSE pc[r]]
      /\ Forget(dying)
      /\ UNCHANGED load

SetClock(p) == p \in load.clocks /\ ClockMoves(p) /\ UNCHANGED <<lockVars, dbVars, cache, handlerVars>>

RequestStep(r) ==
  \/ BeginRequest(r) \/ InjectUnitOfWork(r) \/ InjectOutBox(r) \/ EndRequest(r) \/ LateTask(r)
  \/ EnterLock(r) \/ ExitLock(r)
  \/ NextBlock(r) \/ ReadRow(r) \/ WriteRow(r) \/ NewEvent(r) \/ PostEvent(r) \/ BodyRaises(r) \/ EndBlock(r)

Next ==
  \/ \E r \in Requests : RequestStep(r)
  \/ \E p \in Procs : ProcessDies(p) \/ SetClock(p)
  \/ LockExpires

Spec == Init /\ [][Next]_vars

-----------------------------------------------------------------------------
(* Properties of the packages together.                                    *)

TypeOK ==
  /\ load \in Loads /\ IdTypeOK
  /\ key \in BOOLEAN /\ overstayed \in {"never", "now", "before"} /\ inside \subseteq Requests
  /\ db.row \subseteq Blocks /\ Posted \subseteq Blocks /\ aborted \subseteq Blocks
  /\ \A s \in DOMAIN sessions :
       sessions[s].state \in {"clean", "open", "broken"} /\ sessions[s].wrote \subseteq Blocks
  /\ pc \in [Requests -> Points]
  /\ block \in [Requests -> 0 .. MaxBlocks]

\* A change and the event that speaks of it are in one transaction, because unit of work and
\* outbox find the same session in the request's scope: whatever fails, no change is committed
\* without its event.  While nobody has overstayed the lock no change is overwritten by a request
\* that had not read it, so that there is no event without its change either.
OutboxAgrees == db.row \subseteq Posted /\ (overstayed = "never" => Posted \subseteq db.row)

\* A request that has ended leaves nothing in the scope, not even through the tasks it started,
\* and no session is in the hands of two requests.
ScopeIsOfActive ==
  /\ DOMAIN cache = {r \in Requests : pc[r] \notin {"new", "done", "late", "dead"}}
  /\ \A q, r \in DOMAIN cache : cache[q] = cache[r] /\ cache[q] # 0 => q = r
=============================================================================
