--------------------------- MODULE Atomicity_proofs ---------------------------
(***************************************************************************)
(* Proofs that a block of a unit of work and its event are committed       *)
(* together or not at all, for any number of requests, processes and       *)
(* blocks.  The argument goes from the scope (each request has a session   *)
(* of its own, which its unit of work and its outbox share) by what is     *)
(* pending in a session (only the block its request is in) to the          *)
(* database.                                                               *)
(***************************************************************************)
EXTENDS Service_proofs

Events   == [id : Int, block : Blocks]
Sessions == [state : {"clean", "open", "broken"}, seen : SUBSET Blocks, wrote : SUBSET Blocks,
             events : SUBSET Events]

DbType ==
  /\ db \in [row : SUBSET Blocks, events : SUBSET Events]
  /\ sessions \in Seq(Sessions)
  /\ aborted \subseteq Blocks

\* What a session has read and written, and the blocks whose events it has inserted.
Seen(s)  == sessions[s].seen
Wrote(s) == sessions[s].wrote
Told(s)  == {e.block : e \in sessions[s].events}

-----------------------------------------------------------------------------
(* What the operations on a session do to it, and that they leave the      *)
(* others alone.                                                           *)

\* Nothing but what the sessions in "changed" hold may change.
OthersKeep(changed) ==
  /\ DOMAIN sessions' = DOMAIN sessions
  /\ \A t \in DOMAIN sessions \ changed :
       Seen(t)' = Seen(t) /\ Wrote(t)' = Wrote(t) /\ Told(t)' = Told(t)

LEMMA SelectEffect ==
  ASSUME DbType, NEW s \in DOMAIN sessions, Select(s)
  PROVE  /\ DbType' /\ OthersKeep({s}) /\ UNCHANGED <<db, aborted>>
         /\ Seen(s)' = db.row /\ Wrote(s)' = Wrote(s) /\ Told(s)' = Told(s)
<1>1. sessions' = [sessions EXCEPT ![s] = [sessions[s] EXCEPT !.state = "open", !.seen = db.row]]
  BY DEF Select, DbType, Sessions
<1>2. sessions[s] \in Sessions /\ db.row \in SUBSET Blocks
  BY DEF DbType
<1>3. [sessions[s] EXCEPT !.state = "open", !.seen = db.row] \in Sessions
  BY <1>2 DEF Sessions
<1>4. sessions' \in Seq(Sessions)
  BY <1>1, <1>3 DEF DbType
<1>5. /\ sessions'[s].seen = db.row
      /\ sessions'[s].wrote = sessions[s].wrote
      /\ sessions'[s].events = sessions[s].events
  BY <1>1, <1>2 DEF Sessions
<1> QED
  BY <1>1, <1>4, <1>5 DEF Select, DbType, OthersKeep, Seen, Wrote, Told

LEMMA UpdateEffect ==
  ASSUME DbType, NEW s \in DOMAIN sessions, NEW b \in Blocks, Update(s, b)
  PROVE  /\ DbType' /\ OthersKeep({s}) /\ UNCHANGED <<db, aborted>>
         /\ Seen(s)' = Seen(s) /\ Wrote(s)' = Wrote(s) \cup {b} /\ Told(s)' = Told(s)
<1>1. sessions' = [sessions EXCEPT ![s] = [sessions[s] EXCEPT !.wrote = sessions[s].wrote \cup {b}]]
  BY DEF Update, DbType
<1>2. sessions[s] \in Sessions
  BY DEF DbType
<1>3. [sessions[s] EXCEPT !.wrote = sessions[s].wrote \cup {b}] \in Sessions
  BY <1>2 DEF Sessions
<1>4. sessions' \in Seq(Sessions)
  BY <1>1, <1>3 DEF DbType
<1>5. /\ sessions'[s].seen = sessions[s].seen
      /\ sessions'[s].wrote = sessions[s].wrote \cup {b}
      /\ sessions'[s].events = sessions[s].events
  BY <1>1, <1>2 DEF Sessions
<1> QED
  BY <1>1, <1>4, <1>5 DEF Update, DbType, OthersKeep, Seen, Wrote, Told

LEMMA InsertEffect ==
  ASSUME DbType, NEW s \in DOMAIN sessions, NEW id \in Int, NEW b \in Blocks, InsertEvent(s, id, b)
  PROVE  /\ DbType' /\ OthersKeep({s}) /\ UNCHANGED <<db, aborted>>
         /\ Seen(s)' = Seen(s) /\ Wrote(s)' = Wrote(s) /\ Told(s)' = Told(s) \cup {b}
<1> DEFINE e == [id |-> id, block |-> b]
<1>1. sessions' = [sessions EXCEPT ![s] = [sessions[s] EXCEPT !.state = "open",
                                             !.events = sessions[s].events \cup {e}]]
  BY DEF InsertEvent, DbType, Sessions
<1>2. sessions[s] \in Sessions /\ e \in Events /\ e.block = b
  BY DEF DbType, Events
<1> HIDE DEF e
<1>3. [sessions[s] EXCEPT !.state = "open", !.events = sessions[s].events \cup {e}] \in Sessions
  BY <1>2 DEF Sessions
<1>4. sessions' \in Seq(Sessions)
  BY <1>1, <1>3 DEF DbType
<1>5. /\ sessions'[s].seen = sessions[s].seen
      /\ sessions'[s].wrote = sessions[s].wrote
      /\ sessions'[s].events = sessions[s].events \cup {e}
  BY <1>1, <1>2 DEF Sessions
<1>6. Told(s)' = Told(s) \cup {b}
  BY <1>2, <1>5 DEF Told
<1> QED
  BY <1>1, <1>4, <1>5, <1>6 DEF InsertEvent, DbType, OthersKeep, Seen, Wrote, Told

\* A session that is started anew holds nothing.
LEMMA RenewEffect ==
  ASSUME DbType, NEW dead, NEW state \in {"clean", "broken"},
         sessions' = [s \in DOMAIN sessions |->
                        IF s \in dead THEN [NewSession EXCEPT !.state = state] ELSE sessions[s]]
  PROVE  /\ sessions' \in Seq(Sessions) /\ OthersKeep(dead)
         /\ \A s \in DOMAIN sessions \cap dead : Seen(s)' = {} /\ Wrote(s)' = {} /\ Told(s)' = {}
<1>1. [NewSession EXCEPT !.state = state] \in Sessions
  BY DEF NewSession, Sessions
<1>2. \E n \in Nat : DOMAIN sessions = 1 .. n
  BY DEF DbType
<1>3. \A s \in DOMAIN sessions : sessions'[s] \in Sessions
  BY <1>1 DEF DbType
<1>4. sessions' \in Seq(Sessions)
  BY <1>2, <1>3
<1>5. \A s \in DOMAIN sessions \cap dead : Seen(s)' = {} /\ Wrote(s)' = {} /\ Told(s)' = {}
  BY DEF NewSession, Seen, Wrote, Told
<1> QED
  BY <1>4, <1>5 DEF OthersKeep, Seen, Wrote, Told

LEMMA DropEffect ==
  ASSUME DbType, NEW dead, DropSessions(dead)
  PROVE  /\ DbType' /\ OthersKeep(dead) /\ UNCHANGED <<db, aborted>>
         /\ \A s \in DOMAIN sessions \cap dead : Seen(s)' = {} /\ Wrote(s)' = {} /\ Told(s)' = {}
<1>1. NewSession = [NewSession EXCEPT !.state = "clean"]
  BY DEF NewSession
<1>2. sessions' = [s \in DOMAIN sessions |->
                     IF s \in dead THEN [NewSession EXCEPT !.state = "clean"] ELSE sessions[s]]
  BY <1>1 DEF DropSessions
<1> QED
  BY <1>2, RenewEffect DEF DropSessions, DbType

\* The end of a block.  It settles whether the block is in the database.
Reaches(s) == /\ db'.row = IF Wrote(s) = {} THEN db.row ELSE Seen(s) \cup Wrote(s)
              /\ Posted' = Posted \cup Told(s)
              /\ aborted' = aborted

GivesUp(b) == db' = db /\ aborted' = aborted \cup {b}

LEMMA CommittedType ==
  ASSUME DbType, NEW s \in DOMAIN sessions
  PROVE  Committed(s) \in [row : SUBSET Blocks, events : SUBSET Events]
<1>1. sessions[s] \in Sessions
  BY DEF DbType
<1> QED
  BY <1>1 DEF DbType, Sessions, Committed

LEMMA EndEffect ==
  ASSUME DbType, NEW s \in DOMAIN sessions, NEW b \in Blocks,
         Commit(s) \/ CommitFails(s, b) \/ Rollback(s, b)
  PROVE  /\ DbType' /\ OthersKeep({s})
         /\ Seen(s)' = {} /\ Wrote(s)' = {} /\ Told(s)' = {}
         /\ (Reaches(s) /\ ~Rollback(s, b)) \/ GivesUp(b)
<1>1. /\ sessions' \in Seq(Sessions) /\ OthersKeep({s})
      /\ Seen(s)' = {} /\ Wrote(s)' = {} /\ Told(s)' = {}
  <2>1. PICK state \in {"clean", "broken"} :
          sessions' = [sessions EXCEPT ![s] = [NewSession EXCEPT !.state = state]]
    <3>1. NewSession = [NewSession EXCEPT !.state = "clean"]
      BY DEF NewSession
    <3> QED
      BY <3>1 DEF Commit, CommitFails, Rollback
  <2>2. sessions' = [t \in DOMAIN sessions |->
                       IF t \in {s} THEN [NewSession EXCEPT !.state = state] ELSE sessions[t]]
    BY <2>1
  <2> QED
    BY <2>2, RenewEffect
<1>2. (db' = Committed(s) /\ aborted' = aborted) \/ GivesUp(b)
  BY DEF Commit, CommitFails, Rollback, GivesUp
<1>3. Rollback(s, b) => GivesUp(b)
  BY DEF Rollback, GivesUp
<1>4. ASSUME db' = Committed(s), aborted' = aborted PROVE Reaches(s)
  <2>1. Posted' = Posted \cup Told(s)
    BY <1>4 DEF Posted, Committed, Told
  <2>2. db'.row = IF Wrote(s) = {} THEN db.row ELSE Seen(s) \cup Wrote(s)
    BY <1>4 DEF Committed, Wrote, Seen
  <2> QED
    BY <1>4, <2>1, <2>2 DEF Reaches
<1>5. db' \in [row : SUBSET Blocks, events : SUBSET Events] /\ aborted' \subseteq Blocks
  BY <1>2, CommittedType DEF GivesUp, DbType
<1> QED
  BY <1>1, <1>2, <1>3, <1>4, <1>5 DEF DbType

\* A new session.
LEMMA AppendEffect ==
  ASSUME DbType, NEW s, s = Len(sessions) + 1,
         sessions' = Append(sessions, NewSession), UNCHANGED <<db, aborted>>
  PROVE  /\ DbType' /\ DOMAIN sessions' = DOMAIN sessions \cup {s}
         /\ \A t \in DOMAIN sessions :
              Seen(t)' = Seen(t) /\ Wrote(t)' = Wrote(t) /\ Told(t)' = Told(t)
         /\ Seen(s)' = {} /\ Wrote(s)' = {} /\ Told(s)' = {}
<1>1. NewSession \in Sessions /\ Len(sessions) \in Nat
  BY DEF NewSession, Sessions, DbType
<1>2. DbType' /\ DOMAIN sessions' = DOMAIN sessions \cup {s}
  BY <1>1 DEF DbType
<1>3. \A t \in DOMAIN sessions : sessions'[t] = sessions[t]
  BY <1>1 DEF DbType
<1>4. sessions'[s] = NewSession
  BY <1>1 DEF DbType
<1> QED
  BY <1>2, <1>3, <1>4 DEF NewSession, Seen, Wrote, Told

-----------------------------------------------------------------------------
(* The invariant.                                                          *)

Gone == {"done", "late", "dead"}
Busy == {"read", "write", "id", "spin", "post", "commit", "rollback"}
Held == Busy \cup {"block", "exit"}

Active == {r \in Requests : pc[r] \notin Gone \cup {"new"}}

HandlerType ==
  /\ pc \in [Requests -> Points]
  /\ block \in [Requests -> 0 .. MaxBlocks] /\ event \in [Requests -> Int]
  /\ \A r \in Requests : pc[r] \in Busy => block[r] # 0
  /\ uow \in [Requests -> Nat] /\ outbox \in [Requests -> Nat]
  /\ cache \in [DOMAIN cache -> Nat]
  /\ load \in Loads

\* The scope is that of the requests under way; unit of work and outbox have its session.
ScopeInv ==
  /\ DOMAIN cache = Active
  /\ \A r \in Active : /\ cache[r] = uow[r]
                       /\ pc[r] = "uow" => uow[r] = 0
                       /\ pc[r] # "uow" => uow[r] \in DOMAIN sessions
                       /\ outbox[r] = IF pc[r] \in {"uow", "outbox"} THEN 0 ELSE uow[r]
  /\ \A q, r \in Active : uow[q] = uow[r] /\ uow[q] # 0 => q = r
  /\ \A r \in Requests \ Active : uow[r] = 0 /\ outbox[r] = 0

\* What a session holds that is not committed is of the block that its request is in.
PendingInv ==
  \A s \in DOMAIN sessions : \A b \in Wrote(s) \cup Told(s) :
    \E r \in Active : uow[r] = s /\ pc[r] \in Busy /\ b = This(r)

\* The blocks that are settled, or were when a session read the row.
Settled == db.row \cup Posted \cup aborted \cup UNION {Seen(s) : s \in DOMAIN sessions}

\* The block that a request is in is not among them, nor is any later one.
FreshInv ==
  \A r \in Requests : \A n \in Nat :
    <<r, n>> \in Settled /\ pc[r] \notin Gone => n < block[r] \/ (n = block[r] /\ pc[r] \notin Busy)

\* No row has been without its events.
PostedInv ==
  /\ db.row \subseteq Posted
  /\ \A s \in DOMAIN sessions : Seen(s) \subseteq Posted
  /\ \A r \in Active, s \in DOMAIN sessions :
       uow[r] = s /\ pc[r] = "commit" => This(r) \in Told(s)

AbortInv ==
  /\ AbortedLeavesNothing
  /\ \A s \in DOMAIN sessions : Seen(s) \cap aborted = {}

\* While nobody has overstayed the lock, what the one inside has read is what there is.
ReadInv ==
  /\ \A r \in Active : pc[r] \in Held => r \in inside
  /\ \A r \in Active, s \in DOMAIN sessions :
       uow[r] = s /\ pc[r] \in {"id", "spin", "post", "commit"} => This(r) \in Wrote(s)
  /\ overstayed = "never" =>
       /\ Posted \subseteq db.row
       /\ \A r \in Active, s \in DOMAIN sessions :
            uow[r] = s /\ pc[r] \in {"write", "id", "spin", "post", "commit"} => Seen(s) = db.row

AtomicInv ==
  /\ DbType /\ HandlerType /\ ScopeInv /\ PendingInv /\ FreshInv /\ PostedInv /\ AbortInv /\ ReadInv

\* The invariants of the lock and of the ids are used, too.
Known == IdInv /\ LockInv

LEMMA AtomicInvInit == Init => AtomicInv
<1> SUFFICES ASSUME Init PROVE AtomicInv
  OBVIOUS
<1> USE DEF Init, DbInit, ScopeInit, LockInit
<1>1. DbType
  BY DEF DbType
<1>2. HandlerType
  BY ServiceAssumption DEF HandlerType, Points, Busy
<1>3. Active = {}
  BY DEF Active
<1>4. DOMAIN sessions = {}
  OBVIOUS
<1>5. Posted = {}
  BY DEF Posted
<1>6. ScopeInv
  BY <1>3 DEF ScopeInv
<1>7. Settled = {}
  BY <1>4, <1>5 DEF Settled
<1> QED
  BY <1>1, <1>2, <1>3, <1>4, <1>5, <1>6, <1>7
     DEF AtomicInv, PendingInv, FreshInv, PostedInv, AbortInv, AbortedLeavesNothing, ReadInv

\* Steps that do not touch the database leave what is said of it alone.
LEMMA DataSame ==
  ASSUME UNCHANGED dbVars
  PROVE  /\ UNCHANGED <<db, sessions, aborted, Posted, Settled, AbortInv>>
         /\ \A s : Seen(s)' = Seen(s) /\ Wrote(s)' = Wrote(s) /\ Told(s)' = Told(s)
         /\ DbType => DbType'
  BY DEF dbVars, Posted, Settled, Seen, Wrote, Told, DbType, AbortInv, AbortedLeavesNothing

LEMMA ThisIsBlock ==
  ASSUME HandlerType, NEW r \in Requests, pc[r] \in Busy
  PROVE  This(r) \in Blocks
  BY ServiceAssumption DEF HandlerType, This

\* A request's step to another point that changes nothing else of what the invariant speaks of.
LEMMA MoveKeeps ==
  ASSUME AtomicInv, NEW r \in Active, NEW to \in Points,
         pc' = [pc EXCEPT ![r] = to], UNCHANGED <<cache, block, uow, outbox, load>>,
         event' \in [Requests -> Int], to \notin {"new", "uow", "outbox"} \cup Gone,
         pc[r] \notin {"uow", "outbox"}, UNCHANGED dbVars,
         overstayed' = "never" => overstayed = "never",
         \A q \in Active : q \in inside => q \in inside' \/ (q = r /\ to \notin Held),
         pc[r] \in Busy <=> to \in Busy, to \in Held => pc[r] \in Held \/ r \in inside',
         to = "commit" => This(r) \in Told(uow[r]),
         to \in {"write", "id", "spin", "post", "commit"} =>
           pc[r] \in {"write", "id", "spin", "post", "commit"},
         to \in {"id", "spin", "post", "commit"} => pc[r] \in {"id", "spin", "post", "commit"}
  PROVE  AtomicInv'
<1> USE DEF AtomicInv
<1>0. /\ sessions' = sessions /\ Settled' = Settled /\ Posted' = Posted /\ db' = db /\ aborted' = aborted
      /\ \A s : Seen(s)' = Seen(s) /\ Wrote(s)' = Wrote(s) /\ Told(s)' = Told(s)
      /\ DbType' /\ AbortInv'
  BY DataSame
<1>1. pc'[r] = to /\ \A q \in Requests \ {r} : pc'[q] = pc[q]
  BY DEF HandlerType, Active
<1>2. Active' = Active
  BY <1>1 DEF Active
<1>3. HandlerType'
  BY <1>1 DEF HandlerType, Active
<1>4. ScopeInv'
  BY <1>1, <1>2, <1>0 DEF ScopeInv
<1>5. \A q \in Requests : This(q)' = This(q)
  BY DEF This
<1>6. PendingInv'
  BY <1>0, <1>1, <1>2, <1>5 DEF PendingInv, Active
<1>7. FreshInv'
  BY <1>0, <1>1 DEF FreshInv, Active
<1>8. PostedInv'
  BY <1>0, <1>1, <1>2, <1>5 DEF PostedInv, Active
<1>9. ReadInv'
  BY <1>0, <1>1, <1>2, <1>5 DEF ReadInv, Active
<1> QED
  BY <1>3, <1>4, <1>6, <1>7, <1>8, <1>9, <1>0

LEMMA BeginKeeps ==
  ASSUME AtomicInv, Known, NEW r \in Requests, BeginRequest(r) PROVE AtomicInv'
<1> USE DEF AtomicInv
<1>0. /\ sessions' = sessions /\ Settled' = Settled /\ Posted' = Posted /\ db' = db /\ aborted' = aborted
      /\ \A s : Seen(s)' = Seen(s) /\ Wrote(s)' = Wrote(s) /\ Told(s)' = Told(s)
      /\ DbType' /\ AbortInv'
  BY DataSame DEF BeginRequest
<1>1. /\ pc[r] = "new" /\ pc'[r] = "uow" /\ \A q \in Requests \ {r} : pc'[q] = pc[q]
      /\ pc' \in [Requests -> Points]
  BY DEF BeginRequest, At, HandlerType, Points
<1>2. Active' = Active \cup {r} /\ r \notin Active
  BY <1>1 DEF Active, Gone
<1>3. HandlerType'
  BY <1>1 DEF HandlerType, BeginRequest, AddKey, Busy
<1>4. ScopeInv'
  <2>1. cache'[r] = 0 /\ \A q \in Active : cache'[q] = cache[q]
    BY <1>2 DEF BeginRequest, AddKey, ScopeInv
  <2>2. DOMAIN cache' = Active'
    BY <1>2 DEF BeginRequest, AddKey, ScopeInv
  <2>3. uow' = uow /\ outbox' = outbox /\ uow[r] = 0
    BY <1>2 DEF BeginRequest, ScopeInv
  <2> QED
    BY <1>0, <1>1, <1>2, <2>1, <2>2, <2>3 DEF ScopeInv, Active
<1>5. \A q \in Requests : This(q)' = This(q)
  BY DEF This, BeginRequest
<1>6. uow' = uow /\ block' = block /\ inside' = inside /\ overstayed' = overstayed
  BY DEF BeginRequest, lockVars
<1>7. PendingInv'
  BY <1>0, <1>1, <1>2, <1>5, <1>6 DEF PendingInv, Active
<1>8. FreshInv'
  BY <1>0, <1>1, <1>6 DEF FreshInv, Gone, Busy
<1>9. PostedInv'
  BY <1>0, <1>1, <1>2, <1>5, <1>6 DEF PostedInv, Active
<1>10. ReadInv'
  BY <1>0, <1>1, <1>2, <1>5, <1>6 DEF ReadInv, Active, Held, Busy
<1> QED
  BY <1>0, <1>3, <1>4, <1>7, <1>8, <1>9, <1>10

LEMMA LateKeeps ==
  ASSUME AtomicInv, Known, NEW r \in Requests, LateTask(r) PROVE AtomicInv'
<1> USE DEF AtomicInv
<1>0. /\ sessions' = sessions /\ Settled' = Settled /\ Posted' = Posted /\ db' = db /\ aborted' = aborted
      /\ \A s : Seen(s)' = Seen(s) /\ Wrote(s)' = Wrote(s) /\ Told(s)' = Told(s)
      /\ DbType' /\ AbortInv'
  BY DataSame DEF LateTask
<1>1. /\ pc[r] = "done" /\ pc'[r] = "late" /\ \A q \in Requests \ {r} : pc'[q] = pc[q]
      /\ pc' \in [Requests -> Points]
  BY DEF LateTask, At, HandlerType, Points
<1>2. Active' = Active /\ r \notin Active
  BY <1>1 DEF Active, Gone
<1>3. UNCHANGED <<cache, load, block, uow, outbox, event, inside, overstayed>>
  BY DEF LateTask, GetTooLate, lockVars
<1>4. HandlerType'
  BY <1>1, <1>3 DEF HandlerType, Busy
<1>5. ScopeInv'
  BY <1>0, <1>1, <1>2, <1>3 DEF ScopeInv, Active
<1>6. \A q \in Requests : This(q)' = This(q)
  BY <1>3 DEF This
<1>7. PendingInv'
  BY <1>0, <1>1, <1>2, <1>3, <1>6 DEF PendingInv, Active
<1>8. FreshInv'
  BY <1>0, <1>1, <1>3 DEF FreshInv, Gone, Busy
<1>9. PostedInv'
  BY <1>0, <1>1, <1>2, <1>3, <1>6 DEF PostedInv, Active
<1>10. ReadInv'
  BY <1>0, <1>1, <1>2, <1>3, <1>6 DEF ReadInv, Active
<1> QED
  BY <1>0, <1>4, <1>5, <1>7, <1>8, <1>9, <1>10

LEMMA InjectUnitOfWorkKeeps ==
  ASSUME AtomicInv, Known, NEW r \in Requests, InjectUnitOfWork(r) PROVE AtomicInv'
<1> USE DEF AtomicInv
<1>1. /\ pc[r] = "uow" /\ pc'[r] = "outbox" /\ \A q \in Requests \ {r} : pc'[q] = pc[q]
      /\ pc' \in [Requests -> Points]
  BY DEF InjectUnitOfWork, At, HandlerType, Points
<1>2. Active' = Active /\ r \in Active
  BY <1>1 DEF Active, Gone
<1>3. cache[r] = 0 /\ uow[r] = 0
  BY <1>1, <1>2 DEF ScopeInv
<1>4. PICK s : s = Len(sessions) + 1
  OBVIOUS
<1>5. /\ sessions' = Append(sessions, NewSession) /\ uow' = [uow EXCEPT ![r] = s]
      /\ cache' = [cache EXCEPT ![r] = s]
      /\ UNCHANGED <<db, aborted, load, block, event, outbox, inside, overstayed>>
  BY <1>3, <1>4 DEF InjectUnitOfWork, Resolve, Get, Resolved, lockVars
<1>6. /\ DbType' /\ DOMAIN sessions' = DOMAIN sessions \cup {s}
      /\ \A t \in DOMAIN sessions : Seen(t)' = Seen(t) /\ Wrote(t)' = Wrote(t) /\ Told(t)' = Told(t)
      /\ Seen(s)' = {} /\ Wrote(s)' = {} /\ Told(s)' = {}
  BY <1>4, <1>5, AppendEffect
<1>7. s \in Nat \ {0} /\ s \notin DOMAIN sessions
  BY <1>4 DEF DbType
<1>8. HandlerType'
  BY <1>1, <1>5, <1>7 DEF HandlerType, Busy
<1>9. uow'[r] = s /\ cache'[r] = s /\ \A q \in Requests \ {r} : uow'[q] = uow[q]
  BY <1>2, <1>5 DEF HandlerType, ScopeInv
<1>10. \A q \in Active \ {r} : uow[q] # s
  BY <1>7 DEF ScopeInv
<1>11. ScopeInv'
  <2>1. DOMAIN cache' = Active' /\ \A q \in Active \ {r} : cache'[q] = cache[q]
    BY <1>2, <1>5 DEF ScopeInv
  <2> QED
    BY <1>1, <1>2, <1>5, <1>6, <1>9, <1>10, <2>1 DEF ScopeInv, Active
<1>12. \A q \in Requests : This(q)' = This(q)
  BY <1>5 DEF This
<1>13. Posted' = Posted /\ db' = db /\ aborted' = aborted
  BY <1>5 DEF Posted
<1>14. PendingInv'
  <2> SUFFICES ASSUME NEW t \in DOMAIN sessions, NEW b \in Wrote(t) \cup Told(t)
               PROVE  \E q \in Active : uow'[q] = t /\ pc'[q] \in Busy /\ b = This(q)'
    BY <1>2, <1>6 DEF PendingInv
  <2>1. PICK q \in Active : uow[q] = t /\ pc[q] \in Busy /\ b = This(q)
    BY DEF PendingInv
  <2>2. q # r /\ q \in Requests
    BY <1>1, <2>1 DEF Busy, Active
  <2> QED
    BY <1>1, <1>9, <1>12, <2>1, <2>2
<1>15. Settled' = Settled
  BY <1>6, <1>7, <1>13 DEF Settled
<1>16. FreshInv'
  BY <1>1, <1>5, <1>15 DEF FreshInv, Gone, Busy
<1>17. PostedInv'
  BY <1>1, <1>2, <1>6, <1>7, <1>9, <1>12, <1>13, <1>10 DEF PostedInv, Active
<1>18. AbortInv'
  BY <1>6, <1>13 DEF AbortInv, AbortedLeavesNothing
<1>19. ReadInv'
  BY <1>1, <1>2, <1>5, <1>6, <1>7, <1>9, <1>12, <1>13, <1>10 DEF ReadInv, Active, Held, Busy
<1> QED
  BY <1>6, <1>8, <1>11, <1>14, <1>16, <1>17, <1>18, <1>19

LEMMA InjectOutBoxKeeps ==
  ASSUME AtomicInv, Known, NEW r \in Requests, InjectOutBox(r) PROVE AtomicInv'
<1> USE DEF AtomicInv
<1>1. /\ pc[r] = "outbox" /\ pc'[r] = "lock" /\ \A q \in Requests \ {r} : pc'[q] = pc[q]
      /\ pc' \in [Requests -> Points]
  BY DEF InjectOutBox, At, HandlerType, Points
<1>2. Active' = Active /\ r \in Active
  BY <1>1 DEF Active, Gone
<1>3. cache[r] = uow[r] /\ uow[r] # 0 /\ uow[r] \in Nat
  <2>1. cache[r] = uow[r] /\ uow[r] \in DOMAIN sessions
    BY <1>1, <1>2 DEF ScopeInv
  <2>2. DOMAIN sessions = 1 .. Len(sessions)
    BY DEF DbType
  <2> QED
    BY <2>1, <2>2
<1>4. /\ UNCHANGED <<cache, uow, load, block, event, inside, overstayed>> /\ UNCHANGED dbVars
      /\ outbox' = [outbox EXCEPT ![r] = uow[r]]
  <2>1. Resolved(r) = uow[r] /\ cache[r] # 0
    BY <1>3 DEF Resolved
  <2>2. outbox' = [outbox EXCEPT ![r] = uow[r]] /\ uow' = uow /\ Resolve(r)
    BY <2>1 DEF InjectOutBox
  <2>3. cache' = cache /\ sessions' = sessions
    BY <2>1, <2>2 DEF Resolve, Get
  <2> QED
    BY <2>2, <2>3 DEF Resolve, lockVars, dbVars
<1>5. /\ sessions' = sessions /\ Settled' = Settled /\ Posted' = Posted /\ db' = db /\ aborted' = aborted
      /\ \A s : Seen(s)' = Seen(s) /\ Wrote(s)' = Wrote(s) /\ Told(s)' = Told(s)
      /\ DbType' /\ AbortInv'
  BY <1>4, DataSame
<1>6. HandlerType'
  BY <1>1, <1>3, <1>4 DEF HandlerType, Busy
<1>7. ScopeInv'
  BY <1>1, <1>2, <1>4, <1>5 DEF ScopeInv, HandlerType, Active
<1>8. \A q \in Requests : This(q)' = This(q)
  BY <1>4 DEF This
<1>9. PendingInv'
  BY <1>1, <1>2, <1>4, <1>5, <1>8 DEF PendingInv, Active, Busy
<1>10. FreshInv'
  BY <1>1, <1>4, <1>5 DEF FreshInv, Gone, Busy
<1>11. PostedInv'
  BY <1>1, <1>2, <1>4, <1>5, <1>8 DEF PostedInv, Active
<1>12. ReadInv'
  BY <1>1, <1>2, <1>4, <1>5, <1>8 DEF ReadInv, Active, Held, Busy
<1> QED
  BY <1>5, <1>6, <1>7, <1>9, <1>10, <1>11, <1>12

\* The next block is one that nobody has heard of.
LEMMA EnterBlockKeeps ==
  ASSUME AtomicInv, Known, NEW r \in Requests, NextBlock(r), pc'[r] = "read" PROVE AtomicInv'
<1> USE DEF AtomicInv
<1>1. /\ pc[r] = "block" /\ pc'[r] = "read" /\ \A q \in Requests \ {r} : pc'[q] = pc[q]
      /\ pc' \in [Requests -> Points]
  BY DEF NextBlock, At, HandlerType, Points
<1>2. Active' = Active /\ r \in Active
  BY <1>1 DEF Active, Gone
<1>3. /\ UNCHANGED <<cache, uow, outbox, load, event, inside, overstayed>> /\ UNCHANGED dbVars
      /\ block[r] < load.blocks /\ block' = [block EXCEPT ![r] = block[r] + 1]
  BY <1>1 DEF NextBlock, At, HandlerType, lockVars
<1>4. load.blocks \in 1 .. MaxBlocks
  BY LoadsAssumption DEF HandlerType
<1>5. /\ sessions' = sessions /\ Settled' = Settled /\ Posted' = Posted /\ db' = db /\ aborted' = aborted
      /\ \A s : Seen(s)' = Seen(s) /\ Wrote(s)' = Wrote(s) /\ Told(s)' = Told(s)
      /\ DbType' /\ AbortInv'
  BY <1>3, DataSame
<1>6. block[r] \in 0 .. MaxBlocks /\ block'[r] = block[r] + 1 /\ \A q \in Requests \ {r} : block'[q] = block[q]
  BY <1>3 DEF HandlerType
<1>7. HandlerType'
  BY <1>1, <1>3, <1>4, <1>6, ServiceAssumption DEF HandlerType
<1>8. ScopeInv'
  BY <1>1, <1>2, <1>3, <1>5 DEF ScopeInv, Active
<1>9. \A q \in Requests \ {r} : This(q)' = This(q)
  BY <1>6 DEF This
<1>10. PendingInv'
  BY <1>1, <1>2, <1>3, <1>5, <1>9 DEF PendingInv, Active, Busy
<1>11. FreshInv'
  BY <1>1, <1>5, <1>6 DEF FreshInv, Gone, Busy
<1>12. PostedInv'
  BY <1>1, <1>2, <1>3, <1>5, <1>9 DEF PostedInv, Active
<1>13. ReadInv'
  BY <1>1, <1>2, <1>3, <1>5, <1>9 DEF ReadInv, Active, Held, Busy
<1> QED
  BY <1>5, <1>7, <1>8, <1>10, <1>11, <1>12, <1>13

\* A session starts to read: what it sees is settled.
LEMMA ReadKeeps ==
  ASSUME AtomicInv, Known, NEW r \in Requests, ReadRow(r), pc'[r] = "write" PROVE AtomicInv'
<1> USE DEF AtomicInv
<1>1. /\ pc[r] = "read" /\ pc'[r] = "write" /\ \A q \in Requests \ {r} : pc'[q] = pc[q]
      /\ pc' \in [Requests -> Points]
  BY DEF ReadRow, At, HandlerType, Points
<1>2. Active' = Active /\ r \in Active
  BY <1>1 DEF Active, Gone
<1>3. UNCHANGED <<cache, uow, outbox, load, block, event, inside, overstayed>>
  BY DEF ReadRow, lockVars
<1>4. PICK s \in DOMAIN sessions : uow[r] = s
  BY <1>1, <1>2 DEF ScopeInv
<1>5. Select(s)
  BY <1>1, <1>4 DEF ReadRow, At, HandlerType
<1>6. /\ DbType' /\ OthersKeep({s}) /\ UNCHANGED <<db, aborted>>
      /\ Seen(s)' = db.row /\ Wrote(s)' = Wrote(s) /\ Told(s)' = Told(s)
  BY <1>5, SelectEffect
<1>7. HandlerType'
  BY <1>1, <1>3 DEF HandlerType, Busy
<1>8. ScopeInv'
  BY <1>1, <1>2, <1>3, <1>6 DEF ScopeInv, OthersKeep, Active
<1>9. \A q \in Requests : This(q)' = This(q)
  BY <1>3 DEF This
<1>10. Posted' = Posted
  BY <1>6 DEF Posted
<1>11. PendingInv'
  BY <1>1, <1>2, <1>3, <1>6, <1>9 DEF PendingInv, OthersKeep, Active, Busy
<1>12. Settled' \subseteq Settled
  BY <1>6, <1>10 DEF Settled, OthersKeep
<1>13. FreshInv'
  BY <1>1, <1>3, <1>12 DEF FreshInv, Gone, Busy
<1>14. PostedInv'
  BY <1>1, <1>2, <1>3, <1>6, <1>9, <1>10 DEF PostedInv, OthersKeep, Active
<1>15. AbortInv'
  BY <1>6, <1>10 DEF AbortInv, AbortedLeavesNothing, OthersKeep
<1>16. ReadInv'
  <2>1. \A q \in Active \ {r} : uow[q] # s
    BY <1>2, <1>4 DEF ScopeInv, DbType
  <2> QED
    BY <1>1, <1>2, <1>3, <1>4, <1>6, <1>9, <1>10, <2>1 DEF ReadInv, OthersKeep, Active, Held, Busy
<1> QED
  BY <1>6, <1>7, <1>8, <1>11, <1>13, <1>14, <1>15, <1>16

LEMMA WriteKeeps ==
  ASSUME AtomicInv, Known, NEW r \in Requests, WriteRow(r) PROVE AtomicInv'
<1> USE DEF AtomicInv
<1>1. /\ pc[r] = "write" /\ pc'[r] = "id" /\ \A q \in Requests \ {r} : pc'[q] = pc[q]
      /\ pc' \in [Requests -> Points]
  BY DEF WriteRow, At, HandlerType, Points
<1>2. Active' = Active /\ r \in Active
  BY <1>1 DEF Active, Gone
<1>3. UNCHANGED <<cache, uow, outbox, load, block, event, inside, overstayed>>
  BY DEF WriteRow, lockVars
<1>4. PICK s \in DOMAIN sessions : uow[r] = s
  BY <1>1, <1>2 DEF ScopeInv
<1>5. This(r) \in Blocks
  BY <1>1, ThisIsBlock DEF Busy
<1>6. /\ DbType' /\ OthersKeep({s}) /\ UNCHANGED <<db, aborted>>
      /\ Seen(s)' = Seen(s) /\ Wrote(s)' = Wrote(s) \cup {This(r)} /\ Told(s)' = Told(s)
  BY <1>4, <1>5, UpdateEffect DEF WriteRow
<1>7. HandlerType'
  BY <1>1, <1>3 DEF HandlerType, Busy
<1>8. ScopeInv'
  BY <1>1, <1>2, <1>3, <1>6 DEF ScopeInv, OthersKeep, Active
<1>9. \A q \in Requests : This(q)' = This(q)
  BY <1>3 DEF This
<1>10. Posted' = Posted
  BY <1>6 DEF Posted
<1>11. PendingInv'
  BY <1>1, <1>2, <1>3, <1>4, <1>6, <1>9 DEF PendingInv, OthersKeep, Active, Busy
<1>12. Settled' \subseteq Settled
  BY <1>6, <1>10 DEF Settled, OthersKeep
<1>13. FreshInv'
  BY <1>1, <1>3, <1>12 DEF FreshInv, Gone, Busy
<1>14. PostedInv'
  BY <1>1, <1>2, <1>3, <1>6, <1>9, <1>10 DEF PostedInv, OthersKeep, Active
<1>15. AbortInv'
  BY <1>6, <1>10 DEF AbortInv, AbortedLeavesNothing, OthersKeep
<1>16. ReadInv'
  BY <1>1, <1>2, <1>3, <1>4, <1>6, <1>9, <1>10 DEF ReadInv, OthersKeep, Active, Held, Busy
<1> QED
  BY <1>6, <1>7, <1>8, <1>11, <1>13, <1>14, <1>15, <1>16

LEMMA InsertKeeps ==
  ASSUME AtomicInv, Known, NEW r \in Requests, PostEvent(r), pc'[r] = "commit" PROVE AtomicInv'
<1> USE DEF AtomicInv
<1>1. /\ pc[r] = "post" /\ pc'[r] = "commit" /\ \A q \in Requests \ {r} : pc'[q] = pc[q]
      /\ pc' \in [Requests -> Points]
  BY DEF PostEvent, At, HandlerType, Points
<1>2. Active' = Active /\ r \in Active
  BY <1>1 DEF Active, Gone
<1>3. UNCHANGED <<cache, uow, outbox, load, block, event, inside, overstayed>>
  BY DEF PostEvent, lockVars
<1>4. PICK s \in DOMAIN sessions : uow[r] = s /\ outbox[r] = s
  BY <1>1, <1>2 DEF ScopeInv
<1>5. This(r) \in Blocks /\ event[r] \in Int
  BY <1>1, ThisIsBlock DEF Busy, HandlerType
<1>6. /\ DbType' /\ OthersKeep({s}) /\ UNCHANGED <<db, aborted>>
      /\ Seen(s)' = Seen(s) /\ Wrote(s)' = Wrote(s) /\ Told(s)' = Told(s) \cup {This(r)}
  <2>1. InsertEvent(s, event[r], This(r))
    BY <1>1, <1>4 DEF PostEvent, At, HandlerType
  <2> QED
    BY <1>5, <2>1, InsertEffect
<1>7. HandlerType'
  BY <1>1, <1>3 DEF HandlerType, Busy
<1>8. ScopeInv'
  BY <1>1, <1>2, <1>3, <1>6 DEF ScopeInv, OthersKeep, Active
<1>9. \A q \in Requests : This(q)' = This(q)
  BY <1>3 DEF This
<1>10. Posted' = Posted
  BY <1>6 DEF Posted
<1>11. PendingInv'
  BY <1>1, <1>2, <1>3, <1>4, <1>6, <1>9 DEF PendingInv, OthersKeep, Active, Busy
<1>12. Settled' \subseteq Settled
  BY <1>6, <1>10 DEF Settled, OthersKeep
<1>13. FreshInv'
  BY <1>1, <1>3, <1>12 DEF FreshInv, Gone, Busy
<1>14. PostedInv'
  BY <1>1, <1>2, <1>3, <1>4, <1>6, <1>9, <1>10 DEF PostedInv, OthersKeep, Active
<1>15. AbortInv'
  BY <1>6, <1>10 DEF AbortInv, AbortedLeavesNothing, OthersKeep
<1>16. ReadInv'
  BY <1>1, <1>2, <1>3, <1>4, <1>6, <1>9, <1>10 DEF ReadInv, OthersKeep, Active, Held, Busy
<1> QED
  BY <1>6, <1>7, <1>8, <1>11, <1>13, <1>14, <1>15, <1>16

\* The end of a block settles this block and no other.
LEMMA EndBlockKeeps ==
  ASSUME AtomicInv, Known, NEW r \in Requests, EndBlock(r) PROVE AtomicInv'
<1> USE DEF AtomicInv
<1>1. /\ pc[r] \in {"commit", "rollback"} /\ pc'[r] = "block" /\ \A q \in Requests \ {r} : pc'[q] = pc[q]
      /\ pc' \in [Requests -> Points]
  BY DEF EndBlock, At, HandlerType, Points
<1>2. Active' = Active /\ r \in Active
  BY <1>1 DEF Active, Gone
<1>3. UNCHANGED <<cache, uow, outbox, load, block, event, inside, overstayed>>
  BY DEF EndBlock, lockVars
<1>4. PICK s \in DOMAIN sessions : uow[r] = s
  BY <1>1, <1>2 DEF ScopeInv
<1>5. PICK b \in Blocks : b = This(r)
  BY <1>1, ThisIsBlock DEF Busy
<1>6. /\ DbType' /\ OthersKeep({s})
      /\ Seen(s)' = {} /\ Wrote(s)' = {} /\ Told(s)' = {}
      /\ (Reaches(s) /\ pc[r] = "commit") \/ GivesUp(b)
  <2>1. Commit(s) \/ CommitFails(s, b) \/ Rollback(s, b)
    BY <1>4, <1>5 DEF EndBlock
  <2>2. pc[r] = "rollback" => Rollback(s, b)
    BY <1>4, <1>5 DEF EndBlock, At
  <2> QED
    BY <1>1, <2>1, <2>2, EndEffect
<1>7. \A q \in Active \ {r} : uow[q] # s
  BY <1>2, <1>4 DEF ScopeInv, DbType
<1>8. Wrote(s) \cup Told(s) \subseteq {b}
  BY <1>4, <1>5, <1>7 DEF PendingInv
<1>9. b \notin Settled
  BY <1>1, <1>5 DEF FreshInv, This, HandlerType, Gone, Busy
<1>10. Reaches(s) => b \in Told(s) /\ b \in Wrote(s) /\ pc[r] = "commit"
  <2>1. CASE pc[r] = "commit"
    BY <1>2, <1>4, <1>5, <2>1 DEF PostedInv, ReadInv
  <2>2. CASE pc[r] = "rollback"
    <3>1. Rollback(s, b)
      BY <1>4, <1>5, <2>2 DEF EndBlock, At
    <3>2. b \in aborted'
      BY <3>1 DEF Rollback
    <3> QED
      BY <1>9, <3>2 DEF Reaches, Settled
  <2> QED
    BY <1>1, <2>1, <2>2
<1>11. \A q \in Requests : This(q)' = This(q)
  BY <1>3 DEF This
<1>12. Posted' = (IF Reaches(s) THEN Posted \cup {b} ELSE Posted) /\ Posted \subseteq Posted'
  <2>1. Reaches(s) => Posted' = Posted \cup {b}
    BY <1>8, <1>10 DEF Reaches
  <2>2. GivesUp(b) => Posted' = Posted
    BY DEF GivesUp, Posted
  <2> QED
    BY <1>6, <2>1, <2>2
<1>13. HandlerType'
  BY <1>1, <1>3 DEF HandlerType, Busy
<1>14. ScopeInv'
  BY <1>1, <1>2, <1>3, <1>6 DEF ScopeInv, OthersKeep, Active
<1>15. PendingInv'
  <2> SUFFICES ASSUME NEW t \in DOMAIN sessions, t # s, NEW c \in Wrote(t) \cup Told(t)
               PROVE  \E q \in Active : uow'[q] = t /\ pc'[q] \in Busy /\ c = This(q)'
    BY <1>2, <1>6 DEF PendingInv, OthersKeep
  <2>1. PICK q \in Active : uow[q] = t /\ pc[q] \in Busy /\ c = This(q)
    BY DEF PendingInv
  <2> QED
    BY <1>1, <1>3, <1>4, <1>11, <2>1 DEF Active
<1>16. Settled' \subseteq Settled \cup {b}
  <2>1. db'.row \subseteq Settled \cup {b}
    BY <1>6, <1>8 DEF Reaches, GivesUp, Settled
  <2>2. aborted' \subseteq Settled \cup {b}
    BY <1>6 DEF Reaches, GivesUp, Settled
  <2>3. Posted' \subseteq Settled \cup {b}
    BY <1>12 DEF Settled
  <2>4. \A t \in DOMAIN sessions' : Seen(t)' \subseteq Settled
    BY <1>6 DEF OthersKeep, Settled
  <2> QED
    BY <2>1, <2>2, <2>3, <2>4 DEF Settled
<1>17. FreshInv'
  BY <1>1, <1>3, <1>5, <1>16 DEF FreshInv, Gone, Busy, This
<1>18. PostedInv'
  <2>1. db'.row \subseteq Posted'
    <3>1. CASE Reaches(s)
      BY <1>8, <1>12, <3>1 DEF Reaches, PostedInv
    <3>2. CASE GivesUp(b)
      BY <1>12, <3>2 DEF GivesUp, PostedInv
    <3> QED
      BY <1>6, <3>1, <3>2
  <2>2. \A t \in DOMAIN sessions' : Seen(t)' \subseteq Posted'
    BY <1>6, <1>12 DEF PostedInv, OthersKeep
  <2>3. ASSUME NEW q \in Active, NEW t \in DOMAIN sessions', uow'[q] = t, pc'[q] = "commit"
        PROVE  This(q)' \in Told(t)'
    <3>1. q # r /\ pc[q] = "commit" /\ uow[q] = t /\ t # s /\ t \in DOMAIN sessions
      BY <1>1, <1>3, <1>6, <1>7, <2>3 DEF OthersKeep, Active
    <3>2. This(q) \in Told(t)
      BY <3>1 DEF PostedInv
    <3> QED
      BY <1>6, <1>11, <3>1, <3>2 DEF OthersKeep, Active
  <2> QED
    BY <1>2, <2>1, <2>2, <2>3 DEF PostedInv
<1>19. AbortInv'
  <2>1. \A t \in DOMAIN sessions' : Seen(t)' \cap aborted' = {}
    <3>1. \A t \in DOMAIN sessions : b \notin Seen(t)
      BY <1>9 DEF Settled
    <3> QED
      BY <1>6, <3>1 DEF AbortInv, OthersKeep, Reaches, GivesUp
  <2>2. aborted' \cap db'.row = {}
    BY <1>6, <1>8, <1>9 DEF AbortInv, AbortedLeavesNothing, Reaches, GivesUp, Settled
  <2>3. aborted' \cap Posted' = {}
    BY <1>6, <1>9, <1>12 DEF AbortInv, AbortedLeavesNothing, Reaches, GivesUp, Settled
  <2> QED
    BY <2>1, <2>2, <2>3 DEF AbortInv, AbortedLeavesNothing
<1>20. ReadInv'
  <2>1. \A q \in Active : pc'[q] \in Held => q \in inside'
    BY <1>1, <1>3 DEF ReadInv, Held, Busy, Active
  <2>2. ASSUME NEW q \in Active, NEW t \in DOMAIN sessions', uow'[q] = t,
               pc'[q] \in {"write", "id", "spin", "post", "commit"}
        PROVE  /\ q # r /\ t # s /\ t \in DOMAIN sessions /\ uow[q] = t /\ pc[q] = pc'[q]
               /\ Wrote(t)' = Wrote(t) /\ Seen(t)' = Seen(t)
    BY <1>1, <1>3, <1>6, <1>7, <2>2 DEF OthersKeep, Active
  <2>3. ASSUME overstayed' = "never", Reaches(s), NEW q \in Active, pc'[q] \in Held PROVE q = r
    <3>1. q \in inside /\ r \in inside
      BY <1>1, <1>2, <1>3, <2>1, <2>3 DEF ReadInv, Held, Busy
    <3> QED
      BY <1>3, <2>3, <3>1 DEF Known, LockInv, Exclusive
  <2>4. ASSUME overstayed' = "never" PROVE Posted' \subseteq db'.row
    <3>1. CASE Reaches(s)
      <4>1. Seen(s) = db.row /\ b \in Wrote(s)
        BY <1>2, <1>3, <1>4, <1>10, <2>4, <3>1 DEF ReadInv
      <4> QED
        BY <1>3, <1>12, <2>4, <3>1, <4>1 DEF Reaches, ReadInv
    <3>2. CASE GivesUp(b)
      <4>1. Posted' = Posted
        BY <3>2 DEF GivesUp, Posted
      <4> QED
        BY <1>3, <2>4, <3>2, <4>1 DEF GivesUp, ReadInv
    <3> QED
      BY <1>6, <3>1, <3>2
  <2>5. ASSUME overstayed' = "never", NEW q \in Active, NEW t \in DOMAIN sessions', uow'[q] = t,
               pc'[q] \in {"write", "id", "spin", "post", "commit"}
        PROVE  Seen(t)' = db'.row
    <3>1. CASE Reaches(s)
      BY <2>2, <2>3, <2>5, <3>1 DEF Held, Busy
    <3>2. CASE GivesUp(b)
      BY <1>3, <2>2, <2>5, <3>2 DEF GivesUp, ReadInv
    <3> QED
      BY <1>6, <3>1, <3>2
  <2>6. ASSUME NEW q \in Active, NEW t \in DOMAIN sessions', uow'[q] = t,
               pc'[q] \in {"id", "spin", "post", "commit"}
        PROVE  This(q)' \in Wrote(t)'
    <3>1. This(q) \in Wrote(t)
      BY <2>2, <2>6 DEF ReadInv
    <3> QED
      BY <1>11, <2>2, <2>6, <3>1 DEF Active
  <2> QED
    BY <1>2, <2>1, <2>4, <2>5, <2>6 DEF ReadInv
<1> QED
  BY <1>6, <1>13, <1>14, <1>15, <1>17, <1>18, <1>19, <1>20

\* Requests that end, or die with their process, take their sessions with them.
LEMMA LeaveKeeps ==
  ASSUME AtomicInv, Known, NEW gone \in SUBSET Active, NEW dead,
         \A r \in gone : uow[r] \in dead,
         \A t \in DOMAIN sessions \cap dead : \E r \in gone : uow[r] = t,
         DropSessions(dead), ClearKeys(gone), Forget(gone), load' = load,
         pc' \in [Requests -> Points],
         \A r \in gone : pc'[r] \in Gone,
         \A r \in Requests \ gone : pc'[r] = pc[r] /\ (r \in inside => r \in inside'),
         overstayed' = "never" => overstayed = "never"
  PROVE  AtomicInv'
<1> USE DEF AtomicInv
<1>1. /\ DbType' /\ OthersKeep(dead) /\ UNCHANGED <<db, aborted>>
      /\ \A s \in DOMAIN sessions \cap dead : Seen(s)' = {} /\ Wrote(s)' = {} /\ Told(s)' = {}
  BY DropEffect
<1>2. Active' = Active \ gone
  BY DEF Active
<1>3. /\ \A r \in Requests \ gone : block'[r] = block[r] /\ uow'[r] = uow[r] /\ outbox'[r] = outbox[r]
      /\ \A r \in gone : block'[r] = 0 /\ uow'[r] = 0 /\ outbox'[r] = 0
  BY DEF Forget, Active
<1>4. cache' = [q \in DOMAIN cache \ gone |-> cache[q]]
  BY DEF ClearKeys, Restrict
<1>5. HandlerType'
  <2>1. \A r \in Requests : pc'[r] \in Busy => block'[r] # 0
    BY <1>3 DEF HandlerType, Gone, Busy
  <2>2. /\ block' \in [Requests -> 0 .. MaxBlocks] /\ event' \in [Requests -> Int]
        /\ uow' \in [Requests -> Nat] /\ outbox' \in [Requests -> Nat]
    BY ServiceAssumption DEF HandlerType, Forget
  <2>3. cache' \in [DOMAIN cache' -> Nat]
    BY <1>4 DEF HandlerType
  <2> QED
    BY <2>1, <2>2, <2>3 DEF HandlerType
<1>6. ScopeInv'
  <2>1. DOMAIN cache' = Active' /\ \A r \in Active' : cache'[r] = cache[r]
    BY <1>2, <1>4 DEF ScopeInv
  <2>2. \A r \in Requests \ Active' : uow'[r] = 0 /\ outbox'[r] = 0
    BY <1>2, <1>3 DEF ScopeInv
  <2> QED
    BY <1>1, <1>2, <1>3, <2>1, <2>2 DEF ScopeInv, OthersKeep, Active
<1>7. \A r \in Requests \ gone : This(r)' = This(r)
  BY <1>3 DEF This
\* Nobody else has one of these sessions.
<1>8. \A q \in Active', t \in DOMAIN sessions : uow[q] = t => t \notin dead
  <2> SUFFICES ASSUME NEW q \in Active', NEW t \in DOMAIN sessions, uow[q] = t, t \in dead PROVE FALSE
    OBVIOUS
  <2>1. PICK r \in gone : uow[r] = t
    OBVIOUS
  <2>2. t # 0
    BY DEF DbType
  <2>3. q = r
    BY <1>2, <2>1, <2>2 DEF ScopeInv
  <2> QED
    BY <1>2, <2>3
<1>9. PendingInv'
  <2> SUFFICES ASSUME NEW t \in DOMAIN sessions, NEW b \in Wrote(t)' \cup Told(t)'
               PROVE  \E q \in Active' : uow'[q] = t /\ pc'[q] \in Busy /\ b = This(q)'
    BY <1>1 DEF PendingInv, OthersKeep
  <2>1. t \notin dead /\ b \in Wrote(t) \cup Told(t)
    BY <1>1 DEF OthersKeep
  <2>2. PICK q \in Active : uow[q] = t /\ pc[q] \in Busy /\ b = This(q)
    BY <2>1 DEF PendingInv
  <2>3. q \notin gone
    BY <2>1, <2>2
  <2> QED
    BY <1>2, <1>3, <1>7, <2>2, <2>3 DEF Active
<1>10. Posted' = Posted
  BY <1>1 DEF Posted
<1>11. Settled' \subseteq Settled
  BY <1>1, <1>10 DEF Settled, OthersKeep
<1>12. FreshInv'
  BY <1>3, <1>11 DEF FreshInv
<1>13. PostedInv'
  <2>1. \A t \in DOMAIN sessions' : Seen(t)' \subseteq Posted'
    BY <1>1, <1>10 DEF PostedInv, OthersKeep
  <2>2. ASSUME NEW q \in Active', NEW t \in DOMAIN sessions', uow'[q] = t, pc'[q] = "commit"
        PROVE  This(q)' \in Told(t)'
    <3>1. q \in Active /\ q \in Requests \ gone /\ t \in DOMAIN sessions /\ uow[q] = t /\ pc[q] = "commit"
      BY <1>1, <1>2, <1>3, <2>2 DEF OthersKeep, Active
    <3>2. t \notin dead
      BY <1>8, <2>2, <3>1
    <3>3. This(q) \in Told(t)
      BY <3>1 DEF PostedInv
    <3> QED
      BY <1>1, <1>7, <3>1, <3>2, <3>3 DEF OthersKeep
  <2> QED
    BY <1>1, <1>10, <2>1, <2>2 DEF PostedInv
<1>14. AbortInv'
  BY <1>1, <1>10 DEF AbortInv, AbortedLeavesNothing, OthersKeep
<1>15. ReadInv'
  <2>1. \A q \in Active' : pc'[q] \in Held => q \in inside'
    BY <1>2 DEF ReadInv, Active
  <2>2. ASSUME NEW q \in Active', NEW t \in DOMAIN sessions', uow'[q] = t
        PROVE  /\ q \in Active /\ t \in DOMAIN sessions /\ uow[q] = t /\ pc'[q] = pc[q]
               /\ Wrote(t)' = Wrote(t) /\ Seen(t)' = Seen(t) /\ This(q)' = This(q)
    <3>1. q \in Active /\ q \in Requests \ gone /\ t \in DOMAIN sessions /\ uow[q] = t
      BY <1>1, <1>2, <1>3, <2>2 DEF OthersKeep, Active
    <3> QED
      BY <1>1, <1>7, <1>8, <2>2, <3>1 DEF OthersKeep
  <2>3. \A q \in Active', t \in DOMAIN sessions' :
          uow'[q] = t /\ pc'[q] \in {"id", "spin", "post", "commit"} => This(q)' \in Wrote(t)'
    BY <2>2 DEF ReadInv
  <2>4. ASSUME overstayed' = "never"
        PROVE  /\ Posted' \subseteq db'.row
               /\ \A q \in Active', t \in DOMAIN sessions' :
                    uow'[q] = t /\ pc'[q] \in {"write", "id", "spin", "post", "commit"} => Seen(t)' = db'.row
    BY <1>1, <1>10, <2>2, <2>4 DEF ReadInv
  <2> QED
    BY <2>1, <2>3, <2>4 DEF ReadInv
<1> QED
  BY <1>1, <1>5, <1>6, <1>9, <1>12, <1>13, <1>14, <1>15

-----------------------------------------------------------------------------
(* The steps that only move a request on.                                  *)

LEMMA MoveDefs ==
  /\ Busy \subseteq Held /\ Held \cap (Gone \cup {"new", "uow", "outbox", "lock", "leave"}) = {}
  /\ Held \cup Gone \cup {"new", "uow", "outbox", "lock", "leave"} = Points
  BY DEF Busy, Held, Gone, Points

LEMMA EnterLockKeeps ==
  ASSUME AtomicInv, Known, NEW r \in Requests, EnterLock(r) PROVE AtomicInv'
<1>1. pc[r] = "lock" /\ UNCHANGED <<cache, block, uow, outbox, load, event>> /\ UNCHANGED dbVars
  BY DEF EnterLock, At
<1>2. r \in Active /\ event' \in [Requests -> Int]
  BY <1>1 DEF Active, Gone, AtomicInv, HandlerType
<1>3. CASE pc' = [pc EXCEPT ![r] = "block"] /\ Acquire(r)
  BY <1>1, <1>2, <1>3, MoveKeeps DEF Acquire, Points, Gone, Busy, Held
<1>4. CASE pc' = [pc EXCEPT ![r] = "leave"] /\ (AcquireUnheard \/ Refused)
  <2>1. inside' = inside /\ overstayed' = overstayed
    BY <1>4 DEF AcquireUnheard, Refused, lockVars
  <2> QED
    BY <1>1, <1>2, <1>4, <2>1, MoveKeeps DEF Points, Gone, Busy, Held
<1> QED
  BY <1>3, <1>4 DEF EnterLock, At

LEMMA ExitLockKeeps ==
  ASSUME AtomicInv, Known, NEW r \in Requests, ExitLock(r) PROVE AtomicInv'
<1>1. /\ pc[r] = "exit" /\ pc' = [pc EXCEPT ![r] = "leave"]
      /\ UNCHANGED <<cache, block, uow, outbox, load, event>> /\ UNCHANGED dbVars
  BY DEF ExitLock, At
<1>2. r \in Active /\ event' \in [Requests -> Int]
  BY <1>1 DEF Active, Gone, AtomicInv, HandlerType
<1>3. LeaveBlock({r})
  BY DEF ExitLock, Release, LeaveKey
<1>4. inside' = inside \ {r} /\ (overstayed' = "never" => overstayed = "never")
  BY <1>3 DEF LeaveBlock
<1> QED
  BY <1>1, <1>2, <1>4, MoveKeeps DEF Points, Gone, Busy, Held

\* Steps within a block.
LEMMA InBlockKeeps ==
  ASSUME AtomicInv, Known, NEW r \in Requests, NEW to \in {"spin", "post", "rollback"},
         pc[r] \in Busy, pc' = [pc EXCEPT ![r] = to],
         to # "rollback" => pc[r] \in {"id", "spin"},
         UNCHANGED <<cache, block, uow, outbox, load>>, UNCHANGED dbVars, UNCHANGED lockVars,
         event' \in [Requests -> Int]
  PROVE  AtomicInv'
<1>1. r \in Active
  BY DEF Active, Gone, Busy
<1>2. inside' = inside /\ overstayed' = overstayed
  BY DEF lockVars
<1> QED
  BY <1>1, <1>2, MoveKeeps DEF Points, Gone, Busy, Held

\* The ids that get_id returns are numbers.
LEMMA IssuedIsId ==
  ASSUME IdInv, IdInv', NEW p \in Procs, GetId(p)
  PROVE  NewId(p, last'[p], sequence'[p]) \in Int
<1>1. clock[p] \in Nat /\ sequence'[p] \in Nat
  BY DEF IdInv, IdTypeOK
<1>2. last'[p] = clock[p]
  BY DEF GetId, IdInNewMilli, IdInSameMilli, NextMilli, Issue, IdInv, IdTypeOK
<1> QED
  BY <1>1, <1>2, NewIdNat

LEMMA NewEventKeeps ==
  ASSUME AtomicInv, Known, NEW r \in Requests, NewEvent(r), IdInv' PROVE AtomicInv'
<1> DEFINE p == Proc[r]
<1>1. p \in Procs
  BY ServiceAssumption
<1>2. /\ UNCHANGED <<cache, block, uow, outbox, load>> /\ UNCHANGED dbVars /\ UNCHANGED lockVars
      /\ event \in [Requests -> Int]
  BY DEF NewEvent, AtomicInv, HandlerType
<1>3. CASE pc[r] \in {"id", "spin"} /\ pc' = [pc EXCEPT ![r] = "post"] /\ GetId(p)
           /\ event' = [event EXCEPT ![r] = NewId(p, last'[p], sequence'[p])]
  <2>1. NewId(p, last'[p], sequence'[p]) \in Int
    BY <1>1, <1>3, IssuedIsId DEF Known
  <2>2. event' \in [Requests -> Int]
    BY <1>2, <1>3, <2>1
  <2> QED
    BY <1>2, <1>3, <2>2, InBlockKeeps DEF Busy
<1>4. CASE pc[r] = "id" /\ pc' = [pc EXCEPT ![r] = "spin"] /\ event' = event
  BY <1>2, <1>4, InBlockKeeps DEF Busy
<1>5. CASE pc[r] = "id" /\ pc' = [pc EXCEPT ![r] = "rollback"] /\ event' = event
  BY <1>2, <1>5, InBlockKeeps DEF Busy
<1> QED
  BY <1>3, <1>4, <1>5 DEF NewEvent, At, GetId, Issued

LEMMA BodyKeeps ==
  ASSUME AtomicInv, Known, NEW r \in Requests,
         BodyRaises(r) \/ (ReadRow(r) /\ StatementRefused(uow[r]) /\ pc'[r] = "rollback")
                       \/ (PostEvent(r) /\ InsertDuplicate(event[r]) /\ pc'[r] = "rollback")
  PROVE  AtomicInv'
<1>1. event \in [Requests -> Int] /\ pc \in [Requests -> Points]
  BY DEF AtomicInv, HandlerType
<1>2. pc[r] \in Busy /\ pc' = [pc EXCEPT ![r] = "rollback"]
  BY <1>1 DEF BodyRaises, ReadRow, PostEvent, At, InBlock, Busy
<1>3. /\ UNCHANGED <<cache, block, uow, outbox, load, event>> /\ UNCHANGED lockVars
  BY DEF BodyRaises, ReadRow, PostEvent
<1>4. UNCHANGED dbVars
  BY DEF BodyRaises, StatementRefused, InsertDuplicate
<1> QED
  BY <1>1, <1>2, <1>3, <1>4, InBlockKeeps

\* No further block.
LEMMA NoBlockKeeps ==
  ASSUME AtomicInv, Known, NEW r \in Requests, NextBlock(r), pc'[r] = "exit" PROVE AtomicInv'
<1>1. pc \in [Requests -> Points] /\ event \in [Requests -> Int]
  BY DEF AtomicInv, HandlerType
<1>2. /\ pc[r] = "block" /\ pc' = [pc EXCEPT ![r] = "exit"]
      /\ UNCHANGED <<cache, block, uow, outbox, load, event>> /\ UNCHANGED dbVars
      /\ inside' = inside /\ overstayed' = overstayed
  BY <1>1 DEF NextBlock, At, lockVars
<1>3. r \in Active
  BY <1>2 DEF Active, Gone
<1> QED
  BY <1>1, <1>2, <1>3, MoveKeeps DEF Points, Gone, Busy, Held

LEMMA EndRequestKeeps ==
  ASSUME AtomicInv, Known, NEW r \in Requests, EndRequest(r) PROVE AtomicInv'
<1>1. /\ pc[r] = "leave" /\ pc' = [pc EXCEPT ![r] = "done"] /\ pc \in [Requests -> Points]
      /\ ClearKeys({r}) /\ DropSessions({uow[r]}) /\ Forget({r}) /\ load' = load
      /\ inside' = inside /\ overstayed' = overstayed
  BY DEF EndRequest, At, lockVars, AtomicInv, HandlerType
<1>2. {r} \in SUBSET Active
  BY <1>1 DEF Active, Gone
<1>3. pc' \in [Requests -> Points]
  BY <1>1 DEF Points
<1> QED
  BY <1>1, <1>2, <1>3, LeaveKeeps DEF Gone

LEMMA ProcessDiesKeeps ==
  ASSUME AtomicInv, Known, NEW p \in Procs, ProcessDies(p) PROVE AtomicInv'
<1> DEFINE dying == {r \in Requests : Proc[r] = p /\ pc[r] \notin {"new", "done", "late", "dead"}}
           dead  == {uow[r] : r \in dying} \cup {outbox[r] : r \in dying}
<1>1. /\ LeaveKey(dying) /\ DropSessions(dead) /\ ClearKeys(dying) /\ Forget(dying) /\ load' = load
      /\ pc' = [r \in Requests |-> IF r \in dying THEN "dead" ELSE pc[r]]
  BY DEF ProcessDies
<1>2. dying \in SUBSET Active
  BY DEF Active, Gone
<1>3. \A r \in dying : uow[r] \in dead
  OBVIOUS
<1>4. \A t \in DOMAIN sessions \cap dead : \E r \in dying : uow[r] = t
  <2> SUFFICES ASSUME NEW r \in dying, NEW t \in DOMAIN sessions, outbox[r] = t PROVE uow[r] = t
    OBVIOUS
  <2>1. t # 0
    BY DEF AtomicInv, DbType
  <2> QED
    BY <1>2, <2>1 DEF AtomicInv, ScopeInv
<1> HIDE DEF dying, dead
<1>5. /\ \A r \in Requests \ dying : r \in inside => r \in inside'
      /\ overstayed' = "never" => overstayed = "never"
  BY <1>1 DEF LeaveKey, LeaveBlock
<1>6. pc' \in [Requests -> Points]
  BY <1>1 DEF AtomicInv, HandlerType, Points
<1> QED
  BY <1>1, <1>2, <1>3, <1>4, <1>5, <1>6, LeaveKeeps DEF Gone, Active

\* Clocks and keys.
LEMMA OutsideKeeps ==
  ASSUME AtomicInv, UNCHANGED <<cache, handlerVars>>, UNCHANGED dbVars, inside' = inside,
         overstayed' = "never" => overstayed = "never"
  PROVE  AtomicInv'
<1> USE DEF AtomicInv
<1>1. /\ sessions' = sessions /\ Settled' = Settled /\ Posted' = Posted /\ db' = db /\ aborted' = aborted
      /\ \A s : Seen(s)' = Seen(s) /\ Wrote(s)' = Wrote(s) /\ Told(s)' = Told(s)
      /\ DbType' /\ AbortInv'
  BY DataSame
<1>2. UNCHANGED <<cache, load, pc, block, uow, outbox, event>>
  BY DEF handlerVars
<1>3. Active' = Active /\ \A r \in Requests : This(r)' = This(r)
  BY <1>2 DEF Active, This
<1>4. HandlerType'
  BY <1>2 DEF HandlerType
<1>5. ScopeInv'
  BY <1>1, <1>2, <1>3 DEF ScopeInv
<1>6. PendingInv'
  BY <1>1, <1>2, <1>3 DEF PendingInv, Active
<1>7. FreshInv'
  BY <1>1, <1>2 DEF FreshInv
<1>8. PostedInv'
  BY <1>1, <1>2, <1>3 DEF PostedInv, Active
<1>9. ReadInv'
  BY <1>1, <1>2, <1>3 DEF ReadInv, Active
<1> QED
  BY <1>1, <1>4, <1>5, <1>6, <1>7, <1>8, <1>9

LEMMA AtomicInvNext == AtomicInv /\ Known /\ Known' /\ [Next]_vars => AtomicInv'
<1> SUFFICES ASSUME AtomicInv, Known, Known', [Next]_vars PROVE AtomicInv'
  OBVIOUS
<1>1. CASE UNCHANGED vars
  BY <1>1, OutsideKeeps DEF vars, lockVars
<1>2. ASSUME NEW r \in Requests, RequestStep(r) PROVE AtomicInv'
  <2>1. \A to \in Points, from \in Points : At(r, from, to) => pc'[r] = to
    BY DEF At, AtomicInv, HandlerType
  <2>2. CASE EnterLock(r) \/ ExitLock(r) \/ EndRequest(r) \/ LateTask(r) \/ BeginRequest(r)
    BY <2>2, EnterLockKeeps, ExitLockKeeps, EndRequestKeeps, LateKeeps, BeginKeeps
  <2>3. CASE InjectUnitOfWork(r) \/ InjectOutBox(r) \/ WriteRow(r) \/ EndBlock(r) \/ BodyRaises(r)
    BY <2>3, InjectUnitOfWorkKeeps, InjectOutBoxKeeps, WriteKeeps, EndBlockKeeps, BodyKeeps
  <2>4. CASE NextBlock(r)
    <3>1. pc'[r] \in {"read", "exit"}
      BY <2>1, <2>4 DEF NextBlock, Points
    <3> QED
      BY <2>4, <3>1, EnterBlockKeeps, NoBlockKeeps
  <2>5. CASE ReadRow(r)
    <3>1. pc'[r] = "write" \/ (pc'[r] = "rollback" /\ StatementRefused(uow[r]))
      BY <2>1, <2>5 DEF ReadRow, Points
    <3> QED
      BY <2>5, <3>1, ReadKeeps, BodyKeeps
  <2>6. CASE PostEvent(r)
    <3>1. pc'[r] = "commit" \/ (pc'[r] = "rollback" /\ InsertDuplicate(event[r]))
      BY <2>1, <2>6 DEF PostEvent, Points
    <3> QED
      BY <2>6, <3>1, InsertKeeps, BodyKeeps
  <2>7. CASE NewEvent(r)
    BY <2>7, NewEventKeeps DEF Known
  <2> QED
    BY <1>2, <2>2, <2>3, <2>4, <2>5, <2>6, <2>7 DEF RequestStep
<1>3. ASSUME NEW p \in Procs, ProcessDies(p) PROVE AtomicInv'
  BY <1>3, ProcessDiesKeeps
<1>4. ASSUME NEW p \in Procs, SetClock(p) PROVE AtomicInv'
  BY <1>4, OutsideKeeps DEF SetClock, lockVars
<1>5. CASE LockExpires
  BY <1>5, OutsideKeeps DEF LockExpires, KeyExpires
<1> QED
  BY <1>1, <1>2, <1>3, <1>4, <1>5 DEF Next

\* The invariant holds, together with those of the lock and of the ids.
THEOREM ServiceInvariant == Spec => [](AtomicInv /\ Known)
<1>1. Init => AtomicInv /\ Known
  BY AtomicInvInit, LockInvInit, IdInvInit DEF Init, Known
<1>2. Known /\ [Next]_vars => Known'
  BY LockStep, IdStep, LockInvNext, IdInvNext DEF Known
<1> QED
  BY <1>1, <1>2, AtomicInvNext, PTL DEF Spec

\* The variables of the service keep their types.
THEOREM ServiceTypes == Spec => []TypeOK
<1>1. AtomicInv /\ Known => TypeOK
  <2> SUFFICES ASSUME AtomicInv, Known PROVE TypeOK
    OBVIOUS
  <2>1. load \in Loads /\ IdTypeOK /\ pc \in [Requests -> Points] /\ block \in [Requests -> 0 .. MaxBlocks]
    BY DEF AtomicInv, HandlerType, Known, IdInv
  <2>2. key \in BOOLEAN /\ overstayed \in {"never", "now", "before"} /\ inside \subseteq Requests
    BY DEF Known, LockInv
  <2>3. db.row \subseteq Blocks /\ Posted \subseteq Blocks /\ aborted \subseteq Blocks
    BY DEF AtomicInv, DbType, Events, Posted
  <2>4. \A s \in DOMAIN sessions : sessions[s] \in Sessions
    BY DEF AtomicInv, DbType
  <2> QED
    BY <2>1, <2>2, <2>3, <2>4 DEF TypeOK, Sessions
<1> QED
  BY <1>1, ServiceInvariant, PTL

\* A change and its event share a fate: no change is committed without its event, and, unless the
\* lock is overstayed, no event without its change (unit_of_work_impl.py, out_box.py).
THEOREM ServiceOutboxAgrees == Spec => []OutboxAgrees
<1>1. AtomicInv => OutboxAgrees
  BY DEF AtomicInv, PostedInv, ReadInv, OutboxAgrees
<1> QED
  BY <1>1, ServiceInvariant, PTL

\* What is given up, by an exception, a failed commit or the end of a process, leaves nothing
\* behind (AsyncSqlAlchemyUnitOfWork.__aexit__).
THEOREM ServiceAborts == Spec => []AbortedLeavesNothing
<1>1. AtomicInv => AbortedLeavesNothing
  BY DEF AtomicInv, AbortInv
<1> QED
  BY <1>1, ServiceInvariant, PTL

\* The scope has a cache for each request under way and for no other, and no two requests have the
\* same session (InjectorMiddleware, request_scope.py).
THEOREM ServiceScopes == Spec => []ScopeIsOfActive
<1>1. AtomicInv => ScopeIsOfActive
  BY DEF AtomicInv, ScopeInv, ScopeIsOfActive, Active, Gone
<1> QED
  BY <1>1, ServiceInvariant, PTL
=============================================================================
