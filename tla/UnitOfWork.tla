------------------------------ MODULE UnitOfWork ------------------------------
(***************************************************************************)
(* Units of work and the outbox (unit_of_work_impl.py, out_box.py): blocks *)
(* of statements on SQLAlchemy sessions.  A block reads the row it works   *)
(* on, changes it and adds an event to the outbox, a table of the same     *)
(* database; the database has row locks and snapshot reads.                *)
(*                                                                         *)
(* The row's value is the set of the blocks whose changes it contains.     *)
(***************************************************************************)
EXTENDS Integers, Sequences

CONSTANT Blocks \* the "async with uow" blocks of all requests

VARIABLES
  db,       \* what is committed: the row and the outbox
  sessions, \* the AsyncSession objects
  aborted   \* blocks that were left by an exception, and whose commit did not reach the database

dbVars == <<db, sessions, aborted>>

NewSession == [state |-> "clean", seen |-> {}, wrote |-> {}, events |-> {}]

DbInit == db = [row |-> {}, events |-> {}] /\ sessions = <<>> /\ aborted = {}

\* select: the first statement starts a transaction.
Select(s) ==
  /\ sessions[s].state # "broken"
  /\ sessions' = [sessions EXCEPT ![s].state = "open", ![s].seen = db.row]
  /\ UNCHANGED <<db, aborted>>

\* A session whose commit has failed refuses statements until it is rolled back.
StatementRefused(s) == sessions[s].state = "broken" /\ UNCHANGED dbVars

\* update: waits for other transactions that have changed the row.
Update(s, b) ==
  /\ \A t \in DOMAIN sessions \ {s} : sessions[t].wrote = {}
  /\ sessions' = [sessions EXCEPT ![s].wrote = @ \cup {b}]
  /\ UNCHANGED <<db, aborted>>

HasId(events, id) == \E e \in events : e.id = id

\* OutBox.add: the insert waits for other transactions that have inserted the same id, ...
InsertEvent(s, id, b) ==
  /\ ~HasId(db.events, id)
  /\ \A t \in DOMAIN sessions \ {s} : ~HasId(sessions[t].events, id)
  /\ sessions' = [sessions EXCEPT ![s].state = "open",
                                  ![s].events = @ \cup {[id |-> id, block |-> b]}]
  /\ UNCHANGED <<db, aborted>>

\* ... and raises if it is there: Duplicate entry.
InsertDuplicate(id) == HasId(db.events, id) /\ UNCHANGED dbVars

\* What a commit of the session makes of the database.
Committed(s) ==
  [row    |-> IF sessions[s].wrote = {} THEN db.row ELSE sessions[s].seen \cup sessions[s].wrote,
   events |-> db.events \cup sessions[s].events]

\* __aexit__ without an exception: commit().
Commit(s) ==
  /\ sessions[s].state # "broken"
  /\ db' = Committed(s)
  /\ sessions' = [sessions EXCEPT ![s] = NewSession]
  /\ UNCHANGED aborted

\* commit() raises and nothing is rolled back: the session cannot be used.  If the connection
\* broke, the database may have committed all the same.
CommitFails(s, b) ==
  /\ sessions' = [sessions EXCEPT ![s] = [NewSession EXCEPT !.state = "broken"]]
  /\ \/ db' = Committed(s) /\ sessions[s].state = "open" /\ UNCHANGED aborted
     \/ aborted' = aborted \cup {b} /\ UNCHANGED db

\* Mutant: an exception passes through __aexit__ without a rollback.
RollbackNot(s, b) == aborted' = aborted \cup {b} /\ UNCHANGED <<db, sessions>>

\* __aexit__ with an exception: rollback().
Rollback(s, b) ==
  /\ sessions' = [sessions EXCEPT ![s] = NewSession]
  /\ aborted' = aborted \cup {b}
  /\ UNCHANGED db

\* Sessions that are dropped: the pool, or the end of the connection, rolls them back.
DropSessions(dead) ==
  /\ sessions' = [s \in DOMAIN sessions |-> IF s \in dead THEN NewSession ELSE sessions[s]]
  /\ UNCHANGED <<db, aborted>>

-----------------------------------------------------------------------------
Posted == {e.block : e \in db.events}

\* Whatever fails, in whatever order: an exception in the block, the commit, its answer, the
\* process: a block that was given up has left nothing in the database, not even by a later
\* commit of the same session.
AbortedLeavesNothing == aborted \cap (db.row \cup Posted) = {}
=============================================================================
