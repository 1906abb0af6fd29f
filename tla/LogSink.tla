------------------------------- MODULE LogSink -------------------------------
(***************************************************************************)
(* The asynchronous logstash sink of zoelogger.  Each message logged is a  *)
(* task of the event loop, which puts it into a buffer; senders take       *)
(* messages from the buffer and write each to a connection of their own,   *)
(* which they open when they have a message and none.  Messages are        *)
(* numbered in the order in which they are logged.                         *)
(***************************************************************************)
EXTENDS Integers, Sequences, SequencesExt

CONSTANT Senders

VARIABLES
  logged,  \* how many messages have been logged
  tasks,   \* those whose task has not run yet
  started, \* _initialize has been called
  buffer,  \* the queue
  holds,   \* the message each sender is trying to send, or 0
  conn,    \* the connection of each sender
  written, \* what each sender has written to connections that stood
  lost     \* the messages given up

logVars == <<logged, tasks, started, buffer, holds, conn, written, lost>>

\* A connection breaks, and is seen to be closing later; "failed" while a sender waits after it
\* could not connect.
Connections == {"none", "failed", "open", "broken", "closing"}

LogInit ==
  /\ logged = 0
  /\ tasks = <<>>
  /\ started = FALSE
  /\ buffer = <<>>
  /\ holds = [s \in Senders |-> 0]
  /\ conn = [s \in Senders |-> "none"]
  /\ written = [s \in Senders |-> <<>>]
  /\ lost = {}

\* A coroutine logs: loguru makes a task of the sink's coroutine.
Log ==
  /\ logged' = logged + 1
  /\ tasks' = Append(tasks, logged + 1)
  /\ UNCHANGED <<started, buffer, holds, conn, written, lost>>

\* A thread without an event loop logs: loguru drops the message.
LogInThread ==
  /\ logged' = logged + 1
  /\ lost' = lost \cup {logged + 1}
  /\ UNCHANGED <<tasks, started, buffer, holds, conn, written>>

\* AsyncLogStashSink.__call__: the buffer and the senders are made by the first task.
WriteBuffer ==
  /\ tasks # <<>>
  /\ tasks' = Tail(tasks)
  /\ started' = TRUE
  /\ buffer' = Append(buffer, Head(tasks))
  /\ UNCHANGED <<logged, holds, conn, written, lost>>

\* The sender takes a message and sends it, or starts to connect.
Send(s) ==
  /\ started /\ holds[s] = 0 /\ buffer # <<>>
  /\ buffer' = Tail(buffer)
  /\ LET m == Head(buffer)
     IN  \/ /\ conn[s] = "open"
            /\ written' = [written EXCEPT ![s] = Append(@, m)]
            /\ UNCHANGED <<holds, conn, lost>>
         \/ /\ conn[s] = "broken"
            /\ lost' = lost \cup {m}
            /\ UNCHANGED <<holds, conn, written>>
         \/ /\ conn[s] \in {"none", "closing"}
            /\ conn' = [conn EXCEPT ![s] = "none"]
            /\ holds' = [holds EXCEPT ![s] = m]
            /\ UNCHANGED <<written, lost>>
  /\ UNCHANGED <<logged, tasks, started>>

\* The connection is made and the message written.
Connect(s) ==
  /\ holds[s] # 0 /\ conn[s] = "none"
  /\ conn' = [conn EXCEPT ![s] = "open"]
  /\ written' = [written EXCEPT ![s] = Append(@, holds[s])]
  /\ holds' = [holds EXCEPT ![s] = 0]
  /\ UNCHANGED <<logged, tasks, started, buffer, lost>>

\* Connecting fails, and the sender sleeps for its backoff.
ConnectFails(s) ==
  /\ holds[s] # 0 /\ conn[s] = "none"
  /\ conn' = [conn EXCEPT ![s] = "failed"]
  /\ UNCHANGED <<logged, tasks, started, buffer, holds, written, lost>>

\* Mutant: after its backoff the sender puts the message back.
GiveBack(s) ==
  /\ conn[s] = "failed"
  /\ conn' = [conn EXCEPT ![s] = "none"]
  /\ buffer' = Append(buffer, holds[s])
  /\ holds' = [holds EXCEPT ![s] = 0]
  /\ UNCHANGED <<logged, tasks, started, written, lost>>

\* Mutant: the exception of a connection that cannot be made ends the sender's task.
SenderEnds(s) == FALSE /\ UNCHANGED logVars

\* After its backoff the sender has no writer, and gives the message up.
GiveUp(s) ==
  /\ conn[s] = "failed"
  /\ conn' = [conn EXCEPT ![s] = "none"]
  /\ lost' = lost \cup {holds[s]}
  /\ holds' = [holds EXCEPT ![s] = 0]
  /\ UNCHANGED <<logged, tasks, started, buffer, written>>

\* The peer is gone; later the transport notices.
Break(s) ==
  /\ conn[s] = "open"
  /\ conn' = [conn EXCEPT ![s] = "broken"]
  /\ UNCHANGED <<logged, tasks, started, buffer, holds, written, lost>>

Notice(s) ==
  /\ conn[s] = "broken"
  /\ conn' = [conn EXCEPT ![s] = "closing"]
  /\ UNCHANGED <<logged, tasks, started, buffer, holds, written, lost>>
=============================================================================
