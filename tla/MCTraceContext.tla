---------------------------- MODULE MCTraceContext ----------------------------
(* Small instances of TraceContext for TLC. *)
EXTENDS TraceContext
CONSTANTS main, task

Nested      == [Sender EXCEPT !.inherit = TRUE]   \* a client of the API that may nest another one
Alone(call) == [call EXCEPT !.carrier = "none"]  \* among callers and services without an agent

\* A Flask application under werkzeug that calls other services; a worker that streams rows and
\* runs traced functions; a message handler with a client that nests and sends; a consumer that
\* polls and sends records.
Web      == {Alone(Werkzeug), Alone(Flask), Alone(Requests)}
Worker   == {Runnable, PsycopgStream}
Handler  == {RabbitmqDeliver, Nested}
Poller   == {KafkaPoll, KafkaSend}

All   == {Web, Worker, Handler, Poller}
Mixed == {{Trace, Werkzeug, KafkaPoll, Requests}}
Nests == {Web}
=============================================================================
