-------------------------------- MODULE Plugins --------------------------------
(***************************************************************************)
(* What the instrumentation plugins ask of the tracing core: each wraps a  *)
(* function of a third-party library and opens one span around it.  What   *)
(* is put into tags, layer and name of the span is left out.               *)
(***************************************************************************)

\* Only an exit span is injected, only new_entry_span takes a carrier, and extract is called on
\* entry spans.  Only clients stream, and they let no other span take theirs; no consumer is an
\* outermost server.
Calls ==
  {call \in [kind    : {"local", "entry", "exit"},
             comp    : {"General", "Own"}, \* the component, General for the outermost server only
             peer    : BOOLEAN,            \* the span gets a peer
             inherit : BOOLEAN,            \* entry: takes the span of a General one; exit: may be taken
             carrier : {"none",            \* no carrier, or an empty one
                        "sent",            \* span.inject() goes with the request
                        "taken",           \* the carrier of the request is given to new_entry_span
                        "polled"},         \* span.extract() is called in the body, perhaps for every record
             streams : BOOLEAN] :          \* the body is that of a generator
     /\ call.carrier = "sent" => call.kind = "exit"
     /\ call.carrier \in {"taken", "polled"} => call.kind = "entry"
     /\ call.carrier = "polled" => call.comp = "Own"
     /\ call.streams => call.kind = "exit" /\ ~call.inherit}

Local == [kind |-> "local", comp |-> "Own", peer |-> FALSE, inherit |-> FALSE,
          carrier |-> "none", streams |-> FALSE]
Server   == [Local EXCEPT !.kind = "entry", !.peer = TRUE, !.carrier = "taken"]
Consumer == [Server EXCEPT !.peer = FALSE]
Client   == [Local EXCEPT !.kind = "exit", !.peer = TRUE]
Sender   == [Client EXCEPT !.carrier = "sent"]

-----------------------------------------------------------------------------
(* Decorators.                                                             *)

Trace    == Local
Runnable == Local

(* Servers.                                                                *)

HttpServer == [Server EXCEPT !.comp = "General"]
Werkzeug   == [Server EXCEPT !.comp = "General"]
Bottle     == [Server EXCEPT !.inherit = TRUE]
FastAPI    == [Server EXCEPT !.inherit = TRUE]
Flask      == [Server EXCEPT !.inherit = TRUE]
AioHttpServer == Server
Django     == Server
Falcon     == Server
Pyramid    == Server
Sanic      == Server
Tornado    == Server
FastAPISkywalkingMiddleware == [Server EXCEPT !.carrier = "none"]

(* Clients that send a carrier.                                            *)

AioHttpClient == Sender
Requests      == Sender
Urllib3       == Sender
UrllibRequest == Sender

(* Producers and consumers of messages.                                    *)

AioRmqPublish    == Sender
AioRmqConsume    == Consumer
AmqpPublish      == Sender
AmqpConsume      == Consumer
RabbitmqPublish  == Sender
RabbitmqDeliver  == Consumer
RabbitmqCallback == Consumer
CelerySend       == Sender
CeleryTasks      == {Server, Local} \* local if the message does not name its origin
KafkaSend        == Sender
KafkaPoll        == [Consumer EXCEPT !.carrier = "polled"]
ConfluentProduce == Sender
ConfluentMessage == [Consumer EXCEPT !.carrier = "polled"]

(* Clients of databases.                                                   *)

AioRedis       == Client
AsyncPG        == Client
Elasticsearch  == Client
MySQL          == Client
MySQLClient    == Client
PyMongoCommand == Client
PyMongoBulk    == Client
PyMongoCursor  == Client
PyMySQL        == Client
Psycopg2Execute     == Client
Psycopg2ExecuteMany == Client
Psycopg2CallProc    == Client
PsycopgExecute          == Client
PsycopgExecuteMany      == Client
PsycopgAsyncExecute     == Client
PsycopgAsyncExecuteMany == Client
PsycopgStream           == [Client EXCEPT !.streams = TRUE]
PsycopgAsyncStream      == [Client EXCEPT !.streams = TRUE]
Redis == Client
=============================================================================
