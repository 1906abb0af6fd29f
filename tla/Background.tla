------------------------------ MODULE Background ------------------------------
(***************************************************************************)
(* The background tasks of a service in its event loop: the listener of    *)
(* zoe_nacos_config and the senders of zoelogger's asynchronous sink.  The *)
(* listener reports each update and each exception through logging, which  *)
(* zoelogger hands on to loguru and so to the sink, as do the requests.    *)
(***************************************************************************)
EXTENDS NacosConfig, LogSink

CONSTANTS Loads,  \* bounds on publications, failures and messages of the application
          Watched \* the messages whose way is followed

ASSUME LoadsAssumption == Loads \subseteq [published : Nat, faults : Nat, logs : Nat]

VARIABLE left  \* how many of them are still to come

vars == <<configVars, logVars, left>>

Init ==
  /\ ConfigInit /\ LogInit
  /\ left \in Loads

Spend(what) == left[what] > 0 /\ left' = [left EXCEPT ![what] = @ - 1]

-----------------------------------------------------------------------------
(* The listener, and the server.                                           *)

PublishOther == Publish /\ Spend("published") /\ UNCHANGED logVars

LoadConfig ==
  \/ Load(published) /\ UNCHANGED <<logVars, left>>
  \/ \E body \in Errors : Load(body) /\ Spend("faults") /\ UNCHANGED logVars

\* "config not changed" is logged at a level that is not handed on.
ListenQuietly == (Poll \/ NothingNew \/ Change) /\ UNCHANGED <<logVars, left>>

\* logger.exception
ListenFails == RequestFails /\ Spend("faults") /\ Log

\* logger.info, or logger.exception for what cannot be parsed
ListenUpdates ==
  \/ Fetched(published) /\ Log /\ UNCHANGED left
  \/ \E body \in Errors : Fetched(body) /\ Spend("faults") /\ Log

Listen == LoadConfig \/ ListenQuietly \/ ListenFails \/ ListenUpdates

-----------------------------------------------------------------------------
(* The application and the senders.                                        *)

Running == listening \notin {"start", "exited"}

AppLogs == Running /\ (Log \/ LogInThread) /\ Spend("logs") /\ UNCHANGED configVars

RunTask == WriteBuffer /\ UNCHANGED <<configVars, left>>

SenderRuns(s) == (Send(s) \/ Connect(s) \/ GiveUp(s)) /\ UNCHANGED <<configVars, left>>

CollectorFails(s) == (ConnectFails(s) \/ Break(s)) /\ Spend("faults") /\ UNCHANGED configVars

ConnectionCloses(s) == Notice(s) /\ UNCHANGED <<configVars, left>>

-----------------------------------------------------------------------------
Next ==
  \/ PublishOther \/ Listen \/ AppLogs \/ RunTask
  \/ \E s \in Senders : SenderRuns(s) \/ CollectorFails(s) \/ ConnectionCloses(s)

Spec == Init /\ [][Next]_vars

\* The event loop runs every task that is ready, requests are answered or fail, and a connection
\* attempt comes to an end.  Nobody must publish or log, and no failure must happen.
Fairness ==
  /\ WF_vars(LoadConfig) /\ WF_vars(ListenQuietly) /\ WF_vars(ListenUpdates) /\ WF_vars(RunTask)
  /\ \A s \in Senders : WF_vars(SenderRuns(s))

FairSpec == Spec /\ Fairness

-----------------------------------------------------------------------------
(* Properties.                                                             *)

\* Every variable stays in its type.
TypeOK ==
  /\ published \in Contents
  /\ noted \in Contents \cup Errors \cup {Default}
  /\ object \in [Fields -> Parsable \cup {Default}]
  /\ listening \in {"start", "exited", "sleep", "poll", "fetch"}
  /\ logged \in Nat /\ started \in BOOLEAN
  /\ tasks \in Seq(1 .. logged) /\ buffer \in Seq(1 .. logged)
  /\ holds \in [Senders -> 0 .. logged] /\ conn \in [Senders -> Connections]
  /\ written \in [Senders -> Seq(1 .. logged)] /\ lost \subseteq 1 .. logged
  /\ left \in [published : Nat, faults : Nat, logs : Nat]

\* A version is noted before it is parsed, and noted again when a server fails or when what is
\* published changes in between: still, a version that can be parsed is noted only if the fields
\* of the class have it, all of them, so that no update is missed for good.
NotedIsApplied ==
  noted \in Parsable => \A a \in Annotated : object[a] = noted

Increasing(seq) == \A m, n \in DOMAIN seq : m < n => seq[m] < seq[n]

\* Connections are made, broken and made again: what a sender has written or holds is in the order
\* of logging, as is what is waiting, and no message is in two places.
LogsInOrder ==
  /\ Increasing(buffer \o tasks)
  /\ \A s \in Senders :
       LET sent == IF holds[s] = 0 THEN written[s] ELSE Append(written[s], holds[s])
       IN  /\ Increasing(sent)
           /\ ToSet(sent) \cap (ToSet(buffer \o tasks) \cup lost) = {}
           /\ \A t \in Senders \ {s} : (ToSet(written[t]) \cup {holds[t]}) \cap ToSet(sent) = {}
  /\ lost \cap ToSet(buffer \o tasks) = {}

\* When publishing and failures end with a version that can be parsed, the fields declared by the
\* class come to have it, whatever was noted, fetched or published before.
ConfigCatchesUp ==
  \A v \in Parsable :
    <>[](published = v /\ listening # "exited") => <>[](\A a \in Annotated : object[a] = v)

\* Every message logged is written or given up, however the connections fail.
LogsLeave ==
  \A m \in Watched :
    (m <= logged) ~> (m \in lost \/ \E s \in Senders : m \in ToSet(written[s]))
=============================================================================
