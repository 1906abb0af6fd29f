---------------------------- MODULE MCAgentReport ----------------------------
(* Small instances of AgentReport for TLC. *)
EXTENDS AgentReport

Config(p, o, i) == [protocol |-> p, order |-> o, items |-> i]

\* Items 1 to 3 are segments, 4 is a log record, 5 and 6 are snapshots.
AllItems == 1 .. 6
ItemChan == [i \in AllItems |-> IF i <= 3 THEN "trace" ELSE IF i = 4 THEN "log" ELSE "snapshot"]

\* Three segments do not fit into their queue, nor do two snapshots.
Sizes == [ch \in Channels |-> IF ch = "snapshot" THEN 1 ELSE 2]

\* Segments alone under each protocol; snapshots beside an idle trace queue; a segment and a log
\* record, which http sends one by one and as a batch.
SafetyConfigs ==
  {Config(p, <<"trace">>, 1 .. 3) : p \in {"grpc", "http", "kafka"}}
    \cup {Config("grpc", <<"trace", "snapshot">>, {5, 6}), Config("http", <<"trace", "log">>, {1, 4})}

\* Two segments under each protocol, for liveness.
LiveConfigs == {Config(p, <<"trace">>, {1, 2}) : p \in {"grpc", "http", "kafka"}}

SnapshotConfigs == {Config("grpc", <<"trace", "snapshot">>, {5, 6})}

\* An application that does not stop producing before the agent is stopped: items that are settled
\* are produced anew.
Reuse ==
  /\ fini = "running"
  /\ archived # {}
  /\ AllQueued \cup waiting = {} /\ \A ch \in Channels, k \in Consumers : hand[ch][k] = <<>>
  /\ archived' = {} /\ delivered' = {} /\ lost' = {} /\ abandoned' = {} /\ stopSet' = {}
  /\ UNCHANGED <<config, queue, unfinished, waiting, genVars, loopVars, finished, fini, finiPos, up>>

EndlessSpec == Init /\ [][Next \/ Reuse]_vars /\ Fairness
=============================================================================
