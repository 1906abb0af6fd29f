------------------------------- MODULE Pipeline -------------------------------
(***************************************************************************)
(* What the report pipeline promises for each item given to the agent: it  *)
(* is accepted or refused, once; what is accepted leaves the queue once,   *)
(* with one of the consumers, and is then delivered or lost, for good.     *)
(* When stop() has come to its end, nothing accepted before it is still    *)
(* queued.                                                                 *)
(***************************************************************************)
EXTENDS Integers

CONSTANT Items

VARIABLES
  copies, \* how often each item is in each place
  phase,  \* of stop()
  due     \* the items accepted when stop() was called last

pipeline == <<copies, phase, due>>

Places == {"blocked", "refused", "queued", "taken", "delivered", "lost"}

\* One copy, in one place; or none, of what has not been produced.
At == [place \in Places \cup {"new"} |-> [p \in Places |-> IF p = place THEN 1 ELSE 0]]

Moves ==
  {<<"new", "blocked">>, <<"new", "refused">>, <<"new", "queued">>, <<"blocked", "queued">>,
   <<"queued", "taken">>, <<"queued", "lost">>, <<"taken", "delivered">>, <<"taken", "lost">>}

Init ==
  /\ copies = [i \in Items |-> At["new"]]
  /\ phase = "running"
  /\ due = {}

\* Items go on, any number of them in one step.
MoveOn ==
  \A i \in Items :
    \/ copies'[i] = copies[i]
    \/ \E m \in Moves : copies[i] = At[m[1]] /\ copies'[i] = At[m[2]]

Accepted == {i \in Items : copies[i] \notin {At["new"], At["blocked"]}}

Work == MoveOn /\ UNCHANGED <<phase, due>>

Stop ==
  /\ phase = "running" /\ phase' = "stopping"
  /\ due' = Accepted
  /\ UNCHANGED copies

\* stop() raises what a call raised; it may be called again.
StopFails ==
  /\ phase = "stopping" /\ phase' = "running"
  /\ MoveOn
  /\ UNCHANGED due

StopEnds ==
  /\ phase = "stopping" /\ phase' = "stopped"
  /\ \A i \in due : copies[i] # At["queued"]
  /\ UNCHANGED <<copies, due>>

Next == Work \/ Stop \/ StopFails \/ StopEnds

Spec == Init /\ [][Next]_pipeline
=============================================================================
