----------------------------- MODULE SegmentStore -----------------------------
(***************************************************************************)
(* What the tracing core promises to the agent: the segments it archives   *)
(* are complete and final.  A span belongs to a segment from its creation  *)
(* on and is recorded when it ends.  The segment is archived once, when    *)
(* nothing in it is open; from then on neither its spans nor the traces it *)
(* is related to change, whatever the application does next.               *)
(*                                                                         *)
(* There is one exception: a span can be opened again after its end.  Then *)
(* it is recorded again, and its segment goes on, even after it has been   *)
(* archived, and is archived again whenever nothing in it is open.         *)
(***************************************************************************)
EXTENDS Integers, Sequences, FiniteSets, SequencesExt

CONSTANT Numbers   \* the names of segments and of spans

VARIABLES
  open,     \* the spans of each segment that are still to be recorded
  recorded, \* what has been recorded of each segment, in the order of its ends
  related,  \* the traces each segment is related to
  archived, \* the segments archived, in order
  reopened  \* the segments of which a span was opened again

store == <<open, recorded, related, archived, reopened>>

Init ==
  /\ open = [c \in Numbers |-> {}]
  /\ recorded = [c \in Numbers |-> <<>>]
  /\ related = [c \in Numbers |-> <<>>]
  /\ archived = <<>>
  /\ reopened = {}

SpansRecorded(c) == {recorded[c][n].span : n \in DOMAIN recorded[c]}

\* The segment has not been archived, or goes on.
GoesOn(c) == Contains(archived, c) => c \in reopened

\* The segment c alone is changed.
Only(c) ==
  \A d \in Numbers \ {c} :
    open'[d] = open[d] /\ recorded'[d] = recorded[d] /\ related'[d] = related[d]

\* What has been recorded of c stays, and says the same unless c was reopened.
KeepsRecords(c) ==
  /\ DOMAIN recorded'[c] = DOMAIN recorded[c]
  /\ \A n \in DOMAIN recorded[c] : recorded'[c][n].span = recorded[c][n].span
  /\ c \notin reopened' => recorded'[c] = recorded[c]

\* A span is created; a reference can relate the segment to another trace, then or later.
Open(c) ==
  /\ GoesOn(c) /\ Only(c)
  /\ \E s \in Numbers : /\ \A d \in Numbers : s \notin open[d] \cup SpansRecorded(d)
                        /\ open'[c] = open[c] \cup {s}
  /\ recorded'[c] = recorded[c]
  /\ UNCHANGED <<archived, reopened>>

RelateTo(c) ==
  /\ GoesOn(c) /\ Only(c) /\ open[c] # {}
  /\ open'[c] = open[c]
  /\ KeepsRecords(c)
  /\ UNCHANGED <<archived, reopened>>

\* A span ends, and is recorded for good.
Record(c) ==
  /\ GoesOn(c) /\ Only(c)
  /\ \E s \in open[c] : /\ open'[c] = open[c] \ {s}
                        /\ Last(recorded'[c]).span = s
  /\ IsPrefix(recorded[c], recorded'[c]) /\ Len(recorded'[c]) = Len(recorded[c]) + 1
  /\ related'[c] = related[c]
  /\ UNCHANGED <<archived, reopened>>

\* A span is opened again after it has been recorded.
Reopen(c) ==
  /\ Only(c)
  /\ \E s \in SpansRecorded(c) \ open[c] : open'[c] = open[c] \cup {s}
  /\ KeepsRecords(c)
  /\ related'[c] = related[c]
  /\ reopened' = reopened \cup {c}
  /\ UNCHANGED archived

Archive(c) ==
  /\ GoesOn(c) /\ open[c] = {} /\ recorded[c] # <<>>
  /\ archived' = Append(archived, c)
  /\ UNCHANGED <<open, recorded, related, reopened>>

Next == \E c \in Numbers : Open(c) \/ RelateTo(c) \/ Record(c) \/ Reopen(c) \/ Archive(c)

Spec == Init /\ [][Next]_store
=============================================================================
