------------------------------- MODULE IdWorker -------------------------------
(***************************************************************************)
(* The ids of domain events (snowflake, event.py): a timestamp, the number *)
(* of the datacenter and worker, and a sequence number within the          *)
(* millisecond.  Each process has one IdWorker, whose memory goes with it, *)
(* and a clock that may be set forward and back.                           *)
(*                                                                         *)
(* get_id has no await, so the coroutines of a process run it one at a     *)
(* time.  A timestamp is counted from TWEPOCH.                             *)
(***************************************************************************)
EXTENDS Integers, Sequences

CONSTANTS Procs,  \* processes
          Part,   \* datacenter_id and worker_id of each, as one number
          Parts,  \* 2^10 in the code
          Seqs,   \* SEQUENCE_MASK + 1, 4096 in the code
          MaxTime \* a bound on the clocks

ASSUME PartsAssumption == Parts \in Nat \ {0} /\ Part \in [Procs -> 0 .. Parts - 1]
ASSUME SeqsAssumption  == Seqs \in Nat \ {0, 1}
ASSUME TimeAssumption  == MaxTime \in Nat

VARIABLES
  clock,    \* the system time of each process
  last,     \* last_timestamp
  sequence, \* sequence
  spinning, \* the processes that wait in _til_next_millis
  issued    \* the ids given out since the process was started

idVars == <<clock, last, sequence, spinning, issued>>

NewId(p, timestamp, seq) == (timestamp * Parts + Part[p]) * Seqs + seq

IdInit ==
  /\ clock = [p \in Procs |-> 0]
  /\ last = [p \in Procs |-> -1]
  /\ sequence = [p \in Procs |-> 0]
  /\ spinning = {}
  /\ issued = [p \in Procs |-> <<>>]

\* The id that get_id has just returned.
Issued(p) == NewId(p, last[p], sequence[p])

Issue(p, timestamp, seq) ==
  /\ last' = [last EXCEPT ![p] = timestamp]
  /\ sequence' = [sequence EXCEPT ![p] = seq]
  /\ issued' = [issued EXCEPT ![p] = Append(@, NewId(p, timestamp, seq))]
  /\ UNCHANGED clock

\* timestamp < self.last_timestamp: get_id raises.
ClockIsBack(p) == clock[p] < last[p]

\* A later millisecond than that of the last id.
IdInNewMilli(p) ==
  /\ p \notin spinning /\ ~ClockIsBack(p) /\ clock[p] # last[p]
  /\ Issue(p, clock[p], 0)
  /\ UNCHANGED spinning

\* Mutant: the sequence is not masked.
SequenceUnmasked(p) ==
  /\ p \notin spinning /\ clock[p] = last[p] /\ sequence[p] < Seqs
  /\ Issue(p, clock[p], sequence[p] + 1)
  /\ UNCHANGED spinning

\* The same millisecond.
IdInSameMilli(p) ==
  /\ p \notin spinning /\ clock[p] = last[p] /\ sequence[p] + 1 < Seqs
  /\ Issue(p, clock[p], sequence[p] + 1)
  /\ UNCHANGED spinning

\* The sequence is used up: _til_next_millis spins, and with it the whole process, ...
SequenceWraps(p) ==
  /\ p \notin spinning /\ clock[p] = last[p] /\ sequence[p] + 1 = Seqs
  /\ sequence' = [sequence EXCEPT ![p] = 0]
  /\ spinning' = spinning \cup {p}
  /\ UNCHANGED <<clock, last, issued>>

\* Mutant: the wait ends within the same millisecond.
NextMilliAtOnce(p) ==
  /\ p \in spinning /\ clock[p] >= last[p]
  /\ Issue(p, clock[p], 0)
  /\ spinning' = spinning \ {p}

\* ... until the clock is past the last timestamp.
NextMilli(p) ==
  /\ p \in spinning /\ clock[p] > last[p]
  /\ Issue(p, clock[p], 0)
  /\ spinning' = spinning \ {p}

GetId(p) == IdInNewMilli(p) \/ IdInSameMilli(p) \/ NextMilli(p)

\* The clock goes on, or is set.
ClockMoves(p) ==
  /\ \E t \in 0 .. MaxTime : clock' = [clock EXCEPT ![p] = t]
  /\ UNCHANGED <<last, sequence, spinning, issued>>

\* The process ends and is started again: IdWorker(1, 1, 0).
IdRestart(p) ==
  /\ last' = [last EXCEPT ![p] = -1]
  /\ sequence' = [sequence EXCEPT ![p] = 0]
  /\ spinning' = spinning \ {p}
  /\ issued' = [issued EXCEPT ![p] = <<>>]
  /\ UNCHANGED clock

IdNext == \E p \in Procs : GetId(p) \/ SequenceWraps(p) \/ ClockMoves(p) \/ IdRestart(p)

IdSpec == IdInit /\ [][IdNext]_idVars

-----------------------------------------------------------------------------
(* Properties.                                                             *)

IdTypeOK ==
  /\ clock \in [Procs -> Nat]
  /\ last \in [Procs -> Nat \cup {-1}]
  /\ sequence \in [Procs -> 0 .. Seqs - 1]
  /\ spinning \subseteq Procs
  /\ issued \in [Procs -> Seq(Nat)]

\* However the clock is set and however often the sequence wraps, an id is greater than all that
\* the process has given out before it since it was started: none comes twice.
IdsIncrease ==
  \A p \in Procs : \A n \in DOMAIN issued[p] : \A m \in 1 .. n - 1 : issued[p][m] < issued[p][n]
=============================================================================
