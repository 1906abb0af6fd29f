---------------------------- MODULE Service_proofs ----------------------------
(***************************************************************************)
(* Proofs about the lock, the ids and the service that is built with them. *)
(* Each component is proved on its own; a step of the service is a step of *)
(* each component or leaves it alone, so that it inherits what they        *)
(* promise, for any number of requests, processes, blocks and any clocks.  *)
(***************************************************************************)
EXTENDS Service, TLAPS

-----------------------------------------------------------------------------
(* The lock.                                                               *)

\* While no holder has overstayed, the key is there whenever somebody is inside.
LockInv ==
  /\ key \in BOOLEAN /\ overstayed \in {"never", "now", "before"} /\ inside \subseteq Requests
  /\ overstayed = "now" \/ (inside # {} => key)
  /\ Exclusive

LEMMA LockInvInit == LockInit => LockInv
  BY DEF LockInit, LockInv, Exclusive

LEMMA LockInvNext == LockInv /\ [LockNext]_lockVars => LockInv'
<1> SUFFICES ASSUME LockInv, [LockNext]_lockVars PROVE LockInv'
  OBVIOUS
<1> USE DEF LockInv, Exclusive
<1>1. CASE UNCHANGED lockVars
  BY <1>1 DEF lockVars
<1>2. ASSUME NEW r \in Requests, Acquire(r) PROVE LockInv'
  BY <1>2 DEF Acquire
<1>3. ASSUME NEW r \in Requests, Release(r) PROVE LockInv'
  BY <1>3 DEF Release, LeaveBlock
<1>4. ASSUME NEW gone \in SUBSET Requests, LeaveKey(gone) PROVE LockInv'
  BY <1>4 DEF LeaveKey, LeaveBlock
<1>5. CASE AcquireUnheard
  BY <1>5 DEF AcquireUnheard
<1>6. CASE Refused
  BY <1>6 DEF Refused, lockVars
<1>7. CASE KeyExpires
  BY <1>7 DEF KeyExpires
<1> QED
  BY <1>1, <1>2, <1>3, <1>4, <1>5, <1>6, <1>7 DEF LockNext

\* The lock excludes, for any number of requests, until a holder overstays it, and again once the
\* block has been empty: Lock.__aenter__ and __aexit__ (lock_factory.py).
THEOREM LockExcludes == LockSpec => []Exclusive
<1>1. LockInv => Exclusive
  BY DEF LockInv
<1> QED
  BY <1>1, LockInvInit, LockInvNext, PTL DEF LockSpec

-----------------------------------------------------------------------------
(* The ids.                                                                *)

LEMMA TimesMonotone == \A a, b, c \in Nat : a <= b => a * c <= b * c
  OBVIOUS

LEMMA TimesNat == \A a, b \in Nat : a * b \in Nat
  OBVIOUS

\* An id is a natural number, and grows with the timestamp and, within one, with the sequence.
LEMMA NewIdNat ==
  ASSUME NEW p \in Procs, NEW t \in Nat, NEW s \in Nat
  PROVE  NewId(p, t, s) \in Nat
<1>1. Part[p] \in Nat /\ Parts \in Nat /\ Seqs \in Nat
  BY PartsAssumption, SeqsAssumption
<1>2. t * Parts + Part[p] \in Nat
  BY <1>1, TimesNat
<1> QED
  BY <1>1, <1>2, TimesNat DEF NewId

LEMMA NewIdGrowsWithSequence ==
  ASSUME NEW p \in Procs, NEW t \in Nat, NEW s \in Nat, NEW u \in Nat, s < u
  PROVE  NewId(p, t, s) < NewId(p, t, u)
<1> DEFINE high == (t * Parts + Part[p]) * Seqs
<1>1. high \in Nat
  <2>1. Part[p] \in Nat /\ Parts \in Nat /\ Seqs \in Nat
    BY PartsAssumption, SeqsAssumption
  <2>2. t * Parts + Part[p] \in Nat
    BY <2>1, TimesNat
  <2> QED
    BY <2>1, <2>2, TimesNat
<1> HIDE DEF high
<1>2. high + s < high + u
  BY <1>1
<1> QED
  BY <1>2 DEF NewId, high

LEMMA NewIdGrowsWithTime ==
  ASSUME NEW p \in Procs, NEW t \in Nat, NEW v \in Nat, t < v,
         NEW s \in 0 .. Seqs - 1, NEW u \in Nat
  PROVE  NewId(p, t, s) < NewId(p, v, u)
<1> DEFINE low  == t * Parts + Part[p]
           high == v * Parts + Part[p]
<1>1. Part[p] \in Nat /\ Parts \in Nat \ {0} /\ Seqs \in Nat \ {0}
  BY PartsAssumption, SeqsAssumption
<1>2. t * Parts \in Nat /\ v * Parts \in Nat /\ (t + 1) * Parts = t * Parts + Parts
  BY <1>1, TimesNat
<1>3. (t + 1) * Parts <= v * Parts
  BY <1>1, TimesMonotone
<1>4. low \in Nat /\ high \in Nat /\ low + 1 <= high
  BY <1>1, <1>2, <1>3
<1> HIDE DEF low, high
<1>5. (low + 1) * Seqs <= high * Seqs
  BY <1>1, <1>4, TimesMonotone
<1>6. low * Seqs \in Nat /\ high * Seqs \in Nat /\ (low + 1) * Seqs = low * Seqs + Seqs
  BY <1>1, <1>4, TimesNat
<1>7. low * Seqs + s < high * Seqs + u
  BY <1>1, <1>5, <1>6
<1> QED
  BY <1>7 DEF NewId, low, high

\* The greatest id that can have been given out when the process is at its last timestamp.
Top(p) == NewId(p, last[p], IF p \in spinning THEN Seqs - 1 ELSE sequence[p])

BelowTop(p) == \A n \in DOMAIN issued[p] : issued[p][n] <= Top(p)

IdInv ==
  /\ IdTypeOK
  /\ \A p \in Procs : last[p] = -1 => issued[p] = <<>> /\ p \notin spinning
  /\ \A p \in Procs : BelowTop(p)
  /\ IdsIncrease

LEMMA IdInvInit == IdInit => IdInv
<1> SUFFICES ASSUME IdInit PROVE IdInv
  OBVIOUS
<1> USE DEF IdInit
<1>1. 0 \in 0 .. Seqs - 1
  BY SeqsAssumption
<1>2. IdTypeOK
  BY <1>1 DEF IdTypeOK
<1>3. \A p \in Procs : BelowTop(p)
  BY DEF BelowTop
<1>4. IdsIncrease
  BY DEF IdsIncrease
<1> QED
  BY <1>2, <1>3, <1>4 DEF IdInv

\* The id that is given out is above all before it.
LEMMA NewIdAboveTop ==
  ASSUME IdInv, NEW p \in Procs, NEW t \in Nat, NEW s \in 0 .. Seqs - 1,
         last[p] < t \/ (last[p] = t /\ p \notin spinning /\ sequence[p] < s)
  PROVE  \A n \in DOMAIN issued[p] : issued[p][n] < NewId(p, t, s)
<1> USE DEF IdInv, IdTypeOK
<1>1. CASE last[p] = -1
  BY <1>1
<1>2. CASE last[p] # -1
  <2>1. last[p] \in Nat /\ s \in Nat /\ sequence[p] \in 0 .. Seqs - 1 /\ Seqs - 1 \in 0 .. Seqs - 1
    BY <1>2, SeqsAssumption
  <2> DEFINE top == IF p \in spinning THEN Seqs - 1 ELSE sequence[p]
  <2>2. top \in 0 .. Seqs - 1 /\ (p \notin spinning => top = sequence[p])
    BY <2>1
  <2>3. Top(p) = NewId(p, last[p], top)
    BY DEF Top
  <2> HIDE DEF top
  <2>4. top \in Nat
    BY <2>1, <2>2
  <2>5. Top(p) < NewId(p, t, s)
    <3>1. CASE last[p] < t
      BY <2>1, <2>2, <2>3, <3>1, NewIdGrowsWithTime
    <3>2. CASE ~(last[p] < t)
      BY <2>1, <2>2, <2>3, <2>4, <3>2, NewIdGrowsWithSequence
    <3> QED
      BY <3>1, <3>2
  <2>6. Top(p) \in Nat /\ NewId(p, t, s) \in Nat
    BY <2>1, <2>3, <2>4, NewIdNat
  <2>7. \A n \in DOMAIN issued[p] : issued[p][n] \in Nat /\ issued[p][n] <= Top(p)
    BY DEF BelowTop
  <2> QED
    BY <2>5, <2>6, <2>7
<1> QED
  BY <1>1, <1>2

LEMMA IssueKeeps ==
  ASSUME IdInv, NEW p \in Procs, NEW t \in Nat, NEW s \in 0 .. Seqs - 1,
         last[p] < t \/ (last[p] = t /\ p \notin spinning /\ sequence[p] < s),
         Issue(p, t, s), spinning' = spinning \ {p}
  PROVE  IdInv'
<1> DEFINE id == NewId(p, t, s)
<1>1. IdTypeOK
  BY DEF IdInv
<1>2. id \in Nat
  BY NewIdNat, SeqsAssumption
<1>3. \A n \in DOMAIN issued[p] : issued[p][n] < id
  BY NewIdAboveTop
<1>4. issued[p] \in Seq(Nat) /\ issued' = [issued EXCEPT ![p] = Append(issued[p], id)]
  BY <1>1 DEF IdTypeOK, Issue
<1> HIDE DEF id
<1>5. issued'[p] = Append(issued[p], id)
  BY <1>1, <1>4 DEF IdTypeOK
<1>6. \A q \in Procs \ {p} : /\ issued'[q] = issued[q] /\ last'[q] = last[q] /\ sequence'[q] = sequence[q]
                              /\ (q \in spinning' <=> q \in spinning)
  BY <1>1 DEF IdTypeOK, Issue
<1>7. last'[p] = t /\ sequence'[p] = s /\ p \notin spinning'
  BY <1>1 DEF IdTypeOK, Issue
<1>8. IdTypeOK'
  BY <1>1, <1>2, <1>4 DEF IdTypeOK, Issue
<1>9. ASSUME NEW q \in Procs PROVE last'[q] = -1 => issued'[q] = <<>> /\ q \notin spinning'
  <2>1. CASE q = p
    BY <1>7, <2>1
  <2>2. CASE q # p
    BY <1>6, <2>2 DEF IdInv
  <2> QED
    BY <2>1, <2>2
<1>10. ASSUME NEW q \in Procs PROVE BelowTop(q)'
  <2>1. CASE q = p
    <3>1. Top(p)' = id
      BY <1>7 DEF Top, id, NewId
    <3>2. \A n \in DOMAIN issued'[p] : issued'[p][n] <= id
      BY <1>1, <1>2, <1>3, <1>4, <1>5
    <3> QED
      BY <2>1, <3>1, <3>2 DEF BelowTop
  <2>2. CASE q # p
    <3>1. Top(q)' = Top(q)
      BY <1>6, <2>2 DEF Top, NewId
    <3> QED
      BY <1>6, <2>2, <3>1 DEF IdInv, BelowTop
  <2> QED
    BY <2>1, <2>2
<1>11. ASSUME NEW q \in Procs, NEW n \in DOMAIN issued'[q], NEW m \in 1 .. n - 1
       PROVE  issued'[q][m] < issued'[q][n]
  <2>1. CASE q = p
    <3>1. CASE n \in DOMAIN issued[p]
      <4>1. issued'[p][n] = issued[p][n] /\ issued'[p][m] = issued[p][m]
        BY <1>4, <1>5, <3>1
      <4> QED
        BY <2>1, <3>1, <4>1 DEF IdInv, IdsIncrease
    <3>2. CASE n \notin DOMAIN issued[p]
      <4>1. issued'[p][n] = id /\ m \in DOMAIN issued[p] /\ issued'[p][m] = issued[p][m]
        BY <1>4, <1>5, <2>1, <3>2
      <4> QED
        BY <1>3, <2>1, <4>1
    <3> QED
      BY <3>1, <3>2
  <2>2. CASE q # p
    BY <1>6, <2>2 DEF IdInv, IdsIncrease
  <2> QED
    BY <2>1, <2>2
<1>12. IdsIncrease'
  BY <1>11 DEF IdsIncrease
<1> QED
  BY <1>8, <1>9, <1>10, <1>12 DEF IdInv

LEMMA IdInvNext == IdInv /\ [IdNext]_idVars => IdInv'
<1> SUFFICES ASSUME IdInv, [IdNext]_idVars PROVE IdInv'
  OBVIOUS
<1>1. IdTypeOK
  BY DEF IdInv
<1>2. CASE UNCHANGED idVars
  BY <1>2 DEF idVars, IdInv, IdTypeOK, BelowTop, Top, NewId, IdsIncrease
<1>3. ASSUME NEW p \in Procs, IdInNewMilli(p) PROVE IdInv'
  <2>1. clock[p] \in Nat /\ 0 \in 0 .. Seqs - 1 /\ last[p] \in Nat \cup {-1} /\ last[p] < clock[p]
    BY <1>1, <1>3, SeqsAssumption DEF IdTypeOK, IdInNewMilli, ClockIsBack
  <2>2. spinning' = spinning \ {p} /\ Issue(p, clock[p], 0)
    BY <1>3 DEF IdInNewMilli
  <2> QED
    BY <2>1, <2>2, IssueKeeps
<1>4. ASSUME NEW p \in Procs, IdInSameMilli(p) PROVE IdInv'
  <2>1. clock[p] \in Nat /\ sequence[p] + 1 \in 0 .. Seqs - 1 /\ sequence[p] < sequence[p] + 1
    BY <1>1, <1>4, SeqsAssumption DEF IdTypeOK, IdInSameMilli
  <2>2. spinning' = spinning \ {p} /\ Issue(p, clock[p], sequence[p] + 1) /\ last[p] = clock[p] /\ p \notin spinning
    BY <1>4 DEF IdInSameMilli
  <2> QED
    BY <2>1, <2>2, IssueKeeps
<1>5. ASSUME NEW p \in Procs, NextMilli(p) PROVE IdInv'
  <2>1. clock[p] \in Nat /\ 0 \in 0 .. Seqs - 1 /\ last[p] < clock[p]
    BY <1>1, <1>5, SeqsAssumption DEF IdTypeOK, NextMilli
  <2>2. spinning' = spinning \ {p} /\ Issue(p, clock[p], 0)
    BY <1>5 DEF NextMilli
  <2> QED
    BY <2>1, <2>2, IssueKeeps
<1>6. ASSUME NEW p \in Procs, SequenceWraps(p) PROVE IdInv'
  <2>1. 0 \in 0 .. Seqs - 1
    BY SeqsAssumption
  <2>2. IdTypeOK' /\ last' = last /\ issued' = issued /\ last[p] # -1
    BY <1>1, <1>6, <2>1 DEF IdTypeOK, SequenceWraps
  <2>3. \A q \in Procs : Top(q)' = Top(q)
    BY <1>1, <1>6, SeqsAssumption DEF IdTypeOK, SequenceWraps, Top, NewId
  <2>4. \A q \in Procs : last'[q] = -1 => issued'[q] = <<>> /\ q \notin spinning'
    BY <1>6, <2>2 DEF IdInv, SequenceWraps
  <2>5. IdsIncrease' /\ \A q \in Procs : BelowTop(q)'
    BY <2>2, <2>3 DEF IdInv, BelowTop, IdsIncrease
  <2> QED
    BY <2>2, <2>4, <2>5 DEF IdInv
<1>7. ASSUME NEW p \in Procs, ClockMoves(p) PROVE IdInv'
  <2>1. IdTypeOK'
    BY <1>1, <1>7, TimeAssumption DEF IdTypeOK, ClockMoves
  <2> QED
    BY <1>7, <2>1 DEF ClockMoves, IdInv, BelowTop, Top, NewId, IdsIncrease
<1>8. ASSUME NEW p \in Procs, IdRestart(p) PROVE IdInv'
  <2>1. 0 \in 0 .. Seqs - 1 /\ <<>> \in Seq(Nat)
    BY SeqsAssumption
  <2>2. IdTypeOK'
    BY <1>1, <1>8, <2>1 DEF IdTypeOK, IdRestart
  <2>3. issued'[p] = <<>> /\ p \notin spinning'
    BY <1>1, <1>8 DEF IdTypeOK, IdRestart
  <2>4. \A q \in Procs \ {p} : /\ issued'[q] = issued[q] /\ last'[q] = last[q] /\ sequence'[q] = sequence[q]
                                /\ (q \in spinning' <=> q \in spinning)
    BY <1>1, <1>8 DEF IdTypeOK, IdRestart
  <2>5. \A q \in Procs : BelowTop(q)'
    BY <2>3, <2>4 DEF IdInv, BelowTop, Top, NewId
  <2>6. IdsIncrease'
    BY <2>3, <2>4 DEF IdInv, IdsIncrease
  <2>7. \A q \in Procs : last'[q] = -1 => issued'[q] = <<>> /\ q \notin spinning'
    BY <2>3, <2>4 DEF IdInv
  <2> QED
    BY <2>2, <2>5, <2>6, <2>7 DEF IdInv
<1> QED
  BY <1>2, <1>3, <1>4, <1>5, <1>6, <1>7, <1>8 DEF IdNext, GetId

\* Ids increase: get_id (snowflake), however the clock is set, for any width of the sequence.
THEOREM IdWorkerIncreases == IdSpec => []IdsIncrease
<1>1. IdInv => IdsIncrease
  BY DEF IdInv
<1> QED
  BY <1>1, IdInvInit, IdInvNext, PTL DEF IdSpec

-----------------------------------------------------------------------------
(* The service is a user of the lock and of the ids.                       *)

LEMMA LockStep == [Next]_vars => [LockNext]_lockVars
<1> SUFFICES ASSUME [Next]_vars PROVE [LockNext]_lockVars
  OBVIOUS
<1>1. CASE UNCHANGED vars
  BY <1>1 DEF vars, lockVars
<1>2. ASSUME NEW r \in Requests, EnterLock(r) PROVE LockNext
  BY <1>2 DEF EnterLock, LockNext
<1>3. ASSUME NEW r \in Requests, ExitLock(r) PROVE LockNext
  BY <1>3 DEF ExitLock, LockNext
<1>4. ASSUME NEW r \in Requests, RequestStep(r), ~EnterLock(r), ~ExitLock(r) PROVE UNCHANGED lockVars
  BY <1>4 DEF RequestStep, BeginRequest, InjectUnitOfWork, InjectOutBox, Resolve, EndRequest, LateTask,
              NextBlock, ReadRow, WriteRow, NewEvent, PostEvent, BodyRaises, EndBlock, lockVars
<1>5. ASSUME NEW p \in Procs, ProcessDies(p) PROVE LockNext
  <2> DEFINE dying == {r \in Requests : Proc[r] = p /\ pc[r] \notin {"new", "done", "late", "dead"}}
  <2>1. LeaveKey(dying) /\ dying \in SUBSET Requests
    BY <1>5 DEF ProcessDies
  <2> QED
    BY <2>1 DEF LockNext
<1>6. ASSUME NEW p \in Procs, SetClock(p) PROVE UNCHANGED lockVars
  BY <1>6 DEF SetClock
<1>7. CASE LockExpires
  BY <1>7 DEF LockExpires, LockNext
<1> QED
  BY <1>1, <1>2, <1>3, <1>4, <1>5, <1>6, <1>7 DEF Next

LEMMA IdStep == [Next]_vars => [IdNext]_idVars
<1> SUFFICES ASSUME [Next]_vars PROVE [IdNext]_idVars
  OBVIOUS
<1>1. CASE UNCHANGED vars
  BY <1>1 DEF vars, idVars
<1>2. ASSUME NEW r \in Requests, NewEvent(r) PROVE [IdNext]_idVars
  <2>1. Proc[r] \in Procs
    BY ServiceAssumption
  <2> QED
    BY <1>2, <2>1 DEF NewEvent, IdNext, GetId
<1>3. ASSUME NEW r \in Requests, RequestStep(r), ~NewEvent(r) PROVE UNCHANGED idVars
  BY <1>3 DEF RequestStep, BeginRequest, InjectUnitOfWork, InjectOutBox, Resolve, EndRequest, LateTask,
              EnterLock, ExitLock, NextBlock, ReadRow, WriteRow, PostEvent, BodyRaises, EndBlock
<1>4. ASSUME NEW p \in Procs, ProcessDies(p) PROVE IdNext
  BY <1>4 DEF ProcessDies, IdNext
<1>5. ASSUME NEW p \in Procs, SetClock(p) PROVE IdNext
  BY <1>5 DEF SetClock, IdNext
<1>6. CASE LockExpires
  BY <1>6 DEF LockExpires
<1> QED
  BY <1>1, <1>2, <1>3, <1>4, <1>5, <1>6 DEF Next

\* The service uses the lock as RedisLock describes it (async with lock, lock_factory.py:32-44),
\* so that the critical sections of its requests exclude each other.
THEOREM ServiceExcludes == Spec => []Exclusive
<1>1. Spec => LockSpec
  BY LockStep, PTL DEF Spec, Init, LockSpec
<1> QED
  BY <1>1, LockExcludes, PTL

\* The service uses the ids as IdWorker describes it (DomainEvent.__post_init__, event.py:19-22),
\* so that the events of one process never have the same id.
THEOREM ServiceIdsIncrease == Spec => []IdsIncrease
<1>1. Spec => IdSpec
  BY IdStep, PTL DEF Spec, Init, IdSpec
<1> QED
  BY <1>1, IdWorkerIncreases, PTL
=============================================================================
