------------------------------ MODULE RedisLock ------------------------------
(***************************************************************************)
(* One lock of lock_factory.py: a key in redis, set if it is not there and *)
(* deleted at the end of the "async with" block.  The key expires after    *)
(* its timeout, and its value is the same for every holder.                *)
(***************************************************************************)
CONSTANT Requests

VARIABLES
  key,       \* the key is there
  inside,    \* the requests that have entered the block and not left it
  overstayed \* whether a key expired under a request that is still inside, or did so before

lockVars == <<key, inside, overstayed>>

LockInit == key = FALSE /\ inside = {} /\ overstayed = "never"

\* Mutant: the key is set whether it is there or not.
AcquireOverwrites(r) ==
  /\ key' = TRUE
  /\ inside' = inside \cup {r}
  /\ UNCHANGED overstayed

\* __aenter__: set(nx=True, ex=timeout) answers True.
Acquire(r) ==
  /\ ~key
  /\ key' = TRUE
  /\ inside' = inside \cup {r}
  /\ UNCHANGED overstayed

\* The answer is lost: __aenter__ raises, the block is not entered and the key stays.
AcquireUnheard ==
  /\ ~key
  /\ key' = TRUE
  /\ UNCHANGED <<inside, overstayed>>

\* raise AlreadyLocked
Refused == key /\ UNCHANGED lockVars

LeaveBlock(gone) ==
  /\ inside' = inside \ gone
  /\ overstayed' = IF inside \subseteq gone /\ overstayed = "now" THEN "before" ELSE overstayed

\* __aexit__: the key is deleted, whoever has set it.
Release(r) == r \in inside /\ LeaveBlock({r}) /\ key' = FALSE

\* exc_type == AlreadyLocked, raised by an inner lock; or the delete does not reach redis; or the
\* holders die with their process.
LeaveKey(gone) == LeaveBlock(gone) /\ UNCHANGED key

\* The timeout passes.
KeyExpires ==
  /\ key
  /\ key' = FALSE
  /\ overstayed' = IF inside = {} THEN overstayed ELSE "now"
  /\ UNCHANGED inside

LockNext ==
  \/ \E r \in Requests : Acquire(r) \/ Release(r)
  \/ \E gone \in SUBSET Requests : LeaveKey(gone)
  \/ AcquireUnheard \/ Refused \/ KeyExpires

LockSpec == LockInit /\ [][LockNext]_lockVars

-----------------------------------------------------------------------------
\* Lost answers, deletes that fail, holders that die and late deletes of somebody else's key
\* notwithstanding, two requests are in the block together only if one of those that have been
\* in it since it was last empty was there when the key expired.
Exclusive == overstayed = "now" \/ \A q, r \in inside : q = r
=============================================================================
