----------------------------- MODULE RequestScope -----------------------------
(***************************************************************************)
(* The request scope of fastapi_injector: one cache per request, made and  *)
(* removed by InjectorMiddleware, and found by a context variable, which   *)
(* tasks inherit and keep.  Here it holds the session of the request, from *)
(* which unit of work and outbox are made; 0 stands for none yet.          *)
(***************************************************************************)
EXTENDS Integers, Functions

VARIABLE cache

ScopeInit == cache = [r \in {} |-> 0]

AddKey(r) == cache' = [q \in DOMAIN cache \cup {r} |-> IF q = r THEN 0 ELSE cache[q]]

\* Mutant: the dependency is provided and not cached.
GetUncached(r, new) == r \in DOMAIN cache /\ UNCHANGED cache

\* get: the cached dependency, or what the provider makes.
Get(r, new) ==
  /\ r \in DOMAIN cache
  /\ cache' = IF cache[r] = 0 THEN [cache EXCEPT ![r] = new] ELSE cache

\* Mutant: a missing cache is made anew.
GetTooLateRevives(r) == r \notin DOMAIN cache /\ AddKey(r)

\* self.cache[request_id] raises KeyError in a task that has outlived its request.
GetTooLate(r) == r \notin DOMAIN cache /\ UNCHANGED cache

ClearKeys(gone) == cache' = Restrict(cache, DOMAIN cache \ gone)
=============================================================================
