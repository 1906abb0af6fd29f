--------------------------- MODULE MCProfileSlots ---------------------------
(* A small instance of ProfileSlots for TLC: two contexts share a thread, so *)
(* that a slot outlives the call that took it, and a third runs beside them. *)
EXTENDS ProfileSlots, TLC

CONSTANTS c1, c2, c3, t1, t2

\* c1 and c2 are interchangeable: the same thread runs both.
MCSymmetry == Permutations({c1, c2})

MCRunner == (c1 :> t1) @@ (c2 :> t1) @@ (c3 :> t2)

MCRunnerLive == (c1 :> t1) @@ (c3 :> t2)
=============================================================================
