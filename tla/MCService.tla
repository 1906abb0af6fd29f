------------------------------ MODULE MCService ------------------------------
(* Small instances of Service for TLC. *)
EXTENDS Service, TLC

CONSTANTS r1, r2, r3, p1, p2

MCProc   == [r \in Requests |-> IF r = r1 THEN p1 ELSE p2]
MCPart   == (p1 :> 1) @@ (p2 :> 1)  \* every process has IdWorker(1, 1, 0)
MCBlocks == Requests \X (1 .. MaxBlocks)

Load(r, b, c, m) == [requests |-> r, blocks |-> b, clocks |-> c, mortal |-> m]

\* Three requests, of which two share a process; two in one process, with two blocks each; two in
\* different processes whose clocks move apart; one that tries three times.
MCLoads ==
  {Load({r1, r2, r3}, 1, {}, {}), Load({r2, r3}, 2, {p2}, {p2}), Load({r1}, 3, {p1}, {p1})}
    \cup {Load({r1, r}, 1, Procs, Procs) : r \in {r2, r3}}

\* r2 and r3 are interchangeable.
MCSymmetry == Permutations({r2, r3})
=============================================================================
