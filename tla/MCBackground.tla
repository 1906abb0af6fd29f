----------------------------- MODULE MCBackground -----------------------------
(* A small instance of Background for TLC. *)
EXTENDS Background
CONSTANTS v1, v2, bad, own, inherited, s1, s2

\* Two versions that can be parsed and one that cannot.
MCVersions == {v1, v2, bad}
MCParsable == {v1, v2}

\* A version comes back while requests fail; connections fail under messages of both kinds.
MCLoads == {[published |-> 2, faults |-> 1, logs |-> 0], [published |-> 1, faults |-> 1, logs |-> 1],
            [published |-> 0, faults |-> 2, logs |-> 2]}
=============================================================================
