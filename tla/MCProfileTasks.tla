---------------------------- MODULE MCProfileTasks ----------------------------
(* Small instances of ProfileTasks for TLC. *)
EXTENDS ProfileTasks

\* Task 2 ends while task 1 is to be executed, task 3 after it.
MCTasks  == 1 .. 3
MCStart  == <<2, 1, 3>>
MCFinish == <<4, 3, 6>>
===========================================================================
