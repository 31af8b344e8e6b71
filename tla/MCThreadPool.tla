---------------------------- MODULE MCThreadPool ----------------------------
(* ThreadPool with two workers and three tasks, for TLC. *)
EXTENDS ThreadPool, TLC

CONSTANTS t1, t2, t3

MCTask == {t1, t2, t3}

\* Two of the tasks go to the same worker.
MCTaskId == (t1 :> 1) @@ (t2 :> 2) @@ (t3 :> 3)
=============================================================================
