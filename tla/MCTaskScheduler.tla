-------------------------- MODULE MCTaskScheduler --------------------------
(* Small instances of TaskScheduler.                                       *)
EXTENDS TaskScheduler

CONSTANTS j1, j2, j3, w1, w2

\* A background job and foreground ones.
OneInBackground == [j \in Jobs |-> IF j = j1 THEN 0 ELSE 2]
=============================================================================
