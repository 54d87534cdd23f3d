---------------------------- MODULE MCTokenBucket ----------------------------
(* Values for model-checking TokenBucket: three tasks, buckets of two tokens  *)
(* and of less than one.                                                     *)
EXTENDS TokenBucket

CONSTANTS t1, t2, t3

MCTasks     == {t1, t2, t3}
MCIntervals == {0, 2, 5}
=============================================================================
