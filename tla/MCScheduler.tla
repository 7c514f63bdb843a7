----------------------------- MODULE MCScheduler -----------------------------
(* Instances of Scheduler for TLC.                                          *)
EXTENDS Scheduler

TwoThreads == <<2>>
TwoThenOne == <<2, 1>>

TwoBatches == {<<3, 2>>}         \* a full batch and a partial one
Shapes == {<<1, 1>>, <<3, 2>>}
=============================================================================
