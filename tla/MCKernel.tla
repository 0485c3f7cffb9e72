------------------------------ MODULE MCKernel -------------------------------
(***************************************************************************)
(* Model-checking instances of Kernel.  init.c creates seven workers, two  *)
(* of which (task_2, task_4) use lock_task; the models keep the shape with *)
(* three workers, and choose the number of pages.                          *)
(***************************************************************************)
EXTENDS Kernel

CONSTANTS w1, w2, w3, w4

\* w1 and w3 take lock_task, w2 does not: creation order as in init.c
MCWorkers == {w1, w2, w3}
MCSpawnOrder == <<w1, w2, w3>>
MCLockUsers == {w1, w3}

\* the larger instance: three lock_task contenders (a holder and two queued
\* waiters) and one thread without the lock
MCWorkers4 == {w1, w2, w3, w4}
MCSpawnOrder4 == <<w1, w2, w3, w4>>
MCLockUsers4 == {w1, w3, w4}

=============================================================================
