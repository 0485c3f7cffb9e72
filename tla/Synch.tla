------------------------------- MODULE Synch --------------------------------
(***************************************************************************)
(* Semaphores and the lock of threads/synch.c (not among the sources;     *)
(* modelled from its specification, section 4.3): a semaphore is a        *)
(* counter and a FIFO queue of waiters built on thread_block and           *)
(* thread_unblock; a lock is a semaphore with initial count 1 and a        *)
(* holder.  Both operations run with IRQs masked and restore the level.    *)
(***************************************************************************)
EXTENDS Thread

VARIABLES
    semaValue,    \* sema->value, per semaphore
    semaWaiters,  \* sema->waiters, per semaphore
    lockHolder    \* lock_task.holder

synchVars == <<semaValue, semaWaiters, lockHolder>>

\* sema_init / lock_init of the semaphores in `counts`
SynchInit(counts) ==
    /\ semaValue = counts
    /\ semaWaiters = [s \in DOMAIN counts |-> <<>>]
    /\ lockHolder = NULL

\* debug_panic: the kernel halts where it stands
Halt(msg) ==
    /\ panic' = msg
    /\ UNCHANGED <<status, pc, cpu, intr, savedIntr, oldLevel, readyList,
                   allList, idleThread, threadTicks, freePages, switchTo,
                   inInterrupt, yieldOnReturn, synchVars>>

(***************************************************************************)
(* sema_down(s) by t: old_level = interrupts_disable(); while the value is *)
(* 0, join the back of the waiters and thread_block(), resuming at waitPc  *)
(* to test again; then decrement and restore old_level.  `old` is the      *)
(* level at entry, or oldLevel[t] when t re-tests after a wake-up.         *)
(***************************************************************************)
SemaDown(t, s, waitPc, donePc, old) ==
    IF semaValue[s] = 0
    THEN /\ semaWaiters' = [semaWaiters EXCEPT ![s] = Append(@, t)]
         /\ oldLevel' = [oldLevel EXCEPT ![t] = old]
         /\ ThreadBlock(t, waitPc)
         /\ UNCHANGED semaValue
    ELSE /\ semaValue' = [semaValue EXCEPT ![s] = @ - 1]
         /\ intr' = old
         /\ pc' = [pc EXCEPT ![t] = donePc]
         /\ UNCHANGED <<semaWaiters, status, cpu, savedIntr, oldLevel,
                        readyList, allList, idleThread, threadTicks,
                        freePages, switchTo, inInterrupt, yieldOnReturn,
                        panic>>

(***************************************************************************)
(* sema_up(s): with IRQs masked, thread_unblock the first waiter if there  *)
(* is one, and increment the value.  The caller fixes pc and the rest.     *)
(***************************************************************************)
\* faulty variant: the count goes up but no waiter is woken
SemaUpNoWake(s) ==
    /\ semaValue' = [semaValue EXCEPT ![s] = @ + 1]
    /\ UNCHANGED <<semaWaiters, status, readyList, panic>>

SemaUp(s) ==
    /\ semaValue' = [semaValue EXCEPT ![s] = @ + 1]
    /\ IF semaWaiters[s] = <<>>
       THEN UNCHANGED <<semaWaiters, status, readyList, panic>>
       ELSE /\ semaWaiters' = [semaWaiters EXCEPT ![s] = Tail(@)]
            /\ ThreadUnblock(Head(semaWaiters[s]))

(***************************************************************************)
(* lock_acquire(&lock_task): sema_down on its semaphore, then the caller   *)
(* is recorded as holder.                                                  *)
(***************************************************************************)
\* faulty variant: the holder is recorded before sema_down returns
LockAcquireEarlyHolder(t, waitPc, donePc, old) ==
    /\ SemaDown(t, "lock_task", waitPc, donePc, old)
    /\ lockHolder' = t

LockAcquire(t, waitPc, donePc, old) ==
    /\ SemaDown(t, "lock_task", waitPc, donePc, old)
    /\ lockHolder' = IF semaValue["lock_task"] = 0 THEN lockHolder ELSE t

(***************************************************************************)
(* lock_release(&lock_task): asserts the caller holds it, clears the      *)
(* holder, sema_up.                                                        *)
(***************************************************************************)
LockRelease(t, donePc) ==
    IF lockHolder # t
    THEN Halt("lock_release: lock not held by the current thread")
    ELSE /\ lockHolder' = NULL
         /\ SemaUp("lock_task")
         /\ pc' = [pc EXCEPT ![t] = donePc]
         /\ UNCHANGED <<cpu, intr, savedIntr, oldLevel, allList, idleThread,
                        threadTicks, freePages, switchTo, inInterrupt,
                        yieldOnReturn>>

=============================================================================
