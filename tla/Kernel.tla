------------------------------- MODULE Kernel -------------------------------
(***************************************************************************)
(* The kernel of src/threads/init.c on top of Thread and Synch: init()     *)
(* starts the thread system (thread_start), creates the worker threads     *)
(* (init_all_threads), loops and exits; the workers run kernel_thread      *)
(* around their task, some of them inside lock_task; the idle thread runs  *)
(* idle().  Timer interrupts preempt whichever thread runs with IRQs on.   *)
(***************************************************************************)
EXTENDS Synch, SequencesExt

CONSTANTS
    SpawnOrder,   \* the workers in the order init_all_threads creates them
    LockUsers     \* the workers whose task runs inside lock_task

ASSUME /\ ToSet(SpawnOrder) = Workers
       /\ Len(SpawnOrder) = Cardinality(Workers)
       /\ LockUsers \subseteq Workers
       /\ NumPages >= 1

VARIABLE spawned   \* how many thread_create calls init_all_threads has made

vars == <<threadVars, synchVars, spawned>>

Semas == {"idle_started", "lock_task"}

Labels ==
    { "ts_create", "ts_unblock", "ts_enable", "ts_down", "ts_down_wait",
      "spawn", "spawn_unblock", "main_loop", "main_exit",
      "kt_entry", "run", "acquire", "acquire_wait", "cs", "release",
      "kt_exit", "idle_start", "idle_block", "idle_resume", "exited" }

\* t is the thread the CPU executes, outside a stack switch or an IRQ
Running(t) ==
    /\ cpu = t
    /\ switchTo = NULL
    /\ ~inInterrupt
    /\ panic = "none"

Init ==
    /\ ThreadInit("ts_create", "kt_entry")
    /\ SynchInit([s \in Semas |-> IF s = "lock_task" THEN 1 ELSE 0])
    /\ spawned = 0

(***************************************************************************)
(* init(): thread_start() and init_all_threads()                           *)
(***************************************************************************)

\* thread_start: thread_create("Idle Thread", PRI_MAX, &idle, &idle_started)
StartCreateIdle(t) ==
    /\ Running(t)
    /\ pc[t] = "ts_create"
    /\ ThreadCreate(t, Idle, "ts_unblock", "ts_enable")
    /\ UNCHANGED <<synchVars, spawned>>

StartUnblockIdle(t) ==
    /\ Running(t)
    /\ pc[t] = "ts_unblock"
    /\ CreateUnblock(t, Idle, "ts_enable")
    /\ UNCHANGED <<synchVars, spawned>>

\* thread_start: interrupts_enable()
StartEnable(t) ==
    /\ Running(t)
    /\ pc[t] = "ts_enable"
    /\ intr' = ON
    /\ pc' = [pc EXCEPT ![t] = "ts_down"]
    /\ UNCHANGED <<status, cpu, savedIntr, oldLevel, readyList, allList,
                   idleThread, threadTicks, freePages, switchTo, inInterrupt,
                   yieldOnReturn, panic, synchVars, spawned>>

\* thread_start: sema_down(&idle_started)
StartWaitIdle(t) ==
    /\ Running(t)
    /\ pc[t] \in {"ts_down", "ts_down_wait"}
    /\ SemaDown(t, "idle_started", "ts_down_wait", "spawn",
                IF pc[t] = "ts_down" THEN intr ELSE oldLevel[t])
    /\ UNCHANGED <<lockHolder, spawned>>

\* init_all_threads: the next thread_create(...) of a worker
SpawnWorker(t) ==
    /\ Running(t)
    /\ pc[t] = "spawn"
    /\ spawned < Len(SpawnOrder)
    /\ spawned' = spawned + 1
    /\ ThreadCreate(t, SpawnOrder[spawned + 1], "spawn_unblock", "spawn")
    /\ UNCHANGED synchVars

SpawnUnblock(t) ==
    /\ Running(t)
    /\ pc[t] = "spawn_unblock"
    /\ CreateUnblock(t, SpawnOrder[spawned], "spawn")
    /\ UNCHANGED <<synchVars, spawned>>

\* init(): after the last thread_create, the loop of ten prints, each
\* between interrupts_disable() and interrupts_set_level(old_level)
MainLoop(t) ==
    /\ Running(t)
    /\ \/ pc[t] = "spawn" /\ spawned = Len(SpawnOrder) /\ pc' = [pc EXCEPT ![t] = "main_loop"]
       \/ pc[t] = "main_loop" /\ pc' = [pc EXCEPT ![t] = "main_exit"]
    /\ UNCHANGED <<status, cpu, intr, savedIntr, oldLevel, readyList, allList,
                   idleThread, threadTicks, freePages, switchTo, inInterrupt,
                   yieldOnReturn, panic, synchVars, spawned>>

\* init(): thread_exit(); kernel_thread: thread_exit() after the task
Exit(t) ==
    /\ Running(t)
    /\ pc[t] \in {"main_exit", "kt_exit"}
    /\ ThreadExit(t)
    /\ UNCHANGED <<synchVars, spawned>>

(***************************************************************************)
(* kernel_thread and the tasks of the workers                              *)
(***************************************************************************)
TaskEntry(t) ==
    IF t = Idle THEN "idle_start"
    ELSE IF t \in LockUsers THEN "acquire" ELSE "run"

StartThread(t) ==
    /\ Running(t)
    /\ pc[t] = "kt_entry"
    /\ KernelThread(t, TaskEntry(t))
    /\ UNCHANGED <<synchVars, spawned>>

\* a task without synchronisation (task_0, 1, 3, 5, 6), or the loop of a
\* task inside lock_task (task_2, task_4): runs with IRQs on, then returns
TaskBody(t) ==
    /\ Running(t)
    /\ \/ pc[t] = "run" /\ pc' = [pc EXCEPT ![t] = "kt_exit"]
       \/ pc[t] = "cs" /\ pc' = [pc EXCEPT ![t] = "release"]
    /\ UNCHANGED <<status, cpu, intr, savedIntr, oldLevel, readyList, allList,
                   idleThread, threadTicks, freePages, switchTo, inInterrupt,
                   yieldOnReturn, panic, synchVars, spawned>>

\* task_2, task_4: lock_acquire(&lock_task)
TaskAcquire(t) ==
    /\ Running(t)
    /\ pc[t] \in {"acquire", "acquire_wait"}
    /\ LockAcquire(t, "acquire_wait", "cs",
                   IF pc[t] = "acquire" THEN intr ELSE oldLevel[t])
    /\ UNCHANGED spawned

\* task_2, task_4: lock_release(&lock_task)
TaskRelease(t) ==
    /\ Running(t)
    /\ pc[t] = "release"
    /\ LockRelease(t, "kt_exit")
    /\ UNCHANGED spawned

(***************************************************************************)
(* idle(): idle_thread = thread_current(); sema_up(idle_started); then     *)
(* forever: busy-wait, old_level = interrupts_disable(), thread_block(),   *)
(* interrupts_set_level(old_level).                                        *)
(***************************************************************************)
IdleStart(t) ==
    /\ Running(t)
    /\ pc[t] = "idle_start"
    /\ idleThread' = t
    /\ SemaUp("idle_started")
    /\ pc' = [pc EXCEPT ![t] = "idle_block"]
    /\ UNCHANGED <<cpu, intr, savedIntr, oldLevel, allList, threadTicks,
                   freePages, switchTo, inInterrupt, yieldOnReturn,
                   lockHolder, spawned>>

IdleBlock(t) ==
    /\ Running(t)
    /\ pc[t] = "idle_block"
    /\ oldLevel' = [oldLevel EXCEPT ![t] = intr]
    /\ ThreadBlock(t, "idle_resume")
    /\ UNCHANGED <<synchVars, spawned>>

IdleResume(t) ==
    /\ Running(t)
    /\ pc[t] = "idle_resume"
    /\ intr' = oldLevel[t]
    /\ pc' = [pc EXCEPT ![t] = "idle_block"]
    /\ UNCHANGED <<status, cpu, savedIntr, oldLevel, readyList, allList,
                   idleThread, threadTicks, freePages, switchTo, inInterrupt,
                   yieldOnReturn, panic, synchVars, spawned>>

(***************************************************************************)
(* The specification                                                       *)
(***************************************************************************)

\* one step of the thread whose stack the CPU runs on
Step(t) ==
    \/ StartCreateIdle(t) \/ StartUnblockIdle(t) \/ StartEnable(t)
    \/ StartWaitIdle(t) \/ SpawnWorker(t) \/ SpawnUnblock(t)
    \/ MainLoop(t) \/ Exit(t) \/ StartThread(t) \/ TaskBody(t)
    \/ TaskAcquire(t) \/ TaskRelease(t)
    \/ IdleStart(t) \/ IdleBlock(t) \/ IdleResume(t)

Switch == panic = "none" /\ SwitchContext /\ UNCHANGED <<synchVars, spawned>>

Tick == panic = "none" /\ TimerInterrupt /\ UNCHANGED <<synchVars, spawned>>

IrqReturn == panic = "none" /\ InterruptReturn /\ UNCHANGED <<synchVars, spawned>>

Next == (\E t \in Threads : Step(t)) \/ Switch \/ Tick \/ IrqReturn

(***************************************************************************)
(* The CPU always executes the next instruction of the thread it runs, and *)
(* a timer period is long against one step: a thread that is dispatched    *)
(* again and again makes progress (strong fairness, since a tick can take  *)
(* the CPU away).  A started stack switch and an entered IRQ handler run   *)
(* to completion.  Timer interrupts themselves need no fairness.           *)
(***************************************************************************)
Fairness ==
    /\ \A t \in Threads : SF_vars(Step(t))
    /\ WF_vars(Switch)
    /\ WF_vars(IrqReturn)

Spec == Init /\ [][Next]_vars /\ Fairness

(***************************************************************************)
(* Properties                                                              *)
(***************************************************************************)

TypeOK ==
    /\ status \in [Threads -> {RUNNING, READY, BLOCKED, DYING, NOTHREAD}]
    /\ pc \in [Threads -> Labels]
    /\ cpu \in Threads
    /\ intr \in {ON, OFF}
    /\ savedIntr \in [Threads -> {ON, OFF}]
    /\ oldLevel \in [Threads -> {ON, OFF}]
    /\ readyList \in Seq(Threads)
    /\ allList \subseteq Threads
    /\ idleThread \in {NULL, Idle}
    /\ threadTicks \in 0..TIME_SLICE
    /\ freePages \in 0..NumPages
    /\ switchTo \in Threads \cup {NULL}
    /\ inInterrupt \in BOOLEAN
    /\ yieldOnReturn \in BOOLEAN
    /\ semaValue \in [Semas -> Nat]
    /\ semaWaiters \in [Semas -> Seq(Threads)]
    /\ lockHolder \in Workers \cup {NULL}
    /\ spawned \in 0..Len(SpawnOrder)

\* No ASSERT of thread.c (thread_current, thread_unblock, schedule,
\* thread_schedule_tail, thread_exit, lock_release) fails in any interleaving
\* of the threads with the timer interrupt.
NoAssertionFailure == panic = "none"

\* Outside a stack switch, the thread whose stack the CPU runs on is the one
\* and only RUNNING thread: both schedule() paths, the frame copy of
\* context_switch and the stack switch of save_and_switch_context leave
\* thread_current() naming the thread marked RUNNING by thread_schedule_tail.
CpuRunsRunningThread ==
    switchTo = NULL => \A t \in Threads : (status[t] = RUNNING) <=> (t = cpu)

\* ready_list holds each READY thread exactly once, except idle_thread,
\* which thread_yield never queues and thread_get_next_thread_to_run falls
\* back to; nothing else is on it.
ReadyQueueConsistent ==
    /\ IsInjective(readyList)
    /\ ToSet(readyList) = {t \in Threads : status[t] = READY /\ t # idleThread}

\* Every page the allocator gave out for a thread is returned exactly once,
\* by thread_schedule_tail after the thread exited; initial_thread's page,
\* which palloc never gave out, is never returned.
PagesAccounted ==
    freePages + Cardinality({t \in Threads \ {Main} : status[t] # NOTHREAD})
        = NumPages

\* all_list holds exactly the threads created and not yet exited.
RegistryMatchesLiveThreads ==
    allList = {t \in Threads : status[t] \in {RUNNING, READY, BLOCKED}}

\* A thread inside lock_task (between lock_acquire and lock_release) is the
\* lock's holder: two threads are never inside together, across blocking in
\* sema_down, wake-ups by sema_up and preemption by the timer.
LockMutualExclusion ==
    \A t \in Threads : pc[t] \in {"cs", "release"} => lockHolder = t

\* the program points where the code runs with IRQs unmasked
InterruptibleLabels ==
    {"spawn", "main_loop", "main_exit", "run", "acquire", "cs", "release",
     "kt_exit", "idle_start", "idle_block"}

\* A thread at a point where its code runs with IRQs on does have them on:
\* every masking (thread_create, sema_down, thread_block) is undone on every
\* path, and the cpsr restored by either schedule() path is the one the
\* thread was switched out with.
InterruptsEnabledWhereExpected ==
    (switchTo = NULL /\ ~inInterrupt /\ pc[cpu] \in InterruptibleLabels)
        => intr = ON

\* The CPU never executes on the stack of a page already given back to the
\* page allocator (the spec: a dying thread's page is released only after
\* the CPU runs the incoming thread).
CpuNeverOnFreedPage == status[cpu] # NOTHREAD

\* init() and every worker it managed to create run to their thread_exit
\* and every worker page is reclaimed: no thread waits forever on
\* idle_started or lock_task, and FIFO dispatch with preemption starves none.
AllThreadsFinish ==
    <>[](pc[Main] = "exited" /\ \A w \in Workers : status[w] = NOTHREAD)


Lifecycle == INSTANCE ThreadLifecycle
    WITH Initial <- Main, state <- status, queue <- readyList, idle <- idleThread

\* Every step of the kernel is a step of the thread lifecycle or leaves it
\* alone: thread_create, thread_unblock (from thread_create and sema_up),
\* thread_block (from sema_down and idle), thread_exit and the yield on IRQ
\* return, across both schedule() paths and the deferred stack switch,
\* dispatch the head of ready_list (idle_thread when it is empty), requeue
\* only a preempted thread, and reclaim exactly the exiting thread's page.
KernelRefinesLifecycle == Lifecycle!LSpec

=============================================================================
