------------------------------- MODULE Thread -------------------------------
(***************************************************************************)
(* The thread lifecycle and the scheduler of src/threads/thread.c on one   *)
(* ARM core.  Every thread owns one page: its struct thread at the bottom, *)
(* its stack above it.  The CPU runs on the stack of thread `cpu`; for any *)
(* other thread, pc[t] is the program point saved in t->stack_frame and    *)
(* savedIntr[t] the IRQ-mask bit of the saved cpsr.                        *)
(*                                                                         *)
(* The only mutual exclusion is masking IRQs: code that runs with IRQs     *)
(* masked (intr = OFF) cannot be interrupted, so each such stretch of the  *)
(* code is one action.  Where IRQs are on, a timer interrupt may come      *)
(* between any two actions of the running thread.                          *)
(*                                                                         *)
(* A failing ASSERT calls debug_panic, which halts the kernel: the action  *)
(* records the failed assertion in `panic` and no action is enabled after. *)
(***************************************************************************)
EXTENDS Naturals, Sequences, FiniteSets

CONSTANTS
    Main,       \* initial_thread: init.c:init() turned into a thread
    Idle,       \* the thread thread_start() creates to run idle()
    Workers,    \* the threads init_all_threads() creates
    NumPages,   \* pages palloc_get_page can hand out for struct thread
    NULL

Threads == {Main, Idle} \cup Workers

ASSUME /\ Main # Idle
       /\ {Main, Idle} \cap Workers = {}
       /\ NULL \notin Threads
       /\ NumPages \in Nat

\* enum thread_status; NOTHREAD: the page holds no struct thread (never
\* allocated, or returned to the page allocator)
RUNNING  == "RUNNING"
READY    == "READY"
BLOCKED  == "BLOCKED"
DYING    == "DYING"
NOTHREAD == "NOTHREAD"

\* enum interrupts_level
ON  == "ON"
OFF == "OFF"

\* # of timer ticks to give each thread
TIME_SLICE == 2

VARIABLES
    status,        \* t->status
    pc,            \* program point of t: live for cpu, saved for the others
    cpu,           \* owner of the page the stack pointer is in
    intr,          \* IRQ mask of the CPU: interrupts_get_level()
    savedIntr,     \* IRQ mask of the cpsr saved in t->stack_frame
    oldLevel,      \* the old_level local of t, live across a thread_block()
    readyList,     \* ready_list
    allList,       \* all_list (its order is never used: a set)
    idleThread,    \* idle_thread
    threadTicks,   \* thread_ticks
    freePages,     \* pages free in the page allocator
    switchTo,      \* next, while save_and_switch_context has run
                   \* thread_schedule_tail but not yet switched stacks
    inInterrupt,   \* an IRQ is being handled (interrupts_was_irq_generated)
    yieldOnReturn, \* interrupts_yield_on_return() was called in this IRQ
    panic          \* "none", or the ASSERT that halted the kernel

threadVars == <<status, pc, cpu, intr, savedIntr, oldLevel, readyList,
                allList, idleThread, threadTicks, freePages, switchTo,
                inInterrupt, yieldOnReturn, panic>>

(***************************************************************************)
(* Helpers                                                                 *)
(***************************************************************************)

\* the message of the first failing ASSERT among `checks`, "none" if all hold
FirstFailure(checks) ==
    LET failed == SelectSeq(checks, LAMBDA c : ~c[1])
    IN  IF failed = <<>> THEN "none" ELSE failed[1][2]

\* is_thread(t): t is non-NULL and its page holds a struct thread
IsThread(st, t) == t \in Threads /\ st[t] # NOTHREAD

\* the ASSERTs of thread_current(): the running thread t is a thread and RUNNING
ThreadCurrent(st, t) ==
    << <<IsThread(st, t), "thread_current: !is_thread (t)">>,
       <<st[t] = RUNNING, "thread_current: t->status != THREAD_RUNNING">> >>

\* faulty variant: no fallback to idle_thread on an empty ready_list
NextThreadToRunNoIdle(rl) == IF rl = <<>> THEN NULL ELSE Head(rl)

\* thread_get_next_thread_to_run: the head of ready_list, idle_thread if empty
NextThreadToRun(rl) == IF rl = <<>> THEN idleThread ELSE Head(rl)

\* ready_list after thread_get_next_thread_to_run popped its head
ReadyAfterPick(rl) == IF rl = <<>> THEN rl ELSE Tail(rl)

(***************************************************************************)
(* thread_init: the running code becomes initial_thread, RUNNING, with     *)
(* IRQs masked; ready_list empty, all_list = {initial_thread}.             *)
(***************************************************************************)
ThreadInit(mainPc, entryPc) ==
    /\ status = [t \in Threads |-> IF t = Main THEN RUNNING ELSE NOTHREAD]
    /\ pc = [t \in Threads |-> IF t = Main THEN mainPc ELSE entryPc]
    /\ cpu = Main
    /\ intr = OFF
    /\ savedIntr = [t \in Threads |-> OFF]
    /\ oldLevel = [t \in Threads |-> OFF]
    /\ readyList = <<>>
    /\ allList = {Main}
    /\ idleThread = NULL
    /\ threadTicks = 0
    /\ freePages = NumPages
    /\ switchTo = NULL
    /\ inInterrupt = FALSE
    /\ yieldOnReturn = FALSE
    /\ panic = "none"

(***************************************************************************)
(* thread_schedule_tail(prev, next): a new time slice, next RUNNING, and   *)
(* the page of a DYING prev back to the allocator (not initial_thread's,   *)
(* which palloc never handed out).  `st` is the status after the caller.  *)
(***************************************************************************)
\* faulty variant: initial_thread's page is given back too
ReclaimsInitial(prev, st) == st[prev] = DYING

Reclaims(prev, st) == st[prev] = DYING /\ prev # Main

TailStatus(prev, next, st) ==
    [t \in Threads |-> IF t = next THEN RUNNING
                       ELSE IF t = prev /\ Reclaims(prev, st) THEN NOTHREAD
                       ELSE st[t]]

\* faulty variant: the time slice is not restarted
ScheduleTailKeepsTicks(prev, next, st) ==
    /\ threadTicks' = threadTicks
    /\ status' = TailStatus(prev, next, st)
    /\ freePages' = IF Reclaims(prev, st) THEN freePages + 1 ELSE freePages

ScheduleTail(prev, next, st) ==
    /\ threadTicks' = 0
    /\ status' = TailStatus(prev, next, st)
    /\ freePages' = IF Reclaims(prev, st) THEN freePages + 1 ELSE freePages

\* the ASSERTs of schedule() and thread_schedule_tail()
ScheduleChecks(cur, next, st) ==
    << <<st[cur] # RUNNING, "schedule: cur->status == THREAD_RUNNING">>,
       <<IsThread(st, next), "schedule: !is_thread(next)">>,
       <<~(Reclaims(cur, st) /\ cur = next), "thread_schedule_tail: prev == next">> >>

(***************************************************************************)
(* schedule() reached from an IRQ (thread_yield on interrupt return):      *)
(* schedule_in_interrupt saves the IRQ frame into cur->stack_frame, then   *)
(* context_switch overwrites the frame with next's context when cur #      *)
(* next; the interrupt epilogue restores that frame, cpsr included.        *)
(***************************************************************************)
\* faulty variant: the IRQ frame is not overwritten with next's context
ContextSwitchSkipped(cur, next) == cur

\* context_switch(next, frame) when cur # next: whose context the frame holds
ContextSwitch(cur, next) == IF cur # next THEN next ELSE cur

\* faulty variant: the masked cpsr of IRQ mode is saved instead of the frame's
SaveFrameMasked(cur) == [savedIntr EXCEPT ![cur] = OFF]

\* thread_save_stack_frame(cur, frame): the frame holds the interrupted
\* thread's registers, whose cpsr had IRQs unmasked
SaveFrame(cur) == [savedIntr EXCEPT ![cur] = ON]

ScheduleInInterrupt(cur, st, rl, checks) ==
    LET next  == NextThreadToRun(rl)
        saved == SaveFrame(cur)
    IN  /\ readyList' = ReadyAfterPick(rl)
        /\ savedIntr' = saved
        /\ cpu' = ContextSwitch(cur, next)
        /\ intr' = IF next \in Threads THEN saved[cpu'] ELSE OFF
        /\ ScheduleTail(cur, next, st)
        /\ panic' = FirstFailure(checks \o ScheduleChecks(cur, next, st))
        /\ UNCHANGED <<pc, switchTo>>

(***************************************************************************)
(* schedule() reached from a thread (thread_block, thread_exit):           *)
(* save_and_switch_context saves cur's registers (cur resumes at `resume`  *)
(* with IRQs masked), calls thread_schedule_tail, and only then switches   *)
(* to next's stack: the switch is SwitchContext below.                     *)
(***************************************************************************)
ScheduleNotInInterrupt(cur, st, rl, resume, checks) ==
    LET next == NextThreadToRun(rl)
    IN  /\ readyList' = ReadyAfterPick(rl)
        /\ pc' = [pc EXCEPT ![cur] = resume]
        /\ savedIntr' = [savedIntr EXCEPT ![cur] = OFF]
        /\ switchTo' = IF next \in Threads THEN next ELSE NULL
        /\ intr' = OFF
        /\ ScheduleTail(cur, next, st)
        /\ panic' = FirstFailure(checks \o ScheduleChecks(cur, next, st))
        /\ UNCHANGED cpu

\* the end of save_and_switch_context: load next's registers and stack
SwitchContext ==
    /\ switchTo # NULL
    /\ cpu' = switchTo
    /\ intr' = savedIntr[switchTo]
    /\ switchTo' = NULL
    /\ UNCHANGED <<status, pc, savedIntr, oldLevel, readyList, allList,
                   idleThread, threadTicks, freePages, inInterrupt,
                   yieldOnReturn, panic>>

(***************************************************************************)
(* thread_create(name, pri, function, aux) run by t for the new thread nt, *)
(* up to interrupts_set_level(old_level): a zeroed page, nt BLOCKED, its   *)
(* frame set to start kernel_thread with cpsr = SYS_MODE | FLAG_FIQ (IRQs  *)
(* unmasked), nt on all_list.  When palloc_get_page fails it returns       *)
(* TID_ERROR straight away, with IRQs still masked.                        *)
(***************************************************************************)
ThreadCreate(t, nt, okPc, errPc) ==
    IF freePages = 0
    THEN /\ intr' = OFF
         /\ pc' = [pc EXCEPT ![t] = errPc]
         /\ UNCHANGED <<status, cpu, savedIntr, oldLevel, readyList, allList,
                        idleThread, threadTicks, freePages, switchTo,
                        inInterrupt, yieldOnReturn, panic>>
    ELSE /\ freePages' = freePages - 1
         /\ status' = [status EXCEPT ![nt] = BLOCKED]
         /\ pc' = [pc EXCEPT ![t] = okPc, ![nt] = "kt_entry"]
         /\ savedIntr' = [savedIntr EXCEPT ![nt] = ON]
         /\ allList' = allList \cup {nt}
         /\ UNCHANGED <<cpu, intr, oldLevel, readyList, idleThread,
                        threadTicks, switchTo, inInterrupt, yieldOnReturn,
                        panic>>

(***************************************************************************)
(* thread_unblock(u): u must be a BLOCKED thread; it goes to the back of   *)
(* ready_list as READY.  IRQs are masked inside and restored: no net       *)
(* change of intr.  The caller fixes the other variables.                  *)
(***************************************************************************)
\* faulty variant: list_push_front instead of list_push_back
ThreadUnblockFront(u) ==
    /\ readyList' = <<u>> \o readyList
    /\ status' = [status EXCEPT ![u] = READY]
    /\ panic' = FirstFailure(<< <<IsThread(status, u) /\ status[u] = BLOCKED,
                                  "thread_unblock: t->status != THREAD_BLOCKED">> >>)

ThreadUnblock(u) ==
    /\ readyList' = Append(readyList, u)
    /\ status' = [status EXCEPT ![u] = READY]
    /\ panic' = FirstFailure(<< <<IsThread(status, u) /\ status[u] = BLOCKED,
                                  "thread_unblock: t->status != THREAD_BLOCKED">> >>)

\* the rest of thread_create: thread_unblock(thread), return tid
CreateUnblock(t, nt, retPc) ==
    /\ ThreadUnblock(nt)
    /\ pc' = [pc EXCEPT ![t] = retPc]
    /\ UNCHANGED <<cpu, intr, savedIntr, oldLevel, allList, idleThread,
                   threadTicks, freePages, switchTo, inInterrupt,
                   yieldOnReturn>>

(***************************************************************************)
(* thread_block: t (IRQs masked by its caller) becomes BLOCKED and calls   *)
(* schedule(); it resumes at `resume` once unblocked and dispatched.       *)
(* The caller sets oldLevel.                                               *)
(***************************************************************************)
ThreadBlock(t, resume) ==
    /\ ScheduleNotInInterrupt(t, [status EXCEPT ![t] = BLOCKED], readyList,
                              resume, ThreadCurrent(status, t))
    /\ UNCHANGED <<allList, idleThread, inInterrupt, yieldOnReturn>>

(***************************************************************************)
(* thread_exit: masks IRQs, leaves all_list, DYING, schedule().  Its page  *)
(* is freed by thread_schedule_tail; control never comes back ("exited").  *)
(***************************************************************************)
\* faulty variant: the exiting thread stays on all_list
ThreadExitKeepsRegistry(t) ==
    /\ allList' = allList
    /\ ScheduleNotInInterrupt(t, [status EXCEPT ![t] = DYING], readyList,
            "exited", ThreadCurrent(status, t))
    /\ UNCHANGED <<oldLevel, idleThread, inInterrupt, yieldOnReturn>>

ThreadExit(t) ==
    /\ allList' = allList \ {t}
    /\ ScheduleNotInInterrupt(t, [status EXCEPT ![t] = DYING], readyList,
            "exited", ThreadCurrent(status, t))
    /\ UNCHANGED <<oldLevel, idleThread, inInterrupt, yieldOnReturn>>

\* kernel_thread: interrupts_enable(), then the thread function
KernelThread(t, bodyPc) ==
    /\ intr' = ON
    /\ pc' = [pc EXCEPT ![t] = bodyPc]
    /\ UNCHANGED <<status, cpu, savedIntr, oldLevel, readyList, allList,
                   idleThread, threadTicks, freePages, switchTo, inInterrupt,
                   yieldOnReturn, panic>>

(***************************************************************************)
(* The timer IRQ: the interrupt entry saves the running thread's registers *)
(* in a frame and masks IRQs; timer_irq_handler calls thread_tick(frame),  *)
(* which checks thread_current(), counts the tick and, once TIME_SLICE     *)
(* ticks have passed, asks for a yield on return.                          *)
(***************************************************************************)
TimerInterrupt ==
    /\ intr = ON
    /\ inInterrupt' = TRUE
    /\ intr' = OFF
    /\ threadTicks' = threadTicks + 1
    /\ yieldOnReturn' = (threadTicks + 1 >= TIME_SLICE)
    /\ panic' = FirstFailure(ThreadCurrent(status, cpu))
    /\ UNCHANGED <<status, pc, cpu, savedIntr, oldLevel, readyList, allList,
                   idleThread, freePages, switchTo>>

(***************************************************************************)
(* thread_yield() called on the way out of the IRQ: cur goes to the back   *)
(* of ready_list unless it is idle_thread, becomes READY, and schedule()   *)
(* takes the in-interrupt path.                                            *)
(***************************************************************************)
\* faulty variant: idle_thread is queued like any other thread
ThreadYieldQueuesIdle ==
    LET cur == cpu
    IN  ScheduleInInterrupt(cur, [status EXCEPT ![cur] = READY],
            Append(readyList, cur),
            ThreadCurrent(status, cur))

ThreadYieldInInterrupt ==
    LET cur == cpu
    IN  ScheduleInInterrupt(cur, [status EXCEPT ![cur] = READY],
            IF cur # idleThread THEN Append(readyList, cur) ELSE readyList,
            ThreadCurrent(status, cur))

\* the interrupt epilogue: yield if asked to, then restore the frame
InterruptReturn ==
    /\ inInterrupt
    /\ inInterrupt' = FALSE
    /\ yieldOnReturn' = FALSE
    /\ IF yieldOnReturn
       THEN ThreadYieldInInterrupt
       ELSE /\ intr' = ON
            /\ UNCHANGED <<status, cpu, savedIntr, readyList, threadTicks,
                           freePages, pc, switchTo, panic>>
    /\ UNCHANGED <<oldLevel, allList, idleThread>>

=============================================================================
