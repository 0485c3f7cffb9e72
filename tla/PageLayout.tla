------------------------------ MODULE PageLayout ------------------------------
(***************************************************************************)
(* A thread's page (threads/thread.h, threads/vaddr.h): struct thread at  *)
(* offset 0, the stack growing down from the top.  The running thread is  *)
(* found by rounding a stack pointer down to its page                      *)
(* (thread_get_running_thread), the stack pointer taken from the saved IRQ *)
(* frame inside an interrupt and from the CPU otherwise.  One thread's     *)
(* stack is followed from its first stack pointer (thread_init or          *)
(* thread_create) as it grows, down to the base of its page.  Addresses   *)
(* are uintptr_t values below 2^31, which holds every address the kernel   *)
(* uses (RAM below PHYS_END_FREE_MEMORY, peripherals at 0x20000000).       *)
(***************************************************************************)
EXTENDS Naturals, Bitwise

CONSTANTS
    Pages,       \* pages palloc_get_page can return to thread_create
    InitialSp    \* stack pointer of init() when thread_init runs (start.s)

VARIABLES
    page,      \* the thread's struct thread
    sp,        \* its stack pointer (r13 in SYS mode)
    irq,       \* an IRQ is being handled
    frameSp    \* r13_sp of the current interrupts stack frame

vars == <<page, sp, irq, frameSp>>

NULL == 0

\* vaddr.h
BITMASK(SHIFT, CNT) == (2^CNT - 1) * 2^SHIFT
PGSHIFT == 0
PGBITS == 12
PGSIZE == 2^PGBITS
PGMASK == BITMASK(PGSHIFT, PGBITS)
AddressBits == 2^30 - 1 + 2^30
pg_ofs(va) == va & PGMASK
pg_round_down(va) == va & (AddressBits - PGMASK)

\* get_first_thread: the page holding the stack pointer of start.s
get_first_thread(cur_sp) == pg_round_down(cur_sp)

\* faulty variant: the stack pointer at the very top of the page
ThreadCreateSpAtTop(thread) == thread + PGSIZE
\* thread_create: r13_sp = (uint8_t *) thread + PGSIZE - 4
ThreadCreateSp(thread) == thread + PGSIZE - 4

\* thread_get_running_thread: frame sp in an IRQ, live sp otherwise
thread_get_running_thread ==
    pg_round_down(IF irq THEN frameSp ELSE sp)

\* thread_init (initial_thread) or thread_create on a page of palloc
Init ==
    /\ \/ /\ page = get_first_thread(InitialSp)
          /\ sp = InitialSp
       \/ \E p \in Pages :
          /\ page = p
          /\ sp = ThreadCreateSp(p)
    /\ irq = FALSE
    /\ frameSp = NULL

\* faulty variant: a stack that keeps growing below its page
PushPastBase ==
    /\ ~irq
    /\ sp - 4 >= page - 8
    /\ sp' = sp - 4
    /\ UNCHANGED <<page, irq, frameSp>>

\* a push onto the full descending stack, down to the base of the page
Push ==
    /\ ~irq
    /\ sp - 4 >= page
    /\ sp' = sp - 4
    /\ UNCHANGED <<page, irq, frameSp>>

\* IRQ entry: irq_handler_int saves the SYS-mode r13 in the frame
IrqEntry ==
    /\ ~irq
    /\ irq' = TRUE
    /\ frameSp' = sp
    /\ UNCHANGED <<page, sp>>

\* IRQ return; interrupts_was_irq_generated no longer holds, so the frame's
\* r13_sp is not read again (kept as NULL)
IrqReturn ==
    /\ irq
    /\ irq' = FALSE
    /\ frameSp' = NULL
    /\ UNCHANGED <<page, sp>>

Next == Push \/ IrqEntry \/ IrqReturn

Spec == Init /\ [][Next]_vars

-----------------------------------------------------------------------------

TypeOK ==
    /\ page \in {get_first_thread(InitialSp)} \cup Pages
    /\ sp \in page .. (page + PGSIZE - 1)
    /\ irq \in BOOLEAN
    /\ frameSp \in {NULL} \cup (page .. (page + PGSIZE - 1))

\* thread_current() finds the thread whose stack is in use, inside an IRQ
\* and out of one, for every depth of its stack: in particular the first
\* stack pointer thread_create gives a thread lies in the thread's page.
RunningThreadFound == thread_get_running_thread = page

=============================================================================
