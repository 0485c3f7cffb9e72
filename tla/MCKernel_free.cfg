\* Does the CPU ever run on a page the allocator got back? thread_exit
\* goes through save_and_switch_context, which calls thread_schedule_tail
\* before it leaves the dying thread's stack.
CONSTANTS
    Main = Main
    Idle = Idle
    NULL = NULL
    w1 = w1
    w2 = w2
    w3 = w3
    w4 = w4
    Workers <- MCWorkers
    SpawnOrder <- MCSpawnOrder
    LockUsers <- MCLockUsers
    NumPages = 4

SPECIFICATION Spec

INVARIANT
    CpuNeverOnFreedPage
