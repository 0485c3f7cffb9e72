\* Interrupt levels across every save/restore and both schedule() paths,
\* with a page for every thread so that thread_create always succeeds.
CONSTANTS
    Main = Main
    Idle = Idle
    NULL = NULL
    w1 = w1
    w2 = w2
    w3 = w3
    w4 = w4
    Workers <- MCWorkers
    SpawnOrder <- MCSpawnOrder
    LockUsers <- MCLockUsers
    NumPages = 4

SPECIFICATION Spec

INVARIANT
    InterruptsEnabledWhereExpected
