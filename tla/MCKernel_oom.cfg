\* thread_create when palloc_get_page fails: does the caller get its
\* interrupt level back? idle and two workers fit, the third may not.
CONSTANTS
    Main = Main
    Idle = Idle
    NULL = NULL
    w1 = w1
    w2 = w2
    w3 = w3
    w4 = w4
    Workers <- MCWorkers
    SpawnOrder <- MCSpawnOrder
    LockUsers <- MCLockUsers
    NumPages = 3

SPECIFICATION Spec

INVARIANT
    InterruptsEnabledWhereExpected
