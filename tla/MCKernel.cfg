\* The thread system with four workers, three of them contending for
\* lock_task, and too few pages for every worker at once (idle and three
\* workers fit, the fourth thread_create may fail until a page is reclaimed):
\* safety, termination under the fairness of Spec, and the lifecycle refinement.
CONSTANTS
    Main = Main
    Idle = Idle
    NULL = NULL
    w1 = w1
    w2 = w2
    w3 = w3
    w4 = w4
    Workers <- MCWorkers4
    SpawnOrder <- MCSpawnOrder4
    LockUsers <- MCLockUsers4
    NumPages = 4

SPECIFICATION Spec

INVARIANTS
    TypeOK
    NoAssertionFailure
    CpuRunsRunningThread
    ReadyQueueConsistent
    PagesAccounted
    RegistryMatchesLiveThreads
    LockMutualExclusion

PROPERTIES
    AllThreadsFinish
    KernelRefinesLifecycle
