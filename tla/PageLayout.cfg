\* The first and the last page palloc hands out (PHYS_START_FREE_MEMORY,
\* PHYS_END_FREE_MEMORY - PGSIZE), and init()'s stack below 0x8000.
CONSTANTS
    Pages = {262144, 536866816}
    InitialSp = 32720
SPECIFICATION Spec
INVARIANTS
    TypeOK
    RunningThreadFound
