\* The handler's write to CS against the GPU's pending matches.
CONSTANTS
    CounterBits = 5
    TIMER_PERIODIC_INTERVAL = 10
    HandlerSleep = 6
    ReadGap = 2
    TicksPerMs = 2
SPECIFICATION Spec
PROPERTY
    GpuMatchesNotStolen
