\* CLO and int scaled to 5 bits; interval and sleep keep 300000 < 500000 < 2^31.
CONSTANTS
    CounterBits = 5
    TIMER_PERIODIC_INTERVAL = 10
    HandlerSleep = 6
    ReadGap = 2
    TicksPerMs = 2
SPECIFICATION Spec
INVARIANT HandlerSleepExact
