\* The handler's sleep measured against the unit its code documents; a
\* millisecond is scaled down from 1000 counter ticks to 2.
CONSTANTS
    CounterBits = 5
    TIMER_PERIODIC_INTERVAL = 10
    HandlerSleep = 6
    ReadGap = 2
    TicksPerMs = 2
SPECIFICATION Spec
INVARIANT HandlerSleepMilliseconds
