-------------------------------- MODULE Timer --------------------------------
(***************************************************************************)
(* devices/timer.c with the BCM2835 system timer it drives.  The counter   *)
(* CLO counts up by one per microsecond and wraps at 2^CounterBits; when   *)
(* it reaches a compare register Cn the match bit Mn of CS is set, and M1  *)
(* raises IRQ_1.  Bits of CS are cleared by writing 1 to them (comment of  *)
(* timer_reset_timer_compare).  The GPU uses C0 and C2: it sees its own    *)
(* matches and clears them.  timer_irq_handler runs with IRQs masked, so   *)
(* only the counter and the GPU act between two of its steps, and the      *)
(* counter advances at most ReadGap times between them.  thread_tick is    *)
(* one step here; its effect on the threads is modelled in Thread.         *)
(***************************************************************************)
EXTENDS Integers, FiniteSets

CONSTANTS
    CounterBits,            \* width of CLO and of int, scaled down from 32
    TIMER_PERIODIC_INTERVAL,
    HandlerSleep,           \* timer_msleep (300000) in timer_irq_handler
    ReadGap,                \* counter increments between two handler steps
    TicksPerMs              \* CLO increments per millisecond (1000 at 1 MHz)

ASSUME /\ HandlerSleep < TIMER_PERIODIC_INTERVAL
       /\ TIMER_PERIODIC_INTERVAL < 2^(CounterBits - 1)
       /\ ReadGap >= 1
       /\ TicksPerMs >= 2

VARIABLES
    clo,       \* CLO
    c1,        \* C1
    cs,        \* the set match bits of CS
    pc,        \* program point of timer_irq_handler, "idle" outside it
    startTime, \* the local of timer_msleep
    gap,       \* counter increments since the handler's last step
    slept      \* increments since timer_msleep read startTime (saturating)

vars == <<clo, c1, cs, pc, startTime, gap, slept>>

Modulus == 2^CounterBits
Counter == 0 .. (Modulus - 1)
GpuChannels == {0, 2}
SleepLabels == {"sleep_read"}

\* unsigned -> int conversion (two's complement, as gcc does on ARM)
ToInt(u) == IF u >= 2^(CounterBits - 1) THEN u - Modulus ELSE u

\* timer_get_timestamp: `return timer_registers->CLO;` as int
timer_get_timestamp == ToInt(clo)

\* faulty variant: the counter read widened without wrap (64-bit arithmetic)
ElapsedNoWrap(now, start) ==
    (IF now < 0 THEN now + Modulus ELSE now) -
    (IF start < 0 THEN start + Modulus ELSE start)

\* `timer_get_timestamp() - startTime` in int, wrapping on overflow
Elapsed(now, start) == ToInt((now - start) % Modulus)

\* timer_init: timer_set_interval(IRQ_1, TIMER_PERIODIC_INTERVAL) at
\* whatever value the counter has reached since power-on
Init ==
    /\ clo \in Counter
    /\ c1 = (clo + TIMER_PERIODIC_INTERVAL) % Modulus
    /\ cs = {}
    /\ pc = "idle"
    /\ startTime = 0
    /\ gap = 0
    /\ slept = 0

\* the counter advances; a compare register equal to it sets its match bit
\* (the GPU's own matches are GpuMatch)
CounterTick ==
    /\ pc = "idle" \/ gap < ReadGap
    /\ clo' = (clo + 1) % Modulus
    /\ cs' = IF clo' = c1 THEN cs \cup {1} ELSE cs
    /\ gap' = IF pc = "idle" THEN 0 ELSE gap + 1
    /\ slept' = IF pc \in SleepLabels THEN (IF slept < Modulus THEN slept + 1 ELSE slept)
                ELSE slept
    /\ UNCHANGED <<c1, pc, startTime>>

GpuMatch(i) ==
    /\ cs' = cs \cup {i}
    /\ UNCHANGED <<clo, c1, pc, startTime, gap, slept>>

\* the GPU acknowledges its match: it writes 1 to its own bit only
GpuAck(i) ==
    /\ i \in cs
    /\ cs' = cs \ {i}
    /\ UNCHANGED <<clo, c1, pc, startTime, gap, slept>>

\* IRQ_1 is taken: timer_irq_handler starts
TimerIrq ==
    /\ pc = "idle"
    /\ 1 \in cs
    /\ pc' = "reset"
    /\ gap' = 0
    /\ UNCHANGED <<clo, c1, cs, startTime, slept>>

\* a handler step: the counter may have advanced up to ReadGap times before
HandlerStep(from, to) ==
    /\ pc = from
    /\ pc' = to
    /\ gap' = 0

\* timer_reset_timer_compare(IRQ_1): CS = CS | (1 << 1), which writes 1 to
\* every match bit read as set, and so clears all of them
timer_reset_timer_compare ==
    /\ HandlerStep("reset", "tick")
    /\ cs' = cs \ (cs \cup {1})
    /\ UNCHANGED <<clo, c1, startTime, slept>>

ThreadTick ==
    /\ HandlerStep("tick", "sleep_start")
    /\ UNCHANGED <<clo, c1, cs, startTime, slept>>

\* timer_msleep: startTime = timer_get_timestamp()
SleepStart ==
    /\ HandlerStep("sleep_start", "sleep_read")
    /\ startTime' = timer_get_timestamp
    /\ slept' = 0
    /\ UNCHANGED <<clo, c1, cs>>

\* elapseTime = timer_get_timestamp() - startTime; while (ms > elapseTime)
SleepRead ==
    /\ HandlerStep("sleep_read",
                   IF HandlerSleep > Elapsed(timer_get_timestamp, startTime)
                   THEN "sleep_read" ELSE "set_interval")
    /\ UNCHANGED <<clo, c1, cs, startTime, slept>>

\* timer_set_interval(IRQ_1, TIMER_PERIODIC_INTERVAL): C1 = CLO + interval;
\* then the handler returns
timer_set_interval ==
    /\ HandlerStep("set_interval", "idle")
    /\ c1' = (clo + TIMER_PERIODIC_INTERVAL) % Modulus
    /\ UNCHANGED <<clo, cs, startTime, slept>>

Next ==
    \/ CounterTick
    \/ \E i \in GpuChannels : GpuMatch(i) \/ GpuAck(i)
    \/ TimerIrq \/ timer_reset_timer_compare \/ ThreadTick
    \/ SleepStart \/ SleepRead \/ timer_set_interval

Spec == Init /\ [][Next]_vars

-----------------------------------------------------------------------------

\* timer_msleep in the handler compares its argument with a difference of
\* CLO readings, so it waits that many counter ticks (microseconds), and
\* exactly that many whatever value CLO had when it started: when the loop
\* exits, at least HandlerSleep and at most HandlerSleep + ReadGap ticks
\* have passed, also when the counter (and the int difference) wrapped.
HandlerSleepExact ==
    pc = "set_interval" => slept \in HandlerSleep .. (HandlerSleep + ReadGap)

\* timer_msleep waits as long as its name, its parameter `milliseconds` and
\* the comment on TIMER_PERIODIC_INTERVAL (timer.c:9) say: when the
\* handler's timer_msleep(300000) returns, HandlerSleep milliseconds, that
\* is HandlerSleep * TicksPerMs ticks of the 1 MHz CLO, have passed.
HandlerSleepMilliseconds ==
    pc = "set_interval" => slept >= HandlerSleep * TicksPerMs

\* The ARM clears only its own match bit: a match of the GPU's C0 or C2 is
\* cleared by the GPU and by nothing else (timer_reset_timer_compare's
\* comment: to clear the interrupt of Cn, write 1 to bit n).
GpuMatchesNotStolen ==
    [][\A i \in GpuChannels : (i \in cs /\ i \notin cs') => GpuAck(i)]_vars

=============================================================================
