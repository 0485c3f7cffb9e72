# TLA+ models of the osOs thread system

This directory holds TLA+ models of the kernel in `src/`. It is a single-core, Pintos-like kernel for the Raspberry Pi.

The models cover:
- the thread system and its two scheduling paths;
- timer preemption;
- semaphores and the lock;
- the page count;
- the boot sequence and workload of `init.c`;
- the word-level bitmap of `lib/kernel/bitmap.c`;
- the text console of `devices/video.c` on the framebuffer.

TLC checks them under every interleaving of timer interrupts with the threads' own steps.

## The system

| Part | Source | State | Operations |
|---|---|---|---|
| Thread system | `threads/thread.c`, `thread.h` | Per-thread `status` and saved stack frame (`stack_frame`, including CPSR). `ready_list` (FIFO), `all_list`, `initial_thread`, `idle_thread`, `thread_ticks`. | `thread_init`, `thread_start`, `thread_create`, `thread_block`, `thread_unblock`, `thread_exit`, `thread_yield`, `thread_tick`, `schedule` with `schedule_in_interrupt` / `schedule_not_in_interrupt`, `context_switch`, `thread_save_stack_frame`, `thread_schedule_tail`, `idle`, `kernel_thread` |
| Timer | `devices/timer.c` | BCM2835 system timer: counter `CLO`, compare `C1`, match bits `CS` | `timer_init`, `timer_irq_handler` (`timer_reset_timer_compare`, `thread_tick`, `timer_msleep`, `timer_set_interval`), `timer_get_timestamp` |
| Interrupts | `threads/interrupt.h` (API only; `interrupt.c` and the assembly are not in `src/`) | CPSR I bit; "yield on return" flag | `interrupts_disable` / `enable` / `set_level`, IRQ entry and epilogue, `interrupts_yield_on_return` |
| Synchronisation | `synch.c` is not in `src/` (spec §4.3) | Semaphore value and FIFO waiters; lock holder | `sema_down`, `sema_up`, `lock_acquire`, `lock_release` |
| Page allocator | `palloc.c` is not in `src/` | Free pages | `palloc_get_page`, `palloc_free_page` |
| Boot and workload | `threads/init.c` | `lock_task`, seven tasks | `init`, `init_all_threads`, `task_0`..`task_6` |
| Panic | `lib/debug.c`, `debug.h` | Halted or not | `ASSERT`, `PANIC`, `debug_panic` |
| Bitmap | `lib/kernel/bitmap.c` | An array of `elem_type` words | `bitmap_create`, `bitmap_set*`, `bitmap_mark`/`reset`, `bitmap_test`, `bitmap_contains`, `bitmap_any`/`none`/`all`, `bitmap_scan`, `bitmap_scan_and_flip` |
| Page arithmetic and thread layout | `threads/vaddr.h`, `thread.h`, `thread.c` | A thread's page: `struct thread` at offset 0, the stack above it | `pg_ofs`, `pg_round_down`, `get_first_thread`, `thread_get_running_thread`, the first stack pointer of `thread_create` |
| Video console, framebuffer, GPIO | `devices/video.c`, `screen.h`, `framebuffer.c`, `gpio.c` | `screen.x_position`/`y_position`, the framebuffer's pixels, the ACT led | `framebuffer_init`, `video_init`, `video_putc` (with `video_new_line_fastest`, `video_clean_row`, `video_clean_character`, `video_calculate_new_position`) |

### How the parts interact

Mutual exclusion comes only from masking IRQs. Every scheduler operation runs with IRQs off, so each such stretch is one atomic step of the model.

The timer IRQ calls `thread_tick`. When the thread has run `TIME_SLICE` (2) ticks, `thread_tick` calls `interrupts_yield_on_return`. The IRQ epilogue then runs `thread_yield`. `thread_yield` calls `schedule()`, which takes the in-interrupt path:
1. `thread_save_stack_frame` copies the IRQ frame into the current thread.
2. `context_switch` overwrites the frame with the next thread's frame.
3. `thread_schedule_tail` runs.
4. Returning from the IRQ resumes the next thread with its saved CPSR.

Blocking and exiting take the voluntary path. There, `save_and_switch_context` (assembly) saves the context, calls `thread_schedule_tail`, and only then switches stacks (comment at `thread.c:23-26`).

`thread_current()` finds the running thread by rounding a stack pointer down to its page: the SYS-mode stack pointer saved in the IRQ frame inside an interrupt, the live one otherwise.

The timer raises IRQ_1 when the free-running counter `CLO` reaches `C1`. The handler clears the match in `CS`, calls `thread_tick`, busy-waits 300000 µs in `timer_msleep`, and sets `C1 = CLO + 500000`. The GPU uses compare channels 0 and 2 of the same timer.

`thread_schedule_tail` does the following:
- marks the next thread RUNNING;
- resets `thread_ticks`;
- frees the page of a DYING previous thread, unless it is the initial thread.

### Hard behaviours

- The timer can preempt any thread at any point where IRQs are on:
  - inside a lock's critical section;
  - between `thread_create`'s `interrupts_set_level` and its `thread_unblock`;
  - between `thread_start`'s `interrupts_enable` and its `sema_down`.
- `idle_thread` is NULL until the idle thread first runs. A schedule with an empty ready list before then picks NULL.
- A thread's interrupt level is saved in one path and restored by whichever path resumes it.
- `thread_create` can fail for lack of pages.
- A dying thread's page is reclaimed by a different thread.

### Correctness properties per part

- **Thread system:**
  - no ASSERT fails;
  - the CPU runs exactly the RUNNING thread;
  - the ready list holds exactly the READY threads other than idle, each once;
  - `all_list` holds exactly the live threads;
  - pages are accounted for;
  - IRQs are on wherever the code expects to be preemptible;
  - every thread eventually finishes.
- **Thread lifecycle:** the kernel implements `ThreadLifecycle`:
  - a created thread starts BLOCKED and only `thread_unblock` makes it READY, at the back of the queue;
  - every block, yield or exit dispatches the queue head (`idle_thread` when the queue is empty);
  - only the exiting thread's page is reclaimed.
- **Page layout:** `thread_current()` names the thread whose stack is in use at every stack depth.
- **Timer:** `timer_msleep` in the handler waits exactly its argument in counter ticks (microseconds), across the counter's wrap; that it waits milliseconds, as the code documents, and that the handler clears only its own match bit, are both violated (findings 5 and 6).
- **Lock:** at most one holder. Every waiter eventually gets the lock.
- **Video console:** whenever no `video_putc` is between its drawing and its cursor update, after any interleaving of a thread's printing with printing from IRQ context (`schedule()` and `thread_schedule_tail` call `printf` when the timer IRQ yields on return), the screen shows the last rows of the text written, wrapped at the screen width; no character is garbled or left over after a scroll; the cursor is on a whole cell of the screen, just after the text.
- **Bitmap:**
  - each write changes exactly its own bit;
  - a scan finds the first fitting group;
  - `bitmap_any`/`none`/`all` answer for exactly their range;
  - padding bits never show.

## Modules

| Module | Models | Composes |
|---|---|---|
| `Thread.tla` | The thread system of `thread.c`, the timer tick, and the IRQ epilogue. Parameterised by the thread identities (`Main`, `Idle`, `Workers`) and `NumPages`. | — |
| `Synch.tla` | Semaphores and `lock_task` (spec-modelled). | EXTENDS `Thread` |
| `Kernel.tla` | `init()`, `thread_start`, `idle`, `kernel_thread` and the task bodies of `init.c`. Each thread has a program counter whose labels are the points where the code can be preempted or blocks. Defines `Next`, fairness and the properties. | EXTENDS `Synch` |
| `MCKernel.tla` | The model: three workers in creation order, two of which use `lock_task` as task_2 and task_4 do. | EXTENDS `Kernel` |
| `BitmapSpec.tla` | What `bitmap.c` promises: an array of `BitCnt` booleans, all false at creation. Each call writes its bits one at a time, atomically. `scan_and_flip` finds the first group (`FirstGroup`, a set-based reference). | — |
| `Bitmap.tla` | `bitmap.c` at the word level: `elem_idx`, `bit_mask`, `bitmap_test`, and the loops of `bitmap_contains`, `bitmap_scan` and `bitmap_set_multiple` as RECURSIVE operators. `bitmap_mark`/`bitmap_reset` are split into a `Load` and a `Store` step. Callers run `bitmap_set_multiple` and `bitmap_scan_and_flip`. | INSTANCEs `BitmapSpec` WITH `bitset <-` the bits decoded from the words |
| `ThreadLifecycle.tla` | What the thread system promises, with no CPU, stacks or IRQ levels: a state per thread, the ready queue, `idle_thread`. Actions `LCreate`, `LUnblock`, `LBlock`, `LYield`, `LExit`, `LIdleRegisters`. | `Kernel` INSTANCEs it WITH `state <- status`, `queue <- readyList`, `idle <- idleThread`, `Initial <- Main` |
| `PageLayout.tla` | One thread's page: `PGMASK`, `pg_ofs`, `pg_round_down` over addresses below 2^31 (all RAM and peripherals), the first stack pointer (`thread_init` or `thread_create`), a stack growing to the page base, IRQ entry saving the stack pointer in the frame. Constants `Pages`, `InitialSp`. | — |
| `Timer.tla` | `timer.c` and the BCM2835 system timer: `CLO` wrapping at `2^CounterBits`, `C1`, `CS` as a set of match bits cleared by writing 1; the GPU matching and acknowledging channels 0 and 2; the handler as one step per statement; `timer_msleep`'s loop in wrapping `int` arithmetic. A ghost `slept` counts the microseconds since `startTime` was read. | — |
| `Video.tla` | `video.c` on the screen's character cells: the cursor in pixels as in the code; a cell is blank, a character, boot-time junk, or garbled (a glyph drawn over a cell that was not clean). `framebuffer_init` (a NULL framebuffer lights the ACT led and hangs), `video_init`, `video_putc` of a thread split at its statements (mask IRQs, clean and draw, move the cursor, restore the level), interleaved with whole `video_putc` calls from IRQ context, which can only happen while the thread's IRQs are on. A ghost `shown` holds the reference: the rows of text the screen should show, built by `AddChar` independently of the cursor arithmetic. | — |
| `MCBitmap.tla` | 2-bit words, so that a 5-bit bitmap spans three words and the last word has a padding bit. Callers may make every call the assertions allow. | EXTENDS `Bitmap` |

### How state and actions correspond to the code

**State:**

| Variable | Code |
|---|---|
| `status` | `t->status`. `NOTHREAD` is a thread not yet created, or one whose page is freed. |
| `cpu` | The thread whose registers the CPU holds: `thread_get_running_thread()`. |
| `savedIntr` | The I bit of `t->stack_frame.cpsr`. |
| `intr` | The current CPSR I bit. |
| `oldLevel` | The `old_level` a blocked thread will restore. |
| `readyList` | `ready_list`. |
| `allList` | `all_list`. |
| `idleThread` | `idle_thread`. |
| `threadTicks` | `thread_ticks`. |
| `freePages` | palloc's free count. |
| `switchTo` | Non-NULL between `thread_schedule_tail` and the stack switch inside `save_and_switch_context`. |
| `inInterrupt`, `yieldOnReturn` | The IRQ in progress and its "yield on return" flag. |
| `panic` | Set by a failed ASSERT. |

**Actions:**

| Action | Code |
|---|---|
| `ThreadCreate`, then `CreateUnblock` | `thread_create` up to `interrupts_set_level` (`thread.c:215-262`), then the `thread_unblock` (263-266). Split at the one point where the timer can strike in between. The out-of-memory return is part of `ThreadCreate`. |
| `ScheduleInInterrupt` | `schedule` followed by `schedule_in_interrupt`, `context_switch` and `thread_schedule_tail`, as one step. |
| `ScheduleNotInInterrupt`, then `SwitchContext` | `save_and_switch_context`: save and tail, then the stack switch. |
| `TimerInterrupt` | `timer_irq_handler` and `thread_tick`. |
| `InterruptReturn` | The epilogue: `thread_yield` if requested, else restore the CPSR. |
| `Kernel` actions | One per stretch of `init.c` / `thread_start` / `idle` / task code between two labels. |
| `Bitmap`: `bits`, `call`, `pos`, `loaded`, `result` | `b->bits`; the call in progress per caller; the loop index `i` of `bitmap_set_multiple`; the word read by a pending `\|=` or `&= ~`; the index `bitmap_scan_and_flip` returned. `Begin` runs the scan. `Load` and `Store` are the two halves of `bitmap_mark`/`bitmap_reset`. `Return` ends the loop. |

| `PageLayout`: `Init`, `Push`, `IrqEntry`, `IrqReturn` | `thread_init`/`get_first_thread` or `thread_create`'s `r13_sp = thread + PGSIZE - 4`; any push of the full descending stack; `irq_handler_int` saving the SYS-mode `r13` in the frame; the epilogue. `thread_get_running_thread` is an operator over them. |
| `Video`: `Init`, `Hang`, `PutcEnter`, `PutcDraw`, `PutcMove`, `PutcLeave`, `IrqPutc` | `framebuffer_init` and `video_init`; the `while(true)` after a failed framebuffer; a thread's `video_putc`: `interrupts_disable`, then `video_clean_character` and `DrawCharacter`, then `video_calculate_new_position` or `video_new_line` (with any scroll), then `interrupts_set_level(old_level)`; one whole `video_putc` from IRQ context (IRQ mode keeps IRQs masked), enabled only while the thread's IRQs are on. |
| `Timer`: `CounterTick`, `GpuMatch`/`GpuAck`, `TimerIrq`, `timer_reset_timer_compare`, `ThreadTick`, `SleepStart`, `SleepRead`, `timer_set_interval` | The counter (hardware), the GPU's use of its channels, and the statements of `timer_irq_handler` in order; `SleepRead` is one iteration of `timer_msleep`'s `while`. |

**Data abstraction.** Names, priorities, tids, printing and loop counts are abstracted away. A task body's loops become an interruptible `run` step (and a `cs` step inside the lock).

## Runs

The kernel runs use `MCKernel`. `kernel_safety` has 4 workers, with `w1`, `w3` and `w4` as lock users. The other kernel runs have 3 workers, with `w1` and `w3` as lock users.

| Run | Cfg | Expect | Checks |
|---|---|---|---|
| `kernel_safety` | `MCKernel.cfg`, 4 workers, `NumPages = 4` | pass | `TypeOK`, `NoAssertionFailure`, `CpuRunsRunningThread`, `ReadyQueueConsistent`, `PagesAccounted`, `RegistryMatchesLiveThreads`, `LockMutualExclusion`; `AllThreadsFinish` under the fairness of `Spec` (main and every worker created reach `thread_exit`, every worker page is reclaimed); `KernelRefinesLifecycle` (= `ThreadLifecycle!LSpec` under the mapping). Four pages hold idle and three workers, so the fourth creation fails in some behaviours and succeeds in others (after an exit). About 290,000 states, 85 s. |
| `kernel_interrupt_levels` | `MCKernel_irq.cfg`, `NumPages = 4` | pass | `InterruptsEnabledWhereExpected`: every creation succeeds. Every thread resumed by either path, at every label where the code runs preemptibly, has IRQs on. |
| `create_oom_leaves_irqs_off` | `MCKernel_oom.cfg`, `NumPages = 3` | violation | `InterruptsEnabledWhereExpected`. See findings. |
| `exit_frees_running_stack` | `MCKernel_free.cfg`, `NumPages = 4` | violation | `CpuNeverOnFreedPage`. See findings. |
| `bitmap_refinement` | `MCBitmap.cfg`, one caller | pass | `TypeOK`, `RangeQueriesMatchBits` and `BitmapRefines` (= `BitmapSpec!ASpec` under the decoding of words to bits). Checks: `bitmap_create` clears exactly the bitmap's bits while malloc's padding bits stay arbitrary; each store changes exactly the bit its call is at; `bitmap_scan`'s loop returns `FirstGroup`, including for `cnt = bit_cnt` and `cnt > bit_cnt`; `bitmap_any`/`none`/`all` agree with the bits of every legal range in every reachable state. |
| `bitmap_mark_race` | `MCBitmap_race.cfg`, two callers setting bit 0 and bit 1 | violation | `BitmapRefines`. See findings. |
| `bitmap_scan_zero` | `MCBitmap_zero.cfg` | violation | `ScanZeroCountReturnsZero`. See findings. |
| `page_layout` | `PageLayout.cfg`: pages `0x40000` and `0x1FFFF000`, `InitialSp = 0x7FD0` | pass | `TypeOK`, `RunningThreadFound` (the page found by `thread_get_running_thread`, in an IRQ or not, is the thread's own at every stack depth from the first push to the page base). |
| `timer_handler_sleep` | `Timer.cfg`: `CounterBits = 5`, interval 10, sleep 6, `ReadGap = 2` | pass | `HandlerSleepExact`: from every starting counter value, so also across the wrap of `CLO` and of the `int` difference, the handler's `timer_msleep` returns after between `HandlerSleep` and `HandlerSleep + ReadGap` ticks of the counter. |
| `timer_sleep_units` | `Timer_units.cfg`: as `Timer.cfg`, a millisecond scaled to `TicksPerMs = 2` ticks | violation | `HandlerSleepMilliseconds`. See findings. |
| `timer_clears_gpu_matches` | `Timer_gpu.cfg` | violation | `GpuMatchesNotStolen`. See findings. |
| `video_console` | `Video.cfg`: the code's 8 x 16 font on a 24 x 48 pixel screen (3 x 3 cells), characters `a`, `b` and `'\n'` | pass | `TypeOK` (the cursor is always on a whole cell of the screen) and `ScreenShowsConsole`, over every boot-time content of the framebuffer and every interleaving with IRQ-context printing. 280,202 states. The mutant that drops the `interrupts_disable` of `video_putc` breaks `ScreenShowsConsole`: an IRQ print between the draw and the cursor update overwrites the thread's character. |

**Why these bounds are enough:**
- Four workers (in `kernel_safety`) give three lock contenders plus one thread that never takes the lock. So two waiters can queue behind a preempted holder, which tests the FIFO hand-over of `sema_up`, while another thread runs. The runs about IRQ levels and the two violations keep three workers.
- One page fewer than idle plus all workers makes exactly one creation fail, unless an earlier worker has already exited.
- Bitmap: 2-bit words stand for the 32-bit `elem_type`. The word arithmetic is the same for any width; what matters is that the bitmap spans several words and ends in a partial word. Five bits and every legal call cover the scan's boundary cases (`cnt` of 0, 5 and 6; `start` of 5).
- `PageLayout`: the first and the last page palloc can hand out (`PHYS_START_FREE_MEMORY`, `PHYS_END_FREE_MEMORY - PGSIZE`) are the two ends of the address range, where a width or off-by-one error in the mask would show; every stack depth of each is explored. `start.s` is not in the repository, so `InitialSp` is a parameter. The run places it just below the Pi's load address `0x8000`.
- `Timer`: the 32-bit `CLO` and `int` are scaled to 5 bits. What matters is kept: `HandlerSleep < TIMER_PERIODIC_INTERVAL < 2^(CounterBits-1)`, as 300000 < 500000 < 2^31, and every start value, so every position of the wrap, is explored. `ReadGap = 2`: with IRQs masked, consecutive reads of `CLO` are far less than a microsecond apart, so 2 is generous. `TicksPerMs` only enters `HandlerSleepMilliseconds`; any value of 2 or more shows the divergence, as 1000 does.
- `Video`: three columns and three rows let a row wrap in the middle of the text, fill the screen and scroll, with rows of different lengths. Every initial framebuffer content (blank or junk per cell) is explored. `shown` keeps only the rows on screen, so the state space is finite without a cap on the text.
- Ticks are not counted beyond `TIME_SLICE`, since `thread_ticks` is reset on every schedule. The state space is therefore finite without an artificial cap.

**Fairness.**
- Each thread has strong fairness on its own steps, `SF_vars(Step(t))`. A thread that is repeatedly scheduled takes its step, because the timer is the only thing that takes the CPU away and it needs two ticks.
- `SwitchContext` and the IRQ epilogue have weak fairness. The assembly always completes them.
- The timer itself gets no fairness. Termination must not depend on preemption: `timer_msleep` busy-waits, and a thread runs on until it blocks or exits.

## Findings

1. **Out of memory leaves IRQs masked** (`thread.c:231`, run `create_oom_leaves_irqs_off`).
   - `thread_create` disables interrupts.
   - When `palloc_get_page` fails, it returns `TID_ERROR` without restoring the level.
   - Main then runs the rest of `init_all_threads` and its loop with IRQs off: the timer can no longer preempt it.
   - The success path restores the level.
2. **A dying thread's page is freed while its stack is in use** (`thread.c:446`, run `exit_frees_running_stack`).
   - The voluntary path runs `thread_schedule_tail` inside `save_and_switch_context` before the stack switch.
   - So `palloc_free_page(prev)` and the `timer_msleep` that follows both execute on the freed page.
   - The spec (§4.2, §9) says the page is released after the switch.
3. **`bitmap_mark` is not atomic** (`bitmap.c:151`, run `bitmap_mark_race`).
   - The comments at 109, 147 and 154 say the bit is set atomically.
   - `b->bits[idx] |= mask` is a load and a store.
   - A caller preempted between them writes back a stale word and clears the bit another caller set in the same word.
4. **`bitmap_scan_and_flip` with `cnt = 0`** (`bitmap.c:217`, run `bitmap_scan_zero`).
   - The comment says it returns 0.
   - The scan loop returns `start`.

5. **`timer_msleep` counts microseconds, its callers milliseconds** (`timer.c:55`, run `timer_sleep_units`).
   - The parameter is named `milliseconds`, and `TIMER_PERIODIC_INTERVAL` (500000) is commented "Time in miliseconds" (`timer.c:9`).
   - The loop compares the argument with a difference of `CLO` readings, and `CLO` ticks at 1 MHz.
   - So the handler's `timer_msleep(300000)` waits 0.3 s, not 300 s, and the timer fires every 0.5 s, not every 500 s.
6. **The timer handler clears the GPU's matches** (`timer.c:72`, run `timer_clears_gpu_matches`).
   - `timer_reset_timer_compare` writes `CS = CS | (1 << 1)`.
   - Its own comment (60-64) says a match is cleared by writing 1 to its bit.
   - Writing back the value read therefore clears every pending match, including those of `C0` and `C2`, which the register declarations reserve for the GPU.
   - (The comment's example values 0x20 and 0x80 are also not `1 << 1` and `1 << 3`.)

## Not modelled

| Part | Why |
|---|---|
| The drawing colour | `SetForeColour`/`GetForeColour` live in `drawing.s`, not under `src/`. `video_clean_row` and `video_clean_character` restore the colour they change. `video_clean` sets it to black and does not restore it, so text printed after a `video_clean` would be black on black. Nothing in `src/` calls `video_clean`. |
| `video_clean` | Not called anywhere in `src/`. It also clears the screen and resets the cursor without masking IRQs, unlike `video_putc`, so an IRQ-context print during it could be half cleared; modelling it would check a race no caller can reach. |
| `video_new_line_faster`, `_slower`, `_slowest` | Dead code: `VIDEO_MEMORY_COPY_METHOD` is 0. Each copies the same bytes as `video_new_line_fastest`. |
| The mailbox exchange of `InitialiseFrameBuffer`, the GPU pitch | Assembly, not under `src/`. `video_new_line` assumes that the pitch is width x 2 bytes. |
| Rows reached by `'\n'` without a scroll | They are not cleaned: the clean at `video.c:96` is commented out. So boot-time framebuffer content stays visible after the text of such a row. `ScreenShowsConsole` allows it (junk, never a character); whether the GPU hands out a cleared framebuffer is not known from the code. |
| `timer_msleep` called from threads (IRQs on) | The arithmetic is the one `Timer` checks. Only a thread descheduled for 2^31 µs (about 36 minutes) between two reads could see a negative difference and oversleep. `Kernel` keeps such sleeps as plain interruptible steps. |
| Composition of `Timer` with `Kernel` | `Kernel`'s timer interrupt may come at any interruptible point, which includes every timing `Timer` allows. |
| An abstract lock that `Synch` refines | `LockMutualExclusion` and `AllThreadsFinish` state what the lock promises. Acquisition is not FIFO (a released lock can be taken by a running thread before the woken waiter re-tests), so there is no FIFO property to add. |
| `thread_foreach`, `thread_print_stats`, `thread_name`, `thread_tid`, the nice/load stubs | Nothing calls `thread_foreach`. The others are reads or printing. |
| `thread_set_priority`, names, tids, statistics | No property tells them apart. |
| The canary check itself | `magic` is the last member of `struct thread`, so a stack overflowing from above reaches it first; this follows from the declaration and is not checked. What `thread_current` then does is `ThreadCurrent` in `Thread`: its two ASSERTs (`is_thread`, RUNNING), checked by `thread_tick`, `thread_block`, `thread_yield` and `thread_exit`. |
| `bitmap_destroy`, `bitmap_create_in_buf`, `bitmap_buf_size`, `bitmap_size`, `bitmap_dump` | Freeing, buffer layout, a field read and printing; nothing in `src/` calls them. |
| Two callers claiming the same group in `bitmap_scan_and_flip` | The scan is one step, and the flips that follow are separate steps. `BitmapSpec` therefore lets two callers find and claim the same group, as the comment at `bitmap.c:218` allows ("testing bits is not atomic with setting them"). Preventing it is the caller's duty, and no caller is in `src/`. |
| `pg_no`, `pg_round_up` | Not used by the kernel. |
| The start stack of `init()` | `get_first_thread` takes the page of the stack `start.s` sets up; `start.s` is not in the repository. The example 4080 in `thread_init`'s comment (`thread.c:89`) would give page 0, which is NULL, as the comment itself says. |

## Plan

Sitting 1 built `Thread`, `Synch`, `Kernel`, `MCKernel`, `BitmapSpec`, `Bitmap` and `MCBitmap`.

Sitting 2 added:
- `PageLayout`, for `vaddr.h`, the `struct thread` layout and `thread_get_running_thread`;
- `ThreadLifecycle`, refined by `Kernel`;
- `Timer`, for `timer.c`;
- `bitmap_any`/`none`/`all`;
- two new findings.

Sitting 3 added:
- `Video`, for the console of `video.c`, checked against a reference rendering of the text;
- `ThreadCurrent`, the ASSERTs of `thread_current`, shared by the four callers the model has.

Sitting 4 added:
- the console shared by thread and IRQ context: `video_putc` split at its IRQ mask, printing from `schedule()`/`thread_schedule_tail` in IRQ context, the interleaving hazard at `video.c:92` and its mutant (`PutcEnterNoMask`);
- `video_clean` moved to "Not modelled" (uncalled, and not IRQ-safe).


Sitting 5 changed:
- removed `StackOverflowHitsMagicFirst` and `InitialThreadNotNull`, which followed from the declarations and from a constant;
- removed `Timer`'s type invariant, which no plausible bug breaks;
- added `timer_sleep_units`, the unit of `timer_msleep` against its documentation.

Next, in order:
1. `timer_msleep` inside a preemptible thread, composed with `Thread`'s preemption, if a scaled counter can stand for the 2^31 µs window.
