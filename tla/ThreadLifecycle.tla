--------------------------- MODULE ThreadLifecycle ---------------------------
(***************************************************************************)
(* What the thread system of threads/thread.c promises, with no CPU,       *)
(* stacks or interrupt levels: each thread is in one state of enum         *)
(* thread_status (or has no page); a created thread starts BLOCKED; only   *)
(* thread_unblock makes a BLOCKED thread READY, at the back of the ready   *)
(* queue; whenever the RUNNING thread blocks, yields or exits, the head of *)
(* the queue (the idle thread if it is empty) runs next, in the same step; *)
(* an exited thread's page is reclaimed in that step too, except for the   *)
(* initial thread's, which no allocator handed out.                        *)
(***************************************************************************)
EXTENDS Sequences

CONSTANTS
    Threads,
    Initial,   \* the thread thread_init made of the running code
    NULL

VARIABLES
    state,     \* t->status, NOTHREAD when t has no page
    queue,     \* the ready queue
    idle       \* the idle thread, NULL until it has registered

\* the next thread to run, when the queue is q
Dispatched(q) == IF q = <<>> THEN idle ELSE Head(q)

\* the RUNNING thread cur left the CPU with its state set in st, queue q:
\* the dispatched thread runs and a DYING cur is reclaimed
Schedule(cur, st, q) ==
    LET next == Dispatched(q) IN
    /\ next \in Threads
    /\ queue' = IF q = <<>> THEN q ELSE Tail(q)
    /\ state' = [t \in Threads |->
                   IF t = next THEN "RUNNING"
                   ELSE IF t = cur /\ st[t] = "DYING" /\ t # Initial
                        THEN "NOTHREAD"
                   ELSE st[t]]

LInit ==
    /\ state = [t \in Threads |-> IF t = Initial THEN "RUNNING" ELSE "NOTHREAD"]
    /\ queue = <<>>
    /\ idle = NULL

\* thread_create: a page and a BLOCKED thread
LCreate(t) ==
    /\ state[t] = "NOTHREAD"
    /\ state' = [state EXCEPT ![t] = "BLOCKED"]
    /\ UNCHANGED <<queue, idle>>

\* thread_unblock
Unblock(t) ==
    /\ state[t] = "BLOCKED"
    /\ state' = [state EXCEPT ![t] = "READY"]
    /\ queue' = Append(queue, t)

LUnblock(t) == Unblock(t) /\ UNCHANGED idle

LBlock(cur) ==
    /\ state[cur] = "RUNNING"
    /\ Schedule(cur, [state EXCEPT ![cur] = "BLOCKED"], queue)
    /\ UNCHANGED idle

\* preemption: the idle thread is never queued
LYield(cur) ==
    /\ state[cur] = "RUNNING"
    /\ Schedule(cur, [state EXCEPT ![cur] = "READY"],
                IF cur # idle THEN Append(queue, cur) ELSE queue)
    /\ UNCHANGED idle

LExit(cur) ==
    /\ state[cur] = "RUNNING"
    /\ Schedule(cur, [state EXCEPT ![cur] = "DYING"], queue)
    /\ UNCHANGED idle

\* idle() registers itself as idle_thread, once, and wakes the thread that
\* waits for it to have started, if one already does
LIdleRegisters(t) ==
    /\ idle = NULL
    /\ state[t] = "RUNNING"
    /\ idle' = t
    /\ \/ UNCHANGED <<state, queue>>
       \/ \E u \in Threads : Unblock(u)

LNext ==
    \E t \in Threads :
        \/ LCreate(t) \/ LUnblock(t) \/ LBlock(t) \/ LYield(t) \/ LExit(t)
        \/ LIdleRegisters(t)

LSpec == LInit /\ [][LNext]_<<state, queue, idle>>

=============================================================================
