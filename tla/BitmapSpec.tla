------------------------------ MODULE BitmapSpec ------------------------------
(***************************************************************************)
(* What lib/kernel/bitmap.c promises its callers, stated over an array of *)
(* BitCnt booleans: bitmap_create leaves every bit false; a call of       *)
(* bitmap_set_multiple writes its bits one after the other, each write     *)
(* atomic ("Atomically sets the bit", bitmap_mark / bitmap_reset); a call  *)
(* of bitmap_scan_and_flip returns the first group of cnt bits at or after *)
(* start that all equal value, or BITMAP_ERROR, and then flips that group. *)
(***************************************************************************)
EXTENDS Naturals, FiniteSetsExt

CONSTANTS
    BitCnt,        \* b->bit_cnt
    Callers,       \* threads that call into the bitmap
    Calls,         \* the calls a caller may make
    NoCall,        \* no call in progress / no result
    BITMAP_ERROR   \* the "not found" index

VARIABLES
    bitset,   \* the bits, as the callers see them
    call,     \* call in progress per caller, with its first bit
    pos,      \* bits of that call written so far
    result    \* index returned by the last scan_and_flip

Bits == 0 .. (BitCnt - 1)

\* The first index i >= start whose cnt bits i .. i+cnt-1 all equal value
FirstGroup(bs, start, cnt, value) ==
    LET fits == {i \in start .. (BitCnt - cnt) :
                    \A j \in i .. (i + cnt - 1) : bs[j] = value}
    IN  IF fits = {} THEN BITMAP_ERROR ELSE Min(fits)

\* Where a call starts writing, how many bits, and which value
FirstBit(k, bs) ==
    IF k.op = "scan_and_flip" THEN FirstGroup(bs, k.start, k.cnt, k.value)
                              ELSE k.start

\* the call k in progress, with the bit it starts writing at
Started(k, first) ==
    [op |-> k.op, start |-> k.start, cnt |-> k.cnt, value |-> k.value,
     first |-> first]

Writes(k) == IF k.first = BITMAP_ERROR THEN 0 ELSE k.cnt
WriteValue(k) == IF k.op = "scan_and_flip" THEN ~k.value ELSE k.value

AInit ==
    /\ bitset = [i \in Bits |-> FALSE]
    /\ call = [c \in Callers |-> NoCall]
    /\ pos = [c \in Callers |-> 0]
    /\ result = [c \in Callers |-> NoCall]

\* A call starts; scan_and_flip finds its group in the same step
ABegin(c) ==
    /\ call[c] = NoCall
    /\ \E k \in Calls :
         LET first == FirstBit(k, bitset) IN
         /\ call' = [call EXCEPT ![c] = Started(k, first)]
         /\ result' = [result EXCEPT ![c] =
                          IF k.op = "scan_and_flip" THEN first ELSE NoCall]
    /\ pos' = [pos EXCEPT ![c] = 0]
    /\ UNCHANGED bitset

\* The next bit of the call is written, on its own
AWrite(c) ==
    /\ call[c] # NoCall
    /\ pos[c] < Writes(call[c])
    /\ bitset' = [bitset EXCEPT ![call[c].first + pos[c]] = WriteValue(call[c])]
    /\ pos' = [pos EXCEPT ![c] = @ + 1]
    /\ UNCHANGED <<call, result>>

\* Every bit written: the call returns
AReturn(c) ==
    /\ call[c] # NoCall
    /\ pos[c] = Writes(call[c])
    /\ call' = [call EXCEPT ![c] = NoCall]
    /\ UNCHANGED <<bitset, pos, result>>

ANext == \E c \in Callers : ABegin(c) \/ AWrite(c) \/ AReturn(c)

ASpec == AInit /\ [][ANext]_<<bitset, call, pos, result>>

=============================================================================
