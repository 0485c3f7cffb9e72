-------------------------------- MODULE Bitmap --------------------------------
(***************************************************************************)
(* lib/kernel/bitmap.c at the level of its words: the bits live in an      *)
(* array of elem_type words, bit K of the bitmap in bit K % ELEM_BITS of   *)
(* word K / ELEM_BITS.  The read-only operations (bitmap_test,             *)
(* bitmap_contains, bitmap_scan) are operators written as the code's      *)
(* loops.  bitmap_mark / bitmap_reset are `b->bits[idx] |= mask` and       *)
(* `&= ~mask`: a load and a store, two steps another caller can run        *)
(* between.  Callers run bitmap_set_multiple and bitmap_scan_and_flip; the *)
(* scan inside scan_and_flip is one step.                                  *)
(***************************************************************************)
EXTENDS Naturals, Bitwise

CONSTANTS
    ELEM_BITS,     \* sizeof (elem_type) * CHAR_BIT
    BitCnt,        \* b->bit_cnt
    Callers,
    Calls,         \* records [op, start, cnt, value]
    NoCall,
    BITMAP_ERROR   \* SIZE_MAX: above every index

VARIABLES
    bits,     \* b->bits
    call,     \* call in progress per caller
    pos,      \* loop index i of bitmap_set_multiple
    loaded,   \* word read by the pending `|=` / `&=`, or NoCall
    result    \* value returned by bitmap_scan_and_flip

vars == <<bits, call, pos, loaded, result>>

Word == 0 .. (2^ELEM_BITS - 1)

\* elem_idx, bit_mask, elem_cnt
elem_idx(bit_idx) == bit_idx \div ELEM_BITS
\* faulty variant: off-by-one in the bit position within the word
bit_mask_past(bit_idx) == 2^(bit_idx % (ELEM_BITS + 1))
bit_mask(bit_idx) == 2^(bit_idx % ELEM_BITS)
elem_cnt == (BitCnt + ELEM_BITS - 1) \div ELEM_BITS

\* ~mask in an elem_type
Complement(w) == (2^ELEM_BITS - 1) ^^ w

\* bitmap_mark / bitmap_reset applied to the word w that was read
StoreWord(w, bit_idx, value) ==
    IF value THEN w | bit_mask(bit_idx) ELSE w & Complement(bit_mask(bit_idx))

\* bitmap_set on words b, in one step
bitmap_set(b, idx, value) ==
    [b EXCEPT ![elem_idx(idx)] = StoreWord(@, idx, value)]

\* the loop of bitmap_set_multiple, in one step (bitmap_set_all at creation)
RECURSIVE SetLoop(_, _, _, _, _)
SetLoop(b, start, cnt, value, i) ==
    IF i >= cnt THEN b
    ELSE SetLoop(bitmap_set(b, start + i, value), start, cnt, value, i + 1)

bitmap_test(b, idx) == (b[elem_idx(idx)] & bit_mask(idx)) # 0

\* the loop of bitmap_contains: is some bit of start .. start+cnt-1 = value
RECURSIVE ContainsLoop(_, _, _, _, _)
ContainsLoop(b, start, cnt, value, i) ==
    /\ i < cnt
    /\ \/ bitmap_test(b, start + i) = value
       \/ ContainsLoop(b, start, cnt, value, i + 1)

bitmap_contains(b, start, cnt, value) == ContainsLoop(b, start, cnt, value, 0)

bitmap_any(b, start, cnt) == bitmap_contains(b, start, cnt, TRUE)
bitmap_none(b, start, cnt) == ~bitmap_contains(b, start, cnt, TRUE)
\* faulty variant: the value of bitmap_none's test copied over
bitmap_all_swapped(b, start, cnt) == ~bitmap_contains(b, start, cnt, TRUE)
bitmap_all(b, start, cnt) == ~bitmap_contains(b, start, cnt, FALSE)

\* the loop of bitmap_scan: for (i = start; i <= last; i++)
RECURSIVE ScanLoop(_, _, _, _, _)
ScanLoop(b, i, last, cnt, value) ==
    IF i > last THEN BITMAP_ERROR
    ELSE IF ~bitmap_contains(b, i, cnt, ~value) THEN i
    ELSE ScanLoop(b, i + 1, last, cnt, value)

\* faulty variant: a group as long as the whole bitmap is never found
bitmap_scan_short(b, start, cnt, value) ==
    IF cnt < BitCnt THEN ScanLoop(b, start, BitCnt - cnt, cnt, value)
    ELSE BITMAP_ERROR

bitmap_scan(b, start, cnt, value) ==
    IF cnt <= BitCnt THEN ScanLoop(b, start, BitCnt - cnt, cnt, value)
    ELSE BITMAP_ERROR

\* bitmap_create: malloc'd words (any content), then bitmap_set_all(false);
\* the padding bits of the last word stay as malloc left them
Init ==
    /\ \E garbage \in [0 .. (elem_cnt - 1) -> Word] :
          bits = SetLoop(garbage, 0, BitCnt, FALSE, 0)
    /\ call = [c \in Callers |-> NoCall]
    /\ pos = [c \in Callers |-> 0]
    /\ loaded = [c \in Callers |-> NoCall]
    /\ result = [c \in Callers |-> NoCall]

\* the call k in progress, with the bit it starts writing at
Started(k, first) ==
    [op |-> k.op, start |-> k.start, cnt |-> k.cnt, value |-> k.value,
     first |-> first]

Writes(k) == IF k.first = BITMAP_ERROR THEN 0 ELSE k.cnt
WriteValue(k) == IF k.op = "scan_and_flip" THEN ~k.value ELSE k.value

\* bitmap_set_multiple starts, or bitmap_scan_and_flip runs bitmap_scan
\* and, on success, starts bitmap_set_multiple (b, idx, cnt, !value)
Begin(c) ==
    /\ call[c] = NoCall
    /\ \E k \in Calls :
         LET first == IF k.op = "scan_and_flip"
                      THEN bitmap_scan(bits, k.start, k.cnt, k.value)
                      ELSE k.start
         IN  /\ call' = [call EXCEPT ![c] = Started(k, first)]
             /\ result' = [result EXCEPT ![c] =
                              IF k.op = "scan_and_flip" THEN first ELSE NoCall]
    /\ pos' = [pos EXCEPT ![c] = 0]
    /\ UNCHANGED <<bits, loaded>>

\* bitmap_set -> bitmap_mark / bitmap_reset: the load of b->bits[idx]
Load(c) ==
    /\ call[c] # NoCall
    /\ pos[c] < Writes(call[c])
    /\ loaded[c] = NoCall
    /\ loaded' = [loaded EXCEPT ![c] = bits[elem_idx(call[c].first + pos[c])]]
    /\ UNCHANGED <<bits, call, pos, result>>

\* ... and the store of the word with the bit set or cleared; i++
Store(c) ==
    LET idx == call[c].first + pos[c] IN
    /\ loaded[c] # NoCall
    /\ bits' = [bits EXCEPT ![elem_idx(idx)] =
                   StoreWord(loaded[c], idx, WriteValue(call[c]))]
    /\ pos' = [pos EXCEPT ![c] = @ + 1]
    /\ loaded' = [loaded EXCEPT ![c] = NoCall]
    /\ UNCHANGED <<call, result>>

\* the loop is done: the call returns
Return(c) ==
    /\ call[c] # NoCall
    /\ pos[c] = Writes(call[c])
    /\ call' = [call EXCEPT ![c] = NoCall]
    /\ UNCHANGED <<bits, pos, loaded, result>>

Next == \E c \in Callers : Begin(c) \/ Load(c) \/ Store(c) \/ Return(c)

Spec == Init /\ [][Next]_vars

-----------------------------------------------------------------------------

TypeOK ==
    /\ bits \in [0 .. (elem_cnt - 1) -> Word]
    /\ \A c \in Callers :
         /\ call[c] \in {Started(k, f) : k \in Calls,
                                  f \in (0 .. BitCnt) \cup {BITMAP_ERROR}}
                          \cup {NoCall}
         /\ pos[c] \in 0 .. BitCnt
         /\ loaded[c] \in Word \cup {NoCall}

\* Bit K of the bitmap is bit K % ELEM_BITS of word K / ELEM_BITS, counted
\* from the least significant bit (the comment on elem_type)
BitOf(b, k) == (b[k \div ELEM_BITS] \div 2^(k % ELEM_BITS)) % 2 = 1

Abstract == INSTANCE BitmapSpec
    WITH bitset <- [k \in 0 .. (BitCnt - 1) |-> BitOf(bits, k)]

\* The word-level code implements the bit array: bitmap_create clears
\* exactly the bitmap's bits, every `|=` / `&= ~` store changes exactly the
\* bit the call is at, and bitmap_scan's loop returns the first group.
BitmapRefines == Abstract!ASpec

\* bitmap_any, bitmap_none and bitmap_all, run on the words as they are at
\* any point (padding bits as malloc left them), answer for exactly the
\* bits start .. start+cnt-1, for every range the ASSERTs of
\* bitmap_contains allow.
RangeQueriesMatchBits ==
    \A start \in 0 .. BitCnt, cnt \in 0 .. BitCnt :
        start + cnt <= BitCnt =>
            LET range == start .. (start + cnt - 1) IN
            /\ bitmap_any(bits, start, cnt) = (\E j \in range : BitOf(bits, j))
            /\ bitmap_none(bits, start, cnt) = (\A j \in range : ~BitOf(bits, j))
            /\ bitmap_all(bits, start, cnt) = (\A j \in range : BitOf(bits, j))

\* The comment on bitmap_scan_and_flip: "If CNT is zero, returns 0."
ScanZeroCountReturnsZero ==
    \A c \in Callers :
        (call[c] # NoCall /\ call[c].op = "scan_and_flip" /\ call[c].cnt = 0)
            => result[c] = 0

=============================================================================
