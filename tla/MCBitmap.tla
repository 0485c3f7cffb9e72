------------------------------- MODULE MCBitmap -------------------------------
(***************************************************************************)
(* Model-checking instances of Bitmap.  Words of 2 bits stand for the     *)
(* 32-bit elem_type so that a 5-bit bitmap spans three words, the last     *)
(* one holding a padding bit; the calls are every call the assertions of   *)
(* bitmap_set_multiple and bitmap_scan allow on such a bitmap.             *)
(***************************************************************************)
EXTENDS Bitmap

CONSTANTS c1, c2

MCCalls ==
    {k \in [op : {"set_multiple"}, start : 0 .. BitCnt, cnt : 0 .. BitCnt,
            value : BOOLEAN] : k.start + k.cnt <= BitCnt}
    \cup [op : {"scan_and_flip"}, start : 0 .. BitCnt, cnt : 0 .. (BitCnt + 1),
          value : BOOLEAN]

\* single-bit bitmap_set calls, for two callers sharing a word
MCSingleBitCalls ==
    [op : {"set_multiple"}, start : 0 .. 1, cnt : {1}, value : {TRUE}]

=============================================================================
