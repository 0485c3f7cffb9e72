\* scan_and_flip with cnt = 0 and start > 0.
CONSTANTS
    c1 = c1
    c2 = c2
    NoCall = NoCall
    BITMAP_ERROR = BITMAP_ERROR
    ELEM_BITS = 2
    BitCnt = 5
    Callers = {c1}
    Calls <- MCCalls

SPECIFICATION Spec

INVARIANT ScanZeroCountReturnsZero
