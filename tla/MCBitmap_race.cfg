\* Two callers set bits 0 and 1, which share a word: each |= is a load
\* and a store, and one store can undo the other.
CONSTANTS
    c1 = c1
    c2 = c2
    NoCall = NoCall
    BITMAP_ERROR = BITMAP_ERROR
    ELEM_BITS = 2
    BitCnt = 5
    Callers = {c1, c2}
    Calls <- MCSingleBitCalls

SPECIFICATION Spec

PROPERTY BitmapRefines
