\* One caller at a time (palloc serialises its calls): the word-level
\* code refines the bit array of BitmapSpec.
CONSTANTS
    c1 = c1
    c2 = c2
    NoCall = NoCall
    BITMAP_ERROR = BITMAP_ERROR
    ELEM_BITS = 2
    BitCnt = 5
    Callers = {c1}
    Calls <- MCCalls

SPECIFICATION Spec

INVARIANTS
    TypeOK
    RangeQueriesMatchBits
PROPERTY BitmapRefines
