\* Every mined height of a 16-bit height field (the 32-bit field of the
\* code has the same byte structure), for two type bytes and two indexes.
CONSTANTS
    KeyBits = 16
SPECIFICATION Spec
INVARIANTS
    KeysRoundTrip
    KeysDescend
\* The enumeration of heights ends at UINT32_MAX.
CHECK_DEADLOCK FALSE
