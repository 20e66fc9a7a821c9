CONSTANTS
    Keys = {0, 1}
    v1 = v1
    v2 = v2
    Values = {v1}
    DefaultValue = v1
    ReserveSizes = {0, 1}
    FAKE = FAKE
    NULL = NULL
SPECIFICATION SpecWithoutErase
INVARIANTS
    NoFault
