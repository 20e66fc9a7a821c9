CONSTANTS
    Keys = {0, 1, 11}
    v1 = v1
    v2 = v2
    Values = {v1}
    DefaultValue = v1
    ReserveSizes = {1, 2}
    FAKE = FAKE
    NULL = NULL
SPECIFICATION Spec
PROPERTIES
    Refines
