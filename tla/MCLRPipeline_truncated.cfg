\* S -> a S | b with no lookahead, exported to a file that lacks its last
\* field: load returns without an error.
CONSTANTS
    K = 0
    Start = 3
    Prods <- LR0Prods
    InputSymbols = {1, 2}
    MaxInput = 1
    Names <- LR0Names
    GARBAGE = GARBAGE
    MaxLost = 1
SPECIFICATION Spec
INVARIANTS
    LoadedIsExported
\* The programs exit after build() throws or parse() returns.
CHECK_DEADLOCK FALSE
