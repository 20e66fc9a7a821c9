\* S -> a S b S | eps with one token of lookahead, on every word of up to
\* four tokens over all four symbol names (S and S_0 included).
CONSTANTS
    K = 1
    Start = 3
    Prods <- BaseProds
    InputSymbols = {0, 1, 2, 3}
    MaxInput = 4
    Names <- BaseNames
    GARBAGE = GARBAGE
    MaxLost = 0
SPECIFICATION Spec
INVARIANTS
    TypeOK
    StackIsGotoPath
    LoadedIsExported
    NoRuntimeFault
    ParseSound
    ParseComplete
PROPERTIES
    PipelineTerminates
\* The programs exit after build() throws or parse() returns.
CHECK_DEADLOCK FALSE
