\* S -> a S | b with no lookahead, on words that use any symbol name the
\* tokenizer knows, the nonterminal S and S_0 included.
CONSTANTS
    K = 0
    Start = 3
    Prods <- LR0Prods
    InputSymbols = {0, 1, 2, 3}
    MaxInput = 2
    Names <- LR0Names
    GARBAGE = GARBAGE
    MaxLost = 0
SPECIFICATION Spec
INVARIANTS
    ParseSound
\* The programs exit after build() throws or parse() returns.
CHECK_DEADLOCK FALSE
