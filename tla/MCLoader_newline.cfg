\* Well-formed files that end with a newline.
CONSTANTS
    Files <- NewlineFiles
SPECIFICATION Spec
INVARIANTS
    AcceptedGrammarIsSpecGrammar
\* The generator exits after the loader throws, and goes on after it loads.
CHECK_DEADLOCK FALSE
