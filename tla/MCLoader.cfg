\* Every file of one or two lines, without blank lines.
CONSTANTS
    Files <- PlainFiles
SPECIFICATION Spec
INVARIANTS
    TypeOK
    RejectsExactlyMalformed
    AcceptedGrammarIsSpecGrammar
\* The generator exits after the loader throws, and goes on after it loads.
CHECK_DEADLOCK FALSE
