CONSTANTS
    SigmaSeq <- MCSigmaSeq
    Alnum <- MCAlnum
    NoSymbol = NoSymbol
    NoEdge = NoEdge
    NoAst = NoAst
    Jobs <- MCJobs
SPECIFICATION Spec
INVARIANTS
    TypeOK
    SubsetAutomaton
    PartitionRefinesNerode
    PartitionIsNerode
    MinIsQuotient
    RegexLanguage
    ThrowsIffMalformed
    StepsChain
    PrintedRegexLanguage
PROPERTIES
    Terminates
CHECK_DEADLOCK FALSE
