\* compile() on the test's expressions, all short texts, expressions
\* of up to two operators and a few wide literals and products; the call of the code ends, so the run may stop.
CONSTANTS
    Vars <- MCVars
    Funcs <- MCFuncs
    Mem <- MCMem
    Arity <- MCArity
    Callee <- MCCallee
    Texts <- PassTexts
SPECIFICATION Spec
INVARIANTS TypeOK ComputesParsedTree StackBalanced ReturnsToCaller
CHECK_DEADLOCK FALSE
